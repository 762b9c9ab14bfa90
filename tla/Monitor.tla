------------------------------ MODULE Monitor ------------------------------
(***************************************************************************)
(* The global monitor of the generator (generator/monitor): the sum of the *)
(* statuses of all PodProtectors, maintained by the differences that the   *)
(* events of the informer make, and read by the observer at any time.      *)
(*                                                                         *)
(* One status count stands for the five of the code.                       *)
(***************************************************************************)
EXTENDS Integers, Sequences, FiniteSets, FiniteSetsExt

CONSTANTS Names,                \* PodProtectors
          Amounts,              \* values of spec.minAvailable and of the aggregated count
          ProportionPpmUnits,   \* what a proportion of 1 is
          MaxEvents             \* bound on the events that are not handled yet

VARIABLES
    ppr,      \* ppr[n] = [minAvailable, aggregated], for the PodProtectors in the store
    events,   \* events on their way to the handler, in order
    delta,    \* addedDeltaCache
    owed,     \* <<difference>> the handler is about to apply to the status, or <<>>
    status    \* the sum of the monitor

vars == <<ppr, events, delta, owed, status>>

Protector == [minAvailable : Amounts, aggregated : Amounts]
Zero      == [workloads |-> 0, nonZero |-> 0, minAvailable |-> 0, meets |-> 0, replicas |-> 0, ppm |-> 0]
NoEntries == [n \in {} |-> Zero]
Fields    == DOMAIN Zero

-----------------------------------------------------------------------------
(* Division and remainder of Go truncate towards zero. *)
Quo(n, d) == IF n >= 0 THEN n \div d ELSE -((-n) \div d)
Rem(n, d) == n - d * Quo(n, d)

(* util.RoundedIntDiv *)
RoundedIntDiv(numerator, divisor) ==
    LET d == IF divisor < 0 THEN -divisor ELSE divisor
        q == Quo(numerator, d)
        r == Rem(numerator, d)
    IN  IF numerator > 0 /\ r * 2 >= d THEN q + 1
        ELSE IF numerator < 0 /\ (d + r) * 2 < d THEN q - 1
        ELSE q

Proportion(aggregated, minAvailable) ==
    IF minAvailable > 0
    THEN Min({ProportionPpmUnits, RoundedIntDiv(aggregated * ProportionPpmUnits, minAvailable)})
    ELSE 0

(* pprToStatus and makeStatusCount *)
PprToStatus(p) ==
    [workloads    |-> 1,
     nonZero      |-> IF p.minAvailable > 0 THEN 1 ELSE 0,
     minAvailable |-> p.minAvailable,
     meets        |-> IF p.aggregated >= p.minAvailable THEN 1 ELSE 0,
     replicas     |-> p.aggregated,
     ppm          |-> Proportion(p.aggregated, p.minAvailable)]

Plus(x, y)  == [f \in Fields |-> x[f] + y[f]]
Minus(x, y) == [f \in Fields |-> x[f] - y[f]]

-----------------------------------------------------------------------------
Init ==
    /\ ppr = NoEntries /\ delta = NoEntries
    /\ events = <<>> /\ owed = <<>>
    /\ status = Zero

With(f, n, v) == [x \in DOMAIN f \cup {n} |-> IF x = n THEN v ELSE f[x]]
Without(f, n) == [x \in DOMAIN f \ {n} |-> f[x]]
DeltaOf(n)    == IF n \in DOMAIN delta THEN delta[n] ELSE Zero

Send(n) == events' = Append(events, IF n \in DOMAIN ppr' THEN [name |-> n, ppr |-> <<ppr'[n]>>]
                                                         ELSE [name |-> n, ppr |-> <<>>])

(* A PodProtector is created or updated, also without a change (a resync), or deleted. *)
Put(n, p) ==
    /\ Len(events) < MaxEvents
    /\ ppr' = With(ppr, n, p) /\ Send(n)
    /\ UNCHANGED <<delta, owed, status>>

Delete(n) ==
    /\ Len(events) < MaxEvents /\ n \in DOMAIN ppr
    /\ ppr' = Without(ppr, n) /\ Send(n)
    /\ UNCHANGED <<delta, owed, status>>

(* State.add and State.remove: the cache, which only the handler uses ... *)
Handle ==
    /\ events # <<>> /\ owed = <<>>
    /\ LET e == Head(events)
       IN  /\ delta' = IF e.ppr # <<>> THEN With(delta, e.name, PprToStatus(e.ppr[1])) ELSE Without(delta, e.name)
           /\ owed' = <<Minus(IF e.ppr # <<>> THEN PprToStatus(e.ppr[1]) ELSE Zero, DeltaOf(e.name))>>
    /\ events' = Tail(events)
    /\ UNCHANGED <<ppr, status>>

(* ... and the status, subtracted from and added to under the lock that readers take. *)
Apply ==
    /\ owed # <<>>
    /\ status' = Plus(status, owed[1])
    /\ owed' = <<>>
    /\ UNCHANGED <<ppr, events, delta>>

Next == Handle \/ Apply \/ \E n \in Names : Delete(n) \/ \E p \in Protector : Put(n, p)

Spec == Init /\ [][Next]_vars

-----------------------------------------------------------------------------
(* The nearest integer to a fraction with a positive divisor, halves upwards. *)
Nearest(n, d) == (2 * n + d) \div (2 * d)

Ideal(p) == [PprToStatus(p) EXCEPT
    !.ppm = IF p.minAvailable = 0 THEN 0
            ELSE Min({ProportionPpmUnits, Nearest(p.aggregated * ProportionPpmUnits, p.minAvailable)})]

SumOf(f, field) == SumFunction([n \in DOMAIN f |-> Ideal(f[n])[field]])

(***************************************************************************)
(* After any events, duplicates and re-creations included, the status is   *)
(* the sum over the PodProtectors that exist, with proportions "rounded to *)
(* nearest ppm" (observer.go), once the handler has caught up.             *)
(***************************************************************************)
StatusIsSum ==
    events = <<>> /\ owed = <<>> => status = [f \in Fields |-> SumOf(ppr, f)]

(***************************************************************************)
(* Whenever the observer reads it, the status is one of some set of        *)
(* PodProtectors: no count is negative, and the average proportion is at   *)
(* most 1.                                                                 *)
(***************************************************************************)
AlwaysMeaningful ==
    /\ \A f \in Fields : status[f] >= 0
    /\ status.nonZero <= status.workloads /\ status.meets <= status.workloads
    /\ status.ppm <= ProportionPpmUnits * status.nonZero
=============================================================================
