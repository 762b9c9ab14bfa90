----------------------------- MODULE Observers -----------------------------
(***************************************************************************)
(* The observers of a component (util/o11y): implementations are provided  *)
(* and the observer is requested in any order, all under one name, so that *)
(* every declaration but the first is merged.  The functions of an         *)
(* observer are joined; a joined monitor runs its parts side by side.      *)
(***************************************************************************)
EXTENDS Naturals, Sequences, Functions

CONSTANTS Impls,   \* the implementations that may be provided
          Nil      \* a constructor or a function that is not set

VARIABLES
    fields,    \* fields[i]: the functions that implementation i sets
    declared,  \* whether the component exists
    provided,  \* the implementations in the order in which they were provided
    obsCtor,   \* compDeps.obsCtor: Nil, or the observer that it makes
    obs,       \* compState.obs: for each function the implementations it calls
    monitor,   \* monitor[i]: "none", "spawned", "sampling" or "ended"
    sampled,   \* the monitors that have taken a sample
    ctxDone, phase

vars == <<fields, declared, provided, obsCtor, obs, monitor, sampled, ctxDone, phase>>

Fields == {"observe", "scope", "monitor"}

Init ==
    /\ fields \in [Impls -> SUBSET Fields]
    /\ declared = FALSE /\ provided = <<>> /\ obsCtor = Nil
    /\ obs = [f \in Fields |-> Nil]
    /\ monitor = [i \in Impls |-> "none"] /\ sampled = {}
    /\ ctxDone = FALSE /\ phase = "declare"

-----------------------------------------------------------------------------
(* The function f of what an implementation returns. *)
FieldOf(i, f) == IF f \in fields[i] THEN <<i>> ELSE Nil

(* Join of two functions; of two that are not set, one that does nothing. *)
JoinFunc(f, g) ==
    CASE f = Nil /\ g = Nil -> <<>>
      [] f = Nil /\ g # Nil -> g
      [] f # Nil /\ g = Nil -> f
      [] OTHER -> f \o g

(* ReflectJoin: function by function. *)
ReflectJoin(left, right) == [f \in Fields |-> JoinFunc(left[f], right[f])]

Zero == [f \in Fields |-> Nil]

(* The observer that implementation i makes. *)
Impl(i) == [f \in Fields |-> FieldOf(i, f)]

-----------------------------------------------------------------------------
(* Provide, as the first declaration or merged into it. *)
Provide(i) ==
    /\ phase = "declare" /\ i \notin Range(provided)
    /\ declared' = TRUE
    /\ provided' = Append(provided, i)
    /\ obsCtor' = IF obsCtor = Nil THEN Impl(i) ELSE ReflectJoin(obsCtor, Impl(i))
    /\ UNCHANGED <<fields, obs, monitor, sampled, ctxDone, phase>>

(* Request provides no implementation: its merge changes nothing. *)
Request ==
    /\ phase = "declare"
    /\ declared' = TRUE
    /\ UNCHANGED <<fields, provided, obsCtor, obs, monitor, sampled, ctxDone, phase>>

-----------------------------------------------------------------------------
(* ReflectPopulate of the constructed observer, or the join of two empty ones. *)
InitObserver ==
    /\ phase = "declare" /\ declared
    /\ obs' = ReflectJoin(IF obsCtor = Nil THEN Zero ELSE obsCtor, Zero)
    /\ phase' = "ready"
    /\ UNCHANGED <<fields, declared, provided, obsCtor, monitor, sampled, ctxDone>>

-----------------------------------------------------------------------------
(* A joined monitor is called: all parts but the first have a goroutine. *)
Monitor ==
    /\ phase = "ready" /\ obs["monitor"] # Nil
    /\ monitor' = [i \in Impls |-> IF i \in Range(obs["monitor"]) THEN "spawned" ELSE "none"]
    /\ phase' = "monitoring"
    /\ UNCHANGED <<fields, declared, provided, obsCtor, obs, sampled, ctxDone>>

(* A part calls the getter, again and again until its context is done. *)
Sample(i) ==
    /\ monitor[i] = "spawned"
    /\ monitor' = [monitor EXCEPT ![i] = "sampling"]
    /\ sampled' = sampled \cup {i}
    /\ UNCHANGED <<fields, declared, provided, obsCtor, obs, ctxDone, phase>>

(* It returns once the context is done, which may be before its first sample. *)
EndMonitor(i) ==
    /\ monitor[i] \in {"spawned", "sampling"} /\ ctxDone
    /\ monitor' = [monitor EXCEPT ![i] = "ended"]
    /\ UNCHANGED <<fields, declared, provided, obsCtor, obs, sampled, ctxDone, phase>>

(* The first part has returned, and doneCh is closed for each of the others. *)
MonitorReturns ==
    /\ phase = "monitoring"
    /\ \A i \in Range(obs["monitor"]) : monitor[i] = "ended"
    /\ phase' = "returned"
    /\ UNCHANGED <<fields, declared, provided, obsCtor, obs, monitor, sampled, ctxDone>>

Stop ==
    /\ phase # "declare" /\ ~ctxDone
    /\ ctxDone' = TRUE
    /\ UNCHANGED <<fields, declared, provided, obsCtor, obs, monitor, sampled, phase>>

Next ==
    \/ \E i \in Impls : Provide(i) \/ Sample(i) \/ EndMonitor(i)
    \/ Request \/ InitObserver \/ Monitor \/ MonitorReturns \/ Stop

Spec == Init /\ [][Next]_vars

(* The goroutines of the monitors run. *)
Fairness ==
    /\ WF_vars(MonitorReturns)
    /\ \A i \in Impls : WF_vars(Sample(i) \/ EndMonitor(i))

-----------------------------------------------------------------------------
(* "After initialization completes, the returned `Dep` returns all         *)
(* provided implementations" (o11y/component.go): in whatever order they   *)
(* were provided and requested, each function can be called and calls each *)
(* implementation that sets it once.                                       *)
AllProvided ==
    phase # "declare" => \A f \in Fields :
        /\ obs[f] # Nil
        /\ Range(obs[f]) = {i \in Range(provided) : f \in fields[i]}
        /\ IsInjective(obs[f])

(* "The function blocks until the context has been canceled": when it has  *)
(* returned, no part of a joined monitor runs on.                          *)
ReturnedMeansEnded ==
    phase = "returned" => \A i \in Impls : monitor[i] \in {"none", "ended"}

(* Although each part blocks until the context is done, every provided     *)
(* monitor takes samples before.                                           *)
EveryMonitorSamples ==
    \A i \in Impls : (phase = "monitoring" /\ i \in Range(provided) /\ "monitor" \in fields[i])
        ~> (i \in sampled \/ ctxDone)
=============================================================================
