--------------------------- MODULE ProcessProofs ---------------------------
(***************************************************************************)
(* Proofs about a process of the system: how it comes to lead              *)
(* (Leadership), and how its components are resolved, started and joined   *)
(* (Components, composed by Parts), for any number of replicas, restarts   *)
(* and components.                                                         *)
(***************************************************************************)
EXTENDS Leadership, Parts, FiniteSetTheorems, WellFoundedInduction, TLAPS

-----------------------------------------------------------------------------
(***************************************************************************)
(* The replicas, if no leader fails to renew its lease: no two live ones   *)
(* have a write under way, and a write begins only while the lease names   *)
(* the process.                                                            *)
(*                                                                         *)
(* Neither property is inductive.  What carries them from the lease to the *)
(* executor is a chain of facts about one process: whoever works was       *)
(* elected, whoever was elected has left the state of acquiring, the       *)
(* elector gives up only after the worker was joined, and until then the   *)
(* lease names the process.                                                *)
(***************************************************************************)

TypeOK ==
    /\ run \in [Replicas -> 0..MaxRestarts]
    /\ proc \in [Replicas -> {"up", "stopping", "workerJoined", "joined", "exited", "crashed"}]
    /\ elector \in [Replicas -> {"acquiring", "renewing", "releasing", "stopping", "stopped"}]
    /\ elected \in [Replicas -> BOOLEAN]
    /\ leading \in [Replicas -> {"none", "open", "closed"}]
    /\ informers \in [Replicas -> {"await", "started", "quit"}]
    /\ workers \in [Replicas -> {"await", "prereqs", "idle", "busy", "exited", "quit"}]

(* The elector goes on until the worker was joined. *)
ElectorLast ==
    \A r \in Replicas : proc[r] \in {"up", "stopping", "workerJoined"} => elector[r] \in {"acquiring", "renewing"}

(* A lease that is renewed names its holder. *)
RenewingHolds == \A r \in Replicas : Alive(r) /\ elector[r] = "renewing" => lease = Identity(r)

(* Whoever works was elected. *)
ElectedFirst ==
    \A r \in Replicas :
        /\ elector[r] = "acquiring" => leading[r] = "none"
        /\ elected[r] => leading[r] # "none"
        /\ workers[r] \in {"prereqs", "idle", "busy"} => elected[r]

(* Nobody works once the worker was joined. *)
BusyBeforeJoin == \A r \in Replicas : Alive(r) /\ workers[r] = "busy" => proc[r] \in {"up", "stopping"}

IInv == TypeOK /\ ElectorLast /\ RenewingHolds /\ ElectedFirst /\ BusyBeforeJoin

-----------------------------------------------------------------------------
LEMMA InitIInv == Init => IInv
  BY LeadershipAssumption DEF Init, IInv, TypeOK, ElectorLast, RenewingHolds, ElectedFirst, BusyBeforeJoin

LEMMA TypePreserved == TypeOK /\ [Next]_vars => TypeOK'
<1> SUFFICES ASSUME TypeOK, [Next]_vars PROVE TypeOK'
  OBVIOUS
<1> USE LeadershipAssumption DEF TypeOK
<1>1. ASSUME NEW r \in Replicas, Elector(r) PROVE TypeOK'
  BY <1>1 DEF Elector, Acquire, OnStartedLeading, Release, OnStoppedLeading
<1>2. ASSUME NEW r \in Replicas, RenewFails(r) PROVE TypeOK'
  BY <1>2 DEF RenewFails
<1>3. ASSUME NEW r \in Replicas, Starting(r) PROVE TypeOK'
  BY <1>3 DEF Starting, StartInformers, BeforeStart, WaitPrereqs
<1>4. ASSUME NEW r \in Replicas, Work(r) \/ Working(r) PROVE TypeOK'
  BY <1>4 DEF Work, Working, Finish, WorkersExit
<1>5. ASSUME NEW r \in Replicas, Joining(r) PROVE TypeOK'
  BY <1>5 DEF Joining, JoinWorker, JoinElector, Exit
<1>6. ASSUME NEW r \in Replicas, Signal(r) \/ Crash(r) PROVE TypeOK'
  BY <1>6 DEF Signal, Crash
<1>7. ASSUME NEW r \in Replicas, Restart(r) PROVE TypeOK'
  BY <1>7 DEF Restart
<1>8. CASE Expire
  BY <1>8 DEF Expire
<1>9. CASE UNCHANGED vars
  BY <1>9 DEF vars
<1> QED
  BY <1>1, <1>2, <1>3, <1>4, <1>5, <1>6, <1>7, <1>8, <1>9 DEF Next

LEMMA ElectorLastPreserved ==
    ASSUME TypeOK, ElectorLast, ~LosesLease, [Next]_vars
    PROVE  ElectorLast'
<1> USE DEF TypeOK, ElectorLast
<1>1. ASSUME NEW r \in Replicas, Elector(r) PROVE ElectorLast'
  BY <1>1 DEF Elector, Acquire, OnStartedLeading, Release, OnStoppedLeading, Alive
<1>2. ASSUME NEW r \in Replicas, RenewFails(r) PROVE ElectorLast'
  BY <1>2 DEF RenewFails
<1>3. ASSUME NEW r \in Replicas, Starting(r) PROVE ElectorLast'
  BY <1>3 DEF Starting, StartInformers, BeforeStart, WaitPrereqs
<1>4. ASSUME NEW r \in Replicas, Work(r) \/ Working(r) PROVE ElectorLast'
  BY <1>4 DEF Work, Working, Finish, WorkersExit
<1>5. ASSUME NEW r \in Replicas, Joining(r) PROVE ElectorLast'
  BY <1>5 DEF Joining, JoinWorker, JoinElector, Exit
<1>6. ASSUME NEW r \in Replicas, Signal(r) \/ Crash(r) PROVE ElectorLast'
  BY <1>6 DEF Signal, Crash
<1>7. ASSUME NEW r \in Replicas, Restart(r) PROVE ElectorLast'
  BY <1>7 DEF Restart
<1>8. CASE Expire
  BY <1>8 DEF Expire
<1>9. CASE UNCHANGED vars
  BY <1>9 DEF vars
<1> QED
  BY <1>1, <1>2, <1>3, <1>4, <1>5, <1>6, <1>7, <1>8, <1>9 DEF Next

(* Two live processes do not share an identity. *)
LEMMA IdentitiesDiffer ==
    ASSUME NEW q \in Replicas, NEW r \in Replicas, Identity(q) = Identity(r)
    PROVE  q = r
  BY DEF Identity

LEMMA RenewingHoldsPreserved ==
    ASSUME TypeOK, RenewingHolds, [Next]_vars
    PROVE  RenewingHolds'
<1> SUFFICES ASSUME NEW q \in Replicas, Alive(q)', elector'[q] = "renewing"
             PROVE  lease' = Identity(q)'
  BY DEF RenewingHolds
<1> USE DEF TypeOK
<1>0. Alive(q) /\ elector[q] = "renewing" => lease = Identity(q) /\ lease # Nobody
  BY LeadershipAssumption DEF RenewingHolds, Identity
<1>1. ASSUME NEW r \in Replicas, Acquire(r) PROVE lease' = Identity(q)'
  BY <1>0, <1>1 DEF Acquire, Alive, Identity
<1>2. ASSUME NEW r \in Replicas, Release(r) PROVE lease' = Identity(q)'
  <2>1. r # q
    BY <1>2 DEF Release
  <2>2. Alive(q) /\ elector[q] = "renewing" /\ Identity(q)' = Identity(q)
    BY <1>2, <2>1 DEF Release, Alive, Identity
  <2> QED
    BY <1>0, <1>2, <2>1, <2>2, IdentitiesDiffer DEF Release
<1>3. ASSUME NEW r \in Replicas, OnStartedLeading(r) \/ OnStoppedLeading(r) \/ RenewFails(r)
      PROVE  lease' = Identity(q)'
  BY <1>0, <1>3 DEF OnStartedLeading, OnStoppedLeading, RenewFails, Alive, Identity
<1>4. ASSUME NEW r \in Replicas, Starting(r) PROVE lease' = Identity(q)'
  BY <1>0, <1>4 DEF Starting, StartInformers, BeforeStart, WaitPrereqs, Alive, Identity
<1>5. ASSUME NEW r \in Replicas, Work(r) \/ Working(r) PROVE lease' = Identity(q)'
  BY <1>0, <1>5 DEF Work, Working, Finish, WorkersExit, Alive, Identity
<1>6. ASSUME NEW r \in Replicas, Joining(r) PROVE lease' = Identity(q)'
  BY <1>0, <1>6 DEF Joining, JoinWorker, JoinElector, Exit, Alive, Identity
<1>7. ASSUME NEW r \in Replicas, Signal(r) \/ Crash(r) PROVE lease' = Identity(q)'
  BY <1>0, <1>7 DEF Signal, Crash, Alive, Identity
<1>8. ASSUME NEW r \in Replicas, Restart(r) PROVE lease' = Identity(q)'
  BY <1>0, <1>8 DEF Restart, Alive, Identity
<1>9. CASE Expire
  BY <1>0, <1>9 DEF Expire, Alive, Identity
<1>10. CASE UNCHANGED vars
  BY <1>0, <1>10 DEF vars, Alive, Identity
<1> QED
  BY <1>1, <1>2, <1>3, <1>4, <1>5, <1>6, <1>7, <1>8, <1>9, <1>10 DEF Next, Elector

LEMMA ElectedFirstPreserved ==
    ASSUME TypeOK, ElectedFirst, [Next]_vars
    PROVE  ElectedFirst'
<1> USE DEF TypeOK, ElectedFirst
<1>1. ASSUME NEW r \in Replicas, Elector(r) PROVE ElectedFirst'
  BY <1>1 DEF Elector, Acquire, OnStartedLeading, Release, OnStoppedLeading
<1>2. ASSUME NEW r \in Replicas, RenewFails(r) PROVE ElectedFirst'
  BY <1>2 DEF RenewFails
<1>3. ASSUME NEW r \in Replicas, Starting(r) PROVE ElectedFirst'
  BY <1>3 DEF Starting, StartInformers, BeforeStart, WaitPrereqs, Await
<1>4. ASSUME NEW r \in Replicas, Work(r) \/ Working(r) PROVE ElectedFirst'
  BY <1>4 DEF Work, Working, Finish, WorkersExit
<1>5. ASSUME NEW r \in Replicas, Joining(r) PROVE ElectedFirst'
  BY <1>5 DEF Joining, JoinWorker, JoinElector, Exit
<1>6. ASSUME NEW r \in Replicas, Signal(r) \/ Crash(r) PROVE ElectedFirst'
  BY <1>6 DEF Signal, Crash
<1>7. ASSUME NEW r \in Replicas, Restart(r) PROVE ElectedFirst'
  BY <1>7 DEF Restart
<1>8. CASE Expire
  BY <1>8 DEF Expire
<1>9. CASE UNCHANGED vars
  BY <1>9 DEF vars
<1> QED
  BY <1>1, <1>2, <1>3, <1>4, <1>5, <1>6, <1>7, <1>8, <1>9 DEF Next

LEMMA BusyBeforeJoinPreserved ==
    ASSUME TypeOK, BusyBeforeJoin, [Next]_vars
    PROVE  BusyBeforeJoin'
<1> USE DEF TypeOK, BusyBeforeJoin, Alive
<1>1. ASSUME NEW r \in Replicas, Elector(r) PROVE BusyBeforeJoin'
  BY <1>1 DEF Elector, Acquire, OnStartedLeading, Release, OnStoppedLeading
<1>2. ASSUME NEW r \in Replicas, RenewFails(r) PROVE BusyBeforeJoin'
  BY <1>2 DEF RenewFails
<1>3. ASSUME NEW r \in Replicas, Starting(r) PROVE BusyBeforeJoin'
  BY <1>3 DEF Starting, StartInformers, BeforeStart, WaitPrereqs
<1>4. ASSUME NEW r \in Replicas, Work(r) \/ Working(r) PROVE BusyBeforeJoin'
  BY <1>4 DEF Work, Working, Finish, WorkersExit, WorkCtxDone, CtxDone
<1>5. ASSUME NEW r \in Replicas, Joining(r) PROVE BusyBeforeJoin'
  BY <1>5 DEF Joining, JoinWorker, JoinElector, Exit
<1>6. ASSUME NEW r \in Replicas, Signal(r) \/ Crash(r) PROVE BusyBeforeJoin'
  BY <1>6 DEF Signal, Crash
<1>7. ASSUME NEW r \in Replicas, Restart(r) PROVE BusyBeforeJoin'
  BY <1>7 DEF Restart
<1>8. CASE Expire
  BY <1>8 DEF Expire
<1>9. CASE UNCHANGED vars
  BY <1>9 DEF vars
<1> QED
  BY <1>1, <1>2, <1>3, <1>4, <1>5, <1>6, <1>7, <1>8, <1>9 DEF Next

-----------------------------------------------------------------------------
(* Whoever works, or is idle in a process that is up, holds the lease. *)
LEMMA WorkerHoldsLease ==
    ASSUME IInv, NEW r \in Replicas, Alive(r), workers[r] \in {"idle", "busy"},
           proc[r] \in {"up", "stopping"}
    PROVE  lease = Identity(r)
<1>1. elector[r] = "renewing"
  BY DEF IInv, ElectorLast, ElectedFirst
<1> QED
  BY <1>1 DEF IInv, RenewingHolds

LEMMA AlwaysIInv == ASSUME ~LosesLease PROVE Spec => []IInv
<1>1. Init => IInv
  BY InitIInv
<1>2. IInv /\ [Next]_vars => IInv'
  BY TypePreserved, ElectorLastPreserved, RenewingHoldsPreserved, ElectedFirstPreserved,
     BusyBeforeJoinPreserved DEF IInv
<1> QED
  BY <1>1, <1>2, PTL DEF Spec

(***************************************************************************)
(* No two live replicas have a write under way, whatever is signalled,     *)
(* crashes and is restarted (runElector, Await and the joins of tryRun).   *)
(***************************************************************************)
THEOREM OneWriter == ASSUME ~LosesLease PROVE Spec => []OneReplicaWrites
<1>1. IInv => OneReplicaWrites
  <2> SUFFICES ASSUME IInv, NEW q \in Replicas, NEW r \in Replicas, q # r, Alive(q), Alive(r),
                      workers[q] = "busy", workers[r] = "busy"
               PROVE  FALSE
    BY DEF OneReplicaWrites
  <2>1. proc[q] \in {"up", "stopping"} /\ proc[r] \in {"up", "stopping"}
    BY DEF IInv, BusyBeforeJoin
  <2>2. lease = Identity(q) /\ lease = Identity(r)
    BY <2>1, WorkerHoldsLease
  <2> QED
    BY <2>2, IdentitiesDiffer
<1> QED
  BY <1>1, AlwaysIInv, PTL

(***************************************************************************)
(* A write begins only while the lease names the process that makes it     *)
(* (Elector.Await, spinOnce).                                              *)
(***************************************************************************)
THEOREM LeaseHeldAtWork == ASSUME ~LosesLease PROVE Spec => WorksUnderLease
<1> DEFINE Held == \A r \in Replicas : workers[r] = "idle" /\ workers'[r] = "busy" => lease = Identity(r)
<1>1. IInv /\ [Next]_vars => [Held]_vars
  <2> SUFFICES ASSUME IInv, Next, NEW q \in Replicas, workers[q] = "idle", workers'[q] = "busy"
               PROVE  lease = Identity(q)
    OBVIOUS
  <2>1. Work(q)
    <3> USE DEF IInv, TypeOK
    <3>1. ASSUME NEW r \in Replicas, Elector(r) \/ RenewFails(r) PROVE FALSE
      BY <3>1 DEF Elector, Acquire, OnStartedLeading, Release, OnStoppedLeading, RenewFails
    <3>2. ASSUME NEW r \in Replicas, Starting(r) PROVE FALSE
      BY <3>2 DEF Starting, StartInformers, BeforeStart, WaitPrereqs
    <3>3. ASSUME NEW r \in Replicas, Working(r) PROVE FALSE
      BY <3>3 DEF Working, Finish, WorkersExit
    <3>4. ASSUME NEW r \in Replicas, Joining(r) \/ Signal(r) \/ Crash(r) PROVE FALSE
      BY <3>4 DEF Joining, JoinWorker, JoinElector, Exit, Signal, Crash
    <3>5. ASSUME NEW r \in Replicas, Restart(r) PROVE FALSE
      BY <3>5 DEF Restart
    <3>6. ASSUME NEW r \in Replicas, Work(r) PROVE Work(q)
      BY <3>6 DEF Work
    <3>7. ~Expire
      BY DEF Expire
    <3> QED
      BY <3>1, <3>2, <3>3, <3>4, <3>5, <3>6, <3>7 DEF Next
  <2>2. Alive(q) /\ proc[q] = "up"
    BY <2>1 DEF Work, WorkCtxDone, CtxDone
  <2> QED
    BY <2>2, WorkerHoldsLease
<1>2. Spec => [][Held]_vars
  BY <1>1, AlwaysIInv, PTL DEF Spec
<1> QED
  BY <1>2 DEF WorksUnderLease

-----------------------------------------------------------------------------
(***************************************************************************)
(* The component framework.  While requests are resolved, what a component *)
(* has counted so far is in its entry or, before it has one, in the call   *)
(* that resolves it; both directions of the count agree at every step,     *)
(* the requests under way left aside.                                      *)
(***************************************************************************)
Listed(q) == {q[i] : i \in 1..Len(q)}

Everyone == ComponentNames \cup {Main}

(* How often a component was requested. *)
LEMMA CopiesFacts ==
    ASSUME NEW b \in Comp!Requested
    PROVE  /\ b = [y \in DOMAIN b |-> b[y]] /\ DOMAIN b \subseteq Everyone
           /\ \A x \in DOMAIN b : b[x] \in Nat /\ b[x] > 0
           /\ \A x : Comp!Copies(x, b) \in Nat
           /\ \A x : x \in DOMAIN b <=> Comp!Copies(x, b) # 0
<1>1. PICK S \in SUBSET Everyone : b \in [S -> {n \in Nat : n > 0}]
  BY DEF Comp!Requested, Everyone
<1>2. DOMAIN b = S /\ b = [y \in DOMAIN b |-> b[y]]
  BY <1>1
<1>3. \A x \in DOMAIN b : b[x] \in Nat /\ b[x] > 0
  BY <1>1, <1>2
<1> QED
  BY <1>1, <1>2, <1>3 DEF Comp!Copies

LEMMA NoneRequested == Comp!NoRequests \in Comp!Requested /\ \A x : Comp!Copies(x, Comp!NoRequests) = 0
<1>1. Comp!NoRequests \in [{} -> {n \in Nat : n > 0}] /\ DOMAIN Comp!NoRequests = {}
  BY DEF Comp!NoRequests
<1> QED
  BY <1>1 DEF Comp!Requested, Comp!Copies

LEMMA AddRequest ==
    ASSUME NEW b \in Comp!Requested, NEW m \in Everyone
    PROVE  /\ Comp!BagAdd(b, m) \in Comp!Requested
           /\ DOMAIN Comp!BagAdd(b, m) = DOMAIN b \cup {m}
           /\ \A x : Comp!Copies(x, Comp!BagAdd(b, m)) = Comp!Copies(x, b) + (IF x = m THEN 1 ELSE 0)
<1> DEFINE S == DOMAIN b \cup {m}
           a == [x \in S |-> IF x = m THEN Comp!Copies(x, b) + 1 ELSE b[x]]
<1>1. /\ DOMAIN b \subseteq Everyone /\ \A x \in DOMAIN b : b[x] \in Nat /\ b[x] > 0
      /\ \A x : Comp!Copies(x, b) \in Nat
      /\ \A x \in DOMAIN b : Comp!Copies(x, b) = b[x]
      /\ \A x : x \notin DOMAIN b => Comp!Copies(x, b) = 0
  BY CopiesFacts DEF Comp!Copies
<1>2. Comp!BagAdd(b, m) = a
  BY <1>1 DEF Comp!BagAdd
<1>3. a \in [S -> {n \in Nat : n > 0}] /\ S \in SUBSET Everyone
  BY <1>1
<1>4. a \in Comp!Requested /\ DOMAIN a = S
  BY <1>3 DEF Comp!Requested, Everyone
<1>5. ASSUME NEW x PROVE Comp!Copies(x, a) = Comp!Copies(x, b) + (IF x = m THEN 1 ELSE 0)
  BY <1>1, <1>4 DEF Comp!Copies
<1> QED
  BY <1>2, <1>4, <1>5

LEMMA RemoveRequests ==
    ASSUME NEW b \in Comp!Requested, NEW m
    PROVE  /\ Comp!BagRemoveAll(b, m) \in Comp!Requested
           /\ \A x : Comp!Copies(x, Comp!BagRemoveAll(b, m)) = IF x = m THEN 0 ELSE Comp!Copies(x, b)
<1> DEFINE S == DOMAIN b \ {m}
           a == [x \in S |-> b[x]]
<1>1. DOMAIN b \subseteq Everyone /\ \A x \in DOMAIN b : b[x] \in Nat /\ b[x] > 0
  BY CopiesFacts
<1>2. Comp!BagRemoveAll(b, m) = a
  BY DEF Comp!BagRemoveAll
<1>3. a \in [S -> {n \in Nat : n > 0}] /\ S \in SUBSET Everyone
  BY <1>1
<1>4. a \in Comp!Requested /\ DOMAIN a = S
  BY <1>3 DEF Comp!Requested, Everyone
<1> QED
  BY <1>2, <1>4 DEF Comp!Copies

LEMMA LessRequested ==
    ASSUME NEW b \in Comp!Requested, NEW k, \A x \in DOMAIN b : k[x] \in Nat /\ k[x] <= b[x]
    PROVE  /\ Comp!Less(b, k) \in Comp!Requested
           /\ \A x : Comp!Copies(x, Comp!Less(b, k)) = IF x \in DOMAIN b THEN b[x] - k[x] ELSE 0
<1> DEFINE S == {y \in DOMAIN b : b[y] > k[y]}
           a == [x \in S |-> b[x] - k[x]]
<1>1. DOMAIN b \subseteq Everyone /\ \A x \in DOMAIN b : b[x] \in Nat /\ b[x] > 0
  BY CopiesFacts
<1>2. Comp!Less(b, k) = a
  BY DEF Comp!Less
<1>3. a \in [S -> {n \in Nat : n > 0}] /\ S \in SUBSET Everyone
  BY <1>1
<1>4. a \in Comp!Requested /\ DOMAIN a = S
  BY <1>3 DEF Comp!Requested, Everyone
<1>5. ASSUME NEW x PROVE Comp!Copies(x, a) = IF x \in DOMAIN b THEN b[x] - k[x] ELSE 0
  BY <1>1, <1>4 DEF Comp!Copies
<1> QED
  BY <1>2, <1>4, <1>5

(* Whether the component has an entry, and how often x has requested it. *)
Resolved(d) == d \in DOMAIN componentMap /\ componentMap[d] # Nil

RequestsBy(x, d) == IF Resolved(d) THEN Comp!Copies(x, componentMap[d].requesters) ELSE 0

Counts(x, bag) == \A d \in Everyone : Comp!Copies(d, bag) = RequestsBy(x, d)

May(c) == Listed(declarations[c].deps) \cup Listed(declarations[c].merge)

Frames == [name : Everyone, todo : Seq(ComponentNames), isNew : BOOLEAN, deps : Comp!Requested]

CompTypes ==
    /\ declarations \in Declarations
    /\ stack \in Seq(Frames) /\ Len(stack) >= 1
    /\ componentMap = [c \in DOMAIN componentMap |-> componentMap[c]] /\ DOMAIN componentMap \subseteq ComponentNames
    /\ \A c \in DOMAIN componentMap : componentMap[c] \in Comp!Entries \cup {Nil}

(* A call is for a component that is being resolved or, if it merges, has an entry. *)
FrameOf(i) ==
    /\ stack[i].name \in DOMAIN componentMap
    /\ stack[i].isNew <=> componentMap[stack[i].name] = Nil
    /\ Listed(stack[i].todo) \subseteq May(stack[i].name)
    /\ stack[i].isNew => /\ Counts(stack[i].name, stack[i].deps) /\ DOMAIN stack[i].deps \subseteq May(stack[i].name)
                         /\ \A j \in 2..Len(stack) : stack[i].name = stack[j].name => i = j

EntryOf(c) ==
    /\ Counts(c, componentMap[c].deps) /\ DOMAIN componentMap[c].deps \subseteq May(c)
    /\ DOMAIN componentMap[c].requesters \subseteq DOMAIN componentMap \cup {Main}

Resolving ==
    /\ stack[1].name = Main /\ ~stack[1].isNew /\ Counts(Main, stack[1].deps)
    /\ \A i \in 2..Len(stack) : FrameOf(i)
    /\ \A i \in 2..Len(stack) - 1 : stack[i + 1].name \in May(stack[i].name)
    /\ \A c \in DOMAIN componentMap :
          IF componentMap[c] = Nil THEN \E i \in 2..Len(stack) : stack[i].name = c ELSE EntryOf(c)

LEMMA EntryNotNil ==
    ASSUME NEW e \in Comp!Entries
    PROVE  /\ e # Nil /\ e.requesters \in Comp!Requested /\ e.deps \in Comp!Requested
           /\ e = [requesters |-> e.requesters, deps |-> e.deps]
  BY ComponentsAssumption DEF Comp!Entries

LEMMA SetListed == ASSUME NEW S, NEW q \in Seq(S) PROVE Comp!ToSet(q) = Listed(q) /\ Listed(q) \subseteq S
<1>1. DOMAIN q = 1..Len(q)
  OBVIOUS
<1> QED
  BY <1>1 DEF Comp!ToSet, Listed

LEMMA Appended ==
    ASSUME NEW S, NEW q \in Seq(S), NEW e \in S
    PROVE  /\ Append(q, e) \in Seq(S) /\ Len(Append(q, e)) = Len(q) + 1
           /\ Append(q, e)[Len(q) + 1] = e /\ \A i \in 1..Len(q) : Append(q, e)[i] = q[i]
  OBVIOUS

LEMMA DeclaredLists ==
    ASSUME declarations \in Declarations, NEW c \in ComponentNames
    PROVE  /\ declarations[c].deps \in Seq(ComponentNames) /\ declarations[c].merge \in Seq(ComponentNames)
           /\ May(c) = Comp!Requests(c) /\ May(c) \subseteq ComponentNames
<1>1. declarations[c] \in [deps : Seq(ComponentNames), merge : Seq(ComponentNames)]
  BY ComponentsAssumption
<1>2. declarations[c].deps \in Seq(ComponentNames) /\ declarations[c].merge \in Seq(ComponentNames)
  BY <1>1
<1>3. May(c) = Comp!Requests(c)
  BY <1>2, SetListed DEF May, Comp!Requests
<1>4. May(c) \subseteq ComponentNames
  BY <1>2, SetListed DEF May
<1> QED
  BY <1>2, <1>3, <1>4

LEMMA FrameTodo ==
    ASSUME NEW r \in Frames, NEW q \in Seq(ComponentNames), Tail(r.todo) = q
    PROVE  LET t == [r EXCEPT !.todo = Tail(@)]
           IN  t \in Frames /\ t.name = r.name /\ t.isNew = r.isNew /\ t.deps = r.deps /\ t.todo = Tail(r.todo)
  BY DEF Frames

(* A call is made: its caller has one request less to make. *)
Called(f) ==
    /\ f \in Frames /\ stack' \in Seq(Frames) /\ Len(stack') = Len(stack) + 1 /\ stack'[Len(stack) + 1] = f
    /\ \A i \in 1..Len(stack) :
          /\ stack'[i].name = stack[i].name /\ stack'[i].isNew = stack[i].isNew /\ stack'[i].deps = stack[i].deps
          /\ Listed(stack'[i].todo) \subseteq Listed(stack[i].todo)
    /\ f.name \in Listed(stack[Len(stack)].todo) /\ f.name \in ComponentNames

LEMMA CallMade ==
    ASSUME stack \in Seq(Frames), Len(stack) >= 1, stack[Len(stack)].todo # <<>>, NEW f \in Frames,
           f.name = Head(stack[Len(stack)].todo),
           stack' = Append([stack EXCEPT ![Len(stack)].todo = Tail(@)], f)
    PROVE  Called(f)
<1> DEFINE L == Len(stack)
           top == [stack[L] EXCEPT !.todo = Tail(@)]
           rest == [stack EXCEPT ![L] = top]
<1>1. L \in Nat /\ L \in 1..L /\ DOMAIN stack = 1..L /\ \A i \in 1..L : stack[i] \in Frames
  OBVIOUS
<1>2. stack[L].todo \in Seq(ComponentNames) /\ stack[L].todo # <<>>
  BY <1>1 DEF Frames
<1>3. Tail(stack[L].todo) \in Seq(ComponentNames) /\ Listed(Tail(stack[L].todo)) \subseteq Listed(stack[L].todo)
  BY <1>2 DEF Listed
<1>4. /\ top.name = stack[L].name /\ top.isNew = stack[L].isNew /\ top.deps = stack[L].deps
      /\ top.todo = Tail(stack[L].todo) /\ top \in Frames
  BY <1>1, <1>3, FrameTodo
<1> HIDE DEF top
<1>5. rest \in Seq(Frames) /\ Len(rest) = L /\ \A i \in 1..L : rest[i] = IF i = L THEN top ELSE stack[i]
  BY <1>1, <1>4
<1>6. stack' = Append(rest, f)
  BY DEF top
<1> HIDE DEF rest
<1>7. stack' \in Seq(Frames) /\ Len(stack') = L + 1 /\ stack'[L + 1] = f /\ \A i \in 1..L : stack'[i] = rest[i]
  <2>1. \A q \in Seq(Frames) :
           /\ Append(q, f) \in Seq(Frames) /\ Len(Append(q, f)) = Len(q) + 1
           /\ Append(q, f)[Len(q) + 1] = f /\ \A i \in 1..Len(q) : Append(q, f)[i] = q[i]
    BY Appended
  <2>2. rest \in Seq(Frames) /\ L = Len(rest)
    BY <1>5
  <2> HIDE DEF L
  <2>3. /\ Append(rest, f) \in Seq(Frames) /\ Len(Append(rest, f)) = Len(rest) + 1
        /\ Append(rest, f)[Len(rest) + 1] = f /\ \A i \in 1..Len(rest) : Append(rest, f)[i] = rest[i]
    BY <2>1, <2>2, Zenon
  <2> QED
    BY <2>2, <2>3, <1>6, Zenon
<1>8. Head(stack[L].todo) \in ComponentNames /\ Head(stack[L].todo) \in Listed(stack[L].todo)
  BY <1>2 DEF Listed
<1>9. \A i \in 1..L :
          /\ stack'[i].name = stack[i].name /\ stack'[i].isNew = stack[i].isNew /\ stack'[i].deps = stack[i].deps
          /\ Listed(stack'[i].todo) \subseteq Listed(stack[i].todo)
  BY <1>3, <1>4, <1>5, <1>7
<1> QED
  BY <1>7, <1>8, <1>9 DEF Called

LEMMA FrameTyped ==
    ASSUME NEW n \in Everyone, NEW q \in Seq(ComponentNames), NEW isNew \in BOOLEAN
    PROVE  /\ Comp!Frame(n, q, isNew) \in Frames
           /\ Comp!Frame(n, q, isNew) = [name |-> n, todo |-> q, isNew |-> isNew, deps |-> Comp!NoRequests]
  BY NoneRequested DEF Comp!Frame, Frames

(* The calls after one more is made. *)
LEMMA CalledFacts ==
    ASSUME CompTypes, Resolving, NEW f, Called(f), UNCHANGED declarations
    PROVE  /\ stack'[1].name = Main /\ ~stack'[1].isNew /\ stack'[1].deps = stack[1].deps
           /\ Len(stack) \in Nat /\ Len(stack) >= 1 /\ Len(stack') = Len(stack) + 1
           /\ 2..Len(stack') = (2..Len(stack)) \cup {Len(stack) + 1}
           /\ \A i \in 2..Len(stack) : i \in 1..Len(stack) /\ i # Len(stack) + 1
           /\ \A i \in 2..Len(stack') - 1 : (stack[i + 1].name \in May(stack[i].name))'
<1>0. PICK L \in Nat : L = Len(stack) /\ L >= 1 /\ L \in 1..L
  BY DEF CompTypes
<1>1. Len(stack') = L + 1
  BY <1>0 DEF Called
<1>2. 2..L + 1 = (2..L) \cup {L + 1} /\ \A i \in 2..L : i \in 1..L /\ i # L + 1
  BY <1>0
<1>3. stack'[1].name = Main /\ ~stack'[1].isNew /\ stack'[1].deps = stack[1].deps
  BY <1>0 DEF Called, Resolving
<1>4. ASSUME NEW i \in 2..L PROVE (stack[i + 1].name \in May(stack[i].name))'
  <2>1. i \in 1..L /\ stack'[i].name = stack[i].name
    BY <1>0, <1>2 DEF Called
  <2>2. CASE i = L
    <3>1. Listed(stack[L].todo) \subseteq May(stack[L].name)
      BY <2>2, <1>0 DEF Resolving, FrameOf
    <3>2. stack'[L + 1].name \in Listed(stack[L].todo)
      BY <1>0 DEF Called
    <3> QED
      BY <2>1, <2>2, <3>1, <3>2 DEF May
  <2>3. CASE i # L
    <3>1. i \in 2..L - 1 /\ i + 1 \in 1..L
      BY <2>3, <1>0
    <3>2. stack'[i + 1].name = stack[i + 1].name
      BY <3>1, <1>0 DEF Called
    <3>3. stack[i + 1].name \in May(stack[i].name)
      BY <3>1, <1>0 DEF Resolving
    <3> QED
      BY <2>1, <3>2, <3>3 DEF May
  <2> QED
    BY <2>2, <2>3
<1>5. 2..Len(stack') - 1 = 2..L
  BY <1>0, <1>1
<1> QED
  BY <1>0, <1>1, <1>2, <1>3, <1>4, <1>5

(* The first request of a component begins to resolve it. *)
LEMMA FirstRequest ==
    ASSUME CompTypes, Resolving, NEW f, Called(f), NEW n, n = f.name, n \notin DOMAIN componentMap,
           f.todo = declarations[n].deps, f.isNew, f.deps = Comp!NoRequests, UNCHANGED declarations,
           componentMap' = [c \in DOMAIN componentMap \cup {n} |-> IF c = n THEN Nil ELSE componentMap[c]]
    PROVE  CompTypes' /\ Resolving'
<1>0. PICK L \in Nat : L = Len(stack) /\ L >= 1 /\ 1 \in 1..L
  BY DEF CompTypes
<1>1. n \in ComponentNames
  BY DEF Called
<1>2. /\ stack'[1].name = Main /\ ~stack'[1].isNew /\ stack'[1].deps = stack[1].deps
      /\ Len(stack') = L + 1 /\ 2..Len(stack') = (2..L) \cup {L + 1}
      /\ \A i \in 2..L : i \in 1..L /\ i # L + 1
      /\ \A i \in 2..Len(stack') - 1 : (stack[i + 1].name \in May(stack[i].name))'
  BY <1>0, CalledFacts
<1>4. /\ stack' \in Seq(Frames) /\ stack'[L + 1] = f
      /\ \A i \in 2..L :
            /\ stack'[i].name = stack[i].name /\ stack'[i].isNew = stack[i].isNew /\ stack'[i].deps = stack[i].deps
            /\ Listed(stack'[i].todo) \subseteq Listed(stack[i].todo)
  BY <1>0, <1>2 DEF Called
<1>5. /\ componentMap' = [c \in DOMAIN componentMap' |-> componentMap'[c]]
      /\ DOMAIN componentMap' = DOMAIN componentMap \cup {n} /\ componentMap'[n] = Nil
      /\ \A c \in DOMAIN componentMap : componentMap'[c] = componentMap[c] /\ c # n
  OBVIOUS
<1>6. CompTypes'
  <2>1. DOMAIN componentMap' \subseteq ComponentNames
    BY <1>1, <1>5 DEF CompTypes
  <2>2. \A c \in DOMAIN componentMap' : componentMap'[c] \in Comp!Entries' \cup {Nil}
    BY <1>5 DEF CompTypes, Comp!Entries, Comp!Requested
  <2>3. declarations' \in Declarations /\ Len(stack') >= 1
    BY <1>0, <1>2 DEF CompTypes
  <2> QED
    BY <2>1, <2>2, <2>3, <1>4, <1>5 DEF CompTypes, Frames
<1>7. \A d, x : RequestsBy(x, d)' = RequestsBy(x, d)
  BY <1>5 DEF RequestsBy, Resolved
<1>8. \A x, bag : Counts(x, bag)' <=> Counts(x, bag)
  BY <1>7 DEF Counts
<1>9. \A c : May(c)' = May(c)
  BY DEF May
<1>10. Counts(n, Comp!NoRequests)
  <2>1. ASSUME NEW d \in DOMAIN componentMap, componentMap[d] # Nil PROVE n \notin DOMAIN componentMap[d].requesters
    BY <2>1, <1>1, ComponentsAssumption DEF Resolving, EntryOf
  <2> QED
    BY <2>1, NoneRequested DEF Counts, RequestsBy, Resolved, Comp!Copies
<1>11. ASSUME NEW i \in 2..L PROVE FrameOf(i)' /\ stack[i].name # n
  <2>1. FrameOf(i)
    BY <1>0 DEF Resolving
  <2>2. stack[i].name # n
    BY <2>1 DEF FrameOf
  <2>3. ASSUME stack[i].isNew, NEW j \in 2..Len(stack'), stack'[i].name = stack'[j].name PROVE i = j
    <3>1. j \in 2..L
      BY <2>2, <2>3, <1>2, <1>4
    <3>2. stack[i].name = stack[j].name
      BY <3>1, <2>3, <1>4
    <3> QED
      BY <3>1, <3>2, <2>1, <2>3, <1>0 DEF FrameOf
  <2> QED
    BY <2>1, <2>2, <2>3, <1>4, <1>5, <1>8, <1>9 DEF FrameOf
<1>12. FrameOf(L + 1)'
  <2>1. \A j \in 2..Len(stack') : n = stack'[j].name => j = L + 1
    BY <1>2, <1>4, <1>11
  <2>2. Listed(f.todo) \subseteq May(n)
    BY DEF May
  <2>3. DOMAIN Comp!NoRequests = {}
    BY DEF Comp!NoRequests
  <2> QED
    BY <2>1, <2>2, <2>3, <1>4, <1>5, <1>8, <1>9, <1>10 DEF FrameOf
<1>13. \A i \in 2..Len(stack') : FrameOf(i)'
  BY <1>2, <1>11, <1>12
<1>15. ASSUME NEW c \in DOMAIN componentMap'
       PROVE  IF componentMap'[c] = Nil THEN \E i \in 2..Len(stack') : stack'[i].name = c ELSE EntryOf(c)'
  <2>1. CASE c = n
    BY <2>1, <1>2, <1>4, <1>5
  <2>2. CASE c # n
    <3>1. c \in DOMAIN componentMap /\ componentMap'[c] = componentMap[c]
      BY <2>2, <1>5
    <3>2. CASE componentMap[c] = Nil
      <4>1. PICK i \in 2..L : stack[i].name = c
        BY <3>1, <3>2, <1>0 DEF Resolving
      <4> QED
        BY <3>1, <3>2, <4>1, <1>2, <1>4
    <3>3. CASE componentMap[c] # Nil
      <4>1. EntryOf(c)
        BY <3>1, <3>3 DEF Resolving
      <4> QED
        BY <3>1, <3>3, <4>1, <1>5, <1>8, <1>9 DEF EntryOf
    <3> QED
      BY <3>2, <3>3
  <2> QED
    BY <2>1, <2>2
<1>16. Counts(Main, stack[1].deps)'
  <2>1. Counts(Main, stack[1].deps)
    BY DEF Resolving
  <2> QED
    BY <2>1, <1>2, <1>7 DEF Counts
<1> QED
  BY <1>2, <1>6, <1>13, <1>15, <1>16 DEF Resolving


(* A repeated request merges what the declaration adds. *)
LEMMA RepeatedRequest ==
    ASSUME CompTypes, Resolving, NEW f, Called(f), NEW n, n = f.name, n \in DOMAIN componentMap,
           componentMap[n] # Nil, f.todo = declarations[n].merge, ~f.isNew,
           UNCHANGED declarations, UNCHANGED componentMap
    PROVE  CompTypes' /\ Resolving'
<1>0. PICK L \in Nat : L = Len(stack) /\ L >= 1 /\ 1 \in 1..L
  BY DEF CompTypes
<1>2. /\ stack'[1].name = Main /\ ~stack'[1].isNew /\ stack'[1].deps = stack[1].deps
      /\ Len(stack') = L + 1 /\ 2..Len(stack') = (2..L) \cup {L + 1}
      /\ \A i \in 2..L : i \in 1..L /\ i # L + 1
      /\ \A i \in 2..Len(stack') - 1 : (stack[i + 1].name \in May(stack[i].name))'
  BY <1>0, CalledFacts
<1>4. /\ stack' \in Seq(Frames) /\ stack'[L + 1] = f
      /\ \A i \in 2..L :
            /\ stack'[i].name = stack[i].name /\ stack'[i].isNew = stack[i].isNew /\ stack'[i].deps = stack[i].deps
            /\ Listed(stack'[i].todo) \subseteq Listed(stack[i].todo)
  BY <1>0, <1>2 DEF Called
<1>6. CompTypes'
  BY <1>0, <1>2, <1>4 DEF CompTypes, Frames, Comp!Entries, Comp!Requested
<1>7. \A d, x : RequestsBy(x, d)' = RequestsBy(x, d)
  BY DEF RequestsBy, Resolved
<1>8. \A x, bag : Counts(x, bag)' <=> Counts(x, bag)
  BY <1>7 DEF Counts
<1>9. \A c : May(c)' = May(c)
  BY DEF May
<1>11. ASSUME NEW i \in 2..L PROVE FrameOf(i)'
  <2>1. FrameOf(i)
    BY <1>0 DEF Resolving
  <2>3. ASSUME stack[i].isNew, NEW j \in 2..Len(stack'), stack'[i].name = stack'[j].name PROVE i = j
    <3>1. j \in 2..L
      BY <2>1, <2>3, <1>2, <1>4 DEF FrameOf
    <3>2. stack[i].name = stack[j].name
      BY <3>1, <2>3, <1>4
    <3> QED
      BY <3>1, <3>2, <2>1, <2>3, <1>0 DEF FrameOf
  <2> QED
    BY <2>1, <2>3, <1>4, <1>8, <1>9 DEF FrameOf
<1>12. FrameOf(L + 1)'
  <2>2. Listed(f.todo) \subseteq May(n)
    BY DEF May
  <2> QED
    BY <2>2, <1>4, <1>9 DEF FrameOf
<1>13. \A i \in 2..Len(stack') : FrameOf(i)'
  BY <1>2, <1>11, <1>12
<1>15. ASSUME NEW c \in DOMAIN componentMap'
       PROVE  IF componentMap'[c] = Nil THEN \E i \in 2..Len(stack') : stack'[i].name = c ELSE EntryOf(c)'
  <2>1. CASE componentMap[c] = Nil
    <3>1. PICK i \in 2..L : stack[i].name = c
      BY <2>1, <1>0 DEF Resolving
    <3> QED
      BY <2>1, <3>1, <1>2, <1>4
  <2>2. CASE componentMap[c] # Nil
    <3>1. EntryOf(c)
      BY <2>2 DEF Resolving
    <3> QED
      BY <2>2, <3>1, <1>8, <1>9 DEF EntryOf
  <2> QED
    BY <2>1, <2>2
<1>16. Counts(Main, stack[1].deps)'
  <2>1. Counts(Main, stack[1].deps)
    BY DEF Resolving
  <2> QED
    BY <2>1, <1>2, <1>7 DEF Counts
<1> QED
  BY <1>2, <1>6, <1>13, <1>15, <1>16 DEF Resolving

(* A call returns: its caller, or the entry of a caller that merges, counts it. *)
Top    == stack[Len(stack)].name
Caller == stack[Len(stack) - 1].name
Direct == stack[Len(stack) - 1].isNew \/ Caller = Main

Returned ==
    /\ stack' \in Seq(Frames) /\ Len(stack') = Len(stack) - 1
    /\ \A i \in 1..Len(stack) - 1 :
          /\ stack'[i].name = stack[i].name /\ stack'[i].isNew = stack[i].isNew /\ stack'[i].todo = stack[i].todo
          /\ stack'[i].deps = IF i = Len(stack) - 1 /\ Direct THEN Comp!BagAdd(stack[i].deps, Top) ELSE stack[i].deps
    /\ componentMap' = [c \in DOMAIN componentMap' |-> componentMap'[c]] /\ DOMAIN componentMap' = DOMAIN componentMap
    /\ \A c \in DOMAIN componentMap :
          IF c # Top /\ componentMap[c] = Nil THEN componentMap'[c] = Nil
          ELSE /\ componentMap'[c] \in Comp!Entries
               /\ componentMap'[c].requesters =
                    IF c # Top THEN componentMap[c].requesters
                    ELSE Comp!BagAdd(IF stack[Len(stack)].isNew THEN Comp!NoRequests ELSE componentMap[c].requesters, Caller)
               /\ componentMap'[c].deps =
                    LET b == IF c = Top /\ stack[Len(stack)].isNew THEN stack[Len(stack)].deps ELSE componentMap[c].deps
                    IN  IF c = Caller /\ ~Direct THEN Comp!BagAdd(b, Top) ELSE b

LEMMA FrameDeps ==
    ASSUME NEW r \in Frames, NEW n \in Everyone
    PROVE  LET t == [r EXCEPT !.deps = Comp!BagAdd(@, n)]
           IN  /\ t \in Frames /\ t.name = r.name /\ t.isNew = r.isNew /\ t.todo = r.todo
               /\ t.deps = Comp!BagAdd(r.deps, n)
<1>1. r.deps \in Comp!Requested
  BY DEF Frames
<1>2. Comp!BagAdd(r.deps, n) \in Comp!Requested
  BY <1>1, AddRequest
<1> QED
  BY <1>2 DEF Frames

LEMMA FrontFacts ==
    ASSUME NEW S, NEW q \in Seq(S), q # <<>>
    PROVE  /\ Comp!Front(q) \in Seq(S) /\ Len(Comp!Front(q)) = Len(q) - 1 /\ Len(q) \in Nat /\ Len(q) >= 1
           /\ \A i \in 1..Len(q) - 1 : Comp!Front(q)[i] = q[i]
           /\ Comp!Last(q) = q[Len(q)] /\ q[Len(q)] \in S
<1>1. Len(q) \in Nat /\ Len(q) >= 1 /\ q[Len(q)] \in S
  OBVIOUS
<1>2. SubSeq(q, 1, Len(q) - 1) \in Seq(S)
  BY <1>1
<1>3. Len(SubSeq(q, 1, Len(q) - 1)) = Len(q) - 1
  <2>1. \A k \in Nat : k <= Len(q) => Len(SubSeq(q, 1, k)) = k
    BY <1>1
  <2>0. Len(q) - 1 \in Nat /\ Len(q) - 1 <= Len(q)
    BY <1>1
  <2>2. PICK k \in Nat : k = Len(q) - 1 /\ k <= Len(q)
    BY <2>0, Zenon
  <2>3. Len(SubSeq(q, 1, k)) = k
    BY <2>1, <2>2
  <2> QED
    BY <2>2, <2>3, Zenon
<1>4. \A i \in 1..Len(q) - 1 : SubSeq(q, 1, Len(q) - 1)[i] = q[i]
  BY <1>1
<1> QED
  BY <1>1, <1>2, <1>3, <1>4 DEF Comp!Front, Comp!Last

(* The frames and entries involved in a return. *)
LEMMA ReturnFacts ==
    ASSUME CompTypes, Resolving, Len(stack) > 1
    PROVE  /\ Len(stack) \in Nat /\ Len(stack) \in 2..Len(stack) /\ Len(stack) - 1 \in 1..Len(stack)
           /\ stack[Len(stack)] \in Frames /\ stack[Len(stack) - 1] \in Frames
           /\ Top \in DOMAIN componentMap /\ Top \in ComponentNames /\ Caller \in Everyone
           /\ stack[Len(stack)].deps \in Comp!Requested
           /\ stack[Len(stack)].isNew <=> componentMap[Top] = Nil
           /\ ~Direct => Caller \in DOMAIN componentMap /\ componentMap[Caller] \in Comp!Entries
           /\ \A c \in DOMAIN componentMap : componentMap[c] # Nil => componentMap[c] \in Comp!Entries
<1>0. PICK L \in Nat : L = Len(stack) /\ L > 1 /\ L \in 2..L /\ L - 1 \in 1..L /\ L - 1 \in Nat
  BY DEF CompTypes
<1>1. stack[L] \in Frames /\ stack[L - 1] \in Frames
  BY <1>0 DEF CompTypes
<1>2. FrameOf(L)
  BY <1>0 DEF Resolving
<1>3. Top \in DOMAIN componentMap /\ Top \in ComponentNames /\ (stack[L].isNew <=> componentMap[Top] = Nil)
  BY <1>0, <1>2 DEF FrameOf, Top, CompTypes
<1>4. \A c \in DOMAIN componentMap : componentMap[c] # Nil => componentMap[c] \in Comp!Entries
  BY DEF CompTypes
<1>5. ASSUME ~Direct PROVE Caller \in DOMAIN componentMap /\ componentMap[Caller] \in Comp!Entries
  <2>1. L - 1 # 1
    BY <1>5, <1>0 DEF Direct, Caller, Resolving
  <2>2. FrameOf(L - 1)
    <3>1. L - 1 \in 2..L
      BY <2>1, <1>0
    <3> QED
      BY <3>1, <1>0 DEF Resolving
  <2>3. Caller \in DOMAIN componentMap /\ componentMap[Caller] # Nil
    BY <1>5, <2>2, <1>0 DEF FrameOf, Direct, Caller
  <2> QED
    BY <2>3, <1>4
<1>6. stack[L].deps \in Comp!Requested /\ stack[L - 1].name \in Everyone
  BY <1>1 DEF Frames
<1> QED
  BY <1>0, <1>1, <1>3, <1>4, <1>5, <1>6 DEF Caller


LEMMA ReturnMade ==
    ASSUME CompTypes, Resolving, Comp!Return
    PROVE  Returned /\ UNCHANGED declarations
<1> DEFINE L == Len(stack)
           r == stack[L]
           entry == IF r.isNew THEN [requesters |-> Comp!BagAdd(Comp!NoRequests, Caller), deps |-> r.deps]
                    ELSE [componentMap[Top] EXCEPT !.requesters = Comp!BagAdd(@, Caller)]
           entries == [componentMap EXCEPT ![Top] = entry]
           up == [stack[L - 1] EXCEPT !.deps = Comp!BagAdd(@, Top)]
<1>1. stack \in Seq(Frames) /\ stack # <<>> /\ L > 1
  BY DEF Comp!Return, CompTypes
<1>2. /\ L \in Nat /\ L \in 2..L /\ L - 1 \in 1..L
      /\ stack[L] \in Frames /\ stack[L - 1] \in Frames
      /\ Top \in DOMAIN componentMap /\ Top \in ComponentNames /\ Caller \in Everyone
      /\ r.deps \in Comp!Requested
      /\ r.isNew <=> componentMap[Top] = Nil
      /\ ~Direct => Caller \in DOMAIN componentMap /\ componentMap[Caller] \in Comp!Entries
      /\ \A c \in DOMAIN componentMap : componentMap[c] # Nil => componentMap[c] \in Comp!Entries
  BY <1>1, ReturnFacts
<1>3. /\ Comp!Front(stack) \in Seq(Frames) /\ Len(Comp!Front(stack)) = L - 1
      /\ \A i \in 1..L - 1 : Comp!Front(stack)[i] = stack[i]
      /\ Comp!Last(stack) = r
  BY <1>1, FrontFacts
<1>4. /\ UNCHANGED declarations
      /\ IF Direct THEN /\ stack' = [Comp!Front(stack) EXCEPT ![L - 1].deps = Comp!BagAdd(@, Top)]
                        /\ componentMap' = entries
         ELSE /\ stack' = Comp!Front(stack)
              /\ componentMap' = [entries EXCEPT ![Caller].deps = Comp!BagAdd(@, Top)]
  BY <1>3 DEF Comp!Return, Comp!Resolved, Comp!Caller, Direct, Caller, Top
<1>5. up \in Frames /\ up.name = stack[L - 1].name /\ up.isNew = stack[L - 1].isNew /\ up.todo = stack[L - 1].todo
      /\ up.deps = Comp!BagAdd(stack[L - 1].deps, Top)
  BY <1>2, FrameDeps DEF Everyone
<1>6. /\ entry \in Comp!Entries
      /\ entry.requesters = Comp!BagAdd(IF r.isNew THEN Comp!NoRequests ELSE componentMap[Top].requesters, Caller)
      /\ entry.deps = IF r.isNew THEN r.deps ELSE componentMap[Top].deps
  <2>1. CASE r.isNew
    <3>1. Comp!BagAdd(Comp!NoRequests, Caller) \in Comp!Requested
      BY <1>2, NoneRequested, AddRequest
    <3> QED
      BY <2>1, <3>1, <1>2 DEF Comp!Entries
  <2>2. CASE ~r.isNew
    <3>1. componentMap[Top] \in Comp!Entries
      BY <2>2, <1>2
    <3>2. componentMap[Top].requesters \in Comp!Requested /\ componentMap[Top].deps \in Comp!Requested
      BY <3>1, EntryNotNil
    <3>3. Comp!BagAdd(componentMap[Top].requesters, Caller) \in Comp!Requested
      BY <3>2, <1>2, AddRequest
    <3> QED
      BY <2>2, <3>1, <3>2, <3>3 DEF Comp!Entries
  <2> QED
    BY <2>1, <2>2
<1>7. /\ stack' \in Seq(Frames) /\ Len(stack') = L - 1
      /\ \A i \in 1..L - 1 : stack'[i] = IF i = L - 1 /\ Direct THEN up ELSE stack[i]
  <2>1. CASE Direct
    <3>1. stack' = [Comp!Front(stack) EXCEPT ![L - 1] = up]
      BY <2>1, <1>2, <1>3, <1>4
    <3> HIDE DEF up
    <3> QED
      BY <2>1, <3>1, <1>2, <1>3, <1>5
  <2>2. CASE ~Direct
    BY <2>2, <1>3, <1>4
  <2> QED
    BY <2>1, <2>2
<1>8. /\ entries = [c \in DOMAIN entries |-> entries[c]] /\ DOMAIN entries = DOMAIN componentMap
      /\ \A c \in DOMAIN componentMap : entries[c] = IF c = Top THEN entry ELSE componentMap[c]
  BY <1>2 DEF CompTypes
<1> HIDE DEF entry, entries, up
<1>9. /\ componentMap' = [c \in DOMAIN componentMap' |-> componentMap'[c]] /\ DOMAIN componentMap' = DOMAIN componentMap
      /\ \A c \in DOMAIN componentMap :
            componentMap'[c] = IF c = Caller /\ ~Direct THEN [entries[c] EXCEPT !.deps = Comp!BagAdd(@, Top)] ELSE entries[c]
  BY <1>2, <1>4, <1>8
<1>10. ASSUME NEW c \in DOMAIN componentMap
       PROVE  IF c # Top /\ componentMap[c] = Nil THEN componentMap'[c] = Nil
              ELSE /\ componentMap'[c] \in Comp!Entries
                   /\ componentMap'[c].requesters =
                        IF c # Top THEN componentMap[c].requesters
                        ELSE Comp!BagAdd(IF r.isNew THEN Comp!NoRequests ELSE componentMap[c].requesters, Caller)
                   /\ componentMap'[c].deps =
                        LET b == IF c = Top /\ r.isNew THEN r.deps ELSE componentMap[c].deps
                        IN  IF c = Caller /\ ~Direct THEN Comp!BagAdd(b, Top) ELSE b
  <2>1. CASE c # Top /\ componentMap[c] = Nil
    <3>1. c = Caller => Direct
      BY <2>1, <1>2, EntryNotNil
    <3> QED
      BY <2>1, <3>1, <1>8, <1>9
  <2>2. CASE ~(c # Top /\ componentMap[c] = Nil)
    <3>1. /\ entries[c] \in Comp!Entries
          /\ entries[c].requesters = IF c # Top THEN componentMap[c].requesters
                        ELSE Comp!BagAdd(IF r.isNew THEN Comp!NoRequests ELSE componentMap[c].requesters, Caller)
          /\ entries[c].deps = IF c = Top /\ r.isNew THEN r.deps ELSE componentMap[c].deps
      BY <2>2, <1>2, <1>6, <1>8
    <3>2. CASE c = Caller /\ ~Direct
      <4>1. entries[c].deps \in Comp!Requested /\ entries[c].requesters \in Comp!Requested
            /\ entries[c] = [requesters |-> entries[c].requesters, deps |-> entries[c].deps]
        BY <3>1, EntryNotNil
      <4>2. Comp!BagAdd(entries[c].deps, Top) \in Comp!Requested
        BY <4>1, <1>2, AddRequest DEF Everyone
      <4>3. componentMap'[c] = [requesters |-> entries[c].requesters, deps |-> Comp!BagAdd(entries[c].deps, Top)]
        BY <3>2, <4>1, <1>9
      <4>4. /\ componentMap'[c] \in Comp!Entries /\ componentMap'[c].requesters = entries[c].requesters
            /\ componentMap'[c].deps = Comp!BagAdd(entries[c].deps, Top)
        BY <4>1, <4>2, <4>3 DEF Comp!Entries
      <4> QED
        BY <2>2, <3>1, <3>2, <4>4
    <3>3. CASE ~(c = Caller /\ ~Direct)
      BY <2>2, <3>1, <3>3, <1>9
    <3> QED
      BY <3>2, <3>3
  <2> QED
    BY <2>1, <2>2
<1>11. \A i \in 1..L - 1 :
          /\ stack'[i].name = stack[i].name /\ stack'[i].isNew = stack[i].isNew /\ stack'[i].todo = stack[i].todo
          /\ stack'[i].deps = IF i = L - 1 /\ Direct THEN Comp!BagAdd(stack[i].deps, Top) ELSE stack[i].deps
  BY <1>5, <1>7
<1> QED
  BY <1>4, <1>7, <1>9, <1>10, <1>11 DEF Returned

(* One more request is counted, on both sides. *)
LEMMA ReturnCounts ==
    ASSUME CompTypes, Resolving, Len(stack) > 1, Returned, NEW n, n = Top, NEW m, m = Caller
    PROVE  /\ \A x, d : RequestsBy(x, d) \in Nat
           /\ \A x, d : RequestsBy(x, d)' = RequestsBy(x, d) + (IF x = m /\ d = n THEN 1 ELSE 0)
           /\ \A x, bag : x # m => (Counts(x, bag)' <=> Counts(x, bag))
           /\ \A bag \in Comp!Requested : Counts(m, bag) => Counts(m, Comp!BagAdd(bag, n))'
<1>1. /\ stack[Len(stack)] \in Frames /\ n \in DOMAIN componentMap /\ n \in Everyone /\ m \in Everyone
      /\ stack[Len(stack)].isNew <=> componentMap[n] = Nil
      /\ \A c \in DOMAIN componentMap : componentMap[c] # Nil => componentMap[c] \in Comp!Entries
  BY ReturnFacts DEF Everyone
<1>2. \A c \in DOMAIN componentMap : componentMap[c] # Nil => componentMap[c].requesters \in Comp!Requested
  BY <1>1, EntryNotNil
<1>3. \A x, d : RequestsBy(x, d) \in Nat
  BY <1>2, CopiesFacts DEF RequestsBy, Resolved
<1>4. \A d : Resolved(d)' <=> Resolved(d) \/ d = n
  <2>1. \A c \in DOMAIN componentMap : componentMap'[c] = Nil <=> c # n /\ componentMap[c] = Nil
    BY EntryNotNil DEF Returned
  <2>2. DOMAIN componentMap' = DOMAIN componentMap
    BY DEF Returned
  <2> QED
    BY <2>1, <2>2, <1>1 DEF Resolved
<1>5. ASSUME NEW x, NEW d PROVE RequestsBy(x, d)' = RequestsBy(x, d) + (IF x = m /\ d = n THEN 1 ELSE 0)
  <2>1. CASE d # n
    <3>1. Resolved(d) => componentMap'[d].requesters = componentMap[d].requesters
      BY <2>1 DEF Returned, Resolved
    <3>2. Resolved(d)' <=> Resolved(d)
      BY <2>1, <1>4
    <3> QED
      BY <2>1, <3>1, <3>2, <1>3 DEF RequestsBy, Comp!Copies
  <2>2. CASE d = n
    <3> DEFINE b == IF stack[Len(stack)].isNew THEN Comp!NoRequests ELSE componentMap[n].requesters
    <3>1. componentMap'[n].requesters = Comp!BagAdd(b, m) /\ Resolved(n)'
      BY <1>1, <1>4 DEF Returned
    <3>2. b \in Comp!Requested /\ Comp!Copies(x, b) = RequestsBy(x, n)
      BY <1>1, <1>2, NoneRequested DEF RequestsBy, Resolved
    <3> HIDE DEF b
    <3>3. Comp!Copies(x, Comp!BagAdd(b, m)) = Comp!Copies(x, b) + (IF x = m THEN 1 ELSE 0)
      BY <3>2, <1>1, AddRequest
    <3>4. RequestsBy(x, n)' = Comp!Copies(x, Comp!BagAdd(b, m))
      BY <3>1 DEF RequestsBy, Comp!Copies
    <3> QED
      BY <2>2, <3>2, <3>3, <3>4
  <2> QED
    BY <2>1, <2>2
<1>6. ASSUME NEW x, NEW bag, x # m PROVE Counts(x, bag)' <=> Counts(x, bag)
  <2>1. \A d : RequestsBy(x, d)' = RequestsBy(x, d)
    BY <1>3, <1>5, <1>6
  <2> QED
    BY <2>1 DEF Counts, Comp!Copies
<1>7. ASSUME NEW bag \in Comp!Requested, Counts(m, bag) PROVE Counts(m, Comp!BagAdd(bag, n))'
  <2>1. \A d : Comp!Copies(d, Comp!BagAdd(bag, n)) = Comp!Copies(d, bag) + (IF d = n THEN 1 ELSE 0)
    BY <1>1, AddRequest
  <2>2. \A d \in Everyone : Comp!Copies(d, bag) = RequestsBy(m, d)
    BY <1>7 DEF Counts
  <2>3. \A d \in Everyone : Comp!Copies(d, Comp!BagAdd(bag, n)) = RequestsBy(m, d)'
    BY <2>1, <2>2, <1>5
  <2> QED
    BY <2>3 DEF Counts, Comp!Copies
<1> QED
  BY <1>3, <1>5, <1>6, <1>7


LEMMA ReturnStep ==
    ASSUME CompTypes, Resolving, Len(stack) > 1, Returned, UNCHANGED declarations
    PROVE  CompTypes' /\ Resolving'
<1>0. PICK n, m : n = Top /\ m = Caller
  OBVIOUS
<1>1. PICK L \in Nat : L = Len(stack) /\ L > 1 /\ L \in 2..L /\ L - 1 \in 1..L /\ L - 1 \in 1..L - 1 /\ 1 \in 1..L - 1
  BY DEF CompTypes
<1>2. /\ n \in DOMAIN componentMap /\ n \in ComponentNames /\ m \in Everyone
      /\ stack[L].deps \in Comp!Requested
      /\ stack[L].isNew <=> componentMap[n] = Nil
      /\ ~Direct => m \in DOMAIN componentMap /\ componentMap[m] \in Comp!Entries
      /\ \A c \in DOMAIN componentMap : componentMap[c] # Nil => componentMap[c] \in Comp!Entries
  BY <1>0, <1>1, ReturnFacts
<1>3. /\ \A x, bag : x # m => (Counts(x, bag)' <=> Counts(x, bag))
      /\ \A bag \in Comp!Requested : Counts(m, bag) => Counts(m, Comp!BagAdd(bag, n))'
  BY <1>0, <1>1, ReturnCounts
<1>4. /\ stack' \in Seq(Frames) /\ Len(stack') = L - 1
      /\ \A i \in 1..L - 1 :
            /\ stack'[i].name = stack[i].name /\ stack'[i].isNew = stack[i].isNew /\ stack'[i].todo = stack[i].todo
            /\ stack'[i].deps = IF i = L - 1 /\ Direct THEN Comp!BagAdd(stack[i].deps, n) ELSE stack[i].deps
  BY <1>0, <1>1 DEF Returned
<1>5. /\ componentMap' = [c \in DOMAIN componentMap' |-> componentMap'[c]] /\ DOMAIN componentMap' = DOMAIN componentMap
      /\ \A c \in DOMAIN componentMap : componentMap'[c] = Nil <=> c # n /\ componentMap[c] = Nil
      /\ \A c \in DOMAIN componentMap : componentMap'[c] # Nil => componentMap'[c] \in Comp!Entries
  BY <1>0, EntryNotNil DEF Returned
<1>6. \A c : May(c)' = May(c)
  BY DEF May
<1>7. CompTypes'
  <2>1. Comp!Entries' = Comp!Entries
    BY DEF Comp!Entries, Comp!Requested
  <2>2. Len(stack') >= 1 /\ declarations' \in Declarations
    BY <1>1, <1>4 DEF CompTypes
  <2>3. DOMAIN componentMap' \subseteq ComponentNames /\ \A c \in DOMAIN componentMap' : componentMap'[c] \in Comp!Entries \cup {Nil}
    BY <1>5 DEF CompTypes
  <2> QED
    BY <2>1, <2>2, <2>3, <1>4, <1>5 DEF CompTypes, Frames
<1>8. /\ \A i \in 2..L - 1 : i \in 1..L - 1 /\ i \in 2..L /\ i # L /\ FrameOf(i) /\ stack[i].deps \in Comp!Requested
      /\ FrameOf(L) /\ m = stack[L - 1].name /\ n = stack[L].name
      /\ \A i \in 2..L : stack[i].name # Main
  <2>1. \A i \in 2..L - 1 : i \in 1..L - 1 /\ i \in 2..L /\ i # L /\ i \in 1..L
    BY <1>1
  <2>2. \A i \in 1..L : stack[i].deps \in Comp!Requested
    <3>1. \A i \in 1..L : stack[i] \in Frames
      BY <1>1 DEF CompTypes
    <3> QED
      BY <3>1 DEF Frames
  <2>3. \A i \in 2..L : FrameOf(i)
    BY <1>1 DEF Resolving
  <2>4. \A i \in 2..L : stack[i].name # Main
    BY <2>3, ComponentsAssumption DEF FrameOf, CompTypes
  <2> QED
    BY <2>1, <2>2, <2>3, <2>4, <1>0, <1>1 DEF Top, Caller
<1>9. L - 1 # 1 => n \in May(m)
  <2>1. L - 1 # 1 => L - 1 \in 2..L - 1 /\ (L - 1) + 1 = L
    BY <1>1
  <2> QED
    BY <2>1, <1>1, <1>8 DEF Resolving
<1>10. m = Main <=> L - 1 = 1
  <2>1. L - 1 = 1 \/ L - 1 \in 2..L
    BY <1>1
  <2> QED
    BY <2>1, <1>8 DEF Resolving
<1>11. stack[L].isNew => m # n
  <2>1. ASSUME stack[L].isNew, m = n PROVE FALSE
    <3>1. L - 1 # 1
      BY <2>1, <1>2, <1>10, ComponentsAssumption
    <3>2. L - 1 \in 2..L
      BY <3>1, <1>1
    <3>3. L = L - 1
      BY <2>1, <3>2, <1>1, <1>8 DEF FrameOf
    <3> QED
      BY <3>3, <1>1
  <2> QED
    BY <2>1
<1>12. ASSUME NEW i \in 2..L - 1 PROVE FrameOf(i)'
  <2>1. FrameOf(i) /\ stack'[i].name = stack[i].name /\ stack'[i].isNew = stack[i].isNew /\ stack'[i].todo = stack[i].todo
    BY <1>4, <1>8
  <2>2. stack[i].isNew => stack[i].name # n
    BY <1>1, <1>2, <1>8 DEF FrameOf
  <2>3. (stack[i].name \in DOMAIN componentMap)' /\ (stack[i].isNew <=> componentMap[stack[i].name] = Nil)'
    BY <2>1, <2>2, <1>5 DEF FrameOf
  <2>4. (Listed(stack[i].todo) \subseteq May(stack[i].name))'
    BY <2>1, <1>6 DEF FrameOf
  <2>5. ASSUME stack[i].isNew
        PROVE  (Counts(stack[i].name, stack[i].deps) /\ DOMAIN stack[i].deps \subseteq May(stack[i].name))'
    <3>0. PICK s, bag : s = stack[i].name /\ bag = stack[i].deps
      OBVIOUS
    <3>1. Counts(s, bag) /\ DOMAIN bag \subseteq May(s) /\ bag \in Comp!Requested
      BY <2>1, <2>5, <3>0, <1>8 DEF FrameOf
    <3>2. CASE i = L - 1
      <4>1. s = m /\ Direct /\ stack'[i].deps = Comp!BagAdd(bag, n)
        BY <2>5, <3>0, <3>2, <1>0, <1>1, <1>4, <1>8 DEF Direct
      <4>2. Counts(m, Comp!BagAdd(bag, n))'
        BY <3>1, <4>1, <1>3
      <4>3. DOMAIN Comp!BagAdd(bag, n) = DOMAIN bag \cup {n}
        BY <3>1, <1>2, AddRequest DEF Everyone
      <4>4. n \in May(m)
        BY <3>2, <1>1, <1>9
      <4>5. stack'[i].name = m /\ stack'[i].deps = Comp!BagAdd(bag, n)
        BY <2>1, <3>0, <4>1
      <4>6. Counts(stack[i].name, stack[i].deps)'
        BY <4>2, <4>5 DEF Counts
      <4> QED
        BY <3>1, <4>1, <4>3, <4>4, <4>5, <4>6, <1>6
    <3>3. CASE i # L - 1
      <4>1. stack'[i].deps = bag /\ stack'[i].name = s
        BY <3>0, <3>3, <2>1, <1>4, <1>8
      <4>2. s # m
        <5>1. CASE L - 1 = 1
          BY <5>1, <3>0, <1>8, <1>10
        <5>2. CASE L - 1 # 1
          <6>1. L - 1 \in 2..Len(stack)
            BY <5>2, <1>1
          <6> QED
            BY <6>1, <2>1, <2>5, <3>0, <3>3, <1>8 DEF FrameOf
        <5> QED
          BY <5>1, <5>2
      <4>3. Counts(s, bag)'
        BY <3>1, <4>2, <1>3
      <4>4. Counts(stack[i].name, stack[i].deps)'
        BY <4>1, <4>3 DEF Counts
      <4> QED
        BY <3>1, <4>1, <4>4, <1>6
    <3> QED
      BY <3>2, <3>3
  <2>6. ASSUME stack[i].isNew, NEW j \in 2..L - 1, stack'[i].name = stack'[j].name PROVE i = j
    BY <2>1, <2>6, <1>1, <1>4, <1>8 DEF FrameOf
  <2> QED
    BY <2>1, <2>3, <2>4, <2>5, <2>6, <1>4 DEF FrameOf
<1>13. ASSUME NEW i \in 2..Len(stack') - 1 PROVE (stack[i + 1].name \in May(stack[i].name))'
  <2>1. i \in 1..L - 1 /\ i + 1 \in 1..L - 1 /\ i \in 2..L - 1
    BY <1>1, <1>4
  <2>2. stack[i + 1].name \in May(stack[i].name)
    BY <2>1, <1>1 DEF Resolving
  <2> QED
    BY <2>1, <2>2, <1>4, <1>6
<1>14. ASSUME NEW c \in DOMAIN componentMap'
       PROVE  IF componentMap'[c] = Nil THEN \E i \in 2..Len(stack') : stack'[i].name = c ELSE EntryOf(c)'
  <2>1. c \in DOMAIN componentMap
    BY <1>5
  <2>2. CASE componentMap'[c] = Nil
    <3>1. c # n /\ componentMap[c] = Nil
      BY <2>1, <2>2, <1>5
    <3>2. PICK i \in 2..L : stack[i].name = c
      BY <2>1, <3>1, <1>1 DEF Resolving
    <3>3. i \in 2..L - 1
      BY <3>1, <3>2, <1>1, <1>8
    <3> QED
      BY <2>2, <3>2, <3>3, <1>4, <1>8
  <2>3. CASE componentMap'[c] # Nil
    <3>0. PICK b : b = IF c = n /\ stack[L].isNew THEN stack[L].deps ELSE componentMap[c].deps
      OBVIOUS
    <3>1. /\ componentMap'[c].requesters =
                IF c # n THEN componentMap[c].requesters
                ELSE Comp!BagAdd(IF stack[L].isNew THEN Comp!NoRequests ELSE componentMap[c].requesters, m)
          /\ componentMap'[c].deps = IF c = m /\ ~Direct THEN Comp!BagAdd(b, n) ELSE b
      BY <3>0, <2>1, <2>3, <1>0, <1>1, <1>5 DEF Returned
    <3>2. c # n \/ ~stack[L].isNew => EntryOf(c) /\ componentMap[c].deps \in Comp!Requested /\ componentMap[c].requesters \in Comp!Requested
      BY <2>1, <2>3, <1>2, <1>5, EntryNotNil DEF Resolving
    <3>3. b \in Comp!Requested /\ Counts(c, b) /\ DOMAIN b \subseteq May(c)
      BY <3>0, <3>2, <1>1, <1>2, <1>8 DEF EntryOf, FrameOf
    <3>4. DOMAIN componentMap'[c].requesters \subseteq DOMAIN componentMap \cup {Main}
      <4>1. m \in DOMAIN componentMap \cup {Main}
        <5>1. L - 1 = 1 \/ L - 1 \in 2..L - 1
          BY <1>1
        <5> QED
          BY <5>1, <1>8, <1>10 DEF FrameOf
      <4>2. \A q \in Comp!Requested : DOMAIN Comp!BagAdd(q, m) = DOMAIN q \cup {m}
        BY <1>2, AddRequest
      <4>3. DOMAIN Comp!NoRequests = {}
        BY DEF Comp!NoRequests
      <4> QED
        BY <3>1, <3>2, <4>1, <4>2, <4>3, NoneRequested DEF EntryOf
    <3>5. (Counts(c, componentMap[c].deps) /\ DOMAIN componentMap[c].deps \subseteq May(c))'
      <4>1. CASE c # m
        <5>1. Counts(c, b)'
          BY <4>1, <3>3, <1>3
        <5>2. componentMap'[c].deps = b
          BY <4>1, <3>1
        <5> QED
          BY <5>1, <5>2, <3>3, <1>6 DEF Counts
      <4>2. CASE c = m
        <5>1. ~Direct
          <6>1. m # Main /\ L - 1 \in 2..L - 1
            BY <4>2, <2>1, <1>1, <1>10, ComponentsAssumption DEF CompTypes
          <6>2. ~stack[L - 1].isNew
            BY <4>2, <6>1, <2>3, <1>2, <1>5, <1>8, <1>11, <1>1 DEF FrameOf
          <6> QED
            BY <6>1, <6>2, <1>0, <1>1 DEF Direct
        <5>2. componentMap'[c].deps = Comp!BagAdd(b, n)
          BY <4>2, <5>1, <3>1
        <5>3. Counts(c, Comp!BagAdd(b, n))'
          BY <4>2, <3>3, <1>3
        <5>4. DOMAIN Comp!BagAdd(b, n) = DOMAIN b \cup {n}
          BY <3>3, <1>2, AddRequest DEF Everyone
        <5>5. n \in May(c)
          BY <4>2, <5>1, <1>9, <1>10, <1>0 DEF Direct
        <5> QED
          BY <5>2, <5>3, <5>4, <5>5, <3>3, <1>6 DEF Counts
      <4> QED
        BY <4>1, <4>2
    <3> QED
      BY <2>3, <3>4, <3>5, <1>5 DEF EntryOf
  <2> QED
    BY <2>2, <2>3
<1>15. (stack[1].name = Main /\ ~stack[1].isNew /\ Counts(Main, stack[1].deps))'
  <2>0. PICK bag : bag = stack[1].deps
    OBVIOUS
  <2>1. stack[1].name = Main /\ ~stack[1].isNew /\ Counts(Main, bag)
    BY <2>0 DEF Resolving
  <2>2. stack'[1].name = Main /\ ~stack'[1].isNew
    BY <2>1, <1>1, <1>4
  <2>3. CASE L - 1 = 1
    <3>1. m = Main /\ Direct /\ stack'[1].deps = Comp!BagAdd(bag, n)
      BY <2>0, <2>3, <1>0, <1>1, <1>4, <1>10 DEF Direct
    <3>2. bag \in Comp!Requested
      <4>1. stack[1] \in Frames
        BY <1>1 DEF CompTypes
      <4> QED
        BY <2>0, <4>1 DEF Frames
    <3>3. Counts(Main, Comp!BagAdd(bag, n))'
      BY <2>1, <3>1, <3>2, <1>3
    <3> QED
      BY <2>2, <3>1, <3>3 DEF Counts
  <2>4. CASE L - 1 # 1
    <3>1. m # Main /\ stack'[1].deps = bag
      BY <2>0, <2>4, <1>1, <1>4, <1>10
    <3>2. Counts(Main, bag)'
      BY <2>1, <3>1, <1>3
    <3> QED
      BY <2>2, <3>1, <3>2 DEF Counts
  <2> QED
    BY <2>3, <2>4
<1> QED
  BY <1>4, <1>7, <1>12, <1>13, <1>14, <1>15 DEF Resolving


-----------------------------------------------------------------------------
(* Every set of natural numbers that is not empty has a least element. *)
Below == {p \in Nat \X Nat : p[1] < p[2]}

LEMMA BelowWF == IsWellFoundedOn(Below, Nat)
  BY NatLessThanWellFounded DEF OpToRel, Below

LEMMA LeastNumber == ASSUME NEW T, T \subseteq Nat, T # {} PROVE \E x \in T : \A y \in T : x <= y
<1>1. PICK x \in T : \A y \in T : ~(<<y, x>> \in Below)
  BY BelowWF, WFMin
<1>2. \A y \in T : ~(y < x)
  BY <1>1 DEF Below
<1> QED
  BY <1>2

(* So has one that is bounded a greatest element. *)
LEMMA GreatestNumber ==
    ASSUME NEW n \in Nat, NEW T, T \subseteq 0..n, T # {}
    PROVE  \E x \in T : \A y \in T : y <= x
<1> DEFINE D == {n - y : y \in T}
<1>1. D \subseteq Nat /\ D # {}
  <2>1. \A y \in T : n - y \in Nat
    OBVIOUS
  <2>2. D \subseteq Nat
    BY <2>1
  <2> QED
    BY <2>2
<1>2. PICK d \in D : \A e \in D : d <= e
  BY <1>1, LeastNumber
<1>3. PICK x \in T : d = n - x
  BY <1>2
<1>4. ASSUME NEW y \in T PROVE y <= x
  <2>1. d <= n - y
    BY <1>2
  <2> QED
    BY <2>1, <1>3
<1> QED
  BY <1>3, <1>4

(* A chain of requests that comes back to where it began. *)
Cycle == \E c \in ComponentNames : c \in Comp!Reach(Comp!Requests(c), [d \in ComponentNames |-> Comp!Requests(d)])

LEMMA Round ==
    ASSUME declarations \in Declarations, NEW i \in Nat, NEW j \in Nat, i <= j, NEW f,
           \A k \in i..j : f[k] \in ComponentNames, \A k \in i..j - 1 : f[k + 1] \in May(f[k]), f[i] \in May(f[j])
    PROVE  Cycle
<1> DEFINE edges == [d \in ComponentNames |-> Comp!Requests(d)]
<1>1. \A c \in ComponentNames : Comp!Requests(c) = May(c)
  BY DeclaredLists
<1>2. i \in i..j /\ j \in i..j
  OBVIOUS
<1>3. ASSUME NEW T \in SUBSET ComponentNames, Comp!Requests(f[i]) \subseteq T,
             \A c \in T \cap DOMAIN edges : edges[c] \subseteq T
      PROVE  f[i] \in T
  <2>1. \A c \in T : May(c) \subseteq T
    BY <1>1, <1>3
  <2> DEFINE bad == {k \in i..j : ~(May(f[k]) \subseteq T)}
  <2>2. bad = {}
    <3> SUFFICES ASSUME bad # {} PROVE FALSE
      OBVIOUS
    <3>1. bad \subseteq Nat
      OBVIOUS
    <3>2. PICK k \in bad : \A l \in bad : k <= l
      BY <3>1, LeastNumber
    <3>3. k # i
      BY <3>2, <1>1, <1>2, <1>3
    <3>4. k - 1 \in i..j - 1 /\ k - 1 \in i..j /\ (k - 1) + 1 = k /\ ~(k <= k - 1)
      BY <3>2, <3>3
    <3>5. May(f[k - 1]) \subseteq T
      BY <3>2, <3>4
    <3>6. f[k] \in T
      BY <3>4, <3>5
    <3> QED
      BY <3>2, <3>6, <2>1
  <2> QED
    BY <2>2, <1>2
<1> QED
  BY <1>2, <1>3 DEF Cycle, Comp!Reach


(* As many calls as the stack holds are for more components than there are. *)
LEMMA DeepStack == ASSUME CompTypes, Resolving, Len(stack) = MaxStack PROVE Cycle
<1>0. PICK L \in Nat : L = Len(stack) /\ L > Cardinality(ComponentNames) + 1 /\ L >= 1
  BY ComponentsAssumption DEF CompTypes
<1> DEFINE f == [k \in 2..L |-> stack[k].name]
<1>1. \A k \in 2..L : f[k] \in ComponentNames
  BY <1>0 DEF Resolving, FrameOf, CompTypes
<1>2. \A k \in 2..L - 1 : f[k + 1] \in May(f[k])
  <2>1. \A k \in 2..L - 1 : k \in 2..L /\ k + 1 \in 2..L
    BY <1>0
  <2> QED
    BY <2>1, <1>0 DEF Resolving
<1>3. f \in [2..L -> ComponentNames]
  BY <1>1
<1>4. IsFiniteSet(2..L) /\ Cardinality(ComponentNames) < Cardinality(2..L)
  <2>1. IsFiniteSet(2..L) /\ Cardinality(2..L) = IF 2 > L THEN 0 ELSE L - 2 + 1
    <3>1. 2 \in Int /\ L \in Int
      BY <1>0
    <3> QED
      BY <3>1, FS_Interval, Zenon
  <2>2. Cardinality(ComponentNames) \in Nat
    BY ComponentsAssumption, FS_CardinalityType
  <2> QED
    BY <2>1, <2>2, <1>0
<1> HIDE DEF f
<1>5. PICK x, y \in 2..L : x # y /\ f[x] = f[y]
  BY <1>3, <1>4, ComponentsAssumption, FS_PigeonHole
<1>6. ASSUME NEW i \in 2..L, NEW j \in 2..L, i < j, f[i] = f[j] PROVE Cycle
  <2>1. i \in Nat /\ j - 1 \in Nat /\ i <= j - 1 /\ j - 1 \in 2..L - 1 /\ (j - 1) + 1 = j
    BY <1>0, <1>6
  <2>2. \A k \in i..j - 1 : k \in 2..L
    BY <1>0, <1>6
  <2>3. \A k \in i..(j - 1) - 1 : k \in 2..L - 1
    BY <1>0, <1>6
  <2>4. f[i] \in May(f[j - 1])
    BY <2>1, <1>2, <1>6
  <2>5. \A k \in i..j - 1 : f[k] \in ComponentNames
    BY <2>2, <1>1
  <2>6. \A k \in i..(j - 1) - 1 : f[k + 1] \in May(f[k])
    BY <2>3, <1>2
  <2>7. PICK l \in Nat : l = j - 1 /\ i <= l
    BY <2>1
  <2> QED
    BY <2>1, <2>4, <2>5, <2>6, <2>7, Round DEF CompTypes
<1>7. x < y \/ y < x
  BY <1>5
<1> QED
  BY <1>5, <1>6, <1>7

(* A component that is requested while it is being resolved. *)
LEMMA Recursion ==
    ASSUME CompTypes, Resolving, NEW n \in DOMAIN componentMap, componentMap[n] = Nil, n \in Listed(stack[Len(stack)].todo)
    PROVE  Cycle
<1>0. PICK L \in Nat : L = Len(stack)
  BY DEF CompTypes
<1> DEFINE f == [k \in 2..L |-> stack[k].name]
<1>1. PICK i \in 2..L : stack[i].name = n
  BY <1>0 DEF Resolving
<1>2. \A k \in 2..L : f[k] \in ComponentNames
  BY <1>0 DEF Resolving, FrameOf, CompTypes
<1>3. \A k \in 2..L - 1 : k \in 2..L /\ k + 1 \in 2..L
  BY <1>0
<1>4. \A k \in 2..L - 1 : f[k + 1] \in May(f[k])
  BY <1>3, <1>0 DEF Resolving
<1>5. L \in 2..L /\ i \in Nat /\ i <= L
  BY <1>0, <1>1
<1>6. f[i] \in May(f[L])
  BY <1>0, <1>1, <1>5 DEF Resolving, FrameOf
<1>7. \A k \in i..L : k \in 2..L
  BY <1>0, <1>1
<1>8. \A k \in i..L - 1 : k \in 2..L - 1
  BY <1>0, <1>1
<1> HIDE DEF f
<1>9. (\A k \in i..L : f[k] \in ComponentNames) /\ (\A k \in i..L - 1 : f[k + 1] \in May(f[k]))
  BY <1>2, <1>4, <1>7, <1>8
<1> QED
  BY <1>5, <1>6, <1>9, Round DEF CompTypes


(* How the components are sorted. *)
Distinct(q) == \A i, j \in 1..Len(q) : q[i] = q[j] => i = j

Ordered ==
    \A i \in 1..Len(sorted) : sorted[i] \in DOMAIN componentMap =>
        \A d \in DOMAIN componentMap[sorted[i]].deps : \E j \in 1..i - 1 : sorted[j] = d

Chained == \A i \in 1..Len(path) - 1 : path[i + 1] \in DOMAIN componentMap[path[i]].deps

Sorting ==
    /\ path \in Seq(ComponentNames) /\ sorted \in Seq(ComponentNames)
    /\ entered = Listed(path) \cup Listed(sorted) /\ Listed(path) \cap Listed(sorted) = {}
    /\ Distinct(path) /\ Distinct(sorted) /\ Ordered /\ Chained
    /\ Listed(path) \subseteq DOMAIN componentMap
    /\ phase # "sort" => path = <<>> /\ DOMAIN componentMap \subseteq Listed(sorted)

(* Every component has an entry, and main is counted like the others. *)
Settled ==
    /\ \A c \in DOMAIN componentMap : componentMap[c] # Nil /\ EntryOf(c)
    /\ IF phase \in {"sort", "flags"} THEN Counts(Main, stack[1].deps)
       ELSE \A d \in Everyone : d \in fromMain /\ d \in DOMAIN stack[1].deps <=> RequestsBy(Main, d) # 0

(* How far the components are. *)
Lifecycle ==
    /\ status = [c \in ComponentNames |-> status[c]]
    /\ phase \in {"resolve", "sort", "flags", "shake", "panic"} => \A c \in ComponentNames : status[c] = "none"
    /\ phase = "init" => \A c \in ComponentNames : status[c] \in {"none", "initialized"}
    /\ phase = "start" => \A c \in DOMAIN componentMap : status[c] \in {"initialized", "started", "startError"}
    /\ phase = "run" => \A c \in DOMAIN componentMap : status[c] \in {"started", "joined"}
    /\ phase \notin {"run", "exited", "failed"} => \A c \in ComponentNames : status[c] # "joined"

CompInv ==
    /\ CompTypes /\ Lifecycle
    /\ phase = "resolve" => Resolving /\ path = <<>> /\ sorted = <<>> /\ entered = {}
    /\ phase \notin {"resolve", "panic"} => Settled /\ Sorting
    /\ Comp!PanicMeansCycle /\ Comp!EnabledExactly /\ Comp!DepsInitialized /\ Comp!JoinedAfterDependents

LEMMA RequestTyped ==
    ASSUME CompTypes, Comp!Request
    PROVE  /\ Comp!Last(stack) = stack[Len(stack)] /\ stack[Len(stack)].todo # <<>>
           /\ stack[Len(stack)].todo \in Seq(ComponentNames)
           /\ Head(stack[Len(stack)].todo) \in ComponentNames
           /\ Head(stack[Len(stack)].todo) \in Listed(stack[Len(stack)].todo)
           /\ UNCHANGED declarations
<1>1. Comp!Last(stack) = stack[Len(stack)]
  BY DEF Comp!Last
<1>2. stack[Len(stack)] \in Frames
  BY DEF CompTypes
<1>3. stack[Len(stack)].todo \in Seq(ComponentNames) /\ stack[Len(stack)].todo # <<>>
  BY <1>1, <1>2 DEF Comp!Request, Frames
<1> QED
  BY <1>1, <1>3 DEF Comp!Request, Listed

LEMMA RequestStep ==
    ASSUME CompInv, Comp!Request
    PROVE  \/ CompTypes' /\ Resolving' /\ UNCHANGED phase
           \/ CompTypes' /\ Cycle /\ phase' = "panic"
<1> DEFINE n == Head(stack[Len(stack)].todo)
<1>1. CompTypes /\ Resolving
  BY DEF CompInv, Comp!Request
<1>2. /\ Comp!Last(stack) = stack[Len(stack)] /\ stack[Len(stack)].todo # <<>>
      /\ stack[Len(stack)].todo \in Seq(ComponentNames)
      /\ n \in ComponentNames /\ n \in Listed(stack[Len(stack)].todo) /\ UNCHANGED declarations
  BY <1>1, RequestTyped
<1>3. declarations[n].deps \in Seq(ComponentNames) /\ declarations[n].merge \in Seq(ComponentNames)
  BY <1>1, <1>2, DeclaredLists DEF CompTypes
<1>4. CASE n \notin DOMAIN componentMap
  <2> DEFINE f == Comp!Frame(n, declarations[n].deps, TRUE)
  <2>1. f \in Frames /\ f = [name |-> n, todo |-> declarations[n].deps, isNew |-> TRUE, deps |-> Comp!NoRequests]
    BY <1>2, <1>3, FrameTyped DEF Everyone
  <2>2. /\ stack' = Append([stack EXCEPT ![Len(stack)].todo = Tail(@)], f)
        /\ componentMap' = [c \in DOMAIN componentMap \cup {n} |-> IF c = n THEN Nil ELSE componentMap[c]]
        /\ UNCHANGED phase
    BY <1>2, <1>4 DEF Comp!Request
  <2> HIDE DEF f
  <2>3. f.name = n /\ f.todo = declarations[n].deps /\ f.isNew /\ f.deps = Comp!NoRequests
    BY <2>1
  <2>4. Called(f)
    BY <1>1, <1>2, <2>1, <2>2, <2>3, CallMade DEF CompTypes
  <2>5. PICK g, m : g = f /\ m = n
    OBVIOUS
  <2> HIDE DEF n
  <2>6. Called(g) /\ m = g.name /\ m \notin DOMAIN componentMap
    BY <2>3, <2>4, <2>5, <1>4
  <2>7. g.todo = declarations[m].deps /\ g.isNew /\ g.deps = Comp!NoRequests
    BY <2>3, <2>5
  <2>8. componentMap' = [c \in DOMAIN componentMap \cup {m} |-> IF c = m THEN Nil ELSE componentMap[c]]
    BY <2>2, <2>5
  <2>9. CompTypes' /\ Resolving'
    BY <2>6, <2>7, <2>8, <1>1, <1>2, FirstRequest
  <2> QED
    BY <2>2, <2>9
<1>5. CASE n \in DOMAIN componentMap /\ (componentMap[n] = Nil \/ Len(stack) = MaxStack)
  <2>1. phase' = "panic" /\ UNCHANGED <<componentMap, stack>>
    BY <1>2, <1>5 DEF Comp!Request
  <2>2. Cycle
    BY <1>1, <1>2, <1>5, DeepStack, Recursion
  <2>3. CompTypes'
    BY <1>1, <1>2, <2>1 DEF CompTypes, Frames, Comp!Entries, Comp!Requested
  <2> QED
    BY <2>1, <2>2, <2>3
<1>6. CASE n \in DOMAIN componentMap /\ componentMap[n] # Nil /\ Len(stack) # MaxStack
  <2> DEFINE f == Comp!Frame(n, declarations[n].merge, FALSE)
  <2>1. f \in Frames /\ f = [name |-> n, todo |-> declarations[n].merge, isNew |-> FALSE, deps |-> Comp!NoRequests]
    BY <1>2, <1>3, FrameTyped DEF Everyone
  <2>2. stack' = Append([stack EXCEPT ![Len(stack)].todo = Tail(@)], f) /\ UNCHANGED componentMap /\ UNCHANGED phase
    BY <1>2, <1>6 DEF Comp!Request
  <2> HIDE DEF f
  <2>3. f.name = n /\ f.todo = declarations[n].merge /\ ~f.isNew
    BY <2>1
  <2>4. Called(f)
    BY <1>1, <1>2, <2>1, <2>2, <2>3, CallMade DEF CompTypes
  <2>5. PICK g, m : g = f /\ m = n
    OBVIOUS
  <2> HIDE DEF n
  <2>6. Called(g) /\ m = g.name /\ m \in DOMAIN componentMap /\ componentMap[m] # Nil
    BY <2>3, <2>4, <2>5, <1>6
  <2>7. g.todo = declarations[m].merge /\ ~g.isNew
    BY <2>3, <2>5
  <2>9. CompTypes' /\ Resolving'
    BY <2>2, <2>6, <2>7, <1>1, <1>2, RepeatedRequest
  <2> QED
    BY <2>2, <2>9
<1> QED
  BY <1>4, <1>5, <1>6


Before == {"resolve", "sort", "flags", "shake", "panic"}

(* Until the components are initialised. *)
LEMMA NotStarted ==
    ASSUME CompInv, phase \in Before, UNCHANGED status, CompTypes', phase' \in Before
    PROVE  Lifecycle' /\ Comp!EnabledExactly' /\ Comp!DepsInitialized' /\ Comp!JoinedAfterDependents'
<1>1. status' = [c \in ComponentNames |-> status'[c]] /\ \A c \in ComponentNames : status'[c] = "none"
  BY DEF CompInv, Lifecycle, Before
<1>2. DOMAIN componentMap' \subseteq ComponentNames
  BY DEF CompTypes
<1>3. Lifecycle'
  BY <1>1 DEF Lifecycle, Before
<1>4. Comp!EnabledExactly'
  BY DEF Comp!EnabledExactly, Before
<1>5. Comp!DepsInitialized' /\ Comp!JoinedAfterDependents'
  BY <1>1, <1>2 DEF Comp!DepsInitialized, Comp!JoinedAfterDependents
<1> QED
  BY <1>3, <1>4, <1>5

LEMMA RequestKeeps == ASSUME CompInv, Comp!Request PROVE CompInv'
<1>0. phase = "resolve" /\ UNCHANGED <<declarations, entered, path, sorted, status>>
  BY DEF Comp!Request, Comp!sorting, Comp!lifecycle
<1>1. CompTypes' /\ phase' \in Before /\ (phase' = "resolve" => Resolving') /\ phase' \in {"resolve", "panic"}
  BY <1>0, RequestStep DEF Before
<1>2. phase' = "panic" => Cycle
  BY <1>0, RequestStep
<1>3. Comp!PanicMeansCycle'
  BY <1>0, <1>2 DEF Comp!PanicMeansCycle, Cycle, Comp!Reach, Comp!Requests
<1>4. Lifecycle' /\ Comp!EnabledExactly' /\ Comp!DepsInitialized' /\ Comp!JoinedAfterDependents'
  BY <1>0, <1>1, NotStarted DEF Before
<1>5. (path = <<>> /\ sorted = <<>> /\ entered = {})'
  BY <1>0 DEF CompInv
<1> QED
  BY <1>1, <1>3, <1>4, <1>5 DEF CompInv

LEMMA ReturnKeeps == ASSUME CompInv, Comp!Return PROVE CompInv'
<1>0. phase = "resolve" /\ Len(stack) > 1 /\ UNCHANGED <<declarations, phase, entered, path, sorted, status>>
  BY DEF Comp!Return, Comp!sorting, Comp!lifecycle
<1>1. CompTypes' /\ Resolving'
  BY <1>0, ReturnMade, ReturnStep DEF CompInv
<1>3. Comp!PanicMeansCycle'
  BY <1>0 DEF Comp!PanicMeansCycle
<1>4. Lifecycle' /\ Comp!EnabledExactly' /\ Comp!DepsInitialized' /\ Comp!JoinedAfterDependents'
  BY <1>0, <1>1, NotStarted DEF Before
<1>5. (path = <<>> /\ sorted = <<>> /\ entered = {})'
  BY <1>0 DEF CompInv
<1> QED
  BY <1>0, <1>1, <1>3, <1>4, <1>5 DEF CompInv

(* What depends on the entries and requests only. *)
LEMMA SameEntries ==
    ASSUME UNCHANGED <<declarations, stack, componentMap>>
    PROVE  /\ CompTypes' <=> CompTypes
           /\ \A c : EntryOf(c)' <=> EntryOf(c)
           /\ \A x, bag : Counts(x, bag)' <=> Counts(x, bag)
           /\ \A x, d : RequestsBy(x, d)' = RequestsBy(x, d)
<1>1. \A x, d : RequestsBy(x, d)' = RequestsBy(x, d)
  BY DEF RequestsBy, Resolved
<1>2. \A x, bag : Counts(x, bag)' <=> Counts(x, bag)
  BY <1>1 DEF Counts
<1>3. \A c : EntryOf(c)' <=> EntryOf(c)
  BY <1>2 DEF EntryOf, May
<1>4. CompTypes' <=> CompTypes
  BY DEF CompTypes, Frames, Comp!Entries, Comp!Requested
<1> QED
  BY <1>1, <1>2, <1>3, <1>4

LEMMA ResolveDoneKeeps == ASSUME CompInv, Comp!ResolveDone PROVE CompInv'
<1>0. /\ phase = "resolve" /\ phase' = "sort" /\ Len(stack) = 1
      /\ UNCHANGED <<declarations, stack, componentMap, entered, path, sorted, status>>
  BY DEF Comp!ResolveDone, Comp!sorting, Comp!lifecycle
<1>1. CompTypes /\ Resolving /\ path = <<>> /\ sorted = <<>> /\ entered = {}
  BY <1>0 DEF CompInv
<1>2. CompTypes'
  BY <1>0, <1>1, SameEntries
<1>3. \A c \in DOMAIN componentMap : componentMap[c] # Nil /\ EntryOf(c)
  <2>1. \A i \in 2..Len(stack) : FALSE
    BY <1>0
  <2> QED
    BY <2>1, <1>1 DEF Resolving
<1>4. Counts(Main, stack[1].deps)'
  BY <1>0, <1>1, SameEntries DEF Resolving
<1>5. Settled'
  BY <1>0, <1>3, <1>4, SameEntries DEF Settled
<1>6. Listed(path') = {} /\ Listed(sorted') = {} /\ path' = <<>> /\ sorted' = <<>> /\ entered' = {}
  BY <1>0, <1>1 DEF Listed
<1>7. Sorting'
  BY <1>0, <1>6 DEF Sorting, Distinct, Ordered, Chained
<1>8. Lifecycle' /\ Comp!EnabledExactly' /\ Comp!DepsInitialized' /\ Comp!JoinedAfterDependents'
  BY <1>0, <1>2, NotStarted DEF Before
<1>9. Comp!PanicMeansCycle'
  BY <1>0 DEF Comp!PanicMeansCycle
<1> QED
  BY <1>0, <1>2, <1>5, <1>7, <1>8, <1>9 DEF CompInv


LEMMA ListedAppend ==
    ASSUME NEW S, NEW q \in Seq(S), NEW e \in S
    PROVE  /\ Listed(Append(q, e)) = Listed(q) \cup {e}
           /\ Distinct(q) /\ e \notin Listed(q) => Distinct(Append(q, e))
<1> DEFINE a == Append(q, e)
<1>0. PICK n \in Nat : n = Len(q)
  OBVIOUS
<1>1. Len(a) = n + 1 /\ a[n + 1] = e /\ (\A i \in 1..n : a[i] = q[i]) /\ 1..n + 1 = (1..n) \cup {n + 1}
  BY <1>0, Appended
<1> HIDE DEF a
<1>2. Listed(a) = Listed(q) \cup {e}
  BY <1>0, <1>1 DEF Listed
<1>3. Distinct(q) /\ e \notin Listed(q) => Distinct(a)
  BY <1>0, <1>1 DEF Listed, Distinct
<1> QED
  BY <1>2, <1>3 DEF a

LEMMA ListedFront ==
    ASSUME NEW S, NEW q \in Seq(S), q # <<>>, Distinct(q)
    PROVE  Listed(Comp!Front(q)) = Listed(q) \ {q[Len(q)]} /\ Distinct(Comp!Front(q)) /\ q[Len(q)] \in Listed(q)
<1> DEFINE a == Comp!Front(q)
<1>0. PICK n \in Nat : n = Len(q)
  OBVIOUS
<1>1. Len(a) = n - 1 /\ n >= 1 /\ (\A i \in 1..n - 1 : a[i] = q[i])
  BY <1>0, FrontFacts
<1> HIDE DEF a
<1>2. 1..n = (1..n - 1) \cup {n} /\ (\A i \in 1..n - 1 : i # n /\ i \in 1..n) /\ n \in 1..n
  BY <1>1
<1>3. Listed(a) = {q[i] : i \in 1..n - 1}
  BY <1>1 DEF Listed
<1>4. Listed(q) = {q[i] : i \in 1..n - 1} \cup {q[n]}
  BY <1>0, <1>2 DEF Listed
<1>5. q[n] \notin {q[i] : i \in 1..n - 1}
  BY <1>0, <1>2 DEF Distinct
<1>6. Distinct(a)
  BY <1>0, <1>1, <1>2 DEF Distinct
<1> QED
  BY <1>0, <1>2, <1>3, <1>4, <1>5, <1>6 DEF a

LEMMA DepsKept ==
    ASSUME CompTypes, Settled, NEW c \in DOMAIN componentMap
    PROVE  /\ componentMap[c] \in Comp!Entries
           /\ componentMap[c].deps \in Comp!Requested /\ componentMap[c].requesters \in Comp!Requested
           /\ DOMAIN componentMap[c].deps \subseteq DOMAIN componentMap
           /\ DOMAIN componentMap[c].deps \subseteq May(c)
           /\ DOMAIN componentMap[c].requesters \subseteq DOMAIN componentMap \cup {Main}
           /\ \A d \in DOMAIN componentMap :
                 /\ Comp!Copies(d, componentMap[c].deps) = Comp!Copies(c, componentMap[d].requesters)
                 /\ d \in DOMAIN componentMap[c].deps <=> c \in DOMAIN componentMap[d].requesters
<1>1. \A d \in DOMAIN componentMap :
         componentMap[d] \in Comp!Entries /\ componentMap[d].deps \in Comp!Requested /\ componentMap[d].requesters \in Comp!Requested
  BY EntryNotNil DEF CompTypes, Settled
<1>2. EntryOf(c)
  BY DEF Settled
<1>3. \A x \in Everyone : x \in DOMAIN componentMap[c].deps <=> RequestsBy(c, x) # 0
  BY <1>1, <1>2, CopiesFacts DEF EntryOf, Counts
<1>4. \A d \in DOMAIN componentMap : RequestsBy(c, d) = Comp!Copies(c, componentMap[d].requesters) /\ d \in Everyone
  BY DEF RequestsBy, Resolved, Settled, CompTypes, Everyone
<1>5. DOMAIN componentMap[c].deps \subseteq Everyone
  BY <1>1, CopiesFacts
<1>6. DOMAIN componentMap[c].deps \subseteq DOMAIN componentMap
  BY <1>3, <1>5 DEF RequestsBy, Resolved
<1>7. \A d \in DOMAIN componentMap : c \in DOMAIN componentMap[d].requesters <=> Comp!Copies(c, componentMap[d].requesters) # 0
  BY <1>1, CopiesFacts
<1>8. \A d \in DOMAIN componentMap : Comp!Copies(d, componentMap[c].deps) = Comp!Copies(c, componentMap[d].requesters)
  BY <1>2, <1>4 DEF EntryOf, Counts
<1> QED
  BY <1>1, <1>2, <1>3, <1>4, <1>6, <1>7, <1>8 DEF EntryOf

(* A component that is entered again before it is listed. *)
LEMMA SortRecursion ==
    ASSUME CompTypes, Settled, Sorting, path # <<>>, NEW c \in Listed(path), c \in DOMAIN componentMap[path[Len(path)]].deps
    PROVE  Cycle
<1>0. PICK n \in Nat : n = Len(path) /\ n >= 1 /\ n \in 1..n
  BY DEF Sorting
<1>1. PICK i \in 1..n : path[i] = c
  BY <1>0 DEF Listed
<1>2. \A k \in 1..n : path[k] \in DOMAIN componentMap /\ path[k] \in ComponentNames
  BY <1>0 DEF Sorting, Listed, CompTypes
<1>3. \A k \in 1..n : DOMAIN componentMap[path[k]].deps \subseteq May(path[k])
  BY <1>2, DepsKept
<1>4. \A k \in 1..n - 1 : path[k + 1] \in May(path[k])
  <2>1. \A k \in 1..n - 1 : k \in 1..n
    BY <1>0
  <2> QED
    BY <2>1, <1>0, <1>3 DEF Sorting, Chained
<1>5. path[i] \in May(path[n])
  BY <1>0, <1>1, <1>3
<1>6. i \in Nat /\ i <= n /\ (\A k \in i..n : k \in 1..n) /\ (\A k \in i..n - 1 : k \in 1..n - 1)
  BY <1>0, <1>1
<1>7. (\A k \in i..n : path[k] \in ComponentNames) /\ (\A k \in i..n - 1 : path[k + 1] \in May(path[k]))
  BY <1>2, <1>4, <1>6
<1> QED
  BY <1>0, <1>5, <1>6, <1>7, Round DEF CompTypes

LEMMA VisitKeeps == ASSUME CompInv, Comp!Visit PROVE CompInv'
<1>0. phase = "sort" /\ UNCHANGED <<declarations, stack, componentMap, status>>
  BY DEF Comp!Visit, Comp!lifecycle
<1>1. CompTypes /\ Settled /\ Sorting
  BY <1>0 DEF CompInv
<1>2. CompTypes'
  BY <1>0, <1>1, SameEntries
<1>3. PICK c : Comp!Enter(c) /\ IF path = <<>> THEN c \in Comp!Pending ELSE c \in Comp!DepsOf(Comp!Last(path))
  BY DEF Comp!Visit
<1>4. c \in DOMAIN componentMap /\ c \notin Listed(sorted) /\ c \in ComponentNames
  BY <1>1, <1>3, SetListed DEF Comp!Enter, Comp!Pending, Sorting, CompTypes
<1>5. Comp!Last(path) = path[Len(path)]
  BY DEF Comp!Last
<1>6. CASE c \in entered
  <2>1. c \in Listed(path)
    BY <1>1, <1>4, <1>6 DEF Sorting
  <2>2. path # <<>>
    BY <2>1 DEF Listed
  <2>3. Cycle
    BY <2>1, <2>2, <1>1, <1>3, <1>5, SortRecursion DEF Comp!DepsOf
  <2>4. phase' = "panic"
    BY <1>3, <1>6 DEF Comp!Enter
  <2>5. Comp!PanicMeansCycle'
    BY <1>0, <2>3 DEF Comp!PanicMeansCycle, Cycle, Comp!Reach, Comp!Requests
  <2>6. Lifecycle' /\ Comp!EnabledExactly' /\ Comp!DepsInitialized' /\ Comp!JoinedAfterDependents'
    BY <1>0, <1>2, <2>4, NotStarted DEF Before
  <2> QED
    BY <2>4, <2>5, <2>6, <1>2 DEF CompInv
<1>7. CASE c \notin entered
  <2>1. phase' = "sort" /\ entered' = entered \cup {c} /\ path' = Append(path, c) /\ sorted' = sorted
    BY <1>0, <1>3, <1>7 DEF Comp!Enter
  <2>2. Settled'
    BY <1>0, <1>1, <2>1, SameEntries DEF Settled
  <2>3. c \notin Listed(path)
    BY <1>1, <1>7 DEF Sorting
  <2>4. PICK n \in Nat : n = Len(path)
    BY <1>1 DEF Sorting
  <2>5. /\ path' \in Seq(ComponentNames) /\ Len(path') = n + 1 /\ path'[n + 1] = c /\ \A i \in 1..n : path'[i] = path[i]
        /\ Listed(path') = Listed(path) \cup {c} /\ Distinct(path')
    BY <2>1, <2>3, <2>4, <1>1, <1>4, Appended, ListedAppend DEF Sorting
  <2>6. ASSUME NEW i \in 1..n PROVE path'[i + 1] \in DOMAIN componentMap[path'[i]].deps
    <3>1. CASE i = n
      <4>1. path # <<>>
        BY <2>4, <3>1
      <4> QED
        BY <3>1, <4>1, <2>4, <2>5, <1>3, <1>5 DEF Comp!DepsOf
    <3>2. CASE i # n
      <4>1. i \in 1..n - 1 /\ i + 1 \in 1..n
        BY <2>4, <3>2
      <4> QED
        BY <4>1, <2>4, <2>5, <1>1 DEF Sorting, Chained
    <3> QED
      BY <3>1, <3>2
  <2>7. Chained'
    <3>1. 1..Len(path') - 1 = 1..n
      BY <2>4, <2>5
    <3> QED
      BY <3>1, <2>6, <1>0 DEF Chained
  <2>8. Ordered'
    BY <2>1, <1>0, <1>1 DEF Ordered, Sorting
  <2>9. Sorting'
    <3>1. Listed(sorted') = Listed(sorted) /\ Distinct(sorted') /\ sorted' \in Seq(ComponentNames)
      BY <2>1, <1>1 DEF Sorting
    <3>2. entered' = Listed(path') \cup Listed(sorted') /\ Listed(path') \cap Listed(sorted') = {}
      BY <3>1, <2>1, <2>5, <1>1, <1>4 DEF Sorting
    <3>3. Listed(path') \subseteq DOMAIN componentMap'
      BY <2>5, <1>0, <1>1, <1>4 DEF Sorting
    <3> QED
      BY <3>1, <3>2, <3>3, <2>1, <2>5, <2>7, <2>8 DEF Sorting
  <2>10. Lifecycle' /\ Comp!EnabledExactly' /\ Comp!DepsInitialized' /\ Comp!JoinedAfterDependents'
    BY <1>0, <1>2, <2>1, NotStarted DEF Before
  <2>11. Comp!PanicMeansCycle'
    BY <2>1 DEF Comp!PanicMeansCycle
  <2> QED
    BY <2>1, <2>2, <2>9, <2>10, <2>11, <1>2 DEF CompInv
<1> QED
  BY <1>6, <1>7


LEMMA LeaveKeeps == ASSUME CompInv, Comp!Leave PROVE CompInv'
<1>0. phase = "sort" /\ path # <<>> /\ UNCHANGED <<declarations, stack, componentMap, phase, entered, status>>
  BY DEF Comp!Leave, Comp!lifecycle
<1>1. CompTypes /\ Settled /\ Sorting /\ path \in Seq(ComponentNames) /\ sorted \in Seq(ComponentNames)
  BY <1>0 DEF CompInv, Sorting
<1>2. CompTypes'
  BY <1>0, <1>1, SameEntries
<1>3. PICK c : c = path[Len(path)]
  OBVIOUS
<1>4. /\ sorted' = Append(sorted, c) /\ path' = Comp!Front(path)
      /\ Comp!DepsOf(c) \cap Comp!Pending = {}
  BY <1>3 DEF Comp!Leave, Comp!Last
<1>5. /\ Listed(path') = Listed(path) \ {c} /\ Distinct(path') /\ path' \in Seq(ComponentNames)
      /\ c \in Listed(path) /\ c \in ComponentNames
      /\ Len(path) \in Nat /\ Len(path') = Len(path) - 1 /\ \A i \in 1..Len(path) - 1 : path'[i] = path[i]
  BY <1>0, <1>1, <1>3, <1>4, ListedFront, FrontFacts DEF Sorting
<1>6. c \in DOMAIN componentMap /\ c \notin Listed(sorted)
  BY <1>1, <1>5 DEF Sorting
<1>7. PICK n \in Nat : n = Len(sorted)
  BY <1>1
<1>8. /\ sorted' \in Seq(ComponentNames) /\ Listed(sorted') = Listed(sorted) \cup {c} /\ Distinct(sorted')
      /\ Len(sorted') = n + 1 /\ sorted'[n + 1] = c /\ \A i \in 1..n : sorted'[i] = sorted[i]
  BY <1>1, <1>4, <1>5, <1>6, <1>7, Appended, ListedAppend DEF Sorting
<1>9. DOMAIN componentMap[c].deps \subseteq Listed(sorted)
  <2>1. DOMAIN componentMap[c].deps \subseteq DOMAIN componentMap
    BY <1>1, <1>6, DepsKept
  <2> QED
    BY <2>1, <1>1, <1>4, SetListed DEF Comp!DepsOf, Comp!Pending
<1>10. Ordered'
  <2> SUFFICES ASSUME NEW i \in 1..n + 1, sorted'[i] \in DOMAIN componentMap, NEW d \in DOMAIN componentMap[sorted'[i]].deps
               PROVE  \E j \in 1..i - 1 : sorted'[j] = d
    BY <1>0, <1>8 DEF Ordered
  <2>1. CASE i = n + 1
    <3>1. PICK j \in 1..n : sorted[j] = d
      BY <2>1, <1>7, <1>8, <1>9 DEF Listed
    <3>2. j \in 1..i - 1
      BY <2>1, <1>7
    <3> QED
      BY <3>1, <3>2, <1>8
  <2>2. CASE i # n + 1
    <3>1. i \in 1..n
      BY <2>2, <1>7
    <3>2. PICK j \in 1..i - 1 : sorted[j] = d
      BY <3>1, <1>1, <1>7, <1>8 DEF Sorting, Ordered
    <3>3. j \in 1..n
      BY <3>1, <1>7
    <3> QED
      BY <3>2, <3>3, <1>8
  <2> QED
    BY <2>1, <2>2
<1>11. Chained'
  <2>1. PICK m \in Nat : m = Len(path)
    BY <1>5
  <2>2. \A i \in 1..(m - 1) - 1 : i \in 1..m - 1 /\ i + 1 \in 1..m - 1
    BY <2>1
  <2>3. \A i \in 1..(m - 1) - 1 : path'[i + 1] \in DOMAIN componentMap[path'[i]].deps
    BY <2>1, <2>2, <1>1, <1>5 DEF Sorting, Chained
  <2> QED
    BY <2>1, <2>3, <1>0, <1>5 DEF Chained
<1>12. Sorting'
  <2>1. entered' = Listed(path') \cup Listed(sorted') /\ Listed(path') \cap Listed(sorted') = {}
        /\ Listed(path') \subseteq DOMAIN componentMap'
    BY <1>0, <1>1, <1>5, <1>8 DEF Sorting
  <2> QED
    BY <2>1, <1>0, <1>5, <1>8, <1>10, <1>11 DEF Sorting
<1>13. Settled'
  BY <1>0, <1>1, SameEntries DEF Settled
<1>14. Lifecycle' /\ Comp!EnabledExactly' /\ Comp!DepsInitialized' /\ Comp!JoinedAfterDependents'
  BY <1>0, <1>2, NotStarted DEF Before
<1>15. Comp!PanicMeansCycle'
  BY <1>0 DEF Comp!PanicMeansCycle
<1> QED
  BY <1>0, <1>2, <1>12, <1>13, <1>14, <1>15 DEF CompInv

LEMMA SortDoneKeeps == ASSUME CompInv, Comp!SortDone PROVE CompInv'
<1>0. /\ phase = "sort" /\ phase' = "flags" /\ path = <<>> /\ Comp!Pending = {}
      /\ UNCHANGED <<declarations, stack, componentMap, entered, path, sorted, status>>
  BY DEF Comp!SortDone, Comp!sorting, Comp!lifecycle
<1>1. CompTypes /\ Settled /\ Sorting
  BY <1>0 DEF CompInv
<1>2. CompTypes'
  BY <1>0, <1>1, SameEntries
<1>3. Settled'
  BY <1>0, <1>1, SameEntries DEF Settled
<1>4. DOMAIN componentMap \subseteq Listed(sorted)
  BY <1>0, <1>1, SetListed DEF Comp!Pending, Sorting
<1>5. Sorting'
  BY <1>0, <1>1, <1>4 DEF Sorting, Ordered, Chained
<1>6. Lifecycle' /\ Comp!EnabledExactly' /\ Comp!DepsInitialized' /\ Comp!JoinedAfterDependents'
  BY <1>0, <1>2, NotStarted DEF Before
<1>7. Comp!PanicMeansCycle'
  BY <1>0 DEF Comp!PanicMeansCycle
<1> QED
  BY <1>0, <1>2, <1>3, <1>5, <1>6, <1>7 DEF CompInv

(* What is sorted stays so when requests are taken back and components removed. *)
LEMMA StillSorted ==
    ASSUME Sorting, phase # "sort", phase' # "sort", UNCHANGED <<entered, path, sorted>>,
           DOMAIN componentMap' \subseteq DOMAIN componentMap,
           \A c \in DOMAIN componentMap' : DOMAIN componentMap'[c].deps \subseteq DOMAIN componentMap[c].deps
    PROVE  Sorting'
<1>1. path = <<>> /\ path' = <<>> /\ sorted' = sorted /\ entered' = entered
  BY DEF Sorting
<1>2. Ordered'
  BY <1>1 DEF Sorting, Ordered
<1>3. Chained' /\ Listed(path') = {}
  BY <1>1 DEF Chained, Listed
<1> QED
  BY <1>1, <1>2, <1>3 DEF Sorting


(* The entry of c without the requests un that are taken back, and those of main but for `on`. *)
LEMMA ReducedEntry ==
    ASSUME CompTypes, Settled, NEW c \in DOMAIN componentMap, NEW on, NEW un,
           \A d \in DOMAIN componentMap : un[d] \in Comp!Fewer(componentMap[d].deps)
    PROVE  LET e == Comp!Reduced(c, on, un)
           IN  /\ e \in Comp!Entries
               /\ \A d : Comp!Copies(d, e.deps) =
                     IF d \in DOMAIN componentMap[c].deps THEN componentMap[c].deps[d] - un[c][d] ELSE 0
               /\ \A d \in DOMAIN componentMap : Comp!Copies(d, e.requesters) =
                     IF d \in DOMAIN componentMap[c].requesters THEN componentMap[c].requesters[d] - un[d][c] ELSE 0
               /\ Comp!Copies(Main, e.requesters) = IF c \in on THEN Comp!Copies(Main, componentMap[c].requesters) ELSE 0
               /\ DOMAIN e.requesters \subseteq DOMAIN componentMap[c].requesters
               /\ DOMAIN e.deps \subseteq DOMAIN componentMap[c].deps
<1> DEFINE q == componentMap[c].requesters
           p == componentMap[c].deps
           k == [r \in DOMAIN q |-> IF r # Main THEN un[r][c] ELSE IF c \in on THEN 0 ELSE q[r]]
           e == Comp!Reduced(c, on, un)
<1>1. /\ p \in Comp!Requested /\ q \in Comp!Requested /\ DOMAIN q \subseteq DOMAIN componentMap \cup {Main}
      /\ \A d \in DOMAIN componentMap :
            /\ componentMap[d].deps \in Comp!Requested
            /\ Comp!Copies(c, componentMap[d].deps) = Comp!Copies(d, q)
            /\ c \in DOMAIN componentMap[d].deps <=> d \in DOMAIN q
  BY DepsKept
<1>2. \A d \in DOMAIN componentMap : \A x \in DOMAIN componentMap[d].deps :
         un[d][x] \in Nat /\ un[d][x] <= componentMap[d].deps[x]
  <2> SUFFICES ASSUME NEW d \in DOMAIN componentMap, NEW x \in DOMAIN componentMap[d].deps
               PROVE  un[d][x] \in Nat /\ un[d][x] <= componentMap[d].deps[x]
    OBVIOUS
  <2>1. \A y \in DOMAIN componentMap[d].deps : componentMap[d].deps[y] \in Nat
    BY <1>1, CopiesFacts
  <2>2. un[d] \in Comp!Fewer(componentMap[d].deps)
    OBVIOUS
  <2>3. un[d][x] \in UNION {0..componentMap[d].deps[y] : y \in DOMAIN componentMap[d].deps} /\ un[d][x] <= componentMap[d].deps[x]
    BY <2>2 DEF Comp!Fewer
  <2> QED
    BY <2>1, <2>3
<1>3. \A x \in DOMAIN p : un[c][x] \in Nat /\ un[c][x] <= p[x]
  BY <1>2
<1>4. \A r \in DOMAIN q : k[r] \in Nat /\ k[r] <= q[r]
  <2> SUFFICES ASSUME NEW r \in DOMAIN q PROVE k[r] \in Nat /\ k[r] <= q[r]
    OBVIOUS
  <2>1. q[r] \in Nat
    BY <1>1, CopiesFacts
  <2>2. CASE r # Main
    <3>1. r \in DOMAIN componentMap /\ c \in DOMAIN componentMap[r].deps
      BY <2>2, <1>1
    <3>2. componentMap[r].deps[c] = q[r]
      BY <3>1, <1>1 DEF Comp!Copies
    <3> QED
      BY <2>2, <3>1, <3>2, <1>2
  <2> QED
    BY <2>1, <2>2
<1>5. e = [requesters |-> Comp!Less(q, k), deps |-> Comp!Less(p, un[c])]
  BY DEF Comp!Reduced
<1>6. /\ Comp!Less(p, un[c]) \in Comp!Requested
      /\ \A x : Comp!Copies(x, Comp!Less(p, un[c])) = IF x \in DOMAIN p THEN p[x] - un[c][x] ELSE 0
  BY <1>1, <1>3, LessRequested
<1>7. /\ Comp!Less(q, k) \in Comp!Requested
      /\ \A x : Comp!Copies(x, Comp!Less(q, k)) = IF x \in DOMAIN q THEN q[x] - k[x] ELSE 0
  <2> HIDE DEF q, k
  <2> QED
    BY <1>1, <1>4, LessRequested
<1>8. DOMAIN Comp!Less(q, k) \subseteq DOMAIN q /\ DOMAIN Comp!Less(p, un[c]) \subseteq DOMAIN p
  BY DEF Comp!Less
<1>9. \A d \in DOMAIN componentMap : d # Main
  BY ComponentsAssumption DEF CompTypes
<1>10. \A d \in DOMAIN componentMap : d \in DOMAIN q => k[d] = un[d][c]
  BY <1>9
<1>11. Comp!Copies(Main, Comp!Less(q, k)) = IF c \in on THEN Comp!Copies(Main, q) ELSE 0
  <2>1. CASE Main \in DOMAIN q
    <3>1. q[Main] \in Nat /\ k[Main] = IF c \in on THEN 0 ELSE q[Main]
      BY <2>1, <1>1, CopiesFacts
    <3>2. Comp!Copies(Main, q) = q[Main]
      BY <2>1 DEF Comp!Copies
    <3>3. Comp!Copies(Main, Comp!Less(q, k)) = q[Main] - k[Main]
      BY <2>1, <1>7
    <3> HIDE DEF q, k
    <3> QED
      BY <3>1, <3>2, <3>3
  <2>2. CASE Main \notin DOMAIN q
    BY <2>2, <1>7 DEF Comp!Copies
  <2> QED
    BY <2>1, <2>2
<1> HIDE DEF q, p, k, e
<1>12. e \in Comp!Entries /\ e.requesters = Comp!Less(q, k) /\ e.deps = Comp!Less(p, un[c])
  BY <1>5, <1>6, <1>7 DEF Comp!Entries
<1>13. \A d \in DOMAIN componentMap : Comp!Copies(d, e.requesters) = IF d \in DOMAIN q THEN q[d] - un[d][c] ELSE 0
  BY <1>7, <1>10, <1>12
<1> QED
  BY <1>6, <1>8, <1>11, <1>12, <1>13 DEF q, p, e

LEMMA UnrequestKeeps == ASSUME CompInv, Comp!Unrequest PROVE CompInv'
<1>0. phase = "flags" /\ UNCHANGED <<declarations, stack, entered, path, sorted, status>>
  BY DEF Comp!Unrequest, Comp!sorting
<1>1. CompTypes /\ Settled /\ Sorting /\ Counts(Main, stack[1].deps)
  BY <1>0 DEF CompInv, Settled
<1>2. PICK on, un :
        /\ \A c \in DOMAIN componentMap : un[c] \in Comp!Fewer(componentMap[c].deps)
        /\ fromMain' = on
        /\ IF \E c \in DOMAIN componentMap : \E d \in Comp!DepsOf(c) :
                  un[c][d] > 0 /\ Comp!Copies(d, componentMap[c].deps) # Comp!Copies(c, componentMap[d].requesters)
           THEN phase' = "panic" /\ UNCHANGED componentMap
           ELSE phase' = "shake" /\ componentMap' = [c \in DOMAIN componentMap |-> Comp!Reduced(c, on, un)]
  BY DEF Comp!Unrequest
<1>3. phase' = "shake" /\ componentMap' = [c \in DOMAIN componentMap |-> Comp!Reduced(c, on, un)]
  <2>1. \A c \in DOMAIN componentMap : \A d \in Comp!DepsOf(c) :
           Comp!Copies(d, componentMap[c].deps) = Comp!Copies(c, componentMap[d].requesters)
    BY <1>1, DepsKept DEF Comp!DepsOf
  <2> QED
    BY <2>1, <1>2
<1>4. DOMAIN componentMap' = DOMAIN componentMap /\ componentMap' = [c \in DOMAIN componentMap' |-> componentMap'[c]]
  BY <1>3
<1>5. \A c \in DOMAIN componentMap :
         /\ componentMap'[c] \in Comp!Entries
         /\ \A d : Comp!Copies(d, componentMap'[c].deps) =
               IF d \in DOMAIN componentMap[c].deps THEN componentMap[c].deps[d] - un[c][d] ELSE 0
         /\ \A d \in DOMAIN componentMap : Comp!Copies(d, componentMap'[c].requesters) =
               IF d \in DOMAIN componentMap[c].requesters THEN componentMap[c].requesters[d] - un[d][c] ELSE 0
         /\ Comp!Copies(Main, componentMap'[c].requesters) =
               IF c \in on THEN Comp!Copies(Main, componentMap[c].requesters) ELSE 0
         /\ DOMAIN componentMap'[c].requesters \subseteq DOMAIN componentMap[c].requesters
         /\ DOMAIN componentMap'[c].deps \subseteq DOMAIN componentMap[c].deps
  <2> SUFFICES ASSUME NEW c \in DOMAIN componentMap
               PROVE  /\ componentMap'[c] \in Comp!Entries
                      /\ \A d : Comp!Copies(d, componentMap'[c].deps) =
                            IF d \in DOMAIN componentMap[c].deps THEN componentMap[c].deps[d] - un[c][d] ELSE 0
                      /\ \A d \in DOMAIN componentMap : Comp!Copies(d, componentMap'[c].requesters) =
                            IF d \in DOMAIN componentMap[c].requesters THEN componentMap[c].requesters[d] - un[d][c] ELSE 0
                      /\ Comp!Copies(Main, componentMap'[c].requesters) =
                            IF c \in on THEN Comp!Copies(Main, componentMap[c].requesters) ELSE 0
                      /\ DOMAIN componentMap'[c].requesters \subseteq DOMAIN componentMap[c].requesters
                      /\ DOMAIN componentMap'[c].deps \subseteq DOMAIN componentMap[c].deps
    OBVIOUS
  <2>1. componentMap'[c] = Comp!Reduced(c, on, un)
    BY <1>3
  <2> QED
    BY <2>1, <1>1, <1>2, ReducedEntry
<1>6. CompTypes'
  <2>1. Comp!Entries' = Comp!Entries /\ Frames' = Frames
    BY DEF Comp!Entries, Comp!Requested, Frames
  <2> QED
    BY <2>1, <1>0, <1>1, <1>4, <1>5 DEF CompTypes
<1>7. \A c \in DOMAIN componentMap' : componentMap'[c] # Nil
  BY <1>4, <1>5, EntryNotNil
<1>8. \A x, d : RequestsBy(x, d)' = IF d \in DOMAIN componentMap THEN Comp!Copies(x, componentMap'[d].requesters) ELSE 0
  BY <1>4, <1>7 DEF RequestsBy, Resolved, Comp!Copies
<1>9. ASSUME NEW c \in DOMAIN componentMap PROVE EntryOf(c)'
  <2>1. /\ DOMAIN componentMap[c].deps \subseteq DOMAIN componentMap
        /\ DOMAIN componentMap[c].deps \subseteq May(c)
        /\ DOMAIN componentMap[c].requesters \subseteq DOMAIN componentMap \cup {Main}
        /\ \A d \in DOMAIN componentMap :
              /\ Comp!Copies(d, componentMap[c].deps) = Comp!Copies(c, componentMap[d].requesters)
              /\ d \in DOMAIN componentMap[c].deps <=> c \in DOMAIN componentMap[d].requesters
    BY <1>1, DepsKept
  <2>2. \A d \in DOMAIN componentMap : Comp!Copies(d, componentMap'[c].deps) = Comp!Copies(c, componentMap'[d].requesters)
    <3> SUFFICES ASSUME NEW d \in DOMAIN componentMap
                 PROVE  Comp!Copies(d, componentMap'[c].deps) = Comp!Copies(c, componentMap'[d].requesters)
      OBVIOUS
    <3>1. d \in DOMAIN componentMap[c].deps => componentMap[c].deps[d] = componentMap[d].requesters[c]
      BY <2>1 DEF Comp!Copies
    <3> QED
      BY <2>1, <3>1, <1>5
  <2>3. \A d : d \notin DOMAIN componentMap => Comp!Copies(d, componentMap'[c].deps) = 0
    BY <2>1, <1>5
  <2>4. \A d \in Everyone : Comp!Copies(d, componentMap'[c].deps) = RequestsBy(c, d)'
    BY <2>2, <2>3, <1>8
  <2>5. (Counts(c, componentMap[c].deps))'
    BY <2>4 DEF Counts, Comp!Copies
  <2>6. May(c)' = May(c)
    BY <1>0 DEF May
  <2> QED
    BY <2>1, <2>5, <2>6, <1>4, <1>5 DEF EntryOf
<1>10. ASSUME NEW d \in Everyone PROVE (d \in fromMain /\ d \in DOMAIN stack[1].deps <=> RequestsBy(Main, d) # 0)'
  <2>1. stack[1].deps \in Comp!Requested
    <3>1. stack[1] \in Frames
      BY <1>1 DEF CompTypes
    <3> QED
      BY <3>1 DEF Frames
  <2>2. d \in DOMAIN stack[1].deps <=> RequestsBy(Main, d) # 0
    BY <2>1, <1>1, CopiesFacts DEF Counts, Everyone
  <2>3. RequestsBy(Main, d)' = IF d \in on THEN RequestsBy(Main, d) ELSE 0
    <3>1. CASE d \in DOMAIN componentMap
      <4>1. RequestsBy(Main, d) = Comp!Copies(Main, componentMap[d].requesters)
        BY <3>1, <1>1 DEF RequestsBy, Resolved, Settled
      <4> QED
        BY <3>1, <4>1, <1>5, <1>8
    <3>2. CASE d \notin DOMAIN componentMap
      BY <3>2, <1>8 DEF RequestsBy, Resolved
    <3> QED
      BY <3>1, <3>2
  <2> QED
    BY <2>2, <2>3, <1>0, <1>2
<1>11. Settled'
  BY <1>3, <1>4, <1>7, <1>9, <1>10 DEF Settled
<1>12. Sorting'
  BY <1>0, <1>1, <1>3, <1>4, <1>5, StillSorted
<1>13. Lifecycle' /\ Comp!EnabledExactly' /\ Comp!DepsInitialized' /\ Comp!JoinedAfterDependents'
  BY <1>0, <1>3, <1>6, NotStarted DEF Before
<1>14. Comp!PanicMeansCycle'
  BY <1>3 DEF Comp!PanicMeansCycle
<1> QED
  BY <1>3, <1>6, <1>11, <1>12, <1>13, <1>14 DEF CompInv


LEMMA ShakeKeeps == ASSUME CompInv, NEW c, Comp!Shake(c) PROVE CompInv'
<1>0. /\ phase = "shake" /\ UNCHANGED <<declarations, stack, phase, entered, path, sorted, fromMain, status>>
      /\ c \in DOMAIN componentMap /\ componentMap[c].requesters = Comp!NoRequests
      /\ componentMap' = [d \in DOMAIN componentMap \ {c} |->
            [componentMap[d] EXCEPT !.requesters =
                IF d \in DOMAIN componentMap[c].deps THEN Comp!BagRemoveAll(@, c) ELSE @]]
  BY DEF Comp!Shake, Comp!WithoutComponent, Comp!DepsOf, Comp!sorting, Comp!lifecycle
<1>1. CompTypes /\ Settled /\ Sorting
  BY <1>0 DEF CompInv
<1>2. DOMAIN componentMap' = DOMAIN componentMap \ {c} /\ componentMap' = [d \in DOMAIN componentMap' |-> componentMap'[d]]
  BY <1>0
<1>3. ASSUME NEW d \in DOMAIN componentMap'
      PROVE  /\ componentMap'[d] \in Comp!Entries /\ componentMap'[d].deps = componentMap[d].deps
             /\ \A x : Comp!Copies(x, componentMap'[d].requesters) =
                   IF x = c THEN 0 ELSE Comp!Copies(x, componentMap[d].requesters)
  <2>1. /\ componentMap[d].deps \in Comp!Requested /\ componentMap[d].requesters \in Comp!Requested
        /\ componentMap[d] \in Comp!Entries /\ d \in DOMAIN componentMap
    BY <1>1, <1>2, DepsKept
  <2>2. d \in DOMAIN componentMap[c].deps <=> c \in DOMAIN componentMap[d].requesters
    BY <2>1, <1>0, <1>1, DepsKept
  <2>3. componentMap[d] = [requesters |-> componentMap[d].requesters, deps |-> componentMap[d].deps]
    BY <2>1, EntryNotNil
  <2>4. CASE d \in DOMAIN componentMap[c].deps
    <3>1. componentMap'[d] = [requesters |-> Comp!BagRemoveAll(componentMap[d].requesters, c), deps |-> componentMap[d].deps]
      BY <2>3, <2>4, <1>0, <1>2
    <3>2. /\ Comp!BagRemoveAll(componentMap[d].requesters, c) \in Comp!Requested
          /\ \A x : Comp!Copies(x, Comp!BagRemoveAll(componentMap[d].requesters, c)) =
                IF x = c THEN 0 ELSE Comp!Copies(x, componentMap[d].requesters)
      BY <2>1, RemoveRequests
    <3>3. /\ componentMap'[d].requesters = Comp!BagRemoveAll(componentMap[d].requesters, c)
          /\ componentMap'[d].deps = componentMap[d].deps /\ componentMap'[d] \in Comp!Entries
      BY <2>1, <3>1, <3>2 DEF Comp!Entries
    <3> QED
      BY <3>2, <3>3
  <2>5. CASE d \notin DOMAIN componentMap[c].deps
    <3>1. componentMap'[d] = componentMap[d]
      BY <2>3, <2>5, <1>0, <1>2
    <3>2. Comp!Copies(c, componentMap[d].requesters) = 0
      BY <2>2, <2>5 DEF Comp!Copies
    <3> QED
      BY <2>1, <3>1, <3>2
  <2> QED
    BY <2>4, <2>5
<1>4. CompTypes'
  <2>1. Comp!Entries' = Comp!Entries /\ Frames' = Frames
    BY DEF Comp!Entries, Comp!Requested, Frames
  <2> QED
    BY <2>1, <1>0, <1>1, <1>2, <1>3 DEF CompTypes
<1>5. \A d \in DOMAIN componentMap' : componentMap'[d] # Nil
  BY <1>3, EntryNotNil
<1>6. \A x : x # c => \A d : RequestsBy(x, d)' = RequestsBy(x, d)
  <2> SUFFICES ASSUME NEW x, x # c, NEW d PROVE RequestsBy(x, d)' = RequestsBy(x, d)
    OBVIOUS
  <2>1. CASE d = c
    <3>1. RequestsBy(x, c) = 0
      BY <1>0, NoneRequested DEF RequestsBy
    <3> QED
      BY <2>1, <3>1, <1>2 DEF RequestsBy, Resolved
  <2>2. CASE d # c /\ d \in DOMAIN componentMap
    <3>1. d \in DOMAIN componentMap' /\ Resolved(d)' /\ Resolved(d)
      BY <2>2, <1>1, <1>2, <1>5 DEF Resolved, Settled
    <3> QED
      BY <3>1, <1>3 DEF RequestsBy, Comp!Copies
  <2>3. CASE d # c /\ d \notin DOMAIN componentMap
    BY <2>3, <1>2 DEF RequestsBy, Resolved
  <2> QED
    BY <2>1, <2>2, <2>3
<1>7. ASSUME NEW d \in DOMAIN componentMap' PROVE EntryOf(d)'
  <2>1. d \in DOMAIN componentMap /\ d # c /\ EntryOf(d) /\ componentMap'[d].deps = componentMap[d].deps
    BY <1>1, <1>2, <1>3 DEF Settled
  <2>2. (Counts(d, componentMap[d].deps))'
    BY <2>1, <1>6 DEF EntryOf, Counts, Comp!Copies
  <2>3. DOMAIN componentMap'[d].requesters \subseteq DOMAIN componentMap' \cup {Main}
    <3>1. componentMap'[d].requesters \in Comp!Requested /\ componentMap[d].requesters \in Comp!Requested
      BY <2>1, <1>1, <1>3, EntryNotNil, DepsKept
    <3>2. \A x \in DOMAIN componentMap'[d].requesters : x # c /\ x \in DOMAIN componentMap[d].requesters
      BY <3>1, <1>3, CopiesFacts
    <3> QED
      BY <2>1, <3>2, <1>2 DEF EntryOf
  <2>4. May(d)' = May(d)
    BY <1>0 DEF May
  <2> QED
    BY <2>1, <2>2, <2>3, <2>4 DEF EntryOf
<1>8. \A d \in Everyone : (d \in fromMain /\ d \in DOMAIN stack[1].deps <=> RequestsBy(Main, d) # 0)'
  <2>1. Main # c
    BY <1>0, <1>1, ComponentsAssumption DEF CompTypes
  <2>2. \A d \in Everyone : d \in fromMain /\ d \in DOMAIN stack[1].deps <=> RequestsBy(Main, d) # 0
    BY <1>0, <1>1 DEF Settled
  <2> QED
    BY <2>1, <2>2, <1>0, <1>6
<1>9. Settled'
  BY <1>0, <1>5, <1>7, <1>8 DEF Settled
<1>10. Sorting'
  BY <1>0, <1>1, <1>2, <1>3, StillSorted
<1>11. Lifecycle' /\ Comp!EnabledExactly' /\ Comp!DepsInitialized' /\ Comp!JoinedAfterDependents'
  BY <1>0, <1>4, NotStarted DEF Before
<1>12. Comp!PanicMeansCycle'
  BY <1>0 DEF Comp!PanicMeansCycle
<1> QED
  BY <1>0, <1>4, <1>9, <1>10, <1>11, <1>12 DEF CompInv

(* Nothing is left that is not requested: the last of the components that   *)
(* main does not reach would be requested by one that comes after it.       *)
LEMMA TrimmedExactly ==
    ASSUME CompTypes, Settled, Sorting, phase = "shake", \A c \in DOMAIN componentMap : componentMap[c].requesters # Comp!NoRequests
    PROVE  DOMAIN componentMap = Comp!Reach(fromMain \cap DOMAIN stack[1].deps, [c \in DOMAIN componentMap |-> Comp!DepsOf(c)])
<1> DEFINE R == fromMain \cap DOMAIN stack[1].deps
           edges == [c \in DOMAIN componentMap |-> Comp!DepsOf(c)]
<1>1. DOMAIN componentMap \subseteq ComponentNames
  BY DEF CompTypes
<1>2. \A d \in Everyone : d \in R <=> RequestsBy(Main, d) # 0
  BY DEF Settled
<1>3. R \subseteq DOMAIN componentMap
  <2>1. R \subseteq Everyone
    <3>1. stack[1] \in Frames
      BY DEF CompTypes
    <3>2. stack[1].deps \in Comp!Requested
      BY <3>1 DEF Frames
    <3> QED
      BY <3>2, CopiesFacts
  <2>2. \A d \in R : d \in Everyone => d \in DOMAIN componentMap
    BY <1>2 DEF RequestsBy, Resolved
  <2> QED
    BY <2>1, <2>2
<1>4. \A c \in DOMAIN componentMap : edges[c] = DOMAIN componentMap[c].deps /\ edges[c] \subseteq DOMAIN componentMap
  BY DepsKept DEF Comp!DepsOf
<1>5. DOMAIN edges = DOMAIN componentMap
  OBVIOUS
<1>6. Comp!Reach(R, edges) \subseteq DOMAIN componentMap
  BY <1>1, <1>3, <1>4, <1>5 DEF Comp!Reach
<1>7. ASSUME NEW c \in DOMAIN componentMap, NEW T \in SUBSET ComponentNames, R \subseteq T,
             \A d \in T \cap DOMAIN edges : edges[d] \subseteq T, c \notin T
      PROVE  FALSE
  <2>0. PICK n \in Nat : n = Len(sorted)
    BY DEF Sorting
  <2> DEFINE out == {i \in 1..n : sorted[i] \in DOMAIN componentMap \ T}
  <2>1. DOMAIN componentMap \subseteq {sorted[i] : i \in 1..n}
    BY <2>0 DEF Sorting, Listed
  <2>2. out # {} /\ out \subseteq 0..n
    BY <2>0, <2>1, <1>7
  <2>3. PICK i \in out : \A j \in out : j <= i
    BY <2>0, <2>2, GreatestNumber
  <2>4. PICK e : e = sorted[i]
    OBVIOUS
  <2>5. e \in DOMAIN componentMap /\ e \notin T /\ i \in 1..n
    BY <2>3, <2>4
  <2>6. componentMap[e].requesters \in Comp!Requested /\ componentMap[e].requesters # Comp!NoRequests
        /\ DOMAIN componentMap[e].requesters \subseteq DOMAIN componentMap \cup {Main}
    BY <2>5, DepsKept
  <2>7. PICK r : r \in DOMAIN componentMap[e].requesters
    <3>1. componentMap[e].requesters = [x \in DOMAIN componentMap[e].requesters |-> componentMap[e].requesters[x]]
      BY <2>6, CopiesFacts
    <3> QED
      BY <2>6, <3>1 DEF Comp!NoRequests
  <2>8. r # Main
    <3>1. r = Main => RequestsBy(Main, e) # 0
      BY <2>5, <2>6, <2>7, CopiesFacts DEF RequestsBy, Resolved, Settled
    <3> QED
      BY <2>5, <3>1, <1>1, <1>2, <1>7 DEF Everyone
  <2>9. r \in DOMAIN componentMap /\ e \in DOMAIN componentMap[r].deps
    BY <2>5, <2>6, <2>7, <2>8, DepsKept
  <2>10. r \notin T
    BY <2>5, <2>9, <1>4, <1>5, <1>7
  <2>11. PICK k \in 1..n : sorted[k] = r
    BY <2>1, <2>9
  <2>12. PICK j \in 1..k - 1 : sorted[j] = e
    BY <2>0, <2>9, <2>11 DEF Sorting, Ordered
  <2>13. j = i
    <3>1. j \in 1..n
      BY <2>0, <2>11, <2>12
    <3> QED
      BY <3>1, <2>0, <2>4, <2>5, <2>12 DEF Sorting, Distinct
  <2>14. k \in out
    BY <2>9, <2>10, <2>11
  <2>15. k <= i /\ i \in 1..k - 1
    BY <2>3, <2>12, <2>13, <2>14
  <2> QED
    BY <2>15, <2>11, <2>5
<1>8. DOMAIN componentMap \subseteq Comp!Reach(R, edges)
  BY <1>1, <1>7 DEF Comp!Reach
<1> QED
  BY <1>6, <1>8


LEMMA TrimDoneKeeps == ASSUME CompInv, Comp!TrimDone PROVE CompInv'
<1>0. /\ phase = "shake" /\ phase' = "init"
      /\ \A c \in DOMAIN componentMap : componentMap[c].requesters # Comp!NoRequests
      /\ UNCHANGED <<declarations, stack, componentMap, entered, path, sorted, fromMain, status>>
  BY DEF Comp!TrimDone, Comp!sorting, Comp!lifecycle
<1>1. CompTypes /\ Settled /\ Sorting
  BY <1>0 DEF CompInv
<1>2. CompTypes'
  BY <1>0, <1>1, SameEntries
<1>3. Settled'
  BY <1>0, <1>1, SameEntries DEF Settled
<1>4. Sorting'
  BY <1>0, <1>1, StillSorted
<1>5. DOMAIN componentMap = Comp!Reach(fromMain \cap DOMAIN stack[1].deps, [c \in DOMAIN componentMap |-> Comp!DepsOf(c)])
  BY <1>0, <1>1, TrimmedExactly
<1>6. Comp!EnabledExactly'
  BY <1>0, <1>5 DEF Comp!EnabledExactly, Comp!Reach, Comp!DepsOf
<1>7. status' = [c \in ComponentNames |-> status'[c]] /\ \A c \in ComponentNames : status'[c] = "none"
  BY <1>0 DEF CompInv, Lifecycle
<1>8. Lifecycle'
  BY <1>0, <1>7 DEF Lifecycle
<1>9. Comp!DepsInitialized' /\ Comp!JoinedAfterDependents'
  BY <1>2, <1>7 DEF CompTypes, Comp!DepsInitialized, Comp!JoinedAfterDependents
<1>10. Comp!PanicMeansCycle'
  BY <1>0 DEF Comp!PanicMeansCycle
<1> QED
  BY <1>0, <1>2, <1>3, <1>4, <1>6, <1>8, <1>9, <1>10 DEF CompInv

-----------------------------------------------------------------------------
(* The lifecycle: what does not change while components start and stop. *)
After == {"init", "start", "run", "failed", "exited"}

LEMMA MapKept ==
    ASSUME CompInv, phase \in After, phase' \in After, phase' = "init" => phase = "init",
           UNCHANGED <<declarations, stack, componentMap, entered, path, sorted, fromMain>>
    PROVE  /\ CompTypes' /\ Settled' /\ Sorting' /\ Comp!EnabledExactly' /\ Comp!PanicMeansCycle'
           /\ Lifecycle' /\ Comp!DepsInitialized' /\ Comp!JoinedAfterDependents' => CompInv'
<1>1. CompTypes /\ Settled /\ Sorting
  BY DEF CompInv, After
<1>2. CompTypes'
  BY <1>1, SameEntries
<1>3. Settled'
  BY <1>1, SameEntries DEF Settled, After
<1>4. Sorting'
  BY <1>1, StillSorted DEF After
<1>5. Comp!EnabledExactly'
  BY DEF CompInv, Comp!EnabledExactly, Comp!Reach, Comp!DepsOf
<1>6. Comp!PanicMeansCycle'
  BY DEF Comp!PanicMeansCycle, After
<1> QED
  BY <1>2, <1>3, <1>4, <1>5, <1>6 DEF CompInv, After

(* The components that are left, in the order of `sorted`. *)
LEMMA LeftSorted ==
    ASSUME CompInv, phase \in After
    PROVE  /\ \A c \in DOMAIN componentMap : \E i \in 1..Len(sorted) : sorted[i] = c
           /\ \A s : Comp!With(s) = {i \in 1..Len(sorted) : sorted[i] \in DOMAIN componentMap /\ status[sorted[i]] = s}
           /\ \A s : Comp!With(s) = {} => \A c \in DOMAIN componentMap : status[c] # s
           /\ Len(sorted) \in Nat
<1>1. CompTypes /\ Settled /\ Sorting
  BY DEF CompInv, After
<1>2. DOMAIN sorted = 1..Len(sorted) /\ Len(sorted) \in Nat
  BY <1>1 DEF Sorting
<1>3. \A c \in DOMAIN componentMap : \E i \in 1..Len(sorted) : sorted[i] = c
  BY <1>1 DEF Sorting, Listed, After
<1>4. \A s : Comp!With(s) = {i \in 1..Len(sorted) : sorted[i] \in DOMAIN componentMap /\ status[sorted[i]] = s}
  BY <1>2 DEF Comp!With
<1> QED
  BY <1>2, <1>3, <1>4

LEMMA InitNextKeeps == ASSUME CompInv, Comp!InitNext PROVE CompInv'
<1>0. /\ phase = "init" /\ Comp!With("none") # {}
      /\ UNCHANGED <<declarations, stack, componentMap, entered, path, sorted, fromMain>>
  BY DEF Comp!InitNext, Comp!sorting
<1>1. CompTypes /\ Settled /\ Sorting
  BY <1>0 DEF CompInv
<1>2. PICK i : i = Comp!Least(Comp!With("none"))
  OBVIOUS
<1>3. PICK c : c = sorted[i]
  OBVIOUS
<1>4. \/ status' = [status EXCEPT ![c] = "initialized"] /\ UNCHANGED phase
      \/ phase' = "failed" /\ UNCHANGED status
  BY <1>2, <1>3 DEF Comp!InitNext
<1>5. i \in Comp!With("none") /\ \A j \in Comp!With("none") : i <= j
  <2>1. Comp!With("none") \subseteq Nat
    BY <1>0, LeftSorted DEF After
  <2>2. \E x \in Comp!With("none") : \A y \in Comp!With("none") : x <= y
    BY <2>1, <1>0, LeastNumber
  <2> QED
    BY <2>2, <1>2 DEF Comp!Least
<1>6. i \in 1..Len(sorted) /\ c \in DOMAIN componentMap /\ c \in ComponentNames /\ status[c] = "none"
  BY <1>0, <1>1, <1>3, <1>5, LeftSorted DEF After, CompTypes
<1>7. phase' \in After /\ (phase' = "init" => phase = "init")
  BY <1>0, <1>4 DEF After
<1>8. Lifecycle'
  <2>1. CASE status' = [status EXCEPT ![c] = "initialized"] /\ UNCHANGED phase
    BY <2>1, <1>0, <1>6 DEF CompInv, Lifecycle
  <2>2. CASE phase' = "failed" /\ UNCHANGED status
    BY <2>2 DEF CompInv, Lifecycle
  <2> QED
    BY <2>1, <2>2, <1>4
<1>9. \A d \in DOMAIN componentMap : status[d] # "none" => \A e \in DOMAIN componentMap[d].deps : status[e] # "none"
  BY <1>0 DEF CompInv, Comp!DepsInitialized, Comp!DepsOf
<1>10. \A e \in DOMAIN componentMap[c].deps : status[e] # "none"
  <2> SUFFICES ASSUME NEW e \in DOMAIN componentMap[c].deps, status[e] = "none" PROVE FALSE
    OBVIOUS
  <2>1. e \in DOMAIN componentMap
    BY <1>1, <1>6, DepsKept
  <2>2. PICK j \in 1..i - 1 : sorted[j] = e
    BY <1>1, <1>3, <1>6 DEF Sorting, Ordered
  <2>3. PICK n \in Nat : n = Len(sorted)
    BY <1>1 DEF Sorting
  <2>4. j \in 1..Len(sorted) /\ ~(i <= j)
    BY <2>2, <2>3, <1>6
  <2>5. j \in Comp!With("none")
    BY <2>1, <2>2, <2>4, <1>0, LeftSorted DEF After
  <2> QED
    BY <2>4, <2>5, <1>5
<1>11. \A d \in DOMAIN componentMap : DOMAIN componentMap[d].deps \subseteq ComponentNames
  BY <1>1, DepsKept DEF CompTypes
<1>12. Comp!DepsInitialized'
  <2>1. \A d \in ComponentNames : status'[d] # "none" <=> status[d] # "none" \/ (d = c /\ status' # status)
    BY <1>4, <1>6 DEF CompInv, Lifecycle
  <2> QED
    BY <2>1, <1>0, <1>1, <1>9, <1>10, <1>11 DEF Comp!DepsInitialized, Comp!DepsOf, CompTypes
<1>13. Comp!JoinedAfterDependents'
  <2>1. \A d \in ComponentNames : status'[d] # "joined"
    BY <1>0, <1>4, <1>6 DEF CompInv, Lifecycle
  <2> QED
    BY <2>1 DEF Comp!JoinedAfterDependents
<1> QED
  BY <1>0, <1>7, <1>8, <1>12, <1>13, MapKept DEF After


(* Steps that change no status. *)
LEMMA StatusKept ==
    ASSUME CompInv, UNCHANGED <<status, componentMap>>, phase \in After, phase' \in After
    PROVE  Comp!DepsInitialized' /\ Comp!JoinedAfterDependents'
  BY DEF CompInv, Comp!DepsInitialized, Comp!JoinedAfterDependents, Comp!DepsOf, After

LEMMA InitDoneKeeps == ASSUME CompInv, Comp!InitDone PROVE CompInv'
<1>0. /\ phase = "init" /\ phase' = "start" /\ Comp!With("none") = {}
      /\ UNCHANGED <<declarations, stack, componentMap, entered, path, sorted, fromMain, status>>
  BY DEF Comp!InitDone, Comp!sorting, Comp!lifecycle
<1>1. \A c \in DOMAIN componentMap : status[c] # "none" /\ c \in ComponentNames
  BY <1>0, LeftSorted DEF After, CompInv, CompTypes
<1>2. Lifecycle'
  BY <1>0, <1>1 DEF CompInv, Lifecycle
<1> QED
  BY <1>0, <1>2, StatusKept, MapKept DEF After

LEMMA StartKeeps == ASSUME CompInv, NEW c, Comp!Start(c) PROVE CompInv'
<1>0. /\ phase = "start" /\ c \in DOMAIN componentMap /\ status[c] = "initialized"
      /\ UNCHANGED <<declarations, stack, componentMap, phase, entered, path, sorted, fromMain>>
  BY DEF Comp!Start, Comp!sorting
<1>1. PICK outcome \in {"started", "startError"} : status' = [status EXCEPT ![c] = outcome]
  BY DEF Comp!Start
<1>2. c \in ComponentNames /\ DOMAIN componentMap \subseteq ComponentNames
  BY <1>0 DEF CompInv, CompTypes
<1>3. status = [d \in ComponentNames |-> status[d]]
  BY DEF CompInv, Lifecycle
<1>4. \A d \in ComponentNames : status'[d] = IF d = c THEN outcome ELSE status[d]
  BY <1>1, <1>2, <1>3
<1>5. Lifecycle'
  BY <1>0, <1>1, <1>2, <1>3, <1>4 DEF CompInv, Lifecycle
<1>6. CompTypes /\ Settled
  BY <1>0 DEF CompInv
<1>7. \A d \in DOMAIN componentMap : DOMAIN componentMap[d].deps \subseteq ComponentNames
  BY <1>6, DepsKept DEF CompTypes
<1>8. \A d \in DOMAIN componentMap : status[d] # "none" => \A e \in DOMAIN componentMap[d].deps : status[e] # "none"
  BY <1>0 DEF CompInv, Comp!DepsInitialized, Comp!DepsOf
<1>9. Comp!DepsInitialized'
  BY <1>0, <1>2, <1>4, <1>7, <1>8 DEF Comp!DepsInitialized, Comp!DepsOf
<1>10. Comp!JoinedAfterDependents'
  <2>1. \A d \in ComponentNames : status'[d] # "joined"
    BY <1>0, <1>4 DEF CompInv, Lifecycle
  <2> QED
    BY <2>1 DEF Comp!JoinedAfterDependents
<1> QED
  BY <1>0, <1>5, <1>9, <1>10, MapKept DEF After

LEMMA StartDoneKeeps == ASSUME CompInv, Comp!StartDone PROVE CompInv'
<1>0. /\ phase = "start" /\ Comp!With("initialized") = {}
      /\ phase' = IF Comp!With("startError") = {} THEN "run" ELSE "failed"
      /\ UNCHANGED <<declarations, stack, componentMap, entered, path, sorted, fromMain, status>>
  BY DEF Comp!StartDone, Comp!sorting, Comp!lifecycle
<1>1. \A c \in DOMAIN componentMap : status[c] # "initialized"
  BY <1>0, LeftSorted DEF After
<1>2. phase' = "run" => \A c \in DOMAIN componentMap : status[c] # "startError"
  BY <1>0, LeftSorted DEF After
<1>3. Lifecycle'
  BY <1>0, <1>1, <1>2 DEF CompInv, Lifecycle
<1>4. phase' \in After /\ phase' # "init"
  BY <1>0 DEF After
<1> QED
  BY <1>0, <1>3, <1>4, StatusKept, MapKept DEF After

LEMMA StopKeeps == ASSUME CompInv, Comp!Stop PROVE CompInv'
<1>0. /\ phase \in {"start", "run"}
      /\ UNCHANGED <<declarations, stack, componentMap, phase, entered, path, sorted, fromMain, status>>
  BY DEF Comp!Stop, Comp!sorting
<1>1. Lifecycle'
  BY <1>0 DEF CompInv, Lifecycle
<1>2. phase' \in After /\ phase \in After
  BY <1>0 DEF After
<1> QED
  BY <1>0, <1>1, <1>2, StatusKept, MapKept

LEMMA JoinNextKeeps == ASSUME CompInv, Comp!JoinNext PROVE CompInv'
<1>0. /\ phase = "run" /\ Comp!With("started") # {}
      /\ UNCHANGED <<declarations, stack, componentMap, entered, path, sorted, fromMain>>
  BY DEF Comp!JoinNext, Comp!sorting
<1>1. CompTypes /\ Settled /\ Sorting
  BY <1>0 DEF CompInv
<1>2. PICK i : i = Comp!Greatest(Comp!With("started"))
  OBVIOUS
<1>3. PICK c : c = sorted[i]
  OBVIOUS
<1>4. \/ status' = [status EXCEPT ![c] = "joined"] /\ UNCHANGED phase
      \/ phase' = "failed" /\ UNCHANGED status
  BY <1>2, <1>3 DEF Comp!JoinNext
<1>5. PICK n \in Nat : n = Len(sorted)
  BY <1>1 DEF Sorting
<1>6. i \in Comp!With("started") /\ \A j \in Comp!With("started") : j <= i
  <2>1. Comp!With("started") \subseteq 0..n
    BY <1>0, <1>5, LeftSorted DEF After
  <2>2. \E x \in Comp!With("started") : \A y \in Comp!With("started") : y <= x
    BY <2>1, <1>0, <1>5, GreatestNumber
  <2> QED
    BY <2>2, <1>2 DEF Comp!Greatest
<1>7. i \in 1..n /\ c \in DOMAIN componentMap /\ c \in ComponentNames /\ status[c] = "started"
  BY <1>0, <1>1, <1>3, <1>5, <1>6, LeftSorted DEF After, CompTypes
<1>8. phase' \in After /\ phase' # "init"
  BY <1>0, <1>4 DEF After
<1>9. CASE phase' = "failed" /\ UNCHANGED status
  <2>1. Lifecycle'
    BY <1>9 DEF CompInv, Lifecycle
  <2> QED
    BY <2>1, <1>0, <1>8, <1>9, StatusKept, MapKept DEF After
<1>10. CASE status' = [status EXCEPT ![c] = "joined"] /\ UNCHANGED phase
  <2>1. status = [d \in ComponentNames |-> status[d]] /\ DOMAIN componentMap \subseteq ComponentNames
    BY <1>1 DEF CompInv, Lifecycle, CompTypes
  <2>2. \A d \in ComponentNames : status'[d] = IF d = c THEN "joined" ELSE status[d]
    BY <2>1, <1>7, <1>10
  <2>3. Lifecycle'
    BY <2>1, <2>2, <1>0, <1>7, <1>10 DEF CompInv, Lifecycle
  <2>4. \A d \in DOMAIN componentMap : status[d] # "none" /\ status'[d] # "none"
    BY <2>1, <2>2, <1>0, <1>7 DEF CompInv, Lifecycle
  <2>5. Comp!DepsInitialized'
    <3>1. \A d \in DOMAIN componentMap : DOMAIN componentMap[d].deps \subseteq DOMAIN componentMap
      BY <1>1, DepsKept
    <3> QED
      BY <3>1, <2>4, <1>0 DEF Comp!DepsInitialized, Comp!DepsOf
  <2>6. ASSUME NEW d \in DOMAIN componentMap, c \in DOMAIN componentMap[d].deps PROVE status[d] = "joined"
    <3> SUFFICES ASSUME status[d] # "joined" PROVE FALSE
      OBVIOUS
    <3>1. status[d] = "started"
      BY <1>0 DEF CompInv, Lifecycle
    <3>2. PICK k \in 1..n : sorted[k] = d
      BY <1>0, <1>5, LeftSorted DEF After
    <3>3. k <= i
      BY <3>1, <3>2, <1>0, <1>5, <1>6, LeftSorted DEF After
    <3>4. PICK j \in 1..k - 1 : sorted[j] = c
      BY <2>6, <3>2, <1>1, <1>5 DEF Sorting, Ordered
    <3>5. j \in 1..n
      BY <3>2, <3>4, <1>5
    <3>6. j = i
      BY <3>4, <3>5, <1>1, <1>3, <1>5, <1>7 DEF Sorting, Distinct
    <3> QED
      BY <3>2, <3>3, <3>4, <3>6, <1>7
  <2>7. Comp!JoinedAfterDependents'
    <3>1. \A e \in ComponentNames : status[e] = "joined" =>
             \A d \in DOMAIN componentMap : e \in DOMAIN componentMap[d].deps => status[d] = "joined"
      BY DEF CompInv, Comp!JoinedAfterDependents, Comp!DepsOf
    <3>2. \A e \in ComponentNames : status'[e] = "joined" =>
             \A d \in DOMAIN componentMap : e \in DOMAIN componentMap[d].deps => status'[d] = "joined"
      BY <3>1, <2>1, <2>2, <2>6
    <3> QED
      BY <3>2, <1>0 DEF Comp!JoinedAfterDependents, Comp!DepsOf
  <2> QED
    BY <2>3, <2>5, <2>7, <1>0, <1>8, MapKept DEF After
<1> QED
  BY <1>4, <1>9, <1>10

LEMMA JoinDoneKeeps == ASSUME CompInv, Comp!JoinDone PROVE CompInv'
<1>0. /\ phase = "run" /\ phase' = "exited"
      /\ UNCHANGED <<declarations, stack, componentMap, entered, path, sorted, fromMain, status>>
  BY DEF Comp!JoinDone, Comp!sorting, Comp!lifecycle
<1>1. Lifecycle'
  BY <1>0 DEF CompInv, Lifecycle
<1> QED
  BY <1>0, <1>1, StatusKept, MapKept DEF After

LEMMA CompInit == Comp!Init => CompInv
<1> SUFFICES ASSUME Comp!Init PROVE CompInv
  OBVIOUS
<1>1. /\ declarations \in Declarations /\ phase = "resolve" /\ componentMap = [c \in {} |-> Nil]
      /\ path = <<>> /\ sorted = <<>> /\ entered = {} /\ status = [c \in ComponentNames |-> "none"]
  BY DEF Comp!Init
<1>2. PICK requests \in MainLists : stack = <<Comp!Frame(Main, requests, FALSE)>>
  BY DEF Comp!Init
<1>3. /\ stack \in Seq(Frames) /\ Len(stack) = 1 /\ stack[1].name = Main /\ stack[1].isNew = FALSE
      /\ stack[1].deps = Comp!NoRequests
  <2> DEFINE f == Comp!Frame(Main, requests, FALSE)
  <2>1. f \in Frames /\ f = [name |-> Main, todo |-> requests, isNew |-> FALSE, deps |-> Comp!NoRequests]
    BY FrameTyped, ComponentsAssumption DEF Everyone
  <2> HIDE DEF f
  <2>2. stack = <<f>>
    BY <1>2 DEF f
  <2> QED
    BY <2>1, <2>2
<1>4. DOMAIN componentMap = {} /\ componentMap = [c \in DOMAIN componentMap |-> componentMap[c]]
  BY <1>1
<1>5. CompTypes
  BY <1>1, <1>3, <1>4 DEF CompTypes
<1>6. Counts(Main, stack[1].deps)
  BY <1>3, <1>4, NoneRequested DEF Counts, RequestsBy, Resolved
<1>7. Resolving
  <2>1. \A i \in 2..Len(stack) : FALSE
    BY <1>3
  <2>2. \A i \in 2..Len(stack) - 1 : FALSE
    BY <1>3
  <2> QED
    BY <2>1, <2>2, <1>3, <1>4, <1>6 DEF Resolving
<1>8. \A c \in ComponentNames : status[c] = "none"
  BY <1>1
<1>9. Lifecycle
  BY <1>1, <1>8 DEF Lifecycle
<1>10. Comp!PanicMeansCycle /\ Comp!EnabledExactly /\ Comp!DepsInitialized /\ Comp!JoinedAfterDependents
  BY <1>1, <1>8 DEF Comp!PanicMeansCycle, Comp!EnabledExactly, Comp!DepsInitialized, Comp!JoinedAfterDependents
<1> QED
  BY <1>1, <1>5, <1>7, <1>9, <1>10 DEF CompInv

LEMMA CompStep == ASSUME CompInv, [Comp!Next]_Comp!vars PROVE CompInv'
<1>1. CASE UNCHANGED Comp!vars
  <2>1. /\ UNCHANGED <<declarations, stack, componentMap, phase, entered, path, sorted, fromMain, status>>
    BY <1>1 DEF Comp!vars
  <2>2. CompTypes' /\ Lifecycle'
    BY <2>1, SameEntries DEF CompInv, Lifecycle
  <2>3. phase' = "resolve" => Resolving'
    BY <2>1, SameEntries DEF CompInv, Resolving, FrameOf, May
  <2>4. phase' \notin {"resolve", "panic"} => Settled' /\ Sorting'
    BY <2>1, SameEntries DEF CompInv, Settled, Sorting, Ordered, Chained
  <2>5. Comp!PanicMeansCycle'
    BY <2>1 DEF CompInv, Comp!PanicMeansCycle, Comp!Reach, Comp!Requests
  <2>6. Comp!EnabledExactly'
    BY <2>1 DEF CompInv, Comp!EnabledExactly, Comp!Reach, Comp!DepsOf
  <2>7. Comp!DepsInitialized' /\ Comp!JoinedAfterDependents'
    BY <2>1 DEF CompInv, Comp!DepsInitialized, Comp!JoinedAfterDependents, Comp!DepsOf
  <2>8. phase' = "resolve" => path' = <<>> /\ sorted' = <<>> /\ entered' = {}
    BY <2>1 DEF CompInv
  <2> QED
    BY <2>2, <2>3, <2>4, <2>5, <2>6, <2>7, <2>8 DEF CompInv
<1>2. CASE Comp!Request \/ Comp!Return \/ Comp!ResolveDone
  BY <1>2, RequestKeeps, ReturnKeeps, ResolveDoneKeeps
<1>3. CASE Comp!Visit \/ Comp!Leave \/ Comp!SortDone
  BY <1>3, VisitKeeps, LeaveKeeps, SortDoneKeeps
<1>4. CASE Comp!Unrequest \/ (\E c \in ComponentNames : Comp!Shake(c)) \/ Comp!TrimDone
  BY <1>4, UnrequestKeeps, ShakeKeeps, TrimDoneKeeps
<1>5. CASE Comp!InitNext \/ Comp!InitDone \/ (\E c \in ComponentNames : Comp!Start(c)) \/ Comp!StartDone
  BY <1>5, InitNextKeeps, InitDoneKeeps, StartKeeps, StartDoneKeeps
<1>6. CASE Comp!Stop \/ Comp!JoinNext \/ Comp!JoinDone
  BY <1>6, StopKeeps, JoinNextKeeps, JoinDoneKeeps
<1> QED
  BY <1>1, <1>2, <1>3, <1>4, <1>5, <1>6 DEF Comp!Next

LEMMA CompHolds ==
    ASSUME CompInv
    PROVE  /\ Comp!CountsAgree /\ Comp!PanicMeansCycle /\ Comp!EnabledExactly
           /\ Comp!DepsInitialized /\ Comp!JoinedAfterDependents
<1>1. Comp!CountsAgree
  <2> SUFFICES ASSUME phase \notin {"resolve", "panic"}, NEW c \in DOMAIN componentMap, NEW d \in DOMAIN componentMap
               PROVE  Comp!Copies(d, componentMap[c].deps) = Comp!Copies(c, componentMap[d].requesters)
    BY DEF Comp!CountsAgree
  <2> QED
    BY DepsKept DEF CompInv
<1> QED
  BY <1>1 DEF CompInv

LEMMA CompInvariant == Comp!Spec => []CompInv
  BY CompInit, CompStep, PTL DEF Comp!Spec

LEMMA CompChosen ==
    /\ PartsInit /\ part = "components" => Comp!Init
    /\ [PartsNext]_partsVars /\ part = "components" => [Comp!Next]_Comp!vars
    /\ [PartsNext]_partsVars => (part = "components" <=> (part = "components")')
<1>1. PartsInit /\ part = "components" => Comp!Init
  BY DEF PartsInit
<1>2. [PartsNext]_partsVars /\ part = "components" => [Comp!Next]_Comp!vars
  BY DEF PartsNext, partsVars, compVars, group3, Comp!vars
<1>3. [PartsNext]_partsVars => (part = "components" <=> (part = "components")')
  BY DEF PartsNext, partsVars
<1> QED
  BY <1>1, <1>2, <1>3

(***************************************************************************)
(* util/component: for any number of components that declare any requests, *)
(* repeat them and take them back, the two directions of every request     *)
(* agree once all are resolved, so that "out-edge and in-edge value are    *)
(* out of sync" is never reached; ResolveList and the sort panic only for  *)
(* requests that form a cycle; and TrimNonRequested keeps exactly what the *)
(* requests of main that are switched on still reach.                      *)
(***************************************************************************)
THEOREM ComponentsResolved == PartsSpec => []RequestsResolved
<1>1. PartsInit /\ part = "components" => Comp!Init
  BY CompChosen
<1>2. [PartsNext]_partsVars /\ part = "components" => [Comp!Next]_Comp!vars
  BY CompChosen
<1>3. [PartsNext]_partsVars => (part = "components" <=> (part = "components")')
  BY CompChosen
<1>4. CompInv => Comp!CountsAgree /\ Comp!PanicMeansCycle /\ Comp!EnabledExactly
  BY CompHolds
<1> QED
  BY <1>1, <1>2, <1>3, <1>4, CompInvariant, PTL DEF PartsSpec, Comp!Spec, RequestsResolved

(***************************************************************************)
(* util/cmd: for any number of components, whichever of them fail to       *)
(* initialise, start or join, and whenever the process is told to stop, a  *)
(* component is initialised after all it still requests and joined after   *)
(* all that request it.                                                    *)
(***************************************************************************)
THEOREM ComponentsNested == PartsSpec => []LifetimesNested
<1>1. PartsInit /\ part = "components" => Comp!Init
  BY CompChosen
<1>2. [PartsNext]_partsVars /\ part = "components" => [Comp!Next]_Comp!vars
  BY CompChosen
<1>3. [PartsNext]_partsVars => (part = "components" <=> (part = "components")')
  BY CompChosen
<1>4. CompInv => Comp!DepsInitialized /\ Comp!JoinedAfterDependents
  BY CompHolds
<1> QED
  BY <1>1, <1>2, <1>3, <1>4, CompInvariant, PTL DEF PartsSpec, Comp!Spec, LifetimesNested
=============================================================================
