---------------------------- MODULE PartsProofs ----------------------------
(***************************************************************************)
(* Proofs about the parts that surround the controllers, each for every    *)
(* value of its constants: the worker queue (Worker), the quota of a batch *)
(* of reviews (QuotaBatch), the way of a review through the webhook        *)
(* (WebhookHandler), the informers of a changing list of sources           *)
(* (SourceInformer), metrics that count distinct values (UniqueCounter),   *)
(* the servers (HttpServer), joined monitors (Observers), multiplexed      *)
(* interfaces (Mux) and the consumers of iterators (Iter).  The parts      *)
(* share no state; each is instantiated with variables of its own.         *)
(***************************************************************************)
EXTENDS Parts, FiniteSetTheorems, TLAPS

-----------------------------------------------------------------------------
(***************************************************************************)
(* The worker queue.  Neither property is inductive.  That one worker      *)
(* executes a key rests on what the queue holds: each key once, and        *)
(* exactly those that are dirty and not being processed (QueueExact).      *)
(* That nothing is forgotten rests on what an execution has read: a        *)
(* version that is not older than the one handled before it, so that a     *)
(* success never takes `handled` back (ReadsForward).                      *)
(***************************************************************************)
WorkerStates == {"unborn", "idle", "got", "read", "error", "conflict", "backoff", "done", "exited"}

WorkerTypes ==
    /\ version \in [Items -> Nat] /\ notified \in [Items -> Nat] /\ handled \in [Items -> Nat]
    /\ queue \in Seq(Items)
    /\ dirty \subseteq Items /\ processing \subseteq Items /\ waiting \subseteq Items
    /\ shuttingDown \in BOOLEAN
    /\ worker \in [Workers -> [st : WorkerStates, item : Items \cup {NoItem}, read : Nat]]
    /\ \A w \in Workers : Worker!Executing(w) => worker[w].item \in Items

(* The goroutines of the workers are spawned once. *)
SpawnedOnce ==
    starter \in {"await", "prereqs", "spawn"} => \A w \in Workers : worker[w].st = "unborn"

(* The keys that are being executed. *)
Executed == {worker[w].item : w \in {w \in Workers : Worker!Executing(w)}}

(***************************************************************************)
(* The queue holds each key once, and exactly those that are dirty and not *)
(* being processed; what is being processed is what the workers execute.   *)
(***************************************************************************)
QueueExact ==
    /\ Worker!IsInjective(queue)
    /\ Worker!Range(queue) = dirty \ processing
    /\ processing = Executed

(* Versions go forward from the cache to the executor to what is handled. *)
ReadsForward ==
    /\ \A i \in Items : notified[i] <= version[i] /\ handled[i] <= version[i]
    /\ \A w \in Workers :
          worker[w].st = "read" => /\ handled[worker[w].item] <= worker[w].read
                                   /\ worker[w].read <= version[worker[w].item]

WorkerInv == WorkerTypes /\ SpawnedOnce /\ QueueExact /\ Worker!OneWorkerPerItem /\ ReadsForward /\ Worker!NothingForgotten

-----------------------------------------------------------------------------
(* What the two operations of a queue do to the keys in it. *)
LEMMA AppendToQueue ==
    ASSUME NEW S, NEW q \in Seq(S), NEW x \in S
    PROVE  /\ Append(q, x) \in Seq(S)
           /\ Worker!Range(Append(q, x)) = Worker!Range(q) \cup {x}
           /\ Worker!IsInjective(q) /\ x \notin Worker!Range(q) => Worker!IsInjective(Append(q, x))
<1>1. /\ Append(q, x) \in Seq(S)
      /\ DOMAIN Append(q, x) = 1..Len(q) + 1
      /\ \A k \in 1..Len(q) : Append(q, x)[k] = q[k]
      /\ Append(q, x)[Len(q) + 1] = x
      /\ DOMAIN q = 1..Len(q) /\ Len(q) \in Nat
  OBVIOUS
<1>2. Worker!Range(Append(q, x)) = Worker!Range(q) \cup {x}
  BY <1>1 DEF Worker!Range
<1>3. Worker!IsInjective(q) /\ x \notin Worker!Range(q) => Worker!IsInjective(Append(q, x))
  BY <1>1 DEF Worker!IsInjective, Worker!Range
<1> QED
  BY <1>1, <1>2, <1>3

LEMMA TailOfQueue ==
    ASSUME NEW S, NEW q \in Seq(S), q # <<>>
    PROVE  /\ Head(q) \in S /\ Tail(q) \in Seq(S)
           /\ Worker!Range(q) = Worker!Range(Tail(q)) \cup {Head(q)}
           /\ Worker!IsInjective(q) => Worker!IsInjective(Tail(q)) /\ Head(q) \notin Worker!Range(Tail(q))
<1>1. /\ Head(q) = q[1] /\ Head(q) \in S
      /\ Tail(q) \in Seq(S)
      /\ DOMAIN Tail(q) = 1..Len(q) - 1
      /\ \A k \in 1..Len(q) - 1 : Tail(q)[k] = q[k + 1]
      /\ DOMAIN q = 1..Len(q) /\ Len(q) \in Nat /\ Len(q) > 0
  OBVIOUS
<1>2. ASSUME NEW x \in Worker!Range(q), x # Head(q) PROVE x \in Worker!Range(Tail(q))
  <2>1. PICK k \in 1..Len(q) : q[k] = x
    BY <1>1, <1>2 DEF Worker!Range
  <2>2. k - 1 \in 1..Len(q) - 1 /\ Tail(q)[k - 1] = x
    BY <1>1, <1>2, <2>1
  <2> QED
    BY <1>1, <2>2 DEF Worker!Range
<1>3. Worker!Range(q) = Worker!Range(Tail(q)) \cup {Head(q)}
  BY <1>1, <1>2 DEF Worker!Range
<1>4. Worker!IsInjective(q) => Worker!IsInjective(Tail(q)) /\ Head(q) \notin Worker!Range(Tail(q))
  BY <1>1 DEF Worker!IsInjective, Worker!Range
<1> QED
  BY <1>1, <1>3, <1>4

-----------------------------------------------------------------------------
LEMMA WorkerInvInit == Worker!Init => WorkerInv
<1> SUFFICES ASSUME Worker!Init PROVE WorkerInv
  OBVIOUS
<1> USE DEF Worker!Init, Worker!Unborn
<1>1. WorkerTypes
  <2>1. worker \in [Workers -> [st : WorkerStates, item : Items \cup {NoItem}, read : Nat]]
    BY DEF WorkerStates
  <2>2. \A w \in Workers : ~Worker!Executing(w)
    BY DEF Worker!Executing
  <2>3. queue \in Seq(Items)
    OBVIOUS
  <2>6. shuttingDown \in BOOLEAN
    BY Zenon
  <2>4. version \in [Items -> Nat] /\ notified \in [Items -> Nat] /\ handled \in [Items -> Nat]
    OBVIOUS
  <2>5. dirty \subseteq Items /\ processing \subseteq Items /\ waiting \subseteq Items
    OBVIOUS
  <2> QED
    BY <2>1, <2>2, <2>3, <2>4, <2>5, <2>6, Zenon DEF WorkerTypes
<1>2. SpawnedOnce /\ Worker!OneWorkerPerItem /\ ReadsForward /\ Worker!NothingForgotten
  BY DEF SpawnedOnce, Worker!OneWorkerPerItem, ReadsForward, Worker!NothingForgotten, Worker!Executing
<1>3. QueueExact
  BY DEF QueueExact, Executed, Worker!IsInjective, Worker!Range, Worker!Executing
<1> QED
  BY <1>1, <1>2, <1>3 DEF WorkerInv

(* What Add does; and a worker goes on to another state, and keeps its key and what it has read. *)
LEMMA AddEffect ==
    ASSUME NEW i \in Items, Worker!Add(i)
    PROVE  \/ (shuttingDown \/ i \in dirty) /\ queue' = queue /\ dirty' = dirty
           \/ i \notin dirty /\ i \in processing /\ queue' = queue /\ dirty' = dirty \cup {i}
           \/ i \notin dirty /\ i \notin processing /\ queue' = Append(queue, i) /\ dirty' = dirty \cup {i}
  BY DEF Worker!Add

LEMMA ToState ==
    ASSUME WorkerTypes, NEW w \in Workers, NEW s \in WorkerStates, Worker!To(w, s)
    PROVE  /\ worker' \in [Workers -> [st : WorkerStates, item : Items \cup {NoItem}, read : Nat]]
           /\ worker'[w].st = s /\ worker'[w].item = worker[w].item /\ worker'[w].read = worker[w].read
           /\ \A v \in Workers : v # w => worker'[v] = worker[v]
  BY DEF WorkerTypes, Worker!To

LEMMA WorkerTypesPreserved == WorkerTypes /\ [Worker!Next]_Worker!vars => WorkerTypes'
<1> SUFFICES ASSUME WorkerTypes, [Worker!Next]_Worker!vars PROVE WorkerTypes'
  OBVIOUS
<1> USE DEF WorkerTypes, Worker!objects, Worker!queues, Worker!process, Worker!Executing
<1>1. ASSUME NEW i \in Items, Worker!Ripen(i) \/ Worker!Enqueue(i) PROVE WorkerTypes'
  <2>1. queue' \in Seq(Items) /\ dirty' \subseteq Items
    <3>1. Append(queue, i) \in Seq(Items)
      OBVIOUS
    <3>2. Worker!Add(i)
      BY <1>1 DEF Worker!Ripen, Worker!Enqueue
    <3> QED
      BY <3>1, <3>2, AddEffect
  <2> QED
    BY <1>1, <2>1 DEF Worker!Ripen, Worker!Enqueue
<1>2. ASSUME NEW i \in Items, Worker!Change(i) \/ Worker!EnqueueDelayed(i) PROVE WorkerTypes'
  BY <1>2 DEF Worker!Change, Worker!EnqueueDelayed, Worker!AddDelayed
<1>3. CASE Worker!BeforeStart \/ Worker!WaitPrereqs \/ Worker!Sync \/ Worker!Stop \/ Worker!Join
  BY <1>3 DEF Worker!BeforeStart, Worker!WaitPrereqs, Worker!Sync, Worker!Stop, Worker!Join
<1>4. CASE Worker!Spawn
  BY <1>4 DEF Worker!Spawn, Worker!Idle, WorkerStates
<1>5. CASE Worker!ShutDown
  BY <1>5 DEF Worker!ShutDown
<1>6. ASSUME NEW w \in Workers, Worker!Get(w) PROVE WorkerTypes'
  BY <1>6, TailOfQueue DEF Worker!Get, WorkerStates
<1>7. ASSUME NEW w \in Workers, Worker!Exit(w) \/ Worker!Fail(w) PROVE WorkerTypes'
  <2>1. PICK s \in WorkerStates : Worker!To(w, s) /\ (Worker!Executing(w) \/ s = "exited") /\ UNCHANGED <<Worker!objects, Worker!queues>>
    BY <1>7 DEF Worker!Exit, Worker!Fail, WorkerStates
  <2> QED
    BY <2>1, ToState
<1>8. ASSUME NEW w \in Workers, Worker!Read(w) PROVE WorkerTypes'
  BY <1>8 DEF Worker!Read, WorkerStates
<1>9. ASSUME NEW w \in Workers, Worker!Succeed(w) PROVE WorkerTypes'
  BY <1>9 DEF Worker!Succeed, Worker!To, WorkerStates
<1>10. ASSUME NEW w \in Workers, Worker!AddRateLimited(w) \/ Worker!AddAfter(w) PROVE WorkerTypes'
  <2>1. PICK s \in WorkerStates : Worker!To(w, s)
    BY <1>10 DEF Worker!AddRateLimited, Worker!AddAfter, WorkerStates
  <2> QED
    BY <1>10, <2>1, ToState DEF Worker!AddRateLimited, Worker!AddAfter, Worker!AddDelayed
<1>11. ASSUME NEW w \in Workers, Worker!Done(w) PROVE WorkerTypes'
  BY <1>11, AppendToQueue DEF Worker!Done, Worker!Idle, WorkerStates
<1>12. CASE UNCHANGED Worker!vars
  BY <1>12 DEF Worker!vars
<1> QED
  BY <1>1, <1>2, <1>3, <1>4, <1>5, <1>6, <1>7, <1>8, <1>9, <1>10, <1>11, <1>12 DEF Worker!Next, Worker!Goroutine

LEMMA SpawnedOncePreserved == WorkerTypes /\ SpawnedOnce /\ [Worker!Next]_Worker!vars => SpawnedOnce'
<1> SUFFICES ASSUME WorkerTypes, SpawnedOnce, [Worker!Next]_Worker!vars PROVE SpawnedOnce'
  OBVIOUS
<1> USE DEF SpawnedOnce, WorkerTypes, Worker!objects, Worker!queues, Worker!process
<1>1. ASSUME NEW i \in Items, Worker!Ripen(i) \/ Worker!Change(i) \/ Worker!Enqueue(i) \/ Worker!EnqueueDelayed(i) PROVE SpawnedOnce'
  BY <1>1 DEF Worker!Ripen, Worker!Change, Worker!Enqueue, Worker!EnqueueDelayed
<1>2. CASE Worker!BeforeStart \/ Worker!WaitPrereqs \/ Worker!Spawn \/ Worker!ShutDown \/ Worker!Sync \/ Worker!Stop \/ Worker!Join
  BY <1>2 DEF Worker!BeforeStart, Worker!WaitPrereqs, Worker!Spawn, Worker!ShutDown, Worker!Sync, Worker!Stop, Worker!Join
<1>3. ASSUME NEW w \in Workers, Worker!Goroutine(w) PROVE SpawnedOnce'
  BY <1>3 DEF Worker!Goroutine, Worker!Get, Worker!Exit, Worker!Read, Worker!Succeed, Worker!Fail, Worker!AddRateLimited, Worker!AddAfter, Worker!Done, Worker!To
<1>4. CASE UNCHANGED Worker!vars
  BY <1>4 DEF Worker!vars
<1> QED
  BY <1>1, <1>2, <1>3, <1>4 DEF Worker!Next

-----------------------------------------------------------------------------
(* A step of a worker from one state of an execution to another. *)
LEMMA SameExecutions ==
    ASSUME Worker!OneWorkerPerItem,
           \A v \in Workers : (Worker!Executing(v) <=> Worker!Executing(v)') /\ worker'[v].item = worker[v].item
    PROVE  Worker!OneWorkerPerItem' /\ Executed' = Executed
<1>1. Worker!OneWorkerPerItem'
  BY DEF Worker!OneWorkerPerItem
<1>2. Executed' = Executed
  BY DEF Executed
<1> QED
  BY <1>1, <1>2

LEMMA QueuePreserved ==
    ASSUME WorkerTypes, SpawnedOnce, QueueExact, Worker!OneWorkerPerItem, [Worker!Next]_Worker!vars
    PROVE  QueueExact' /\ Worker!OneWorkerPerItem'
<1> USE DEF QueueExact
<1>1. ASSUME NEW i \in Items, Worker!Ripen(i) \/ Worker!Enqueue(i) PROVE QueueExact' /\ Worker!OneWorkerPerItem'
  <2>1. UNCHANGED <<worker, processing>> /\ Worker!Add(i)
    BY <1>1 DEF Worker!Ripen, Worker!Enqueue
  <2>2. Worker!IsInjective(queue') /\ Worker!Range(queue') = dirty' \ processing
    <3> DEFINE longer == Append(queue, i)
    <3>1. Worker!Range(longer) = Worker!Range(queue) \cup {i} /\ (i \notin Worker!Range(queue) => Worker!IsInjective(longer))
      BY AppendToQueue DEF WorkerTypes
    <3>2. \/ queue' = queue /\ dirty' = dirty
          \/ i \in processing /\ queue' = queue /\ dirty' = dirty \cup {i}
          \/ i \notin dirty /\ i \notin processing /\ queue' = longer /\ dirty' = dirty \cup {i}
      BY <2>1, AddEffect
    <3> HIDE DEF longer
    <3> QED
      BY <3>1, <3>2
  <2>3. Worker!OneWorkerPerItem' /\ Executed' = Executed
    BY <2>1, SameExecutions DEF Worker!Executing
  <2> QED
    BY <2>1, <2>2, <2>3
<1>2. ASSUME UNCHANGED <<queue, dirty, processing, worker>> PROVE QueueExact' /\ Worker!OneWorkerPerItem'
  BY <1>2, SameExecutions DEF Worker!Executing
<1>3. CASE Worker!Spawn
  <2>1. \A w \in Workers : ~Worker!Executing(w) /\ ~Worker!Executing(w)'
    BY <1>3 DEF Worker!Spawn, SpawnedOnce, Worker!Executing, Worker!Idle
  <2>2. Worker!OneWorkerPerItem' /\ Executed = {} /\ Executed' = {}
    BY <2>1 DEF Worker!OneWorkerPerItem, Executed
  <2> QED
    BY <1>3, <2>2 DEF Worker!Spawn, Worker!queues
<1>4. ASSUME NEW w \in Workers, Worker!Get(w) PROVE QueueExact' /\ Worker!OneWorkerPerItem'
  <2>1. Head(queue) \in Items /\ Head(queue) \notin processing
    BY <1>4, TailOfQueue DEF Worker!Get, WorkerTypes
  <2>2. Worker!IsInjective(queue') /\ Worker!Range(queue') = dirty' \ processing'
    <3>1. /\ Worker!Range(queue) = Worker!Range(Tail(queue)) \cup {Head(queue)} /\ Head(queue) \notin Worker!Range(Tail(queue))
          /\ Worker!IsInjective(Tail(queue))
      BY <1>4, TailOfQueue DEF Worker!Get, WorkerTypes
    <3>2. /\ queue' = Tail(queue) /\ dirty' = dirty \ {Head(queue)}
          /\ processing' = processing \cup {Head(queue)}
      BY <1>4 DEF Worker!Get
    <3> QED
      BY <2>1, <3>1, <3>2
  <2>3. /\ Worker!Executing(w)' /\ ~Worker!Executing(w) /\ worker'[w].item = Head(queue)
        /\ \A v \in Workers : v # w => worker'[v] = worker[v]
    BY <1>4 DEF Worker!Get, Worker!Executing, WorkerTypes
  <2>4. Executed' = Executed \cup {Head(queue)}
    BY <2>3 DEF Executed, Worker!Executing
  <2>5. Worker!OneWorkerPerItem'
    BY <2>1, <2>3 DEF Worker!OneWorkerPerItem, Executed, Worker!Executing
  <2> QED
    BY <1>4, <2>2, <2>4, <2>5 DEF Worker!Get
<1>5. ASSUME NEW w \in Workers, Worker!Exit(w) \/ Worker!Fail(w) \/ Worker!Succeed(w) \/ Worker!AddRateLimited(w) \/ Worker!AddAfter(w) \/ Worker!Read(w)
      PROVE  QueueExact' /\ Worker!OneWorkerPerItem'
  <2>1. UNCHANGED <<queue, dirty, processing>>
    BY <1>5 DEF Worker!Exit, Worker!Fail, Worker!Succeed, Worker!AddRateLimited, Worker!AddAfter, Worker!Read, Worker!queues
  <2>2. \A v \in Workers : (Worker!Executing(v) <=> Worker!Executing(v)') /\ worker'[v].item = worker[v].item
    <3>1. CASE Worker!Read(w)
      BY <3>1 DEF Worker!Read, Worker!Executing, WorkerTypes
    <3>2. CASE ~Worker!Read(w)
      <4>1. PICK s \in WorkerStates : Worker!To(w, s) /\ (Worker!Executing(w) <=> s # "exited") /\ s \notin {"unborn", "idle"}
        BY <1>5, <3>2 DEF Worker!Exit, Worker!Fail, Worker!Succeed, Worker!AddRateLimited, Worker!AddAfter, WorkerStates, Worker!Executing
      <4> QED
        BY <4>1, ToState DEF Worker!Executing
    <3> QED
      BY <3>1, <3>2
  <2> QED
    BY <2>1, <2>2, SameExecutions
<1>6. ASSUME NEW w \in Workers, Worker!Done(w) PROVE QueueExact' /\ Worker!OneWorkerPerItem'
  <2> DEFINE i == worker[w].item
  <2>1. Worker!Executing(w) /\ i \in Items /\ i \in processing /\ i \notin Worker!Range(queue)
    BY <1>6 DEF Worker!Done, Worker!Executing, WorkerTypes, Executed
  <2>2. Worker!IsInjective(queue') /\ Worker!Range(queue') = dirty' \ processing'
    BY <1>6, <2>1, AppendToQueue DEF Worker!Done, WorkerTypes
  <2>3. ~Worker!Executing(w)' /\ \A v \in Workers : v # w => worker'[v] = worker[v]
    BY <1>6 DEF Worker!Done, Worker!Executing, Worker!Idle, WorkerTypes
  <2>4. Executed' = Executed \ {i}
    BY <2>1, <2>3 DEF Executed, Worker!Executing, Worker!OneWorkerPerItem
  <2>5. Worker!OneWorkerPerItem'
    BY <2>3 DEF Worker!OneWorkerPerItem, Worker!Executing
  <2> QED
    BY <1>6, <2>2, <2>4, <2>5 DEF Worker!Done
<1> QED
  BY <1>1, <1>2, <1>3, <1>4, <1>5, <1>6
     DEF Worker!Next, Worker!Goroutine, Worker!vars, Worker!objects, Worker!queues, Worker!process, Worker!Change, Worker!EnqueueDelayed, Worker!BeforeStart, Worker!WaitPrereqs,
         Worker!ShutDown, Worker!Sync, Worker!Stop, Worker!Join

-----------------------------------------------------------------------------
LEMMA ReadsForwardPreserved ==
    ASSUME WorkerTypes, Worker!OneWorkerPerItem, ReadsForward, [Worker!Next]_Worker!vars
    PROVE  ReadsForward'
<1> USE DEF ReadsForward, WorkerTypes, Worker!objects, Worker!queues, Worker!process
<1>0. \A w \in Workers : worker[w].st = "read" => worker[w].item \in Items /\ worker[w].read \in Nat
  BY DEF Worker!Executing
<1>1. ASSUME NEW i \in Items, Worker!Change(i) PROVE ReadsForward'
  <2>1. version' = [version EXCEPT ![i] = @ + 1] /\ UNCHANGED <<notified, handled, worker>>
    BY <1>1 DEF Worker!Change
  <2>2. \A j \in Items : version'[j] \in Nat /\ version[j] <= version'[j]
    BY <2>1
  <2> QED
    BY <1>0, <2>1, <2>2
<1>2. ASSUME NEW i \in Items, Worker!Enqueue(i) \/ Worker!EnqueueDelayed(i) PROVE ReadsForward'
  <2>1. notified' = [notified EXCEPT ![i] = version[i]] /\ UNCHANGED <<version, handled, worker>>
    BY <1>2 DEF Worker!Enqueue, Worker!EnqueueDelayed
  <2> QED
    BY <2>1
<1>3. CASE Worker!Spawn
  BY <1>3 DEF Worker!Spawn, Worker!Idle
<1>4. ASSUME NEW w \in Workers, Worker!Get(w) \/ Worker!Done(w) PROVE ReadsForward'
  <2>1. /\ worker'[w].st # "read" /\ \A v \in Workers : v # w => worker'[v] = worker[v]
        /\ UNCHANGED Worker!objects
    BY <1>4 DEF Worker!Get, Worker!Done, Worker!Idle
  <2> QED
    BY <2>1
<1>5. ASSUME NEW w \in Workers, Worker!Read(w) PROVE ReadsForward'
  <2>1. Worker!Executing(w)
    BY <1>5 DEF Worker!Read, Worker!Executing
  <2> QED
    BY <1>5, <2>1 DEF Worker!Read
<1>6. ASSUME NEW w \in Workers, Worker!Succeed(w) PROVE ReadsForward'
  <2> DEFINE i == worker[w].item
  <2>1. i \in Items /\ \A v \in Workers : v # w /\ worker[v].st = "read" => worker[v].item # i
    BY <1>6 DEF Worker!Succeed, Worker!OneWorkerPerItem, Worker!Executing
  <2>2. worker'[w].st = "done" /\ \A v \in Workers : v # w => worker'[v] = worker[v]
    BY <1>6, ToState DEF Worker!Succeed, WorkerStates
  <2>3. \A v \in Workers : worker[v].st = "read" => worker[v].item \in Items
    BY DEF Worker!Executing
  <2>4. handled' = [handled EXCEPT ![i] = worker[w].read] /\ UNCHANGED <<version, notified>>
    BY <1>6 DEF Worker!Succeed
  <2>5. worker[w].read <= version[i]
    BY <1>6 DEF Worker!Succeed
  <2> HIDE DEF i
  <2>6. \A j \in Items : notified'[j] <= version'[j] /\ handled'[j] <= version'[j]
    BY <2>1, <2>4, <2>5
  <2>7. ASSUME NEW v \in Workers, worker'[v].st = "read"
        PROVE  handled'[worker'[v].item] <= worker'[v].read /\ worker'[v].read <= version'[worker'[v].item]
    <3>1. v # w /\ worker'[v] = worker[v] /\ worker[v].st = "read"
      BY <2>2, <2>7
    <3>2. worker[v].item \in Items /\ worker[v].item # i
      BY <2>1, <2>3, <3>1
    <3>3. handled'[worker[v].item] = handled[worker[v].item]
      BY <2>4, <3>2
    <3> QED
      BY <2>4, <3>1, <3>2, <3>3
  <2> QED
    BY <2>6, <2>7
<1>7. ASSUME NEW w \in Workers, Worker!Exit(w) \/ Worker!Fail(w) \/ Worker!AddRateLimited(w) \/ Worker!AddAfter(w) PROVE ReadsForward'
  <2>1. PICK s \in WorkerStates : Worker!To(w, s) /\ s # "read" /\ UNCHANGED Worker!objects
    BY <1>7 DEF Worker!Exit, Worker!Fail, Worker!AddRateLimited, Worker!AddAfter, WorkerStates
  <2> QED
    BY <2>1, ToState
<1>8. ASSUME UNCHANGED <<version, notified, handled, worker>> PROVE ReadsForward'
  BY <1>8
<1> QED
  BY <1>1, <1>2, <1>3, <1>4, <1>5, <1>6, <1>7, <1>8
     DEF Worker!Next, Worker!Goroutine, Worker!vars, Worker!Ripen, Worker!BeforeStart, Worker!WaitPrereqs, Worker!ShutDown, Worker!Sync, Worker!Stop, Worker!Join

(* The workers that will bring the last version of i that was notified to an end. *)
Carrier(w, i) ==
    /\ worker[w].item = i
    /\ \/ worker[w].st \in {"got", "error", "conflict", "backoff"}
       \/ worker[w].st = "read" /\ worker[w].read >= notified[i]

LEMMA NothingForgottenPreserved ==
    ASSUME WorkerTypes, SpawnedOnce, Worker!OneWorkerPerItem, ReadsForward, Worker!NothingForgotten, [Worker!Next]_Worker!vars
    PROVE  Worker!NothingForgotten'
<1> SUFFICES ASSUME NEW i \in Items, ~shuttingDown', handled'[i] < notified'[i]
             PROVE  Worker!Underway(i, notified[i])'
  BY DEF Worker!NothingForgotten
<1> DEFINE Goal == i \in dirty' \cup waiting' \/ \E w \in Workers : Carrier(w, i)'
<1> SUFFICES Goal
  BY DEF Worker!Underway, Carrier
<1>0. ASSUME handled[i] < notified[i], ~shuttingDown
      PROVE  i \in dirty \cup waiting \/ \E w \in Workers : Carrier(w, i)
  BY <1>0 DEF Worker!NothingForgotten, Worker!Underway, Carrier
<1> USE DEF WorkerTypes, Worker!objects, Worker!queues, Worker!process
<1>1. ASSUME NEW j \in Items, Worker!Ripen(j) PROVE Goal
  <2>1. ~shuttingDown /\ UNCHANGED <<Worker!objects, worker>> /\ waiting' = waiting \ {j} /\ Worker!Add(j)
    BY <1>1 DEF Worker!Ripen
  <2>2. dirty' = dirty \cup {j}
    BY <2>1 DEF Worker!Add
  <2> QED
    BY <1>0, <2>1, <2>2 DEF Carrier
<1>2. ASSUME NEW j \in Items, Worker!Change(j) PROVE Goal
  BY <1>0, <1>2 DEF Worker!Change, Carrier
<1>3. ASSUME NEW j \in Items, Worker!Enqueue(j) PROVE Goal
  <2>1. ~shuttingDown /\ UNCHANGED <<handled, waiting, worker>> /\ Worker!Add(j)
    BY <1>3 DEF Worker!Enqueue
  <2>2. dirty' = dirty \cup {j}
    BY <2>1 DEF Worker!Add
  <2>3. j # i => notified'[i] = notified[i]
    BY <1>3 DEF Worker!Enqueue
  <2> QED
    BY <1>0, <2>1, <2>2, <2>3 DEF Carrier
<1>4. ASSUME NEW j \in Items, Worker!EnqueueDelayed(j) PROVE Goal
  <2>1. ~shuttingDown /\ UNCHANGED <<handled, dirty, worker>> /\ Worker!AddDelayed(j)
    BY <1>4 DEF Worker!EnqueueDelayed
  <2>2. waiting' = waiting \cup {j}
    BY <2>1 DEF Worker!AddDelayed
  <2>3. j # i => notified'[i] = notified[i]
    BY <1>4 DEF Worker!EnqueueDelayed
  <2> QED
    BY <1>0, <2>1, <2>2, <2>3 DEF Carrier
<1>5. CASE Worker!Spawn
  <2>1. \A w \in Workers : ~Carrier(w, i)
    BY <1>5 DEF Worker!Spawn, SpawnedOnce, Carrier
  <2> QED
    BY <1>0, <1>5, <2>1 DEF Worker!Spawn
<1>6. ASSUME NEW w \in Workers, Worker!Get(w) PROVE Goal
  <2>1. /\ dirty' = dirty \ {Head(queue)} /\ UNCHANGED <<Worker!objects, waiting, shuttingDown>>
        /\ worker' = [worker EXCEPT ![w] = [st |-> "got", item |-> Head(queue), read |-> 0]]
    BY <1>6 DEF Worker!Get
  <2>2. ~Carrier(w, i)
    BY <1>6 DEF Worker!Get, Carrier
  <2>3. i = Head(queue) => Carrier(w, i)'
    BY <2>1 DEF Carrier
  <2>4. \A v \in Workers : Carrier(v, i) => Carrier(v, i)'
    BY <2>1, <2>2 DEF Carrier
  <2> QED
    BY <1>0, <2>1, <2>3, <2>4
<1>7. ASSUME NEW w \in Workers, Worker!Exit(w) \/ Worker!Fail(w) PROVE Goal
  <2>1. PICK s \in {"error", "conflict", "exited"} :
            Worker!To(w, s) /\ (s = "exited" => worker[w].st = "idle") /\ UNCHANGED <<Worker!objects, Worker!queues>>
    BY <1>7 DEF Worker!Exit, Worker!Fail
  <2>2. \A v \in Workers : Carrier(v, i) => Carrier(v, i)'
    BY <2>1, ToState DEF Carrier, WorkerStates
  <2> QED
    BY <1>0, <2>1, <2>2
<1>8. ASSUME NEW w \in Workers, Worker!Read(w) PROVE Goal
  <2>1. /\ worker' = [worker EXCEPT ![w].st = "read", ![w].read = version[worker[w].item]]
        /\ worker[w].st = "got" /\ UNCHANGED <<Worker!objects, Worker!queues>>
    BY <1>8 DEF Worker!Read
  <2>2. notified[i] <= version[i] /\ notified'[i] = notified[i]
    BY <2>1 DEF ReadsForward
  <2>3. \A v \in Workers : Carrier(v, i) => Carrier(v, i)'
    BY <2>1, <2>2 DEF Carrier
  <2> QED
    BY <1>0, <2>1, <2>3
<1>9. ASSUME NEW w \in Workers, Worker!Succeed(w) PROVE Goal
  <2> DEFINE j == worker[w].item
  <2>1. /\ handled' = [handled EXCEPT ![j] = worker[w].read] /\ Worker!To(w, "done")
        /\ worker[w].st = "read" /\ UNCHANGED <<version, notified, Worker!queues>> /\ j \in Items
    BY <1>9 DEF Worker!Succeed, Worker!Executing
  <2>2. handled[i] <= handled'[i]
    BY <2>1 DEF ReadsForward
  <2>3. handled[i] < notified[i] /\ ~shuttingDown
    BY <2>1, <2>2
  <2>4. ~Carrier(w, i)
    BY <2>1 DEF Carrier
  <2>5. \A v \in Workers : Carrier(v, i) => Carrier(v, i)'
    BY <2>1, <2>4, ToState DEF Carrier, WorkerStates
  <2> QED
    BY <1>0, <2>1, <2>3, <2>5
<1>10. ASSUME NEW w \in Workers, Worker!AddRateLimited(w) \/ Worker!AddAfter(w) PROVE Goal
  <2>1. PICK s \in WorkerStates : /\ Worker!To(w, s) /\ UNCHANGED <<Worker!objects, dirty, shuttingDown>>
                            /\ Worker!AddDelayed(worker[w].item)
    BY <1>10 DEF Worker!AddRateLimited, Worker!AddAfter, WorkerStates
  <2>2. waiting' = waiting \cup {worker[w].item}
    BY <2>1 DEF Worker!AddDelayed
  <2>3. \A v \in Workers : v # w /\ Carrier(v, i) => Carrier(v, i)'
    BY <2>1, ToState DEF Carrier
  <2>4. Carrier(w, i) => i \in waiting'
    BY <2>2 DEF Carrier
  <2> QED
    BY <1>0, <2>1, <2>2, <2>3, <2>4
<1>11. ASSUME NEW w \in Workers, Worker!Done(w) PROVE Goal
  <2>1. ~Carrier(w, i)
    BY <1>11 DEF Worker!Done, Carrier
  <2>2. \A v \in Workers : Carrier(v, i) => Carrier(v, i)'
    BY <1>11, <2>1 DEF Worker!Done, Carrier
  <2> QED
    BY <1>0, <1>11, <2>2 DEF Worker!Done
<1>12. ASSUME UNCHANGED <<Worker!objects, dirty, waiting, worker>>, shuttingDown => shuttingDown' PROVE Goal
  BY <1>0, <1>12 DEF Carrier
<1> QED
  BY <1>1, <1>2, <1>3, <1>4, <1>5, <1>6, <1>7, <1>8, <1>9, <1>10, <1>11, <1>12
     DEF Worker!Next, Worker!Goroutine, Worker!vars, Worker!BeforeStart, Worker!WaitPrereqs, Worker!ShutDown, Worker!Sync, Worker!Stop, Worker!Join

-----------------------------------------------------------------------------
LEMMA WorkerInvStep == WorkerInv /\ [Worker!Next]_Worker!vars => WorkerInv'
  BY WorkerTypesPreserved, SpawnedOncePreserved, QueuePreserved, ReadsForwardPreserved, NothingForgottenPreserved
     DEF WorkerInv

LEMMA AlwaysWorkerInv == Worker!Spec => []WorkerInv
  BY WorkerInvInit, WorkerInvStep, PTL DEF Worker!Spec

(***************************************************************************)
(* No two workers execute the same key at a time (runWorker, spinOnce).    *)
(***************************************************************************)
THEOREM ExecutionsExclusive == Worker!Spec => []Worker!OneWorkerPerItem
  BY AlwaysWorkerInv, PTL DEF WorkerInv

(***************************************************************************)
(* A key is in the queue exactly if it is dirty and nobody executes it: a  *)
(* change during an execution is never left outside the queue by Done.     *)
(***************************************************************************)
THEOREM QueueIsExact == Worker!Spec => []QueueExact
  BY AlwaysWorkerInv, PTL DEF WorkerInv

-----------------------------------------------------------------------------
(***************************************************************************)
(* The quota.  What is left of it is what the summary gives less what the  *)
(* admitted reviews have taken, and once a review is refused it stays so:  *)
(* the counts only fall, and a limit that is reached admits nothing more.  *)
(***************************************************************************)
QuotaConstants == MaxCount \in Nat /\ MaxBatch \in Nat /\ LagLimits \subseteq Nat

Number == Len(input.batch)

State == [healthy : [Quota!Criteria -> Int], Reject : Int, Retry : Int, Remaining : SUBSET Int]

Charges ==
    /\ state \in State
    /\ \A k \in Quota!Criteria : state.healthy[k] = input.agg[k] - Cardinality(Quota!Charged(k))
    /\ state.Reject = input.min /\ state.Retry = input.min + input.lag
    /\ state.Remaining = IF input.maxLag = 0 THEN {}
                         ELSE {input.maxLag - input.lag - Cardinality(Quota!Admitted)}

StillRefused ==
    \A i \in todo + 1 .. Number :
        ~Quota!ShouldDisrupt(results[i]) => ~Quota!ShouldDisrupt(Quota!getResult(state, input.batch[i]))

QuotaInv ==
    /\ input \in Quota!Inputs /\ todo \in 0..Number /\ results \in [1..Number -> Quota!Results]
    /\ Charges /\ StillRefused
    /\ Quota!NeverOverdrawn /\ Quota!LagLimitKept /\ Quota!LatestFirst /\ Quota!RefusalsExplained

(* The parts bring their own copy of FiniteSets. *)
LEMMA QuotaCardinality == \A S : Quota!Cardinality(S) = Cardinality(S)
  BY DEF Quota!Cardinality, Cardinality, Quota!IsFiniteSet, IsFiniteSet

LEMMA InputFacts ==
    ASSUME QuotaConstants, input \in Quota!Inputs
    PROVE  /\ \A k \in Quota!Criteria : input.agg[k] \in Nat
           /\ input.lag \in Nat /\ input.min \in Nat /\ input.maxLag \in Nat
           /\ input.batch \in Seq(Quota!PodStatuses) /\ Number \in Nat
           /\ \A i \in 1..Number : input.batch[i].criterion \in Quota!Criteria
<1>1. input.agg \in Quota!Aggregations /\ input.batch \in UNION {[1..n -> Quota!PodStatuses] : n \in 1..MaxBatch}
  BY DEF Quota!Inputs
<1>7. input.lag \in 0..MaxCount /\ input.min \in 0..MaxCount /\ input.maxLag \in LagLimits
  BY DEF Quota!Inputs
<1>2. \A k \in Quota!Criteria : input.agg[k] \in Nat
  BY <1>1 DEF Quota!Aggregations, QuotaConstants
<1>3. input.batch \in Seq(Quota!PodStatuses)
  BY <1>1 DEF QuotaConstants
<1>4. input.lag \in Nat /\ input.min \in Nat /\ input.maxLag \in Nat
  <2>1. LagLimits \subseteq Nat /\ 0..MaxCount \subseteq Nat
    BY DEF QuotaConstants
  <2> QED
    BY <1>7, <2>1
<1>5. Number \in Nat /\ \A i \in 1..Number : input.batch[i] \in Quota!PodStatuses
  BY <1>3 DEF Number
<1>6. \A x \in Quota!PodStatuses : x.criterion \in Quota!Criteria
  BY DEF Quota!PodStatuses, Quota!Criteria
<1> QED
  BY <1>2, <1>3, <1>4, <1>5, <1>6

(* When a review is refused, and what an admitted one changes. *)
LEMMA Refuses ==
    ASSUME NEW s \in State, NEW pod, pod.criterion \in Quota!Criteria, s.Reject <= s.Retry
    PROVE  /\ Quota!getResult(s, pod) \in Quota!Results
           /\ ~Quota!ShouldDisrupt(Quota!getResult(s, pod)) <=>
                 \/ s.Remaining = {0}
                 \/ pod.criterion \in pod.is /\ s.healthy[pod.criterion] <= s.Retry
<1>1. s.healthy[pod.criterion] \in Int /\ s.Reject \in Int /\ s.Retry \in Int
  BY DEF State
<1> QED
  BY <1>1 DEF Quota!getResult, Quota!getResultForCriterion, Quota!ShouldDisrupt, Quota!Results

LEMMA Disrupts ==
    ASSUME NEW s \in State, NEW pod
    PROVE  /\ Quota!disruptState(s, pod) \in State
           /\ Quota!disruptState(s, pod).Reject = s.Reject /\ Quota!disruptState(s, pod).Retry = s.Retry
           /\ Quota!disruptState(s, pod).Remaining = {n - 1 : n \in s.Remaining}
           /\ \A k \in Quota!Criteria :
                 Quota!disruptState(s, pod).healthy[k] = IF k \in pod.is THEN s.healthy[k] - 1 ELSE s.healthy[k]
<1> DEFINE h == [k \in Quota!Criteria |-> IF k \in pod.is THEN s.healthy[k] - 1 ELSE s.healthy[k]]
           m == {n - 1 : n \in s.Remaining}
<1>1. h \in [Quota!Criteria -> Int] /\ m \in SUBSET Int
  BY DEF State
<1>2. Quota!disruptState(s, pod) = [s EXCEPT !.healthy = h, !.Remaining = m]
  BY DEF Quota!disruptState
<1>3. \A k \in Quota!Criteria : h[k] = IF k \in pod.is THEN s.healthy[k] - 1 ELSE s.healthy[k]
  OBVIOUS
<1> HIDE DEF h, m
<1>4. /\ [s EXCEPT !.healthy = h, !.Remaining = m] \in State
      /\ [s EXCEPT !.healthy = h, !.Remaining = m].healthy = h
      /\ [s EXCEPT !.healthy = h, !.Remaining = m].Remaining = m
      /\ [s EXCEPT !.healthy = h, !.Remaining = m].Reject = s.Reject
      /\ [s EXCEPT !.healthy = h, !.Remaining = m].Retry = s.Retry
  BY <1>1 DEF State
<1> QED
  BY <1>2, <1>3, <1>4 DEF m

LEMMA QuotaInit == QuotaConstants /\ Quota!Init => QuotaInv
<1> SUFFICES ASSUME QuotaConstants, Quota!Init PROVE QuotaInv
  OBVIOUS
<1>1. /\ input \in Quota!Inputs /\ todo = Number
      /\ results = [i \in 1..Number |-> "Ok"]
      /\ state = Quota!MakeState(input.agg, input.lag, input.min, input.maxLag)
  BY DEF Quota!Init, Number
<1>2. /\ \A k \in Quota!Criteria : input.agg[k] \in Nat
      /\ input.lag \in Nat /\ input.min \in Nat /\ input.maxLag \in Nat /\ Number \in Nat
  BY <1>1, InputFacts
<1>3. todo + 1 .. Number = {}
  BY <1>1, <1>2
<1>4. Quota!Admitted = {} /\ \A k \in Quota!Criteria : Quota!Charged(k) = {}
  BY <1>3 DEF Quota!Admitted, Quota!Charged, Number
<1>5. input.agg = [k \in Quota!Criteria |-> input.agg[k]]
  <2>1. input.agg \in Quota!Aggregations
    BY <1>1 DEF Quota!Inputs
  <2> QED
    BY <2>1 DEF Quota!Aggregations
<1>6. Charges
  <2>1. Cardinality({}) = 0
    BY FS_EmptySet
  <2>2. /\ state.healthy = input.agg /\ state.Reject = input.min /\ state.Retry = input.min + input.lag
        /\ state.Remaining = IF input.maxLag = 0 THEN {} ELSE {input.maxLag - input.lag}
    BY <1>1 DEF Quota!MakeState
  <2>3. input.agg \in [Quota!Criteria -> Int] /\ input.min \in Int /\ input.min + input.lag \in Int
        /\ (IF input.maxLag = 0 THEN {} ELSE {input.maxLag - input.lag}) \in SUBSET Int
    BY <1>2, <1>5
  <2>4. state \in State
    BY <1>1, <2>3 DEF Quota!MakeState, State
  <2>5. \A k \in Quota!Criteria : state.healthy[k] = input.agg[k] - Cardinality(Quota!Charged(k))
    <3>1. (\A k \in Quota!Criteria : input.agg[k] \in Nat) /\ state.healthy = input.agg
      BY <1>2, <2>2
    <3>2. \A k \in Quota!Criteria : Cardinality(Quota!Charged(k)) = 0
      BY <1>4, <2>1
    <3> QED
      BY <3>1, <3>2
  <2>6. input.maxLag - input.lag - Cardinality(Quota!Admitted) = input.maxLag - input.lag
    BY <1>2, <1>4, <2>1
  <2> QED
    BY <2>2, <2>4, <2>5, <2>6 DEF Charges
<1>7. StillRefused /\ Quota!LatestFirst /\ Quota!RefusalsExplained
  BY <1>3 DEF StillRefused, Quota!LatestFirst, Quota!RefusalsExplained, Number
<1>8. Quota!NeverOverdrawn
  BY <1>4 DEF Quota!NeverOverdrawn
<1>9. Quota!LagLimitKept
  <2>1. Cardinality(Quota!Admitted) = 0
    BY <1>4, FS_EmptySet
  <2> QED
    BY <1>2, <2>1, QuotaCardinality DEF Quota!LagLimitKept
<1>10. todo \in 0..Number /\ results \in [1..Number -> Quota!Results]
  BY <1>1, <1>2 DEF Quota!Results
<1> QED
  BY <1>1, <1>6, <1>7, <1>8, <1>9, <1>10 DEF QuotaInv

(* The reviews that are admitted, and those that count, after one more is judged. *)
LEMMA JudgedSets ==
    ASSUME QuotaConstants, QuotaInv, Quota!AdmitNext
    PROVE  LET pod == input.batch[todo]
               res == Quota!getResult(state, pod)
           IN  /\ todo \in 1..Number /\ Number \in Nat /\ input' = input /\ todo' = todo - 1
               /\ results'[todo] = res /\ \A i \in 1..Number : i # todo => results'[i] = results[i]
               /\ DOMAIN results' = 1..Number
               /\ Quota!Admitted \subseteq todo + 1..Number
               /\ IsFiniteSet(Quota!Admitted) /\ Cardinality(Quota!Admitted) \in Nat
               /\ Quota!ShouldDisrupt(res) =>
                     Quota!Admitted' = Quota!Admitted \cup {todo}
               /\ ~Quota!ShouldDisrupt(res) => Quota!Admitted' = Quota!Admitted
<1> DEFINE pod == input.batch[todo]
           res == Quota!getResult(state, pod)
<1>1. /\ todo \in 1..Number /\ Number \in Nat /\ input' = input /\ todo' = todo - 1
      /\ results \in [1..Number -> Quota!Results]
  BY InputFacts DEF QuotaInv, Quota!AdmitNext
<1>2. results' = [results EXCEPT ![todo] = res]
  BY DEF Quota!AdmitNext
<1> HIDE DEF res
<1>3. results'[todo] = res /\ (\A i \in 1..Number : i # todo => results'[i] = results[i]) /\ DOMAIN results' = 1..Number
  BY <1>1, <1>2
<1>4. Quota!Admitted = {i \in todo + 1 .. Number : Quota!ShouldDisrupt(results[i])}
  BY DEF Quota!Admitted, Number
<1>5. Quota!Admitted' = {i \in todo .. Number : Quota!ShouldDisrupt(results'[i])}
  <2>1. todo' + 1 = todo /\ Number' = Number
    BY <1>1 DEF Number
  <2> QED
    BY <2>1 DEF Quota!Admitted, Number
<1>6. todo..Number = (todo + 1..Number) \cup {todo} /\ todo \notin todo + 1..Number
      /\ todo + 1..Number \subseteq 1..Number
  BY <1>1
<1>7. \A i \in todo + 1..Number : results'[i] = results[i]
  BY <1>3, <1>6
<1>8. Quota!ShouldDisrupt(res) => Quota!Admitted' = Quota!Admitted \cup {todo}
  BY <1>3, <1>4, <1>5, <1>6, <1>7
<1>9. ~Quota!ShouldDisrupt(res) => Quota!Admitted' = Quota!Admitted
  BY <1>3, <1>4, <1>5, <1>6, <1>7
<1>10. IsFiniteSet(Quota!Admitted) /\ Cardinality(Quota!Admitted) \in Nat
  <2>1. IsFiniteSet(todo + 1..Number)
    BY <1>1, FS_Interval
  <2>2. IsFiniteSet(Quota!Admitted)
    BY <1>4, <2>1, FS_Subset
  <2> QED
    BY <2>2, FS_CardinalityType
<1> QED
  BY <1>1, <1>3, <1>4, <1>8, <1>9, <1>10 DEF res

LEMMA JudgedCharges ==
    ASSUME QuotaConstants, QuotaInv, Quota!AdmitNext, NEW k \in Quota!Criteria
    PROVE  LET pod == input.batch[todo]
               res == Quota!getResult(state, pod)
               charged == {i \in Quota!Admitted' : k \in input.batch[i].is}
           IN  /\ Quota!Charged(k) \subseteq Quota!Admitted
               /\ Cardinality(Quota!Charged(k)) \in Nat
               /\ Quota!ShouldDisrupt(res) /\ k \in pod.is =>
                     /\ charged = Quota!Charged(k) \cup {todo}
                     /\ Cardinality(charged) = Cardinality(Quota!Charged(k)) + 1
               /\ ~(Quota!ShouldDisrupt(res) /\ k \in pod.is) => charged = Quota!Charged(k)
<1> DEFINE pod == input.batch[todo]
           res == Quota!getResult(state, pod)
           charged == {i \in Quota!Admitted' : k \in input.batch[i].is}
<1>1. /\ todo \in 1..Number /\ Number \in Nat /\ input' = input
      /\ Quota!Admitted \subseteq todo + 1..Number /\ IsFiniteSet(Quota!Admitted)
      /\ Quota!ShouldDisrupt(res) => Quota!Admitted' = Quota!Admitted \cup {todo}
      /\ ~Quota!ShouldDisrupt(res) => Quota!Admitted' = Quota!Admitted
  BY JudgedSets
<1> HIDE DEF res
<1>2. Quota!Charged(k) = {i \in Quota!Admitted : k \in input.batch[i].is}
  BY DEF Quota!Charged
<1>3. todo \notin Quota!Charged(k) /\ Quota!Charged(k) \subseteq Quota!Admitted
  BY <1>1, <1>2
<1>4. IsFiniteSet(Quota!Charged(k)) /\ Cardinality(Quota!Charged(k)) \in Nat
  BY <1>1, <1>3, FS_Subset, FS_CardinalityType
<1>5. Quota!ShouldDisrupt(res) /\ k \in pod.is => charged = Quota!Charged(k) \cup {todo}
  BY <1>1, <1>2
<1>6. ~(Quota!ShouldDisrupt(res) /\ k \in pod.is) => charged = Quota!Charged(k)
  BY <1>1, <1>2
<1>7. Cardinality(Quota!Charged(k) \cup {todo}) = Cardinality(Quota!Charged(k)) + 1
  BY <1>3, <1>4, FS_AddElement
<1> QED
  BY <1>3, <1>4, <1>5, <1>6, <1>7 DEF res

LEMMA QuotaStep == ASSUME QuotaConstants, QuotaInv, Quota!AdmitNext PROVE QuotaInv'
<1> DEFINE pod == input.batch[todo]
           res == Quota!getResult(state, pod)
           taken(k) == Cardinality(Quota!Charged(k))
           charged(k) == {i \in Quota!Admitted' : k \in input.batch[i].is}
<1>0. QuotaConstants'
  BY DEF QuotaConstants
<1>1. /\ todo \in 1..Number /\ Number \in Nat /\ input' = input /\ todo' = todo - 1
      /\ results'[todo] = res /\ (\A i \in 1..Number : i # todo => results'[i] = results[i])
      /\ DOMAIN results' = 1..Number
      /\ Quota!Admitted \subseteq todo + 1..Number
      /\ IsFiniteSet(Quota!Admitted) /\ Cardinality(Quota!Admitted) \in Nat
      /\ Quota!ShouldDisrupt(res) => Quota!Admitted' = Quota!Admitted \cup {todo}
      /\ ~Quota!ShouldDisrupt(res) => Quota!Admitted' = Quota!Admitted
  BY JudgedSets
<1>2. \A k \in Quota!Criteria :
         /\ Quota!Charged(k) \subseteq Quota!Admitted /\ taken(k) \in Nat
         /\ Quota!ShouldDisrupt(res) /\ k \in pod.is =>
               charged(k) = Quota!Charged(k) \cup {todo} /\ Cardinality(charged(k)) = taken(k) + 1
         /\ ~(Quota!ShouldDisrupt(res) /\ k \in pod.is) => charged(k) = Quota!Charged(k)
  BY JudgedCharges
<1> HIDE DEF charged
<1>3. /\ \A k \in Quota!Criteria : input.agg[k] \in Nat
      /\ input.lag \in Nat /\ input.min \in Nat /\ input.maxLag \in Nat
      /\ \A i \in 1..Number : input.batch[i].criterion \in Quota!Criteria
  BY InputFacts DEF QuotaInv
<1>h. \A k \in Quota!Criteria : /\ state.healthy[k] = input.agg[k] - taken(k)
                                /\ input.agg[k] \in Nat /\ taken(k) \in Nat
  <2>1. \A k \in Quota!Criteria : state.healthy[k] = input.agg[k] - taken(k)
    BY DEF QuotaInv, Charges
  <2>2. \A k \in Quota!Criteria : input.agg[k] \in Nat
    BY <1>3
  <2>3. \A k \in Quota!Criteria : taken(k) \in Nat
    BY <1>2
  <2> QED
    BY <2>1, <2>2, <2>3
<1>4. /\ state \in State
      /\ state.Reject = input.min /\ state.Retry = input.min + input.lag
      /\ state.Remaining = IF input.maxLag = 0 THEN {}
                            ELSE {input.maxLag - input.lag - Cardinality(Quota!Admitted)}
  BY DEF QuotaInv, Charges
<1>5. pod.criterion \in Quota!Criteria /\ state.Reject <= state.Retry
  BY <1>1, <1>3, <1>4
<1>6. res \in Quota!Results
      /\ (Quota!ShouldDisrupt(res) =>
            /\ state.Remaining # {0}
            /\ pod.criterion \in pod.is => state.healthy[pod.criterion] > state.Retry)
  <2>1. state.healthy[pod.criterion] \in Int /\ state.Retry \in Int
    BY <1>4, <1>5 DEF State
  <2> QED
    BY <1>4, <1>5, <2>1, Refuses
<1>7. state' = IF Quota!ShouldDisrupt(res) THEN Quota!disruptState(state, pod) ELSE state
  BY DEF Quota!AdmitNext, Quota!AdmitBatchItem
<1>8. /\ state' \in State /\ state'.Reject = state.Reject /\ state'.Retry = state.Retry
      /\ Quota!ShouldDisrupt(res) => state'.Remaining = {n - 1 : n \in state.Remaining}
      /\ \A k \in Quota!Criteria :
            state'.healthy[k] = IF Quota!ShouldDisrupt(res) /\ k \in pod.is THEN state.healthy[k] - 1 ELSE state.healthy[k]
  BY <1>4, <1>7, Disrupts
<1>9. Number' = Number /\ todo' + 1 = todo
  BY <1>1 DEF Number
<1> HIDE DEF res
<1>10. results' \in [1..Number -> Quota!Results] /\ todo' \in 0..Number
  <2>1. results \in [1..Number -> Quota!Results] /\ results' = [results EXCEPT ![todo] = res]
    BY DEF QuotaInv, Quota!AdmitNext, res
  <2> QED
    BY <1>1, <1>6, <2>1
<1>11. Charges'
  <2>1. \A k \in Quota!Criteria : state'.healthy[k] = input'.agg[k] - Cardinality(Quota!Charged(k)')
    <3> SUFFICES ASSUME NEW k \in Quota!Criteria
                 PROVE  state'.healthy[k] = input'.agg[k] - Cardinality(charged(k))
      BY <1>1 DEF Quota!Charged, charged
    <3>1. state.healthy[k] = input.agg[k] - taken(k) /\ input.agg[k] \in Nat /\ taken(k) \in Nat
      BY <1>h
    <3>2. /\ Quota!ShouldDisrupt(res) /\ k \in pod.is => Cardinality(charged(k)) = taken(k) + 1
          /\ ~(Quota!ShouldDisrupt(res) /\ k \in pod.is) => Cardinality(charged(k)) = taken(k)
      BY <1>2
    <3>3. input' = input
          /\ state'.healthy[k] = IF Quota!ShouldDisrupt(res) /\ k \in pod.is THEN state.healthy[k] - 1 ELSE state.healthy[k]
      BY <1>1, <1>8
    <3> QED
      BY <3>1, <3>2, <3>3
  <2>2. state'.Remaining = IF input'.maxLag = 0 THEN {}
                           ELSE {input'.maxLag - input'.lag - Cardinality(Quota!Admitted')}
    <3>1. CASE Quota!ShouldDisrupt(res)
      <4>1. Cardinality(Quota!Admitted') = Cardinality(Quota!Admitted) + 1
        <5>1. todo \notin Quota!Admitted
          BY <1>1
        <5> QED
          BY <1>1, <3>1, <5>1, FS_AddElement
      <4>2. CASE input.maxLag = 0
        BY <1>1, <1>4, <1>8, <3>1, <4>2
      <4>3. CASE input.maxLag # 0
        <5>1. state'.Remaining = {input.maxLag - input.lag - Cardinality(Quota!Admitted) - 1}
          BY <1>4, <1>8, <3>1, <4>3
        <5>2. /\ input.maxLag \in Int /\ input.lag \in Int /\ Cardinality(Quota!Admitted) \in Int
              /\ input' = input
          BY <1>1, <1>3
        <5>3. input.maxLag - input.lag - Cardinality(Quota!Admitted) - 1
                = input'.maxLag - input'.lag - Cardinality(Quota!Admitted')
          BY <4>1, <5>2
        <5> QED
          BY <4>3, <5>1, <5>2, <5>3
      <4> QED
        BY <4>2, <4>3
    <3>2. CASE ~Quota!ShouldDisrupt(res)
      BY <1>1, <1>4, <1>7, <3>2
    <3> QED
      BY <3>1, <3>2
  <2> QED
    BY <1>1, <1>4, <1>8, <2>1, <2>2 DEF Charges
<1>12. StillRefused'
  <2> SUFFICES ASSUME NEW i \in todo..Number, ~Quota!ShouldDisrupt(results'[i])
               PROVE  ~Quota!ShouldDisrupt(Quota!getResult(state', input.batch[i]))
    BY <1>1, <1>9 DEF StillRefused
  <2>1. i \in 1..Number /\ input.batch[i].criterion \in Quota!Criteria
    BY <1>1, <1>3
  <2>2. CASE ~Quota!ShouldDisrupt(res)
    <3>1. state' = state
      BY <1>7, <2>2
    <3>2. CASE i = todo
      BY <2>2, <3>1, <3>2 DEF res
    <3>3. CASE i # todo
      <4>1. i \in todo + 1..Number /\ results'[i] = results[i]
        BY <1>1, <2>1, <3>3
      <4> QED
        BY <3>1, <4>1 DEF QuotaInv, StillRefused
    <3> QED
      BY <3>2, <3>3
  <2>3. CASE Quota!ShouldDisrupt(res)
    <3>1. i \in todo + 1..Number /\ results'[i] = results[i]
      BY <1>1, <2>1, <2>3
    <3>2. ~Quota!ShouldDisrupt(Quota!getResult(state, input.batch[i]))
      BY <3>1 DEF QuotaInv, StillRefused
    <3> DEFINE q == input.batch[i]
    <3>3. q.criterion \in q.is /\ state.healthy[q.criterion] <= state.Retry
      BY <1>4, <1>5, <1>6, <2>1, <2>3, <3>2, Refuses
    <3>4. state'.healthy[q.criterion] <= state'.Retry
      <4>1. state.healthy[q.criterion] \in Int /\ state.Retry \in Int
        BY <1>4, <2>1 DEF State
      <4>2. state'.healthy[q.criterion] = state.healthy[q.criterion] - 1 \/ state'.healthy[q.criterion] = state.healthy[q.criterion]
        BY <1>8, <2>1
      <4> QED
        BY <1>8, <3>3, <4>1, <4>2
    <3>5. state'.Reject <= state'.Retry
      BY <1>5, <1>8
    <3> QED
      BY <1>8, <2>1, <3>3, <3>4, <3>5, Refuses
  <2> QED
    BY <2>2, <2>3
<1>13. Quota!NeverOverdrawn'
  <2> SUFFICES ASSUME NEW k \in Quota!Criteria, \A i \in 1..Number : input.batch[i].criterion = k
               PROVE  \/ charged(k) = {}
                      \/ input.agg[k] - Cardinality(charged(k)) - input.lag >= input.min
    BY <1>1, QuotaCardinality DEF Quota!NeverOverdrawn, Quota!Charged, Number, charged
  <2>1. \/ Quota!Charged(k) = {}
        \/ input.agg[k] - taken(k) - input.lag >= input.min
    BY QuotaCardinality DEF QuotaInv, Quota!NeverOverdrawn, Number
  <2>2. CASE Quota!ShouldDisrupt(res) /\ k \in pod.is
    <3>1. pod.criterion = k
      BY <1>1
    <3>2. state.healthy[k] > state.Retry
      BY <1>6, <2>2, <3>1
    <3>3. input.agg[k] - taken(k) > input.min + input.lag
      BY <1>4, <1>h, <3>2
    <3>4. input.agg[k] \in Nat /\ taken(k) \in Nat
      BY <1>h
    <3>5. Cardinality(charged(k)) = taken(k) + 1
      BY <1>2, <2>2
    <3> QED
      BY <1>3, <3>3, <3>4, <3>5
  <2>3. CASE ~(Quota!ShouldDisrupt(res) /\ k \in pod.is)
    <3>1. charged(k) = Quota!Charged(k)
      BY <1>2, <2>3
    <3> QED
      BY <2>1, <3>1
  <2> QED
    BY <2>2, <2>3
<1>14. Quota!LagLimitKept'
  <2> SUFFICES ASSUME input.maxLag # 0, input.lag <= input.maxLag
               PROVE  input.lag + Cardinality(Quota!Admitted') <= input.maxLag
    BY <1>1, QuotaCardinality DEF Quota!LagLimitKept
  <2>1. input.lag + Cardinality(Quota!Admitted) <= input.maxLag
    BY QuotaCardinality DEF QuotaInv, Quota!LagLimitKept
  <2>2. CASE Quota!ShouldDisrupt(res)
    <3>1. input.maxLag - input.lag - Cardinality(Quota!Admitted) # 0
      BY <1>4, <1>6, <2>2
    <3>2. Cardinality(Quota!Admitted') = Cardinality(Quota!Admitted) + 1
      <4>1. todo \notin Quota!Admitted
        BY <1>1
      <4> QED
        BY <1>1, <2>2, <4>1, FS_AddElement
    <3> QED
      BY <1>1, <1>3, <2>1, <3>1, <3>2
  <2>3. CASE ~Quota!ShouldDisrupt(res)
    BY <1>1, <2>1, <2>3
  <2> QED
    BY <2>2, <2>3
<1>15. Quota!LatestFirst'
  <2> SUFFICES ASSUME NEW i \in todo..Number, NEW j \in todo..Number,
                      i < j, input.batch[i] = input.batch[j], Quota!ShouldDisrupt(results'[i])
               PROVE  Quota!ShouldDisrupt(results'[j])
    BY <1>1, <1>9 DEF Quota!LatestFirst, Number
  <2>1. j \in todo + 1..Number /\ results'[j] = results[j]
    BY <1>1
  <2>2. CASE i = todo
    <3>1. Quota!ShouldDisrupt(Quota!getResult(state, input.batch[j]))
      BY <1>1, <2>2 DEF res
    <3> QED
      BY <2>1, <3>1 DEF QuotaInv, StillRefused
  <2>3. CASE i # todo
    <3>1. i \in todo + 1..Number /\ results'[i] = results[i]
      BY <1>1, <2>3
    <3> QED
      BY <2>1, <3>1 DEF QuotaInv, Quota!LatestFirst, Number
  <2> QED
    BY <2>2, <2>3
<1>16. Quota!RefusalsExplained'
  <2> DEFINE before(k, i) == {j \in Quota!Charged(k) : j > i}
             since(k, i) == {j \in charged(k) : j > i}
             right(k, n, r) == /\ r = "Denied" => input.agg[k] - n <= input.min
                               /\ r = "Retry" => \/ input.maxLag # 0
                                                 \/ input.lag > 0 /\ input.agg[k] - n > input.min
  <2> SUFFICES ASSUME NEW i \in todo..Number
               PROVE  right(input.batch[i].criterion, Cardinality(since(input.batch[i].criterion, i)), results'[i])
    BY <1>1, <1>9, QuotaCardinality DEF Quota!RefusalsExplained, Quota!Charged, Number, charged
  <2> DEFINE k == input.batch[i].criterion
  <2>1. k \in Quota!Criteria
    BY <1>1, <1>3
  <2>2. charged(k) \ {todo} = Quota!Charged(k) /\ Quota!Charged(k) \subseteq todo + 1..Number
    <3>1. Quota!Charged(k) \subseteq Quota!Admitted
          /\ (charged(k) = Quota!Charged(k) \cup {todo} \/ charged(k) = Quota!Charged(k))
      BY <1>2, <2>1
    <3>2. Quota!Admitted \subseteq todo + 1..Number /\ todo \notin todo + 1..Number
      BY <1>1
    <3> QED
      BY <3>1, <3>2
  <2>3. CASE i = todo
    <3>1. since(k, i) = Quota!Charged(k)
      BY <1>1, <2>2, <2>3
    <3>2. state.healthy[k] = input.agg[k] - taken(k) /\ input.agg[k] \in Nat /\ taken(k) \in Nat
      BY <1>h, <2>1
    <3>3. k = pod.criterion
      BY <2>3
    <3>4. res = "Denied" => state.healthy[k] <= input.min
      BY <1>4, <3>3 DEF res, Quota!getResult, Quota!getResultForCriterion
    <3>5. res = "Retry" => \/ state.Remaining = {0}
                           \/ state.healthy[k] > input.min /\ state.healthy[k] <= input.min + input.lag
      BY <1>4, <3>3 DEF res, Quota!getResult, Quota!getResultForCriterion
    <3>6. state.Remaining = {0} => input.maxLag # 0
      BY <1>4
    <3>7. right(k, taken(k), res)
      BY <1>3, <3>2, <3>4, <3>5, <3>6
    <3> QED
      BY <1>1, <2>3, <3>1, <3>7
  <2>4. CASE i # todo
    <3>1. i \in todo + 1..Number /\ results'[i] = results[i]
      BY <1>1, <2>4
    <3>2. since(k, i) = before(k, i)
      BY <1>1, <2>2, <3>1
    <3>3. right(k, Cardinality(before(k, i)), results[i])
      BY <3>1, QuotaCardinality DEF QuotaInv, Quota!RefusalsExplained, Number
    <3> QED
      BY <3>1, <3>2, <3>3
  <2> QED
    BY <2>3, <2>4
<1> QED
  BY <1>1, <1>9, <1>10, <1>11, <1>12, <1>13, <1>14, <1>15, <1>16 DEF QuotaInv

LEMMA QuotaHolds == ASSUME QuotaConstants, QuotaInv PROVE Quota!AdmittedExactly /\ Quota!RefusedRightly
<1>1. Quota!Cardinality(state.Remaining) <= 1
  <2>1. \E x : state.Remaining = {} \/ state.Remaining = {x}
    BY DEF QuotaInv, Charges
  <2>2. Cardinality({}) = 0 /\ \A x : Cardinality({x}) = 1
    BY FS_EmptySet, FS_Singleton
  <2>3. Cardinality(state.Remaining) = 0 \/ Cardinality(state.Remaining) = 1
    BY <2>1, <2>2
  <2>4. Quota!Cardinality(state.Remaining) = Cardinality(state.Remaining)
    BY QuotaCardinality
  <2> QED
    BY <2>3, <2>4
<1>2. state.healthy \in [Quota!Criteria -> Int]
  BY DEF QuotaInv, Charges, State
<1>3. Quota!TypeOK
  BY <1>1, <1>2 DEF QuotaInv, Quota!TypeOK, Number
<1>4. Quota!RefusalsJustified
  <2>1. todo = 0 => todo + 1 = 1
    OBVIOUS
  <2> QED
    BY <2>1 DEF QuotaInv, StillRefused, Quota!RefusalsJustified, Number
<1> QED
  BY <1>3, <1>4 DEF QuotaInv, Quota!AdmittedExactly, Quota!RefusedRightly

LEMMA QuotaInvariant == QuotaConstants => (Quota!Spec => []QuotaInv)
<1> SUFFICES ASSUME QuotaConstants PROVE Quota!Spec => []QuotaInv
  OBVIOUS
<1>1. Quota!Init => QuotaInv
  BY QuotaInit
<1>2. QuotaInv /\ [Quota!Next]_Quota!vars => QuotaInv'
  <2> SUFFICES ASSUME QuotaInv, [Quota!Next]_Quota!vars PROVE QuotaInv'
    OBVIOUS
  <2>1. CASE Quota!AdmitNext
    BY <2>1, QuotaStep
  <2>2. CASE UNCHANGED Quota!vars
    BY <2>2 DEF Quota!vars, QuotaInv, Number, Charges, StillRefused, Quota!NeverOverdrawn, Quota!LagLimitKept,
                Quota!LatestFirst, Quota!RefusalsExplained, Quota!Charged, Quota!Admitted
  <2> QED
    BY <2>1, <2>2 DEF Quota!Next, Quota!Returned
<1> QED
  BY <1>1, <1>2, PTL DEF Quota!Spec

(***************************************************************************)
(* AdmitBatch admits what the quota allows, for batches, counts and limits *)
(* of any size: the minimum stands on top of the unconfirmed lag, the      *)
(* admissions stay within MaxConcurrentLag, and what was refused could not *)
(* be admitted with what is left.                                          *)
(***************************************************************************)
THEOREM QuotaExact == QuotaConstants => (Quota!Spec => []Quota!AdmittedExactly)
<1> SUFFICES ASSUME QuotaConstants PROVE Quota!Spec => []Quota!AdmittedExactly
  OBVIOUS
<1>1. QuotaInv => Quota!AdmittedExactly
  BY QuotaHolds
<1>2. Quota!Spec => []QuotaInv
  BY QuotaInvariant
<1> QED
  BY <1>1, <1>2, PTL

(***************************************************************************)
(* AdmitBatch refuses the earliest of reviews that are alike, and tells    *)
(* "denied" from "retry" by what stands in the way, for batches, counts    *)
(* and limits of any size.                                                 *)
(***************************************************************************)
THEOREM QuotaRight == QuotaConstants => (Quota!Spec => []Quota!RefusedRightly)
<1> SUFFICES ASSUME QuotaConstants PROVE Quota!Spec => []Quota!RefusedRightly
  OBVIOUS
<1>1. QuotaInv => Quota!RefusedRightly
  BY QuotaHolds
<1>2. Quota!Spec => []QuotaInv
  BY QuotaInvariant
<1> QED
  BY <1>1, <1>2, PTL

-----------------------------------------------------------------------------
(***************************************************************************)
(* The webhook.  While a review is put to the PodProtectors, those that    *)
(* match it and have been there all along are still to be asked or have    *)
(* agreed, and only those that have agreed hold a bucket for its pod.      *)
(***************************************************************************)
HandlerConstants == IsFiniteSet(Pprs) /\ Forms \subseteq Handler!Request

Answers == {"none", "allowed", "rejected", "error", "bad", "aborted"}

Row ==
    [phase : {"new", "next", "submitted", "answered"}, request : Forms \cup {[kind |-> "none"]},
     todo : SUBSET Pprs, agreed : SUBSET Pprs, current : SUBSET Pprs, answer : Answers]

(* What holds of a review x with its steady PodProtectors and those that hold a bucket. *)
Asked(x, there, held) ==
    /\ there \cap x.request.labels \subseteq x.todo \cup x.agreed
    /\ x.todo \cup x.agreed \subseteq x.request.labels
    /\ x.todo \cap x.agreed = {}
    /\ held \subseteq x.agreed

AskedInEarnest(x) ==
    /\ Handler!Interpretation(x.request) = "pod" /\ x.request.broken # "body"
    /\ ~x.request.terminating /\ x.request.ready > 0

Answered(x, there, held) ==
    /\ AskedInEarnest(x) /\ x.answer = "allowed" /\ ~DryRun /\ ~x.request.forced =>
          there \cap x.request.labels \subseteq x.agreed
    /\ x.answer = "rejected" /\ Cardinality(x.request.labels) <= 1 => held = {}

ReviewOK(x, there, held) ==
    /\ x.phase = "new" => held = {} /\ x.agreed = {}
    /\ x.phase # "new" => x.request \in Forms
    /\ x.phase # "answered" => x.answer = "none"
    /\ x.phase \in {"next", "submitted"} => Asked(x, there, held)
    /\ x.phase = "submitted" => \E p \in x.todo : x.current = {p}
    /\ x.phase = "answered" => Answered(x, there, held)

HeldIn(pairs, r) == {p \in Pprs : <<p, r>> \in pairs}

HandlerInv ==
    /\ review \in [Reviews -> Row] /\ DOMAIN steady = Reviews
    /\ stored \subseteq Pprs /\ indexed \subseteq Pprs
    /\ \A r \in Reviews : ReviewOK(review[r], steady[r], HeldIn(buckets, r))

LEMMA HandlerCardinality == \A S : Handler!Cardinality(S) = Cardinality(S)
  BY DEF Handler!Cardinality, Cardinality, Handler!IsFiniteSet, IsFiniteSet

LEMMA HandlerInit == Handler!Init => HandlerInv
<1> SUFFICES ASSUME Handler!Init PROVE HandlerInv
  OBVIOUS
<1>1. Handler!New \in Row /\ Handler!New.phase = "new" /\ Handler!New.answer = "none" /\ Handler!New.agreed = {}
  BY DEF Handler!New, Row, Answers
<1>2. /\ review = [r \in Reviews |-> Handler!New] /\ steady = [r \in Reviews |-> {}]
      /\ stored = {} /\ indexed = {} /\ buckets = {}
  BY DEF Handler!Init
<1>3. \A r \in Reviews : review[r].phase = "new" /\ review[r].answer = "none" /\ review[r].agreed = {} /\ HeldIn(buckets, r) = {}
  BY <1>1, <1>2 DEF HeldIn
<1>4. review \in [Reviews -> Row] /\ DOMAIN steady = Reviews
  BY <1>1, <1>2
<1> QED
  BY <1>2, <1>3, <1>4 DEF HandlerInv, ReviewOK

(* What ends a review, and what leaves the others alone. *)
LEMMA Responds ==
    ASSUME review \in [Reviews -> Row], NEW r \in Reviews, NEW req \in Forms,
           NEW outcome \in Answers, NEW dry, Handler!Respond(r, req, outcome, dry)
    PROVE  LET x == review[r]
               y == review'[r]
           IN  /\ review' \in [Reviews -> Row] /\ \A q \in Reviews \ {r} : review'[q] = review[q]
               /\ y.phase = "answered" /\ y.request = req /\ y.todo = x.todo /\ y.agreed = x.agreed
               /\ y.answer = IF DryRun \/ dry THEN "allowed" ELSE outcome
<1> DEFINE a == IF DryRun \/ dry THEN "allowed" ELSE outcome
           y == [review[r] EXCEPT !.phase = "answered", !.request = req, !.answer = a]
<1>1. a \in Answers
  BY DEF Answers
<1>2. review' = [review EXCEPT ![r] = y]
  BY DEF Handler!Respond
<1> HIDE DEF a
<1>3. review[r] \in Row
  OBVIOUS
<1>4. y \in Row /\ y.phase = "answered" /\ y.request = req /\ y.todo = review[r].todo /\ y.agreed = review[r].agreed
      /\ y.answer = a
  BY <1>1, <1>3 DEF Row
<1> HIDE DEF y
<1>5. review' \in [Reviews -> Row] /\ (\A q \in Reviews \ {r} : review'[q] = review[q]) /\ review'[r] = y
  BY <1>2, <1>4
<1> QED
  BY <1>4, <1>5 DEF a

(* A step that concerns review r alone. *)
LEMMA OneReview ==
    ASSUME HandlerInv, NEW r \in Reviews,
           review' \in [Reviews -> Row], DOMAIN steady' = Reviews,
           stored' \subseteq Pprs, indexed' \subseteq Pprs,
           \A q \in Reviews \ {r} : review'[q] = review[q] /\ steady'[q] = steady[q],
           \A q \in Reviews \ {r} : HeldIn(buckets', q) = HeldIn(buckets, q),
           ReviewOK(review'[r], steady'[r], HeldIn(buckets', r))
    PROVE  HandlerInv'
<1>1. \A q \in Reviews : ReviewOK(review'[q], steady'[q], HeldIn(buckets', q))
  <2> SUFFICES ASSUME NEW q \in Reviews, q # r PROVE ReviewOK(review'[q], steady'[q], HeldIn(buckets', q))
    OBVIOUS
  <2>1. review'[q] = review[q] /\ steady'[q] = steady[q] /\ HeldIn(buckets', q) = HeldIn(buckets, q)
    OBVIOUS
  <2>2. ReviewOK(review[q], steady[q], HeldIn(buckets, q))
    BY DEF HandlerInv
  <2> QED
    BY <2>1, <2>2
<1> QED
  BY <1>1 DEF HandlerInv

LEMMA HandleStep ==
    ASSUME HandlerConstants, HandlerInv, NEW r \in Reviews, NEW req \in Forms, Handler!Handle(r, req)
    PROVE  HandlerInv'
<1> DEFINE x == review[r]
           y == review'[r]
<1>1. /\ review \in [Reviews -> Row] /\ DOMAIN steady = Reviews /\ x \in Row
      /\ stored \subseteq Pprs /\ indexed \subseteq Pprs
  BY DEF HandlerInv
<1>2. x.phase = "new" /\ HeldIn(buckets, r) = {} /\ x.agreed = {} /\ x.answer = "none"
  BY DEF HandlerInv, ReviewOK, Handler!Handle
<1>3. steady' = [steady EXCEPT ![r] = stored \cap indexed] /\ buckets' = buckets /\ stored' = stored /\ indexed' = indexed
  BY DEF Handler!Handle, Handler!informer
<1>4. req.labels \subseteq Pprs /\ req.forced \in BOOLEAN
  BY DEF HandlerConstants, Handler!Request
<1>5. \/ \E a \in {"bad", "aborted"} :
            review' = [review EXCEPT ![r].phase = "answered", ![r].request = req, ![r].answer = a]
      \/ \E o \in {"error", "rejected"} : Handler!Respond(r, req, o, FALSE)
      \/ (req.terminating \/ req.ready = 0) /\ Handler!Respond(r, req, "allowed", req.forced)
      \/ review' = [review EXCEPT ![r].phase = "next", ![r].request = req, ![r].todo = indexed \cap req.labels]
  BY DEF Handler!Handle
<1>6. SUFFICES /\ review' \in [Reviews -> Row]
               /\ \A q \in Reviews \ {r} : review'[q] = review[q]
               /\ ReviewOK(y, steady'[r], {})
  <2>1. DOMAIN steady' = Reviews /\ \A q \in Reviews \ {r} : steady'[q] = steady[q]
    BY <1>1, <1>3
  <2> QED
    BY <1>1, <1>2, <1>3, <2>1, OneReview
<1>7. CASE \E a \in {"bad", "aborted"} :
             review' = [review EXCEPT ![r].phase = "answered", ![r].request = req, ![r].answer = a]
  <2> PICK a \in {"bad", "aborted"} :
             review' = [review EXCEPT ![r].phase = "answered", ![r].request = req, ![r].answer = a]
    BY <1>7
  <2> DEFINE z == [x EXCEPT !.phase = "answered", !.request = req, !.answer = a]
  <2>1. review' = [review EXCEPT ![r] = z]
    OBVIOUS
  <2>2. z \in Row /\ z.phase = "answered" /\ z.request = req /\ z.answer = a
    BY <1>1 DEF Row, Answers
  <2> HIDE DEF z
  <2>3. review' \in [Reviews -> Row] /\ (\A q \in Reviews \ {r} : review'[q] = review[q]) /\ y = z
    BY <1>1, <2>1, <2>2
  <2> QED
    BY <2>2, <2>3 DEF ReviewOK, Answered
<1>8. CASE \E o \in {"error", "rejected"} : Handler!Respond(r, req, o, FALSE)
  <2> PICK o \in {"error", "rejected"} : Handler!Respond(r, req, o, FALSE)
    BY <1>8
  <2>1. /\ review' \in [Reviews -> Row] /\ \A q \in Reviews \ {r} : review'[q] = review[q]
        /\ y.phase = "answered" /\ y.request = req /\ y.answer = IF DryRun \/ FALSE THEN "allowed" ELSE o
    <3>1. \A dry : Handler!Respond(r, req, o, dry) =>
             /\ review' \in [Reviews -> Row] /\ \A q \in Reviews \ {r} : review'[q] = review[q]
             /\ y.phase = "answered" /\ y.request = req /\ y.answer = IF DryRun \/ dry THEN "allowed" ELSE o
      BY <1>1, Responds DEF Answers
    <3> QED
      BY <3>1, Zenon
  <2> QED
    BY <2>1 DEF ReviewOK, Answered
<1>9. CASE (req.terminating \/ req.ready = 0) /\ Handler!Respond(r, req, "allowed", req.forced)
  <2>1. /\ review' \in [Reviews -> Row] /\ \A q \in Reviews \ {r} : review'[q] = review[q]
        /\ y.phase = "answered" /\ y.request = req /\ y.answer = "allowed"
    BY <1>1, <1>9, Responds DEF Answers
  <2>2. ~AskedInEarnest(y)
    BY <1>9, <2>1 DEF AskedInEarnest
  <2> QED
    BY <2>1, <2>2 DEF ReviewOK, Answered
<1>10. CASE review' = [review EXCEPT ![r].phase = "next", ![r].request = req, ![r].todo = indexed \cap req.labels]
  <2> DEFINE z == [x EXCEPT !.phase = "next", !.request = req, !.todo = indexed \cap req.labels]
  <2>1. review' = [review EXCEPT ![r] = z]
    BY <1>10
  <2>2. /\ z \in Row /\ z.phase = "next" /\ z.request = req /\ z.answer = "none" /\ z.agreed = {}
        /\ z.todo = indexed \cap req.labels
    BY <1>1, <1>2 DEF Row, Answers
  <2> HIDE DEF z
  <2>3. review' \in [Reviews -> Row] /\ (\A q \in Reviews \ {r} : review'[q] = review[q]) /\ y = z
    BY <1>1, <2>1, <2>2
  <2>4. steady'[r] = stored \cap indexed
    BY <1>1, <1>3
  <2> QED
    BY <2>2, <2>3, <2>4 DEF ReviewOK, Asked
<1> QED
  BY <1>5, <1>7, <1>8, <1>9, <1>10

(* The last PodProtector has agreed. *)
LEMMA AdmitAllStep ==
    ASSUME HandlerConstants, HandlerInv, NEW r \in Reviews, Handler!AdmitAll(r)
    PROVE  HandlerInv'
<1> DEFINE x == review[r]
           y == review'[r]
<1>1. review \in [Reviews -> Row] /\ x.phase = "next" /\ x.todo = {} /\ x.request \in Forms
      /\ Asked(x, steady[r], HeldIn(buckets, r))
  BY DEF HandlerInv, ReviewOK, Handler!AdmitAll
<1>2. /\ review' \in [Reviews -> Row] /\ \A q \in Reviews \ {r} : review'[q] = review[q]
      /\ y.phase = "answered" /\ y.request = x.request /\ y.agreed = x.agreed /\ y.answer = "allowed"
  <2>1. Handler!Respond(r, x.request, "allowed", x.request.forced)
    BY DEF Handler!AdmitAll
  <2> QED
    BY <1>1, <2>1, Responds DEF Answers
<1>3. ReviewOK(y, steady[r], HeldIn(buckets, r))
  BY <1>1, <1>2 DEF ReviewOK, Asked, Answered
<1> QED
  BY <1>2, <1>3, OneReview DEF HandlerInv, Handler!AdmitAll, Handler!informer

LEMMA GetPprStep ==
    ASSUME HandlerConstants, HandlerInv, NEW r \in Reviews, NEW p \in Pprs, Handler!GetPpr(r, p)
    PROVE  HandlerInv'
<1> DEFINE x == review[r]
           y == review'[r]
<1>1. /\ review \in [Reviews -> Row] /\ x \in Row /\ x.phase = "next" /\ p \in x.todo /\ x.request \in Forms
      /\ x.answer = "none" /\ Asked(x, steady[r], HeldIn(buckets, r))
  BY DEF HandlerInv, ReviewOK, Handler!GetPpr
<1>2. steady' = steady /\ buckets' = buckets /\ stored' = stored /\ indexed' = indexed
  BY DEF Handler!GetPpr, Handler!informer
<1>3. SUFFICES /\ review' \in [Reviews -> Row]
               /\ \A q \in Reviews \ {r} : review'[q] = review[q]
               /\ ReviewOK(y, steady[r], HeldIn(buckets, r))
  BY <1>2, OneReview DEF HandlerInv
<1>4. \/ review' = [review EXCEPT ![r].phase = "answered", ![r].answer = "aborted"]
      \/ review' = [review EXCEPT ![r].todo = @ \ {p}, ![r].agreed = @ \cup {p}]
      \/ review' = [review EXCEPT ![r].phase = "submitted", ![r].current = {p}]
  BY DEF Handler!GetPpr, Handler!Answered
<1>5. CASE review' = [review EXCEPT ![r].phase = "answered", ![r].answer = "aborted"]
  <2> DEFINE z == [x EXCEPT !.phase = "answered", !.answer = "aborted"]
  <2>1. review' = [review EXCEPT ![r] = z]
    BY <1>5
  <2>2. z \in Row /\ z.phase = "answered" /\ z.request = x.request /\ z.answer = "aborted"
    BY <1>1 DEF Row, Answers
  <2> HIDE DEF z
  <2>3. review' \in [Reviews -> Row] /\ (\A q \in Reviews \ {r} : review'[q] = review[q]) /\ y = z
    BY <1>1, <2>1, <2>2
  <2> QED
    BY <1>1, <2>2, <2>3 DEF ReviewOK, Answered
<1>6. CASE review' = [review EXCEPT ![r].todo = @ \ {p}, ![r].agreed = @ \cup {p}]
  <2> DEFINE z == [x EXCEPT !.todo = @ \ {p}, !.agreed = @ \cup {p}]
  <2>1. review' = [review EXCEPT ![r] = z]
    BY <1>6
  <2>2. /\ z \in Row /\ z.phase = "next" /\ z.request = x.request /\ z.answer = "none"
        /\ z.todo = x.todo \ {p} /\ z.agreed = x.agreed \cup {p}
    BY <1>1 DEF Row
  <2> HIDE DEF z
  <2>3. review' \in [Reviews -> Row] /\ (\A q \in Reviews \ {r} : review'[q] = review[q]) /\ y = z
    BY <1>1, <2>1, <2>2
  <2> QED
    BY <1>1, <2>2, <2>3 DEF ReviewOK, Asked
<1>7. CASE review' = [review EXCEPT ![r].phase = "submitted", ![r].current = {p}]
  <2> DEFINE z == [x EXCEPT !.phase = "submitted", !.current = {p}]
  <2>1. review' = [review EXCEPT ![r] = z]
    BY <1>7
  <2>2. /\ z \in Row /\ z.phase = "submitted" /\ z.request = x.request /\ z.answer = "none"
        /\ z.todo = x.todo /\ z.agreed = x.agreed /\ z.current = {p}
    BY <1>1 DEF Row
  <2> HIDE DEF z
  <2>3. review' \in [Reviews -> Row] /\ (\A q \in Reviews \ {r} : review'[q] = review[q]) /\ y = z
    BY <1>1, <2>1, <2>2
  <2> QED
    BY <1>1, <2>2, <2>3 DEF ReviewOK, Asked
<1> QED
  BY <1>4, <1>5, <1>6, <1>7

(* A bucket is written for the review that is submitted, and no other. *)
LEMMA BucketsAdded ==
    ASSUME NEW r \in Reviews, NEW p \in Pprs, buckets' = buckets \/ buckets' = buckets \cup {<<p, r>>}
    PROVE  /\ \A q \in Reviews \ {r} : HeldIn(buckets', q) = HeldIn(buckets, q)
           /\ HeldIn(buckets', r) \subseteq HeldIn(buckets, r) \cup {p}
  BY DEF HeldIn

(* What holds of a review while p considers it. *)
LEMMA Submitted ==
    ASSUME HandlerInv, NEW r \in Reviews, NEW p, review[r].phase = "submitted", review[r].current = {p}
    PROVE  /\ review \in [Reviews -> Row] /\ review[r] \in Row /\ p \in review[r].todo /\ review[r].request \in Forms
           /\ review[r].answer = "none" /\ Asked(review[r], steady[r], HeldIn(buckets, r))
  BY DEF HandlerInv, ReviewOK

LEMMA ContinueStep ==
    ASSUME HandlerConstants, HandlerInv, NEW r \in Reviews, NEW p \in Pprs,
           Handler!NewDisruption(r, p) \/ Handler!Waved(r, p)
    PROVE  HandlerInv'
<1> DEFINE x == review[r]
           y == review'[r]
           z == [x EXCEPT !.phase = "next", !.todo = @ \ {p}, !.agreed = @ \cup {p}, !.current = {}]
<1>1. /\ review \in [Reviews -> Row] /\ x \in Row /\ p \in x.todo /\ x.request \in Forms
      /\ x.answer = "none" /\ Asked(x, steady[r], HeldIn(buckets, r))
  BY Submitted DEF Handler!NewDisruption, Handler!Waved
<1>2. /\ steady' = steady /\ stored' = stored /\ indexed' = indexed
      /\ buckets' = buckets \/ buckets' = buckets \cup {<<p, r>>}
      /\ review' = [review EXCEPT ![r] = z]
  BY DEF Handler!NewDisruption, Handler!Waved, Handler!Continue, Handler!informer
<1>3. /\ \A q \in Reviews \ {r} : HeldIn(buckets', q) = HeldIn(buckets, q)
      /\ HeldIn(buckets', r) \subseteq HeldIn(buckets, r) \cup {p}
  BY <1>2, BucketsAdded
<1>4. /\ z \in Row /\ z.phase = "next" /\ z.request = x.request /\ z.answer = "none"
      /\ z.todo = x.todo \ {p} /\ z.agreed = x.agreed \cup {p}
  BY <1>1 DEF Row
<1> HIDE DEF z
<1>5. review' \in [Reviews -> Row] /\ (\A q \in Reviews \ {r} : review'[q] = review[q]) /\ y = z
  BY <1>1, <1>2, <1>4
<1>6. ReviewOK(y, steady[r], HeldIn(buckets', r))
  BY <1>1, <1>3, <1>4, <1>5 DEF ReviewOK, Asked
<1> QED
  BY <1>2, <1>3, <1>5, <1>6, OneReview DEF HandlerInv

(* What rejects a review is the only PodProtector that matches its pod, or one of several. *)
LEMMA RefuseStep ==
    ASSUME HandlerConstants, HandlerInv, NEW r \in Reviews, NEW p \in Pprs,
           Handler!Reject(r, p) \/ Handler!SubmitFails(r, p)
    PROVE  HandlerInv'
<1> DEFINE x == review[r]
           y == review'[r]
           held == HeldIn(buckets', r)
<1>1. /\ review \in [Reviews -> Row] /\ x \in Row /\ p \in x.todo /\ x.request \in Forms
      /\ x.answer = "none" /\ Asked(x, steady[r], HeldIn(buckets, r))
  BY Submitted DEF Handler!Reject, Handler!SubmitFails
<1>2. /\ steady' = steady /\ stored' = stored /\ indexed' = indexed
      /\ buckets' = buckets \/ buckets' = buckets \cup {<<p, r>>}
  BY DEF Handler!Reject, Handler!SubmitFails, Handler!informer
<1>3. \A q \in Reviews \ {r} : HeldIn(buckets', q) = HeldIn(buckets, q)
  BY <1>2, BucketsAdded
<1>4. SUFFICES /\ review' \in [Reviews -> Row]
               /\ \A q \in Reviews \ {r} : review'[q] = review[q]
               /\ ReviewOK(y, steady[r], held)
  BY <1>2, <1>3, OneReview DEF HandlerInv
<1>5. CASE Handler!SubmitFails(r, p)
  <2>1. Handler!Respond(r, x.request, "error", x.request.forced)
    BY <1>5 DEF Handler!SubmitFails
  <2>2. /\ review' \in [Reviews -> Row] /\ \A q \in Reviews \ {r} : review'[q] = review[q]
        /\ y.phase = "answered" /\ y.request = x.request
        /\ y.answer = IF DryRun \/ x.request.forced THEN "allowed" ELSE "error"
    BY <1>1, <2>1, Responds DEF Answers
  <2> QED
    BY <1>1, <2>2 DEF ReviewOK, Answered
<1>6. CASE Handler!Reject(r, p)
  <2>1. Handler!Respond(r, x.request, "rejected", x.request.forced) /\ buckets' = buckets
    BY <1>6 DEF Handler!Reject
  <2>2. /\ review' \in [Reviews -> Row] /\ \A q \in Reviews \ {r} : review'[q] = review[q]
        /\ y.phase = "answered" /\ y.request = x.request
        /\ y.answer = IF DryRun \/ x.request.forced THEN "allowed" ELSE "rejected"
    BY <1>1, <2>1, Responds DEF Answers
  <2>3. Cardinality(x.request.labels) <= 1 => held = {}
    <3> SUFFICES ASSUME Cardinality(x.request.labels) <= 1 PROVE x.agreed = {}
      BY <1>1, <2>1 DEF Asked
    <3>1. x.request.labels \subseteq Pprs
      BY <1>1 DEF HandlerConstants, Handler!Request
    <3>2. IsFiniteSet(x.request.labels)
      BY <3>1, FS_Subset DEF HandlerConstants
    <3>3. Cardinality(x.request.labels) \in Nat
      BY <3>2, FS_CardinalityType
    <3>4. \A a, b \in x.request.labels : a = b
      <4> SUFFICES ASSUME NEW a \in x.request.labels, NEW b \in x.request.labels, a # b PROVE FALSE
        OBVIOUS
      <4>1. {a, b} \subseteq x.request.labels
        OBVIOUS
      <4>2. IsFiniteSet({a}) /\ Cardinality({a}) = 1
        BY FS_Singleton
      <4>3. Cardinality({a} \cup {b}) = Cardinality({a}) + 1
        BY <4>2, FS_AddElement
      <4>4. {a} \cup {b} = {a, b}
        OBVIOUS
      <4>5. Cardinality({a, b}) <= Cardinality(x.request.labels)
        BY <3>2, <4>1, FS_Subset
      <4> QED
        BY <3>3, <4>2, <4>3, <4>4, <4>5
    <3> QED
      BY <1>1, <3>4 DEF Asked
  <2> QED
    BY <1>1, <2>2, <2>3 DEF ReviewOK, Answered
<1> QED
  BY <1>5, <1>6

(* What the informer does takes PodProtectors from the steady ones, and adds none. *)
LEMMA InformerStep ==
    ASSUME HandlerInv, NEW p \in Pprs,
           Handler!Store(p) \/ Handler!Discard(p) \/ Handler!Index(p)
    PROVE  HandlerInv'
<1>1. /\ review' = review /\ buckets' = buckets /\ stored' \subseteq Pprs /\ indexed' \subseteq Pprs
  BY DEF HandlerInv, Handler!Store, Handler!Discard, Handler!Index
<1>2. DOMAIN steady' = Reviews /\ \A r \in Reviews : steady'[r] \subseteq steady[r]
  BY DEF HandlerInv, Handler!Store, Handler!Discard, Handler!Index
<1>3. \A r \in Reviews : ReviewOK(review[r], steady'[r], HeldIn(buckets, r))
  <2> SUFFICES ASSUME NEW r \in Reviews PROVE ReviewOK(review[r], steady'[r], HeldIn(buckets, r))
    OBVIOUS
  <2>1. ReviewOK(review[r], steady[r], HeldIn(buckets, r)) /\ steady'[r] \subseteq steady[r]
    BY <1>2 DEF HandlerInv
  <2> QED
    BY <2>1 DEF ReviewOK, Asked, Answered
<1> QED
  BY <1>1, <1>2, <1>3 DEF HandlerInv

LEMMA HandlerHolds == ASSUME HandlerInv PROVE Handler!AnswersBacked
<1>1. Handler!AllowedByAll
  <2> SUFFICES ASSUME NEW r \in Reviews, Handler!Judged(r), review[r].answer = "allowed", ~DryRun, ~review[r].request.forced
               PROVE  steady[r] \cap review[r].request.labels \subseteq review[r].agreed
    BY DEF Handler!AllowedByAll
  <2>1. review[r].phase = "answered" /\ AskedInEarnest(review[r])
    BY DEF Handler!Judged, AskedInEarnest
  <2>2. Answered(review[r], steady[r], HeldIn(buckets, r))
    BY <2>1 DEF HandlerInv, ReviewOK
  <2> QED
    BY <2>1, <2>2 DEF Answered
<1>2. Handler!RejectedHoldsNothing
  <2> SUFFICES ASSUME NEW r \in Reviews, review[r].answer = "rejected", Cardinality(review[r].request.labels) <= 1,
                      NEW p \in Pprs
               PROVE  <<p, r>> \notin buckets
    BY HandlerCardinality DEF Handler!RejectedHoldsNothing
  <2>1. review[r].phase = "answered" /\ Answered(review[r], steady[r], HeldIn(buckets, r))
    BY DEF HandlerInv, ReviewOK
  <2> QED
    BY <2>1 DEF Answered, HeldIn
<1> QED
  BY <1>1, <1>2 DEF Handler!AnswersBacked

(***************************************************************************)
(* handler.go: for any number of reviews and PodProtectors, and whatever   *)
(* the informer and the pool do meanwhile, a review is allowed in earnest  *)
(* only if every PodProtector that matches the pod and was there all along *)
(* agreed, and a review that is rejected holds no bucket of the only       *)
(* PodProtector that matches.                                              *)
(***************************************************************************)
THEOREM HandlerBacked == HandlerConstants => (Handler!Spec => []Handler!AnswersBacked)
<1> SUFFICES ASSUME HandlerConstants PROVE Handler!Spec => []Handler!AnswersBacked
  OBVIOUS
<1>1. Handler!Init => HandlerInv
  BY HandlerInit
<1>2. HandlerInv /\ [Handler!Next]_Handler!vars => HandlerInv'
  <2> SUFFICES ASSUME HandlerInv, [Handler!Next]_Handler!vars PROVE HandlerInv'
    OBVIOUS
  <2>1. CASE Handler!Sync
    <3>1. review' = review /\ buckets' = buckets /\ stored' = stored /\ indexed' = indexed /\ steady' = steady
      BY <2>1 DEF Handler!Sync
    <3> QED
      BY <3>1 DEF HandlerInv
  <2>2. ASSUME NEW p \in Pprs, Handler!Store(p) \/ Handler!Discard(p) \/ Handler!Index(p) PROVE HandlerInv'
    BY <2>2, InformerStep
  <2>3. ASSUME NEW r \in Reviews, NEW req \in Forms, Handler!Handle(r, req) PROVE HandlerInv'
    BY <2>3, HandleStep
  <2>4. ASSUME NEW r \in Reviews, Handler!AdmitAll(r) PROVE HandlerInv'
    BY <2>4, AdmitAllStep
  <2>5. ASSUME NEW r \in Reviews, NEW p \in Pprs,
               \/ Handler!GetPpr(r, p) \/ Handler!NewDisruption(r, p) \/ Handler!Waved(r, p)
               \/ Handler!Reject(r, p) \/ Handler!SubmitFails(r, p)
        PROVE  HandlerInv'
    BY <2>5, GetPprStep, ContinueStep, RefuseStep
  <2>6. CASE UNCHANGED Handler!vars
    <3>1. review' = review /\ buckets' = buckets /\ stored' = stored /\ indexed' = indexed /\ steady' = steady
      BY <2>6 DEF Handler!vars
    <3> QED
      BY <3>1 DEF HandlerInv
  <2> QED
    BY <2>1, <2>2, <2>3, <2>4, <2>5, <2>6 DEF Handler!Next
<1>3. HandlerInv => Handler!AnswersBacked
  BY HandlerHolds
<1> QED
  BY <1>1, <1>2, <1>3, PTL DEF Handler!Spec

-----------------------------------------------------------------------------
(***************************************************************************)
(* The informers of the sources.  While a list is applied, what runs is    *)
(* the informers of the map and those of the map to come, which agree      *)
(* where both have one; afterwards, those of the map and those to cancel,  *)
(* which have no source in common.                                         *)
(***************************************************************************)
SourceConstants == MaxTime \in Nat /\ MaxLists \in Nat

(* A map from sources to informers of theirs. *)
Own(f) == DOMAIN f \subseteq Sources /\ \A s \in DOMAIN f : f[s] \in Inf!Ids /\ f[s][1] = s

Image(f) == {f[s] : s \in DOMAIN f}

Both == running = Image(sources) \cup Image(update.next)

Applying ==
    /\ update.id \in 1..MaxLists /\ update.wanted \subseteq Sources
    /\ update.todo \cap DOMAIN sources = {}
    /\ DOMAIN update.next = update.wanted \ update.todo
    /\ \A s \in DOMAIN update.next \cap DOMAIN sources : update.next[s] = sources[s]

SourcesInv ==
    /\ Inf!TypeOK
    /\ DOMAIN update = {"pc", "id", "wanted", "todo", "next"}
    /\ offered # Inf!NoList => lists >= 1
    /\ update.pc = "idle" => running = Image(sources)
    /\ update.pc # "idle" => Own(update.next) /\ Both
    /\ update.pc = "start" => Applying
    /\ update.pc = "cancel" => DOMAIN update.next \cap DOMAIN sources = {}

LEMMA RangeIsImage == \A f : Inf!Range(f) = Image(f)
  BY DEF Inf!Range, Image

LEMMA SourcesInit == SourceConstants /\ Inf!Init => SourcesInv
<1> SUFFICES ASSUME SourceConstants, Inf!Init PROVE SourcesInv
  OBVIOUS
<1>1. /\ now = 0 /\ store = [s \in Sources |-> 0] /\ lists = 0 /\ offered = Inf!NoList
      /\ sources = <<>> /\ update = Inf!Done /\ running = {}
      /\ informer = [i \in Inf!Ids |-> Inf!Fresh] /\ posted = {}
  BY DEF Inf!Init, Inf!NoMap
<1>2. update.pc = "idle" /\ update.todo = {} /\ update.wanted = {} /\ DOMAIN update = {"pc", "id", "wanted", "todo", "next"}
  BY <1>1 DEF Inf!Done
<1>3. DOMAIN sources = {} /\ Image(sources) = {}
  BY <1>1 DEF Image
<1>4. Inf!Fresh \in [first : -1..MaxTime, lister : 0..MaxTime, notices : Seq(BOOLEAN), index : BOOLEAN]
  <2>1. -1 \in -1..MaxTime /\ 0 \in 0..MaxTime
    BY DEF SourceConstants
  <2>2. <<>> \in Seq(BOOLEAN) /\ FALSE \in BOOLEAN
    OBVIOUS
  <2> QED
    BY <2>1, <2>2 DEF Inf!Fresh
<1>5. Inf!TypeOK
  <2>1. now \in 0..MaxTime /\ store \in [Sources -> 0..MaxTime] /\ lists \in 0..MaxLists
    BY <1>1 DEF SourceConstants
  <2>2. informer \in [Inf!Ids -> [first : -1..MaxTime, lister : 0..MaxTime, notices : Seq(BOOLEAN), index : BOOLEAN]]
    BY <1>1, <1>4
  <2> QED
    BY <1>1, <1>2, <1>3, <2>1, <2>2 DEF Inf!TypeOK
<1> QED
  BY <1>1, <1>2, <1>3, <1>5 DEF SourcesInv

(* The cluster, the provider and the informers themselves leave the map alone. *)
LEMMA OutsideStep ==
    ASSUME SourcesInv, Inf!TypeOK', sources' = sources, update' = update, running' = running,
           offered' # Inf!NoList => lists' >= 1
    PROVE  SourcesInv'
  BY DEF SourcesInv, Own, Both, Applying

LEMMA ClusterStep ==
    ASSUME SourceConstants, SourcesInv, NEW s \in Sources, Inf!PutObject(s) \/ Inf!DeleteObject(s)
    PROVE  SourcesInv'
<1>1. now \in 0..MaxTime /\ store \in [Sources -> 0..MaxTime]
  BY DEF SourcesInv, Inf!TypeOK
<1>2. now' \in 0..MaxTime /\ store' \in [Sources -> 0..MaxTime]
  BY <1>1 DEF SourceConstants, Inf!PutObject, Inf!DeleteObject
<1>3. /\ lists' = lists /\ offered' = offered /\ sources' = sources /\ update' = update
      /\ running' = running /\ informer' = informer /\ posted' = posted
  BY DEF Inf!PutObject, Inf!DeleteObject, Inf!list
<1>4. Inf!TypeOK'
  BY <1>2, <1>3 DEF SourcesInv, Inf!TypeOK
<1> QED
  BY <1>3, <1>4, OutsideStep DEF SourcesInv

LEMMA SendStep ==
    ASSUME SourceConstants, SourcesInv, NEW l \in SUBSET Sources, Inf!Send(l)
    PROVE  SourcesInv'
<1>1. /\ lists \in 0..MaxLists /\ lists < MaxLists /\ lists' = lists + 1 /\ offered' = l
      /\ now' = now /\ store' = store /\ sources' = sources /\ update' = update
      /\ running' = running /\ informer' = informer /\ posted' = posted
  BY DEF Inf!Send, Inf!cluster, SourcesInv, Inf!TypeOK
<1>2. lists' \in 0..MaxLists /\ lists' >= 1
  BY <1>1 DEF SourceConstants
<1>3. Inf!TypeOK'
  BY <1>1, <1>2 DEF SourcesInv, Inf!TypeOK
<1> QED
  BY <1>1, <1>2, <1>3, OutsideStep

(* An informer keeps its type whatever it takes in or its handler does. *)
InformerState == [first : -1..MaxTime, lister : 0..MaxTime, notices : Seq(BOOLEAN), index : BOOLEAN]

LEMMA TakeTyped ==
    ASSUME NEW x \in InformerState, NEW o \in 0..MaxTime, NEW first \in -1..MaxTime, NEW notices \in Seq(BOOLEAN)
    PROVE  [x EXCEPT !.first = first, !.lister = o, !.notices = notices] \in InformerState
  BY DEF InformerState

LEMMA HeadAndTail == ASSUME NEW S, NEW q \in Seq(S), q # <<>> PROVE Head(q) \in S /\ Tail(q) \in Seq(S)
  OBVIOUS

LEMMA InformersStep ==
    ASSUME SourceConstants, SourcesInv, NEW i \in Inf!Ids, Inf!TakeObject(i) \/ Inf!HandlePpr(i)
    PROVE  SourcesInv'
<1> DEFINE x == informer[i]
<1>1. informer \in [Inf!Ids -> InformerState] /\ x \in InformerState /\ store \in [Sources -> 0..MaxTime] /\ i[1] \in Sources
  BY DEF SourcesInv, Inf!TypeOK, InformerState, Inf!Ids
<1>2. /\ now' = now /\ store' = store /\ lists' = lists /\ offered' = offered /\ sources' = sources
      /\ update' = update /\ running' = running /\ (posted' = posted \/ posted' = posted \cup {i[1]})
  BY DEF Inf!TakeObject, Inf!HandlePpr, Inf!cluster, Inf!list
<1>3. informer' \in [Inf!Ids -> InformerState]
  <2>1. CASE Inf!TakeObject(i)
    <3> DEFINE o == store[i[1]]
               first == IF x.first = -1 THEN o ELSE x.first
               notices == IF x.notices = <<>> /\ o = 0 /\ x.lister = 0 THEN x.notices ELSE Append(x.notices, o # 0)
               y == [x EXCEPT !.first = first, !.lister = o, !.notices = notices]
    <3>1. informer' = [informer EXCEPT ![i] = y]
      BY <2>1 DEF Inf!TakeObject
    <3>2. o \in 0..MaxTime /\ first \in -1..MaxTime
      BY <1>1 DEF SourceConstants, InformerState
    <3>3. notices \in Seq(BOOLEAN)
      <4>1. x.notices \in Seq(BOOLEAN)
        BY <1>1 DEF InformerState
      <4>2. (o # 0) \in BOOLEAN
        OBVIOUS
      <4>3. \A b \in BOOLEAN : Append(x.notices, b) \in Seq(BOOLEAN)
        BY <4>1
      <4>4. Append(x.notices, o # 0) \in Seq(BOOLEAN)
        BY <4>2, <4>3, Zenon
      <4> QED
        BY <4>1, <4>4, Zenon
    <3> HIDE DEF o, first, notices
    <3>4. y \in InformerState
      BY <1>1, <3>2, <3>3, TakeTyped
    <3> HIDE DEF y
    <3> QED
      BY <1>1, <3>1, <3>4
  <2>2. CASE Inf!HandlePpr(i)
    <3> DEFINE y == [x EXCEPT !.notices = Tail(x.notices), !.index = Head(x.notices)]
    <3>1. informer' = [informer EXCEPT ![i] = y] /\ x.notices # <<>>
      BY <2>2 DEF Inf!HandlePpr
    <3>2. x.notices \in Seq(BOOLEAN)
      BY <1>1 DEF InformerState
    <3>3. Tail(x.notices) \in Seq(BOOLEAN) /\ Head(x.notices) \in BOOLEAN
      BY <3>1, <3>2, HeadAndTail, Zenon
    <3>4. \A t \in Seq(BOOLEAN), h \in BOOLEAN : [x EXCEPT !.notices = t, !.index = h] \in InformerState
      BY <1>1 DEF InformerState
    <3>5. y \in InformerState
      BY <3>3, <3>4
    <3> HIDE DEF y
    <3> QED
      BY <1>1, <3>1, <3>5
  <2> QED
    BY <2>1, <2>2
<1>4. posted' \subseteq Sources
  BY <1>1, <1>2 DEF SourcesInv, Inf!TypeOK
<1>5. Inf!TypeOK'
  BY <1>2, <1>3, <1>4 DEF SourcesInv, Inf!TypeOK, InformerState
<1> QED
  BY <1>2, <1>5, OutsideStep DEF SourcesInv

(* A list is taken from the channel: what the new map has is what stays of the old one. *)
LEMMA ReceiveStep ==
    ASSUME SourceConstants, SourcesInv, Inf!ReceiveList
    PROVE  SourcesInv'
<1> DEFINE old == [s \in offered \ Inf!NewSources(offered) |-> sources[s]]
<1>1. /\ update.pc = "idle" /\ offered # Inf!NoList /\ offered' = Inf!NoList /\ lists' = lists /\ sources' = sources
      /\ now' = now /\ store' = store /\ running' = running /\ informer' = informer /\ posted' = posted
      /\ update' = [pc |-> "start", id |-> lists, wanted |-> offered, todo |-> Inf!NewSources(offered), next |-> old]
  BY DEF Inf!ReceiveList, Inf!cluster
<1>2. offered \subseteq Sources /\ lists \in 1..MaxLists
  BY <1>1 DEF SourcesInv, Inf!TypeOK, SourceConstants
<1>3. Inf!NewSources(offered) = offered \ DOMAIN sources
  BY DEF Inf!NewSources
<1>4. DOMAIN old = offered \cap DOMAIN sources /\ \A s \in DOMAIN old : old[s] = sources[s]
  BY <1>3
<1>5. /\ update'.pc = "start" /\ update'.id = lists /\ update'.wanted = offered
      /\ update'.todo = offered \ DOMAIN sources /\ update'.next = old
      /\ DOMAIN update' = {"pc", "id", "wanted", "todo", "next"}
  BY <1>1, <1>3
<1> HIDE DEF old
<1>6. Own(sources) /\ running = Image(sources)
  BY <1>1 DEF SourcesInv, Inf!TypeOK, Own
<1>7. Own(old) /\ running = Image(sources) \cup Image(old)
  BY <1>4, <1>6 DEF Own, Image
<1>8. Applying' /\ Own(update'.next) /\ Both'
  BY <1>1, <1>2, <1>4, <1>5, <1>7 DEF Applying, Both
<1>9. Inf!TypeOK'
  BY <1>1, <1>5 DEF SourcesInv, Inf!TypeOK
<1> QED
  BY <1>1, <1>5, <1>8, <1>9 DEF SourcesInv

LEMMA StartStep ==
    ASSUME SourceConstants, SourcesInv, NEW s \in Sources, Inf!StartSourceInformer(s)
    PROVE  SourcesInv'
<1> DEFINE i == <<s, update.id>>
           old == update.next
           new == [x \in DOMAIN old \cup {s} |-> IF x = s THEN i ELSE old[x]]
<1>1. /\ update.pc = "start" /\ s \in update.todo /\ offered' = offered /\ lists' = lists /\ sources' = sources
      /\ now' = now /\ store' = store /\ posted' = posted
      /\ running' = running \cup {i} /\ informer' = [informer EXCEPT ![i] = Inf!Fresh]
      /\ update' = [update EXCEPT !.todo = update.todo \ {s}, !.next = new]
  BY DEF Inf!StartSourceInformer, Inf!cluster, Inf!list
<1>2. Applying /\ Own(old) /\ Both /\ DOMAIN update = {"pc", "id", "wanted", "todo", "next"}
  BY <1>1 DEF SourcesInv
<1>3. i \in Inf!Ids /\ i[1] = s
  BY <1>2 DEF Applying, Inf!Ids
<1>4. DOMAIN new = DOMAIN old \cup {s} /\ new[s] = i /\ \A x \in DOMAIN old \ {s} : new[x] = old[x]
  OBVIOUS
<1> HIDE DEF new
<1>5. /\ update'.pc = "start" /\ update'.id = update.id /\ update'.wanted = update.wanted
      /\ update'.todo = update.todo \ {s} /\ update'.next = new
      /\ DOMAIN update' = {"pc", "id", "wanted", "todo", "next"}
  BY <1>1, <1>2
<1>6. s \notin DOMAIN old /\ s \notin DOMAIN sources /\ s \in update.wanted
  BY <1>1, <1>2 DEF Applying, SourcesInv, Inf!TypeOK
<1> HIDE DEF i
<1>7. Own(new) /\ Image(new) = Image(old) \cup {i}
  BY <1>2, <1>3, <1>4, <1>6 DEF Own, Image
<1>8. Both'
  BY <1>1, <1>2, <1>5, <1>7 DEF Both
<1>9. Applying'
  BY <1>1, <1>2, <1>4, <1>5, <1>6 DEF Applying
<1>10. Inf!TypeOK'
  <2>1. informer \in [Inf!Ids -> InformerState] /\ Inf!Fresh \in InformerState
    <3>1. -1 \in -1..MaxTime /\ 0 \in 0..MaxTime
      BY DEF SourceConstants
    <3>2. <<>> \in Seq(BOOLEAN) /\ FALSE \in BOOLEAN
      OBVIOUS
    <3> QED
      BY <3>1, <3>2 DEF SourcesInv, Inf!TypeOK, InformerState, Inf!Fresh
  <2>2. informer' \in [Inf!Ids -> InformerState]
    BY <1>1, <1>3, <2>1
  <2>3. running' \subseteq Inf!Ids
    BY <1>1, <1>3 DEF SourcesInv, Inf!TypeOK
  <2>4. update'.todo \subseteq update'.wanted
    BY <1>5 DEF SourcesInv, Inf!TypeOK
  <2> QED
    BY <1>1, <1>5, <2>2, <2>3, <2>4 DEF SourcesInv, Inf!TypeOK, InformerState
<1> QED
  BY <1>1, <1>5, <1>7, <1>8, <1>9, <1>10 DEF SourcesInv

(* An update ends, with the informers of the map running and no others. *)
LEMMA DoneStep ==
    ASSUME SourcesInv, update' = Inf!Done, sources' = sources, running' = Image(sources),
           now' = now, store' = store, lists' = lists, offered' = offered, informer' = informer, posted' = posted
    PROVE  SourcesInv'
<1>1. /\ update'.pc = "idle" /\ update'.todo = {} /\ update'.wanted = {}
      /\ DOMAIN update' = {"pc", "id", "wanted", "todo", "next"}
  BY DEF Inf!Done
<1>2. running' \subseteq Inf!Ids
  BY DEF SourcesInv, Inf!TypeOK, Image
<1>3. Inf!TypeOK'
  BY <1>1, <1>2 DEF SourcesInv, Inf!TypeOK
<1> QED
  BY <1>1, <1>3 DEF SourcesInv

LEMMA FailStep ==
    ASSUME SourceConstants, SourcesInv, NEW s \in Sources, Inf!StartFails(s)
    PROVE  SourcesInv'
<1>1. /\ update.pc = "start" /\ running' = running \ Inf!Uncommitted /\ update' = Inf!Done /\ sources' = sources
      /\ now' = now /\ store' = store /\ lists' = lists /\ offered' = offered /\ informer' = informer /\ posted' = posted
  BY DEF Inf!StartFails, Inf!cluster, Inf!list
<1>2. Inf!Uncommitted = Image(update.next) \ Image(sources)
  BY RangeIsImage DEF Inf!Uncommitted
<1>3. running' = Image(sources)
  BY <1>1, <1>2 DEF SourcesInv, Both
<1> QED
  BY <1>1, <1>3, DoneStep

LEMMA SwapStep ==
    ASSUME SourceConstants, SourcesInv, Inf!SwapSources
    PROVE  SourcesInv' /\ Inf!Kept
<1> DEFINE gone == [s \in DOMAIN sources \ update.wanted |-> sources[s]]
<1>1. /\ update.pc = "start" /\ update.todo = {} /\ sources' = update.next /\ running' = running
      /\ now' = now /\ store' = store /\ lists' = lists /\ offered' = offered /\ informer' = informer /\ posted' = posted
      /\ update' = [Inf!Done EXCEPT !.pc = "cancel", !.next = gone]
  BY DEF Inf!SwapSources, Inf!cluster, Inf!list
<1>2. DOMAIN gone = DOMAIN sources \ update.wanted /\ \A s \in DOMAIN gone : gone[s] = sources[s]
  OBVIOUS
<1> HIDE DEF gone
<1>3. /\ update'.pc = "cancel" /\ update'.next = gone /\ update'.todo = {} /\ update'.wanted = {}
      /\ DOMAIN update' = {"pc", "id", "wanted", "todo", "next"}
  BY <1>1 DEF Inf!Done
<1>4. Applying /\ Own(update.next) /\ Own(sources) /\ Both
  BY <1>1 DEF SourcesInv, Inf!TypeOK, Own
<1>5. DOMAIN update.next = update.wanted /\ \A s \in DOMAIN update.next \cap DOMAIN sources : update.next[s] = sources[s]
  BY <1>1, <1>4 DEF Applying
<1>6. Own(gone) /\ DOMAIN gone \cap DOMAIN update.next = {}
  BY <1>2, <1>4, <1>5 DEF Own
<1>7. Image(sources) \cup Image(update.next) = Image(update.next) \cup Image(gone)
  BY <1>2, <1>5 DEF Image
<1>8. Both'
  BY <1>1, <1>3, <1>4, <1>7 DEF Both
<1>9. Inf!TypeOK'
  BY <1>1, <1>3, <1>4 DEF SourcesInv, Inf!TypeOK, Own
<1>10. Inf!Kept
  BY <1>1, <1>5 DEF Inf!Kept
<1> QED
  BY <1>1, <1>3, <1>6, <1>8, <1>9, <1>10 DEF SourcesInv

LEMMA CancelStep ==
    ASSUME SourceConstants, SourcesInv, Inf!CancelRemoved
    PROVE  SourcesInv'
<1>1. /\ update.pc = "cancel" /\ running' = running \ Image(update.next) /\ update' = Inf!Done /\ sources' = sources
      /\ now' = now /\ store' = store /\ lists' = lists /\ offered' = offered /\ informer' = informer /\ posted' = posted
  BY RangeIsImage DEF Inf!CancelRemoved, Inf!cluster, Inf!list
<1>2. Own(sources) /\ Own(update.next) /\ Both /\ DOMAIN update.next \cap DOMAIN sources = {}
  BY <1>1 DEF SourcesInv, Inf!TypeOK, Own
<1>3. Image(sources) \cap Image(update.next) = {}
  BY <1>2 DEF Own, Image
<1>4. running' = Image(sources)
  BY <1>1, <1>2, <1>3 DEF Both
<1> QED
  BY <1>1, <1>4, DoneStep

(* What a step of the informers preserves, and what it does to the map. *)
LEMMA SourcesStep == ASSUME SourceConstants, SourcesInv, [Inf!Next]_Inf!vars PROVE SourcesInv' /\ Inf!Kept
<1> DEFINE still == sources' = sources => Inf!Kept
<1>1. still
  BY DEF Inf!Kept
<1>2. ASSUME NEW s \in Sources, Inf!PutObject(s) \/ Inf!DeleteObject(s) PROVE SourcesInv' /\ Inf!Kept
  BY <1>1, <1>2, ClusterStep DEF Inf!PutObject, Inf!DeleteObject
<1>3. ASSUME NEW l \in SUBSET Sources, Inf!Send(l) PROVE SourcesInv' /\ Inf!Kept
  BY <1>1, <1>3, SendStep DEF Inf!Send
<1>4. CASE Inf!ReceiveList
  BY <1>1, <1>4, ReceiveStep DEF Inf!ReceiveList
<1>5. ASSUME NEW s \in Sources, Inf!StartSourceInformer(s) PROVE SourcesInv' /\ Inf!Kept
  BY <1>1, <1>5, StartStep DEF Inf!StartSourceInformer
<1>6. ASSUME NEW s \in Sources, Inf!StartFails(s) PROVE SourcesInv' /\ Inf!Kept
  BY <1>1, <1>6, FailStep DEF Inf!StartFails
<1>7. CASE Inf!SwapSources
  BY <1>7, SwapStep
<1>8. CASE Inf!CancelRemoved
  BY <1>1, <1>8, CancelStep DEF Inf!CancelRemoved
<1>9. ASSUME NEW i \in Inf!Ids, Inf!TakeObject(i) \/ Inf!HandlePpr(i) PROVE SourcesInv' /\ Inf!Kept
  BY <1>1, <1>9, InformersStep DEF Inf!TakeObject, Inf!HandlePpr
<1>10. CASE UNCHANGED Inf!vars
  <2>1. /\ now' = now /\ store' = store /\ lists' = lists /\ offered' = offered /\ sources' = sources
        /\ update' = update /\ running' = running /\ informer' = informer /\ posted' = posted
    BY <1>10 DEF Inf!vars, Inf!cluster, Inf!list
  <2>2. Inf!TypeOK'
    BY <2>1 DEF SourcesInv, Inf!TypeOK
  <2> QED
    BY <1>1, <2>1, <2>2, OutsideStep DEF SourcesInv
<1> QED
  BY <1>2, <1>3, <1>4, <1>5, <1>6, <1>7, <1>8, <1>9, <1>10 DEF Inf!Next

LEMMA SourcesMapped == ASSUME SourcesInv PROVE Inf!TypeOK /\ Inf!RunningAreMapped
<1>1. update.pc # "idle" => Image(sources) \subseteq running
  BY DEF SourcesInv, Both
<1> QED
  BY <1>1, RangeIsImage DEF SourcesInv, Inf!RunningAreMapped

(***************************************************************************)
(* multi_informer.go: whatever lists follow each other, and whichever      *)
(* informer cannot be started, the informers of the map always run, no     *)
(* others run between updates, and a source that stays in the list keeps   *)
(* its informer.  For any number of sources and lists.                     *)
(***************************************************************************)
THEOREM SourcesKept == SourceConstants => (Inf!Spec => [][Inf!SourcesRunOn]_Inf!vars)
<1> SUFFICES ASSUME SourceConstants PROVE Inf!Spec => [][Inf!SourcesRunOn]_Inf!vars
  OBVIOUS
<1>1. Inf!Init => SourcesInv
  BY SourcesInit
<1>2. SourcesInv /\ [Inf!Next]_Inf!vars => SourcesInv'
  BY SourcesStep
<1>3. SourcesInv /\ [Inf!Next]_Inf!vars => [Inf!SourcesRunOn]_Inf!vars
  BY SourcesStep, SourcesMapped DEF Inf!SourcesRunOn
<1> QED
  BY <1>1, <1>2, <1>3, PTL DEF Inf!Spec

-----------------------------------------------------------------------------
(***************************************************************************)
(* The metrics that count distinct values.  An emission is in the sketch   *)
(* of its own tags only, and nowhere before it is observed.                *)
(***************************************************************************)
Sketched(e) == TagsOf[e] \in DOMAIN counters /\ e \in counters[TagsOf[e]]

UniqueInv ==
    /\ emission \in [Emissions -> {"new", "loaded", "observed"}]
    /\ reports \in [Emissions -> Nat]
    /\ \A e \in Emissions : emission[e] = "loaded" => TagsOf[e] \in DOMAIN counters
    /\ \A t \in DOMAIN counters : \A e \in counters[t] : TagsOf[e] = t
    /\ \A e \in Emissions : emission[e] # "observed" => reports[e] = 0 /\ ~Sketched(e)
    /\ \A e \in Emissions : emission[e] = "observed" /\ Sketched(e) => reports[e] = 0
    /\ \A e \in Emissions : emission[e] = "observed" /\ ~Sketched(e) => reports[e] = 1

LEMMA UniqueInit == Unique!Init => UniqueInv
  BY DEF Unique!Init, UniqueInv, Sketched

LEMMA LoadStep == ASSUME UniqueInv, NEW e \in Emissions, Unique!LoadOrCompute(e) PROVE UniqueInv'
<1> DEFINE t == TagsOf[e]
<1>1. /\ emission[e] = "new" /\ emission' = [emission EXCEPT ![e] = "loaded"] /\ reports' = reports
      /\ counters' = [u \in DOMAIN counters \cup {t} |-> IF u \in DOMAIN counters THEN counters[u] ELSE {}]
  BY DEF Unique!LoadOrCompute
<1>2. /\ DOMAIN counters' = DOMAIN counters \cup {t}
      /\ \A u \in DOMAIN counters : counters'[u] = counters[u]
      /\ \A u \in DOMAIN counters' \ DOMAIN counters : counters'[u] = {}
  BY <1>1
<1>3. \A d \in Emissions : Sketched(d)' <=> Sketched(d)
  <2> SUFFICES ASSUME NEW d \in Emissions
               PROVE  (TagsOf[d] \in DOMAIN counters' /\ d \in counters'[TagsOf[d]])
                         <=> (TagsOf[d] \in DOMAIN counters /\ d \in counters[TagsOf[d]])
    BY DEF Sketched
  <2> QED
    BY <1>2
<1>4. emission' \in [Emissions -> {"new", "loaded", "observed"}] /\ emission'[e] = "loaded"
      /\ \A d \in Emissions \ {e} : emission'[d] = emission[d]
  BY <1>1 DEF UniqueInv
<1>5. \A u \in DOMAIN counters' : \A d \in counters'[u] : TagsOf[d] = u
  BY <1>2 DEF UniqueInv
<1>6. \A d \in Emissions : emission'[d] = "loaded" => TagsOf[d] \in DOMAIN counters'
  BY <1>2, <1>4 DEF UniqueInv
<1>7. /\ \A d \in Emissions : emission'[d] # "observed" => reports[d] = 0 /\ ~Sketched(d)
      /\ \A d \in Emissions : emission'[d] = "observed" /\ Sketched(d) => reports[d] = 0
      /\ \A d \in Emissions : emission'[d] = "observed" /\ ~Sketched(d) => reports[d] = 1
  BY <1>1, <1>4 DEF UniqueInv
<1>8. /\ \A d \in Emissions : emission'[d] # "observed" => reports'[d] = 0 /\ ~Sketched(d)'
      /\ \A d \in Emissions : emission'[d] = "observed" /\ Sketched(d)' => reports'[d] = 0
      /\ \A d \in Emissions : emission'[d] = "observed" /\ ~Sketched(d)' => reports'[d] = 1
  BY <1>1, <1>3, <1>7
<1> QED
  BY <1>1, <1>4, <1>5, <1>6, <1>8 DEF UniqueInv

LEMMA ObserveStep == ASSUME UniqueInv, NEW e \in Emissions, Unique!Observe(e) PROVE UniqueInv'
<1> DEFINE t == TagsOf[e]
<1>1. /\ emission[e] = "loaded" /\ emission' = [emission EXCEPT ![e] = "observed"] /\ reports' = reports
      /\ counters' = [counters EXCEPT ![t] = counters[t] \cup {e}]
  BY DEF Unique!Observe
<1>2. t \in DOMAIN counters
  BY <1>1 DEF UniqueInv
<1>3. /\ DOMAIN counters' = DOMAIN counters /\ counters'[t] = counters[t] \cup {e}
      /\ \A u \in DOMAIN counters \ {t} : counters'[u] = counters[u]
  BY <1>1, <1>2
<1>4. emission' \in [Emissions -> {"new", "loaded", "observed"}] /\ emission'[e] = "observed"
      /\ \A d \in Emissions \ {e} : emission'[d] = emission[d]
  BY <1>1 DEF UniqueInv
<1>5. reports[e] = 0
  BY <1>1 DEF UniqueInv
<1>6. \A u \in DOMAIN counters' : \A d \in counters'[u] : TagsOf[d] = u
  BY <1>3 DEF UniqueInv
<1>7. \A d \in Emissions : emission'[d] = "loaded" => TagsOf[d] \in DOMAIN counters'
  BY <1>3, <1>4 DEF UniqueInv
<1>8. \A d \in Emissions \ {e} :
         (TagsOf[d] \in DOMAIN counters' /\ d \in counters'[TagsOf[d]])
            <=> (TagsOf[d] \in DOMAIN counters /\ d \in counters[TagsOf[d]])
  BY <1>3
<1>9. TagsOf[e] \in DOMAIN counters' /\ e \in counters'[TagsOf[e]]
  BY <1>2, <1>3
<1>10. \A d \in Emissions :
          LET sketched == TagsOf[d] \in DOMAIN counters' /\ d \in counters'[TagsOf[d]]
          IN  /\ emission'[d] # "observed" => reports[d] = 0 /\ ~sketched
              /\ emission'[d] = "observed" /\ sketched => reports[d] = 0
              /\ emission'[d] = "observed" /\ ~sketched => reports[d] = 1
  BY <1>4, <1>5, <1>8, <1>9 DEF UniqueInv, Sketched
<1> QED
  BY <1>1, <1>4, <1>6, <1>7, <1>10 DEF UniqueInv, Sketched

LEMMA ReportStep == ASSUME UniqueInv, NEW t, Unique!ReportAndReset(t) PROVE UniqueInv'
<1>1. /\ t \in DOMAIN counters /\ emission' = emission
      /\ reports' = [e \in Emissions |-> IF e \in counters[t] THEN reports[e] + 1 ELSE reports[e]]
      /\ counters' = [counters EXCEPT ![t] = {}]
  BY DEF Unique!ReportAndReset
<1>2. DOMAIN counters' = DOMAIN counters /\ counters'[t] = {} /\ \A u \in DOMAIN counters \ {t} : counters'[u] = counters[u]
  BY <1>1
<1>3. reports' \in [Emissions -> Nat]
  BY <1>1 DEF UniqueInv
<1>4. ASSUME NEW e \in Emissions
      PROVE  LET sketched == TagsOf[e] \in DOMAIN counters' /\ e \in counters'[TagsOf[e]]
             IN  /\ emission[e] # "observed" => reports'[e] = 0 /\ ~sketched
                 /\ emission[e] = "observed" /\ sketched => reports'[e] = 0
                 /\ emission[e] = "observed" /\ ~sketched => reports'[e] = 1
  <2>1. CASE e \in counters[t]
    <3>1. TagsOf[e] = t /\ Sketched(e)
      BY <1>1, <2>1 DEF UniqueInv, Sketched
    <3>2. emission[e] = "observed" /\ reports[e] = 0
      BY <3>1 DEF UniqueInv
    <3>3. reports'[e] = 1
      BY <1>1, <2>1, <3>2
    <3> QED
      BY <1>2, <3>1, <3>2, <3>3
  <2>2. CASE e \notin counters[t]
    <3>1. reports'[e] = reports[e]
      BY <1>1, <2>2
    <3>2. (TagsOf[e] \in DOMAIN counters' /\ e \in counters'[TagsOf[e]]) <=> Sketched(e)
      BY <1>1, <1>2, <2>2 DEF Sketched
    <3> QED
      BY <3>1, <3>2 DEF UniqueInv
  <2> QED
    BY <2>1, <2>2
<1>5. \A u \in DOMAIN counters' : \A d \in counters'[u] : TagsOf[d] = u
  BY <1>2 DEF UniqueInv
<1> QED
  BY <1>1, <1>2, <1>3, <1>4, <1>5 DEF UniqueInv, Sketched

LEMMA UniqueHolds == ASSUME UniqueInv PROVE Unique!CountedOnce
  BY DEF UniqueInv, Unique!CountedOnce, Sketched

(***************************************************************************)
(* metrics/unique: for any emissions under any tags, however observations  *)
(* and flushes interleave, each emission is counted in one window and no   *)
(* other.                                                                  *)
(***************************************************************************)
THEOREM EmissionsCountedOnce == Unique!Spec => []Unique!CountedOnce
<1>1. Unique!Init => UniqueInv
  BY UniqueInit
<1>2. UniqueInv /\ [Unique!Next]_Unique!vars => UniqueInv'
  <2> SUFFICES ASSUME UniqueInv, [Unique!Next]_Unique!vars PROVE UniqueInv'
    OBVIOUS
  <2>1. ASSUME NEW e \in Emissions, Unique!LoadOrCompute(e) PROVE UniqueInv'
    BY <2>1, LoadStep
  <2>2. ASSUME NEW e \in Emissions, Unique!Observe(e) PROVE UniqueInv'
    BY <2>2, ObserveStep
  <2>3. ASSUME NEW t \in Tags, Unique!ReportAndReset(t) PROVE UniqueInv'
    BY <2>3, ReportStep
  <2>4. CASE Unique!Start \/ Unique!EndFlush \/ Unique!NextFlush \/ Unique!Stop \/ UNCHANGED Unique!vars
    <3>1. emission' = emission /\ counters' = counters /\ reports' = reports
      BY <2>4 DEF Unique!Start, Unique!EndFlush, Unique!NextFlush, Unique!Stop, Unique!vars
    <3> QED
      BY <3>1 DEF UniqueInv, Sketched
  <2> QED
    BY <2>1, <2>2, <2>3, <2>4 DEF Unique!Next, Unique!Flush
<1>3. UniqueInv => Unique!CountedOnce
  BY UniqueHolds
<1> QED
  BY <1>1, <1>2, <1>3, PTL DEF Unique!Spec

-----------------------------------------------------------------------------
(***************************************************************************)
(* The servers.  One that is enabled is still to be shut down, or was shut *)
(* down and none of its requests is handled any more.                      *)
(***************************************************************************)
Listed(q) == {q[i] : i \in 1..Len(q)}

Quiet(s) == shutdown[s] /\ \A r \in Calls : ~(request[r].st = "handling" /\ request[r].server = s)

HttpInv ==
    /\ joins \in {<<>>, <<"http">>, <<"https">>, <<"http", "https">>}
    /\ server \in [Http!Names -> {"disabled", "new", "spawned", "listening", "error", "closed"}]
    /\ DOMAIN shutdown = Http!Names
    /\ request \in [Calls -> [st : {"none", "handling", "answered"}, server : Http!Names]]
    /\ \A s \in Http!Names : server[s] = "listening" => ~shutdown[s]
    /\ \A s \in Http!Names : \A r \in Calls : server[s] = "disabled" => ~(request[r].st = "handling" /\ request[r].server = s)
    /\ \A s \in Http!Names : server[s] # "disabled" => s \in Listed(joins) \/ Quiet(s)
    /\ main = "joined" => joins = <<>>

LEMMA HttpNames == Http!Names = {"http", "https"} /\ Http!Servers[1] = "http" /\ Http!Servers[2] = "https"
                   /\ Head(Http!Servers) = "http"
<1>1. Http!Servers = <<"http", "https">>
  BY DEF Http!Servers
<1>2. Http!Range(<<"http", "https">>) = {"http", "https"}
  BY DEF Http!Range
<1> QED
  BY <1>1, <1>2 DEF Http!Names

LEMMA ListedHead ==
    ASSUME joins \in {<<>>, <<"http">>, <<"https">>, <<"http", "https">>}, joins # <<>>
    PROVE  /\ Tail(joins) \in {<<>>, <<"http">>, <<"https">>, <<"http", "https">>}
           /\ Listed(joins) = Listed(Tail(joins)) \cup {Head(joins)}
           /\ Head(joins) \in {"http", "https"}
<1>1. CASE joins = <<"http">>
  BY <1>1 DEF Listed
<1>2. CASE joins = <<"https">>
  BY <1>2 DEF Listed
<1>3. CASE joins = <<"http", "https">>
  <2>1. Tail(joins) = <<"https">> /\ Head(joins) = "http"
    BY <1>3
  <2>2. Listed(joins) = {"http", "https"} /\ Listed(<<"https">>) = {"https"}
    BY <1>3 DEF Listed
  <2> QED
    BY <2>1, <2>2
<1> QED
  BY <1>1, <1>2, <1>3

LEMMA HttpInit == Http!Init => HttpInv
<1> SUFFICES ASSUME Http!Init PROVE HttpInv
  OBVIOUS
<1>1. /\ server \in [Http!Names -> {"disabled", "new"}] /\ main = "init"
      /\ joins = Http!Enabled("http") \o Http!Enabled("https")
      /\ shutdown = [s \in Http!Names |-> FALSE]
      /\ request = [r \in Calls |-> [st |-> "none", server |-> "http"]]
  BY HttpNames DEF Http!Init
<1>2. /\ joins = IF server["http"] = "disabled"
                 THEN IF server["https"] = "disabled" THEN <<>> ELSE <<"https">>
                 ELSE IF server["https"] = "disabled" THEN <<"http">> ELSE <<"http", "https">>
  BY <1>1 DEF Http!Enabled
<1>3. \A s \in Http!Names : server[s] # "disabled" => s \in Listed(joins)
  BY <1>2, HttpNames DEF Listed
<1>4. "http" \in Http!Names
  BY HttpNames
<1> QED
  BY <1>1, <1>2, <1>3, <1>4 DEF HttpInv

LEMMA HttpStep == ASSUME HttpInv, [Http!Next]_Http!vars PROVE HttpInv'
<1>1. CASE Http!Start
  <2>1. /\ joins' = joins /\ shutdown' = shutdown /\ request' = request /\ main' # "joined"
        /\ server' \in [Http!Names -> {"disabled", "new", "spawned", "listening", "error", "closed"}]
        /\ \A s \in Http!Names : server'[s] = server[s] \/ (server[s] = "new" /\ server'[s] = "spawned")
    <3>1. server' = server \/ server' = [s \in Http!Names |-> IF server[s] = "new" THEN "spawned" ELSE server[s]]
      BY <1>1 DEF Http!Start
    <3>2. server \in [Http!Names -> {"disabled", "new", "spawned", "listening", "error", "closed"}]
      BY DEF HttpInv
    <3>3. joins' = joins /\ shutdown' = shutdown /\ request' = request /\ main' # "joined"
      BY <1>1 DEF Http!Start
    <3>4. \A s \in Http!Names : server'[s] = server[s] \/ (server[s] = "new" /\ server'[s] = "spawned")
      BY <3>1
    <3>5. server' \in [Http!Names -> {"disabled", "new", "spawned", "listening", "error", "closed"}]
      BY <3>1, <3>2
    <3> QED
      BY <3>3, <3>4, <3>5
  <2> QED
    BY <2>1 DEF HttpInv, Quiet
<1>2. ASSUME NEW s \in Http!Names, Http!ListenAndServe(s) PROVE HttpInv'
  <2>1. /\ joins' = joins /\ shutdown' = shutdown /\ request' = request /\ main' = main /\ server[s] = "spawned"
    BY <1>2 DEF Http!ListenAndServe
  <2>2. PICK st \in {"listening", "error"} : server' = [server EXCEPT ![s] = IF shutdown[s] THEN "closed" ELSE st]
    BY <1>2 DEF Http!ListenAndServe
  <2>3. /\ server' \in [Http!Names -> {"disabled", "new", "spawned", "listening", "error", "closed"}]
        /\ \A x \in Http!Names \ {s} : server'[x] = server[x]
        /\ server'[s] # "disabled" /\ (server'[s] = "listening" => ~shutdown[s])
    BY <2>1, <2>2 DEF HttpInv
  <2> QED
    BY <2>1, <2>3 DEF HttpInv, Quiet
<1>3. ASSUME NEW s \in Http!Names, NEW r \in Calls, Http!Accept(s, r) PROVE HttpInv'
  <2>1. /\ joins' = joins /\ shutdown' = shutdown /\ server' = server /\ main' = main /\ server[s] = "listening"
        /\ request' = [request EXCEPT ![r] = [st |-> "handling", server |-> s]]
    BY <1>3 DEF Http!Accept
  <2>2. ~shutdown[s]
    BY <2>1 DEF HttpInv
  <2>3. /\ request' \in [Calls -> [st : {"none", "handling", "answered"}, server : Http!Names]]
        /\ request'[r].server = s /\ \A x \in Calls \ {r} : request'[x] = request[x]
    BY <2>1 DEF HttpInv
  <2>4. s \in Listed(joins)
    BY <2>1, <2>2 DEF HttpInv, Quiet
  <2>5. \A x \in Http!Names \ {s} : \A q \in Calls :
           (request'[q].st = "handling" /\ request'[q].server = x) => (request[q].st = "handling" /\ request[q].server = x)
    BY <2>3
  <2> QED
    BY <2>1, <2>3, <2>4, <2>5 DEF HttpInv, Quiet
<1>4. ASSUME NEW r \in Calls, Http!Reply(r) PROVE HttpInv'
  <2>1. /\ joins' = joins /\ shutdown' = shutdown /\ server' = server /\ main' = main
        /\ request' = [request EXCEPT ![r].st = "answered"]
    BY <1>4 DEF Http!Reply
  <2>2. /\ request' \in [Calls -> [st : {"none", "handling", "answered"}, server : Http!Names]]
        /\ request'[r].st = "answered" /\ \A x \in Calls \ {r} : request'[x] = request[x]
    BY <2>1 DEF HttpInv
  <2> QED
    BY <2>1, <2>2 DEF HttpInv, Quiet
<1>5. CASE Http!Stop \/ Http!Expire \/ UNCHANGED Http!vars
  <2>1. /\ joins' = joins /\ shutdown' = shutdown /\ server' = server /\ request' = request
        /\ main' = "joined" => main = "joined"
    BY <1>5 DEF Http!Stop, Http!Expire, Http!vars
  <2> QED
    BY <2>1 DEF HttpInv, Quiet
<1>6. CASE Http!Shutdown
  <2> DEFINE h == Head(joins)
  <2>1. /\ main = "joining" /\ main' = main /\ joins' = joins /\ request' = request /\ joins # <<>>
        /\ shutdown' = [shutdown EXCEPT ![h] = TRUE]
        /\ server' = [server EXCEPT ![h] = IF server[h] = "listening" THEN "closed" ELSE server[h]]
    BY <1>6 DEF Http!Shutdown
  <2>2. h \in Http!Names /\ h \in Listed(joins)
    BY <2>1, ListedHead, HttpNames DEF HttpInv
  <2> HIDE DEF h
  <2>3. /\ server' \in [Http!Names -> {"disabled", "new", "spawned", "listening", "error", "closed"}]
        /\ server'[h] # "listening" /\ (server'[h] = "disabled" => server[h] = "disabled")
        /\ \A x \in Http!Names \ {h} : server'[x] = server[x]
    BY <2>1, <2>2 DEF HttpInv
  <2>4. DOMAIN shutdown' = Http!Names /\ \A x \in Http!Names \ {h} : shutdown'[x] = shutdown[x]
    BY <2>1, <2>2 DEF HttpInv
  <2> QED
    BY <2>1, <2>2, <2>3, <2>4 DEF HttpInv, Quiet
<1>7. CASE Http!ShutdownReturns
  <2> DEFINE h == Head(joins)
  <2>1. /\ main = "joining" /\ joins # <<>> /\ shutdown[h] /\ main' # "joined"
        /\ shutdown' = shutdown /\ server' = server /\ request' = request
        /\ joins' = joins \/ (joins' = Tail(joins) /\ ~Http!Handling(h))
    BY <1>7 DEF Http!ShutdownReturns
  <2>2. CASE joins' = joins
    BY <2>1, <2>2 DEF HttpInv, Quiet
  <2>3. CASE joins' = Tail(joins) /\ ~Http!Handling(h)
    <3>1. /\ joins' \in {<<>>, <<"http">>, <<"https">>, <<"http", "https">>}
          /\ Listed(joins) = Listed(joins') \cup {h} /\ h \in Http!Names
      BY <2>1, <2>3, ListedHead, HttpNames DEF HttpInv
    <3>2. \A r \in Calls : ~(request[r].st = "handling" /\ request[r].server = h)
      <4> SUFFICES ASSUME NEW r \in Calls, request[r].st = "handling", request[r].server = h PROVE FALSE
        OBVIOUS
      <4>1. request[r] \in [st : {"none", "handling", "answered"}, server : Http!Names]
        BY DEF HttpInv
      <4>2. request[r] = [st |-> "handling", server |-> h]
        BY <4>1
      <4> QED
        BY <2>3, <4>2 DEF Http!Handling
    <3>3. \A s \in Http!Names : server[s] # "disabled" =>
             s \in Listed(joins') \/ (shutdown[s] /\ \A r \in Calls : ~(request[r].st = "handling" /\ request[r].server = s))
      BY <2>1, <3>1, <3>2 DEF HttpInv, Quiet
    <3> QED
      BY <2>1, <3>1, <3>3 DEF HttpInv, Quiet
  <2> QED
    BY <2>1, <2>2, <2>3
<1>8. CASE Http!JoinReturns
  <2>1. joins = <<>> /\ joins' = joins /\ shutdown' = shutdown /\ server' = server /\ request' = request
    BY <1>8 DEF Http!JoinReturns
  <2> QED
    BY <2>1 DEF HttpInv, Quiet
<1> QED
  BY <1>1, <1>2, <1>3, <1>4, <1>5, <1>6, <1>7, <1>8 DEF Http!Next, Http!Join

LEMMA HttpHolds == ASSUME HttpInv PROVE Http!JoinedMeansQuiet
<1> SUFFICES ASSUME main = "joined"
             PROVE  /\ \A r \in Calls : request[r].st # "handling"
                    /\ \A s \in Http!Names : server[s] # "listening"
  BY DEF Http!JoinedMeansQuiet
<1>1. Listed(joins) = {}
  BY DEF HttpInv, Listed
<1>2. \A s \in Http!Names : server[s] # "disabled" => Quiet(s)
  BY <1>1 DEF HttpInv
<1>3. \A r \in Calls : request[r].server \in Http!Names
  BY DEF HttpInv
<1>4. \A s \in Http!Names, r \in Calls : ~(request[r].st = "handling" /\ request[r].server = s)
  BY <1>2 DEF HttpInv, Quiet
<1> QED
  BY <1>2, <1>3, <1>4 DEF HttpInv, Quiet

(***************************************************************************)
(* util/http: once Join has returned without an error no handler runs and  *)
(* none will, however many requests there are, also when a server only     *)
(* begins to listen after it was shut down.                                *)
(***************************************************************************)
THEOREM ServersQuiet == Http!Spec => []Http!JoinedMeansQuiet
<1>1. Http!Init => HttpInv
  BY HttpInit
<1>2. HttpInv /\ [Http!Next]_Http!vars => HttpInv'
  BY HttpStep
<1>3. HttpInv => Http!JoinedMeansQuiet
  BY HttpHolds
<1> QED
  BY <1>1, <1>2, <1>3, PTL DEF Http!Spec

-----------------------------------------------------------------------------
(***************************************************************************)
(* A joined monitor.  Its parts run from its call until each has ended.    *)
(***************************************************************************)
MonitorInv ==
    /\ DOMAIN monitor = Impls
    /\ phase \in {"declare", "ready"} => \A i \in Impls : monitor[i] = "none"
    /\ phase = "monitoring" => \A i \in Impls : monitor[i] # "none" => i \in Obs!Range(obs["monitor"])
    /\ Obs!ReturnedMeansEnded

LEMMA MonitorStep == ASSUME MonitorInv, [Obs!Next]_Obs!vars PROVE MonitorInv'
<1>1. ASSUME NEW i \in Impls, Obs!Sample(i) \/ Obs!EndMonitor(i) PROVE MonitorInv'
  <2>1. /\ phase' = phase /\ obs' = obs /\ monitor[i] \in {"spawned", "sampling"}
        /\ \E st \in {"sampling", "ended"} : monitor' = [monitor EXCEPT ![i] = st]
    BY <1>1 DEF Obs!Sample, Obs!EndMonitor
  <2>2. DOMAIN monitor' = Impls /\ \A x \in Impls \ {i} : monitor'[x] = monitor[x]
    BY <2>1 DEF MonitorInv
  <2>3. phase \notin {"declare", "ready", "returned"}
    BY <2>1 DEF MonitorInv, Obs!ReturnedMeansEnded
  <2>4. phase = "monitoring" => \A x \in Impls : monitor'[x] # "none" => x \in Obs!Range(obs["monitor"])
    BY <2>1, <2>2 DEF MonitorInv
  <2> QED
    BY <2>1, <2>2, <2>3, <2>4 DEF MonitorInv, Obs!ReturnedMeansEnded
<1>2. CASE (\E i \in Impls : Obs!Provide(i)) \/ Obs!Request \/ Obs!Stop \/ UNCHANGED Obs!vars
  <2>1. phase' = phase /\ obs' = obs /\ monitor' = monitor
    BY <1>2 DEF Obs!Provide, Obs!Request, Obs!Stop, Obs!vars
  <2> QED
    BY <2>1 DEF MonitorInv, Obs!ReturnedMeansEnded
<1>3. CASE Obs!InitObserver
  <2>1. phase = "declare" /\ phase' = "ready" /\ monitor' = monitor
    BY <1>3, Zenon DEF Obs!InitObserver
  <2> QED
    BY <2>1 DEF MonitorInv, Obs!ReturnedMeansEnded
<1>4. CASE Obs!Monitor
  <2>1. /\ phase' = "monitoring" /\ obs' = obs
        /\ monitor' = [i \in Impls |-> IF i \in Obs!Range(obs["monitor"]) THEN "spawned" ELSE "none"]
    BY <1>4 DEF Obs!Monitor
  <2> QED
    BY <2>1 DEF MonitorInv, Obs!ReturnedMeansEnded
<1>5. CASE Obs!MonitorReturns
  <2>1. /\ phase = "monitoring" /\ phase' = "returned" /\ monitor' = monitor
        /\ \A i \in Obs!Range(obs["monitor"]) : monitor[i] = "ended"
    BY <1>5 DEF Obs!MonitorReturns
  <2> QED
    BY <2>1 DEF MonitorInv, Obs!ReturnedMeansEnded
<1> QED
  BY <1>1, <1>2, <1>3, <1>4, <1>5 DEF Obs!Next

(***************************************************************************)
(* util/o11y: when a joined monitor has returned, none of its parts runs   *)
(* on, however many implementations were provided.                         *)
(***************************************************************************)
THEOREM MonitorsEnded == Obs!Spec => []Obs!ReturnedMeansEnded
<1>1. Obs!Init => MonitorInv
  BY DEF Obs!Init, MonitorInv, Obs!ReturnedMeansEnded
<1>2. MonitorInv /\ [Obs!Next]_Obs!vars => MonitorInv'
  BY MonitorStep
<1>3. MonitorInv => Obs!ReturnedMeansEnded
  BY DEF MonitorInv
<1> QED
  BY <1>1, <1>2, <1>3, PTL DEF Obs!Spec

-----------------------------------------------------------------------------
(***************************************************************************)
(* A joined observer.  What the constructor makes, function by function,   *)
(* calls each implementation provided so far that sets the function once.  *)
(***************************************************************************)
(* A function of an observer, or Nil, calls each of S once and nobody else. *)
CallsOnce(q, S) ==
    IF q = Nil THEN S = {}
    ELSE q \in Seq(Impls) /\ Obs!Range(q) = S /\ Obs!IsInjective(q)

LEMMA JoinCalls ==
    ASSUME NEW f, NEW g, NEW S, NEW T, CallsOnce(f, S), CallsOnce(g, T), S \cap T = {}
    PROVE  CallsOnce(Obs!JoinFunc(f, g), S \cup T) /\ Obs!JoinFunc(f, g) \in Seq(Impls)
<1>0. Nil \notin Seq(Impls)
  BY PartsAssumption
<1>1. CASE f = Nil /\ g = Nil
  <2> DEFINE e == <<>>
  <2>4. e \in Seq(Impls) /\ DOMAIN e = {}
    OBVIOUS
  <2>1. Obs!JoinFunc(f, g) = e
    BY <1>1 DEF Obs!JoinFunc
  <2> HIDE DEF e
  <2>2. Obs!Range(e) = {} /\ Obs!IsInjective(e)
    BY <2>4 DEF Obs!Range, Obs!IsInjective
  <2> QED
    BY <1>0, <1>1, <2>1, <2>2, <2>4 DEF CallsOnce
<1>2. CASE f = Nil /\ g # Nil
  BY <1>2 DEF CallsOnce, Obs!JoinFunc
<1>3. CASE f # Nil /\ g = Nil
  BY <1>3 DEF CallsOnce, Obs!JoinFunc
<1>4. CASE f # Nil /\ g # Nil
  <2>1. /\ f \in Seq(Impls) /\ Obs!Range(f) = S /\ Obs!IsInjective(f)
        /\ g \in Seq(Impls) /\ Obs!Range(g) = T /\ Obs!IsInjective(g)
    BY <1>4 DEF CallsOnce
  <2> DEFINE h == f \o g
  <2>2. h \in Seq(Impls) /\ Len(h) = Len(f) + Len(g) /\ Len(f) \in Nat /\ Len(g) \in Nat
        /\ DOMAIN h = 1..Len(h) /\ DOMAIN f = 1..Len(f) /\ DOMAIN g = 1..Len(g)
    BY <2>1
  <2>3. \A k \in 1..Len(h) : h[k] = IF k <= Len(f) THEN f[k] ELSE g[k - Len(f)]
    BY <2>1
  <2>4. /\ \A k \in 1..Len(f) : k \in 1..Len(h) /\ h[k] = f[k]
        /\ \A k \in 1..Len(g) : k + Len(f) \in 1..Len(h) /\ h[k + Len(f)] = g[k]
    BY <2>2, <2>3
  <2> HIDE DEF h
  <2>5. Obs!Range(h) = S \cup T
    <3>1. \A k \in 1..Len(h) : h[k] \in S \cup T
      <4>1. (\A k \in 1..Len(f) : f[k] \in S) /\ (\A k \in 1..Len(g) : g[k] \in T)
        BY <2>1, <2>2 DEF Obs!Range
      <4>2. \A k \in 1..Len(h) : k \in 1..Len(f) \/ (k > Len(f) /\ k - Len(f) \in 1..Len(g))
        BY <2>2
      <4> QED
        BY <2>2, <2>3, <4>1, <4>2
    <3>2. \A x \in S \cup T : \E k \in 1..Len(h) : h[k] = x
      BY <2>1, <2>2, <2>4 DEF Obs!Range
    <3> QED
      BY <2>2, <3>1, <3>2 DEF Obs!Range
  <2>6. Obs!IsInjective(h)
    <3> SUFFICES ASSUME NEW a \in 1..Len(h), NEW b \in 1..Len(h), h[a] = h[b] PROVE a = b
      BY <2>2 DEF Obs!IsInjective
    <3>1. CASE a <= Len(f) /\ b <= Len(f)
      BY <2>1, <2>2, <2>3, <3>1 DEF Obs!IsInjective
    <3>2. CASE a > Len(f) /\ b > Len(f)
      <4>1. a - Len(f) \in 1..Len(g) /\ b - Len(f) \in 1..Len(g) /\ g[a - Len(f)] = g[b - Len(f)]
        BY <2>2, <2>3, <3>2
      <4>2. a - Len(f) = b - Len(f)
        BY <2>1, <2>2, <4>1 DEF Obs!IsInjective
      <4> QED
        BY <2>2, <4>2
    <3>3. \A c, d \in 1..Len(h) : c <= Len(f) /\ d > Len(f) => h[c] # h[d]
      <4> SUFFICES ASSUME NEW c \in 1..Len(h), NEW d \in 1..Len(h), c <= Len(f), d > Len(f) PROVE h[c] # h[d]
        OBVIOUS
      <4>1. c \in 1..Len(f) /\ d - Len(f) \in 1..Len(g)
        BY <2>2
      <4>2. h[c] = f[c] /\ h[d] = g[d - Len(f)]
        BY <2>2, <2>3
      <4>3. f[c] \in S /\ g[d - Len(f)] \in T
        BY <2>1, <2>2, <4>1 DEF Obs!Range
      <4> QED
        BY <4>2, <4>3
    <3> QED
      BY <2>2, <3>1, <3>2, <3>3
  <2>7. Obs!JoinFunc(f, g) = h
    BY <1>4 DEF Obs!JoinFunc, h
  <2> QED
    BY <1>0, <2>2, <2>5, <2>6, <2>7 DEF CallsOnce
<1> QED
  BY <1>1, <1>2, <1>3, <1>4

Provided(f) == {i \in Obs!Range(provided) : f \in fields[i]}

ProvidedInv ==
    /\ fields \in [Impls -> SUBSET Obs!Fields] /\ provided \in Seq(Impls)
    /\ obsCtor = Nil => provided = <<>>
    /\ obsCtor # Nil => \A f \in Obs!Fields : CallsOnce(obsCtor[f], Provided(f))
    /\ Obs!AllProvided

LEMMA ImplCalls ==
    ASSUME fields \in [Impls -> SUBSET Obs!Fields], NEW i \in Impls, NEW f \in Obs!Fields
    PROVE  CallsOnce(Obs!Impl(i)[f], {x \in {i} : f \in fields[x]})
<1>1. Obs!Impl(i)[f] = IF f \in fields[i] THEN <<i>> ELSE Nil
  BY DEF Obs!Impl, Obs!FieldOf
<1>2. CASE f \in fields[i]
  <2> DEFINE e == <<i>>
  <2>1. e \in Seq(Impls) /\ DOMAIN e = {1} /\ e[1] = i
    OBVIOUS
  <2> HIDE DEF e
  <2>2. Obs!Range(e) = {i} /\ Obs!IsInjective(e)
    BY <2>1 DEF Obs!Range, Obs!IsInjective
  <2>3. Obs!Impl(i)[f] = e /\ e # Nil
    BY <1>1, <1>2, <2>1, PartsAssumption DEF e
  <2>4. {x \in {i} : f \in fields[x]} = {i}
    BY <1>2
  <2> QED
    BY <2>1, <2>2, <2>3, <2>4 DEF CallsOnce
<1>3. CASE f \notin fields[i]
  BY <1>1, <1>3 DEF CallsOnce
<1> QED
  BY <1>2, <1>3

LEMMA ProvideStep == ASSUME ProvidedInv, NEW i \in Impls, Obs!Provide(i) PROVE ProvidedInv'
<1>1. /\ phase = "declare" /\ phase' = phase /\ i \notin Obs!Range(provided) /\ provided' = Append(provided, i)
      /\ obsCtor' = (IF obsCtor = Nil THEN Obs!Impl(i) ELSE Obs!ReflectJoin(obsCtor, Obs!Impl(i)))
      /\ fields' = fields
  BY DEF Obs!Provide
<1>2. provided \in Seq(Impls) /\ provided' \in Seq(Impls) /\ Obs!Range(provided)' = Obs!Range(provided) \cup {i}
  <2> DEFINE q == Append(provided, i)
  <2>1. /\ provided \in Seq(Impls) /\ q \in Seq(Impls) /\ Len(q) = Len(provided) + 1 /\ Len(provided) \in Nat
        /\ DOMAIN provided = 1..Len(provided) /\ DOMAIN q = 1..Len(q)
        /\ (\A k \in 1..Len(provided) : q[k] = provided[k]) /\ q[Len(provided) + 1] = i
    BY DEF ProvidedInv
  <2> HIDE DEF q
  <2>2. {q[k] : k \in DOMAIN q} = {provided[k] : k \in DOMAIN provided} \cup {i}
    <3>1. 1..Len(q) = 1..Len(provided) \cup {Len(provided) + 1}
      BY <2>1
    <3> QED
      BY <2>1, <3>1
  <2>3. provided' = q
    BY <1>1 DEF q
  <2> QED
    BY <2>1, <2>2, <2>3 DEF Obs!Range
<1>3. \A f \in Obs!Fields : CallsOnce(obsCtor'[f], {x \in Obs!Range(provided) \cup {i} : f \in fields[x]})
  <2> SUFFICES ASSUME NEW f \in Obs!Fields
               PROVE  CallsOnce(obsCtor'[f], {x \in Obs!Range(provided) \cup {i} : f \in fields[x]})
    OBVIOUS
  <2> DEFINE T == {x \in {i} : f \in fields[x]}
  <2>1. CallsOnce(Obs!Impl(i)[f], T)
    BY ImplCalls DEF ProvidedInv
  <2>2. {x \in Obs!Range(provided) \cup {i} : f \in fields[x]} = Provided(f) \cup T /\ Provided(f) \cap T = {}
    BY <1>1 DEF Provided
  <2>3. CASE obsCtor = Nil
    <3>1. Obs!Range(provided) = {}
      BY <2>3 DEF ProvidedInv, Obs!Range
    <3> QED
      BY <1>1, <2>1, <2>2, <2>3, <3>1 DEF Provided
  <2>4. CASE obsCtor # Nil
    <3>1. CallsOnce(obsCtor[f], Provided(f))
      BY <2>4 DEF ProvidedInv
    <3>2. obsCtor'[f] = Obs!JoinFunc(obsCtor[f], Obs!Impl(i)[f])
      BY <1>1, <2>4 DEF Obs!ReflectJoin
    <3> HIDE DEF T
    <3> QED
      BY <2>1, <2>2, <3>1, <3>2, JoinCalls
  <2> QED
    BY <2>3, <2>4
<1>4. obsCtor' # Nil
  <2>1. \A f \in Obs!Fields : Obs!Impl(i)[f] \in Seq(Impls) \cup {Nil}
    BY ImplCalls DEF ProvidedInv, CallsOnce
  <2>2. \A f \in Obs!Fields : obsCtor'[f] \in Seq(Impls) \cup {Nil}
    BY <1>3 DEF CallsOnce
  <2>3. obsCtor' = [f \in Obs!Fields |-> obsCtor'[f]]
    BY <1>1 DEF Obs!Impl, Obs!ReflectJoin
  <2>4. obsCtor' \in [Obs!Fields -> Seq(Impls) \cup {Nil}]
    BY <2>2, <2>3
  <2> QED
    BY <2>4, PartsAssumption
<1>5. \A f : Provided(f)' = {x \in Obs!Range(provided) \cup {i} : f \in fields[x]}
  BY <1>1, <1>2 DEF Provided
<1>6. \A f \in Obs!Fields : CallsOnce(obsCtor[f], Provided(f))'
  BY <1>3, <1>5 DEF CallsOnce
<1> QED
  BY <1>1, <1>2, <1>4, <1>6 DEF ProvidedInv, Obs!AllProvided

LEMMA InitObserverStep == ASSUME ProvidedInv, Obs!InitObserver PROVE ProvidedInv'
<1> DEFINE made == IF obsCtor = Nil THEN Obs!Zero ELSE obsCtor
<1>1. /\ obs' = Obs!ReflectJoin(made, Obs!Zero) /\ obsCtor' = obsCtor
      /\ provided' = provided /\ fields' = fields /\ phase' = "ready"
  BY DEF Obs!InitObserver
<1>2. \A f \in Obs!Fields : CallsOnce(Obs!Zero[f], {})
  BY DEF Obs!Zero, CallsOnce
<1>3. \A f \in Obs!Fields : CallsOnce(made[f], Provided(f))
  <2>1. CASE obsCtor = Nil
    <3>1. \A f : Provided(f) = {}
      BY <2>1 DEF ProvidedInv, Provided, Obs!Range
    <3> QED
      BY <1>2, <2>1, <3>1
  <2>2. CASE obsCtor # Nil
    BY <2>2 DEF ProvidedInv
  <2> QED
    BY <2>1, <2>2
<1> HIDE DEF made
<1>4. \A f \in Obs!Fields : obs'[f] \in Seq(Impls) /\ CallsOnce(obs'[f], Provided(f))
  <2> SUFFICES ASSUME NEW f \in Obs!Fields PROVE obs'[f] \in Seq(Impls) /\ CallsOnce(obs'[f], Provided(f))
    OBVIOUS
  <2>1. obs'[f] = Obs!JoinFunc(made[f], Obs!Zero[f])
    BY <1>1 DEF Obs!ReflectJoin
  <2>2. Provided(f) \cup {} = Provided(f) /\ Provided(f) \cap {} = {}
    OBVIOUS
  <2>3. CallsOnce(made[f], Provided(f)) /\ CallsOnce(Obs!Zero[f], {})
    BY <1>2, <1>3
  <2> QED
    BY <2>1, <2>2, <2>3, JoinCalls
<1>5. \A f \in Obs!Fields : obs'[f] # Nil /\ Obs!Range(obs'[f]) = Provided(f) /\ Obs!IsInjective(obs'[f])
  BY <1>4, PartsAssumption DEF CallsOnce
<1>6. Obs!AllProvided'
  BY <1>1, <1>5 DEF Obs!AllProvided, Provided
<1> QED
  BY <1>1, <1>6 DEF ProvidedInv, Provided

LEMMA ProvidedStep == ASSUME ProvidedInv, [Obs!Next]_Obs!vars PROVE ProvidedInv'
<1>1. ASSUME NEW i \in Impls, Obs!Provide(i) PROVE ProvidedInv'
  BY <1>1, ProvideStep
<1>2. CASE Obs!InitObserver
  BY <1>2, InitObserverStep
<1>3. CASE \/ \E i \in Impls : Obs!Sample(i) \/ Obs!EndMonitor(i)
           \/ Obs!Request \/ Obs!Monitor \/ Obs!MonitorReturns \/ Obs!Stop \/ UNCHANGED Obs!vars
  <2>1. /\ fields' = fields /\ provided' = provided /\ obsCtor' = obsCtor /\ obs' = obs
        /\ phase' = "declare" => phase = "declare"
    BY <1>3 DEF Obs!Sample, Obs!EndMonitor, Obs!Request, Obs!Monitor, Obs!MonitorReturns, Obs!Stop, Obs!vars
  <2>2. phase' # "declare" => phase # "declare"
    BY <1>3 DEF Obs!Sample, Obs!EndMonitor, Obs!Request, Obs!Monitor, Obs!MonitorReturns, Obs!Stop, Obs!vars
  <2> QED
    BY <2>1, <2>2 DEF ProvidedInv, Obs!AllProvided, Provided
<1> QED
  BY <1>1, <1>2, <1>3 DEF Obs!Next

(***************************************************************************)
(* util/o11y: in whatever order any number of implementations are provided *)
(* and requested, every function of the observer can be called, and calls  *)
(* each implementation that sets it once and no other.                     *)
(***************************************************************************)
THEOREM ObserversJoined == Obs!Spec => []Obs!AllProvided
<1>1. Obs!Init => ProvidedInv
  BY DEF Obs!Init, ProvidedInv, Obs!AllProvided
<1>2. ProvidedInv /\ [Obs!Next]_Obs!vars => ProvidedInv'
  BY ProvidedStep
<1>3. ProvidedInv => Obs!AllProvided
  BY DEF ProvidedInv
<1> QED
  BY <1>1, <1>2, <1>3, PTL DEF Obs!Spec

-----------------------------------------------------------------------------
(***************************************************************************)
(* A multiplexed interface.  The implementations that are declared are the *)
(* ones it requests, the default and the selection are among them, and the *)
(* interface is described as soon as it is requested.                      *)
(***************************************************************************)
MuxConstants == None \notin Impls

MuxInv ==
    /\ order \in Seq(Impls) /\ Listed(order) = args.impls
    /\ args \in [impls : SUBSET Impls, described : BOOLEAN, defaultOption : Impls \cup {None}]
    /\ asked => args.described
    /\ phase \in {"declare", "flags"} => requested = args.impls
    /\ phase \in {"declare", "flags"} /\ args.defaultOption # None => args.defaultOption \in args.impls
    /\ phase = "flags" /\ args.described => selection \in args.impls
    /\ phase = "trimmed" /\ asked => selection \in args.impls /\ requested = {selection}

LEMMA MuxStep == ASSUME MuxConstants, MuxInv, [Mux!Next]_Mux!vars PROVE MuxInv'
<1>0. args \in [impls : SUBSET Impls, described : BOOLEAN, defaultOption : Impls \cup {None}]
  BY DEF MuxInv
<1>1. ASSUME NEW i \in Impls, NEW isDefault \in BOOLEAN, Mux!DeclareMuxImpl(i, isDefault) PROVE MuxInv'
  <2> DEFINE d == IF isDefault THEN i ELSE args.defaultOption
             a == [args EXCEPT !.impls = args.impls \cup {i}, !.defaultOption = d]
  <2>1. /\ phase = "declare" /\ (phase' = "declare" \/ phase' = "panic") /\ order' = Append(order, i)
        /\ asked' = asked /\ args' = a /\ requested' = requested \cup {i}
    BY <1>1 DEF Mux!DeclareMuxImpl
  <2>2. d \in Impls \cup {None} /\ (d = i \/ d = args.defaultOption)
    BY <1>0
  <2> HIDE DEF d
  <2>3. /\ a \in [impls : SUBSET Impls, described : BOOLEAN, defaultOption : Impls \cup {None}]
        /\ a.impls = args.impls \cup {i} /\ a.defaultOption = d /\ a.described = args.described
    BY <1>0, <2>2
  <2> HIDE DEF a
  <2>4. order' \in Seq(Impls) /\ Listed(order') = Listed(order) \cup {i}
    <3>1. order \in Seq(Impls)
      BY DEF MuxInv
    <3>2. /\ order' \in Seq(Impls) /\ Len(order) \in Nat /\ Len(order') = Len(order) + 1
          /\ order'[Len(order) + 1] = i /\ \A k \in 1..Len(order) : order'[k] = order[k]
      BY <2>1, <3>1
    <3>3. 1..Len(order') = 1..Len(order) \cup {Len(order) + 1}
      BY <3>2
    <3>4. Listed(order') = Listed(order) \cup {i}
      BY <3>2, <3>3 DEF Listed
    <3> QED
      BY <3>2, <3>4
  <2>5. (asked' => args'.described)
    BY <2>1, <2>3 DEF MuxInv
  <2> QED
    BY <2>1, <2>2, <2>3, <2>4, <2>5 DEF MuxInv
<1>2. CASE Mux!ProvideMux
  <2> DEFINE a == [args EXCEPT !.described = TRUE]
  <2>1. phase = "declare" /\ phase' = phase /\ order' = order /\ requested' = requested /\ args' = a
    BY <1>2 DEF Mux!ProvideMux
  <2>2. /\ a \in [impls : SUBSET Impls, described : BOOLEAN, defaultOption : Impls \cup {None}]
        /\ a.impls = args.impls /\ a.defaultOption = args.defaultOption
    BY <1>0
  <2>3. a.described
    BY <1>0
  <2> HIDE DEF a
  <2> QED
    BY <2>1, <2>2, <2>3 DEF MuxInv
<1>3. CASE Mux!AddFlags
  <2>1. /\ phase = "declare" /\ phase' \in {"panic", "flags"}
        /\ order' = order /\ args' = args /\ asked' = asked /\ requested' = requested
        /\ phase' = "flags" /\ args.described => selection' = args.defaultOption /\ args.defaultOption # None
    BY <1>3 DEF Mux!AddFlags
  <2> QED
    BY <2>1 DEF MuxInv
<1>4. ASSUME NEW i \in Impls, Mux!Set(i) PROVE MuxInv'
  <2>1. /\ phase = "flags" /\ phase' = phase /\ i \in args.impls /\ selection' = i
        /\ order' = order /\ args' = args /\ asked' = asked /\ requested' = requested
    BY <1>4 DEF Mux!Set
  <2> QED
    BY <2>1 DEF MuxInv
<1>5. CASE Mux!UnrequestDeps
  <2>1. /\ phase = "flags" /\ phase' = "trimmed"
        /\ order' = order /\ args' = args /\ asked' = asked /\ selection' = selection
        /\ requested' = IF selection = None THEN requested ELSE requested \ (args.impls \ {selection})
    BY <1>5 DEF Mux!UnrequestDeps
  <2>2. asked => selection \in args.impls /\ selection # None /\ requested = args.impls
    BY <1>0, <2>1 DEF MuxInv, MuxConstants
  <2> QED
    BY <2>1, <2>2 DEF MuxInv
<1>6. CASE UNCHANGED Mux!vars
  <2>1. /\ phase' = phase /\ order' = order /\ args' = args /\ asked' = asked
        /\ requested' = requested /\ selection' = selection
    BY <1>6 DEF Mux!vars
  <2> QED
    BY <2>1 DEF MuxInv
<1> QED
  BY <1>1, <1>2, <1>3, <1>4, <1>5, <1>6 DEF Mux!Next

(***************************************************************************)
(* component/mux.go: in whatever order an interface and any number of      *)
(* implementations are declared, a component that requested the interface  *)
(* gets the selected implementation, and only that one stays requested.    *)
(***************************************************************************)
THEOREM MuxSelectsOne == MuxConstants => (Mux!Spec => []Mux!OneSelected)
<1> SUFFICES ASSUME MuxConstants PROVE Mux!Spec => []Mux!OneSelected
  OBVIOUS
<1>1. Mux!Init => MuxInv
  BY DEF Mux!Init, MuxInv, Listed
<1>2. MuxInv /\ [Mux!Next]_Mux!vars => MuxInv'
  BY MuxStep
<1>3. MuxInv => Mux!OneSelected
  <2> SUFFICES ASSUME MuxInv, phase = "trimmed", asked PROVE selection \in Mux!Range(order) /\ requested = {selection}
    BY DEF Mux!OneSelected
  <2>1. selection \in Listed(order) /\ requested = {selection}
    BY DEF MuxInv
  <2>2. Mux!Range(order) = Listed(order)
    BY DEF Mux!Range, Listed, MuxInv
  <2> QED
    BY <2>1, <2>2
<1> QED
  BY <1>1, <1>2, <1>3, PTL DEF Mux!Spec

-----------------------------------------------------------------------------
(***************************************************************************)
(* The consumers of iterators.  As long as nothing was found, everything   *)
(* before the next item was looked at; what was found is an item, and the  *)
(* first one where the iterator ended at once.                             *)
(***************************************************************************)
Hit(i) == Iter!AnswerOf(iterator[i].value)

FlagInv ==
    /\ result \in BOOLEAN
    /\ result => \E i \in DOMAIN iterator : Hit(i)
    /\ ~result => pos \in 1..Len(iterator) + 1 /\ \A i \in 1..pos - 1 : ~Hit(i)

FirstInv ==
    \/ pos \in 1..Len(iterator) + 1 /\ result = <<>> /\ \A i \in 1..pos - 1 : ~Hit(i)
    \/ /\ pos = 0
       /\ \E i \in DOMAIN iterator :
             Hit(i) /\ (\A j \in 1..i - 1 : ~Hit(j)) /\ result = <<iterator[i].value>>

IterInv ==
    /\ Len(iterator) \in Nat /\ DOMAIN iterator = 1..Len(iterator)
    /\ consumer \in {"Any", "All", "TryForEach", "FirstSome"}
    /\ consumer \in {"Any", "All"} => FlagInv
    /\ consumer \in {"TryForEach", "FirstSome"} /\ Iter!EndsOnBreak(iterator) => FirstInv

LEMMA IterInit == Iter!Init => IterInv
<1> SUFFICES ASSUME Iter!Init PROVE IterInv
  OBVIOUS
<1>1. Len(iterator) \in Nat /\ DOMAIN iterator = 1..Len(iterator)
  BY IteratorsAssumption DEF Iter!Init
<1>2. pos = 1 /\ pos \in 1..Len(iterator) + 1 /\ \A i \in 1..pos - 1 : FALSE
  BY <1>1 DEF Iter!Init
<1>3. consumer \in {"Any", "All", "TryForEach", "FirstSome"}
  BY DEF Iter!Init
<1>4. result = IF consumer \in {"Any", "All"} THEN FALSE ELSE <<>>
  BY DEF Iter!Init
<1>5. consumer \in {"Any", "All"} => FlagInv
  BY <1>2, <1>4, Zenon DEF FlagInv
<1>6. consumer \in {"TryForEach", "FirstSome"} => FirstInv
  <2>1. consumer \in {"TryForEach", "FirstSome"} => result = <<>>
    BY <1>4
  <2> QED
    BY <1>2, <2>1 DEF FirstInv
<1> QED
  BY <1>1, <1>3, <1>5, <1>6 DEF IterInv

LEMMA IterStep == ASSUME IterInv, [Iter!Next]_Iter!vars PROVE IterInv'
<1>1. CASE UNCHANGED Iter!vars
  <2>1. UNCHANGED <<iterator, consumer, pos, result>>
    BY <1>1 DEF Iter!vars
  <2>2. \A i : Hit(i)' <=> Hit(i)
    BY <2>1 DEF Hit, Iter!AnswerOf
  <2>3. FlagInv => FlagInv'
    BY <2>1, <2>2, Zenon DEF FlagInv
  <2>4. FirstInv => FirstInv'
    BY <2>1, <2>2 DEF FirstInv
  <2> QED
    BY <2>1, <2>3, <2>4 DEF IterInv
<1>2. CASE Iter!Push
  <2>1. pos \in DOMAIN iterator /\ iterator' = iterator /\ consumer' = consumer
    BY <1>2 DEF Iter!Push
  <2>2. pos' = IF Hit(pos) THEN iterator[pos].jump ELSE pos + 1
    BY <1>2 DEF Iter!Push, Hit
  <2>3. result' = IF consumer \in {"Any", "All"} THEN result \/ Hit(pos)
                  ELSE IF Iter!IsTrue(iterator[pos].value) THEN <<iterator[pos].value>> ELSE <<>>
    BY <1>2 DEF Iter!Push, Iter!Receive, Hit
  <2>4. \A i : Hit(i)' <=> Hit(i)
    BY <2>1 DEF Hit, Iter!AnswerOf
  <2>5. PICK n \in Nat : n = Len(iterator) /\ DOMAIN iterator = 1..n
    BY DEF IterInv
  <2>6. pos \in 1..n
    BY <2>1, <2>5
  <2>7. ASSUME ~Hit(pos), \A i \in 1..pos - 1 : ~Hit(i)
        PROVE  pos' \in 1..n + 1 /\ \A i \in 1..pos' - 1 : ~Hit(i)
    <3>1. pos' = pos + 1
      BY <2>2, <2>7
    <3>2. \A i \in 1..pos' - 1 : i \in 1..pos - 1 \/ i = pos
      BY <3>1, <2>6
    <3> QED
      BY <3>1, <3>2, <2>6, <2>7
  <2>8. ASSUME consumer \in {"Any", "All"}, FlagInv PROVE FlagInv'
    <3>1. result \in BOOLEAN /\ result' = (result \/ Hit(pos)) /\ result' \in BOOLEAN
      BY <2>3, <2>8, Zenon DEF FlagInv
    <3>2. result' => \E i \in DOMAIN iterator : Hit(i)
      BY <3>1, <2>1, <2>8, Zenon DEF FlagInv
    <3>3. ASSUME ~result' PROVE pos' \in 1..n + 1 /\ \A i \in 1..pos' - 1 : ~Hit(i)
      <4>1. ~Hit(pos) /\ ~result
        BY <3>1, <3>3, Zenon
      <4>2. \A i \in 1..pos - 1 : ~Hit(i)
        BY <4>1, <2>8, Zenon DEF FlagInv
      <4> QED
        BY <4>1, <4>2, <2>7
    <3> QED
      BY <3>1, <3>2, <3>3, <2>1, <2>4, <2>5, Zenon DEF FlagInv
  <2>9. ASSUME consumer \in {"TryForEach", "FirstSome"}, Iter!EndsOnBreak(iterator), FirstInv PROVE FirstInv'
    <3>1. pos # 0
      BY <2>6
    <3>2. result = <<>> /\ \A i \in 1..pos - 1 : ~Hit(i)
      BY <3>1, <2>9 DEF FirstInv
    <3>3. Hit(pos) <=> Iter!IsTrue(iterator[pos].value)
      BY <2>9 DEF Hit, Iter!AnswerOf
    <3>4. consumer \notin {"Any", "All"}
      BY <2>9
    <3>5. result' = IF Hit(pos) THEN <<iterator[pos].value>> ELSE <<>>
      BY <3>3, <3>4, <2>3
    <3>6. CASE Hit(pos)
      <4>1. pos' = 0 /\ result' = <<iterator[pos].value>>
        BY <3>5, <3>6, <2>1, <2>2, <2>9 DEF Iter!EndsOnBreak
      <4>3. PICK i : i = pos
        OBVIOUS
      <4>4. Hit(i) /\ i \in DOMAIN iterator /\ (\A j \in 1..i - 1 : ~Hit(j)) /\ result' = <<iterator[i].value>>
        BY <3>2, <3>6, <4>1, <4>3, <2>1
      <4> QED
        BY <4>1, <4>4, <2>1, <2>4 DEF FirstInv
    <3>7. CASE ~Hit(pos)
      <4>1. pos' \in 1..n + 1 /\ \A i \in 1..pos' - 1 : ~Hit(i)
        BY <3>2, <3>7, <2>7
      <4> QED
        BY <4>1, <3>5, <3>7, <2>1, <2>4, <2>5 DEF FirstInv
    <3> QED
      BY <3>6, <3>7
  <2>10. Len(iterator') \in Nat /\ DOMAIN iterator' = 1..Len(iterator')
    BY <2>1 DEF IterInv
  <2>11. Iter!EndsOnBreak(iterator)' => Iter!EndsOnBreak(iterator)
    BY <2>1 DEF Iter!EndsOnBreak
  <2> QED
    BY <2>1, <2>8, <2>9, <2>10, <2>11 DEF IterInv
<1> QED
  BY <1>1, <1>2 DEF Iter!Next

LEMMA IterHolds == ASSUME IterInv PROVE Iter!FlagsExact /\ Iter!FirstReturned
<1>0. PICK n \in Nat : n = Len(iterator) /\ DOMAIN iterator = 1..n
  BY DEF IterInv
<1>1. ASSUME pos \notin DOMAIN iterator, pos \in 1..n + 1, \A i \in 1..pos - 1 : ~Hit(i)
      PROVE  \A i \in DOMAIN iterator : ~Hit(i)
  <2>1. pos = n + 1
    BY <1>0, <1>1
  <2>2. 1..pos - 1 = DOMAIN iterator
    BY <2>1, <1>0
  <2> QED
    BY <2>2, <1>1
<1>2. ASSUME Iter!Done, consumer \in {"Any", "All"} PROVE result \in BOOLEAN /\ (result <=> \E i \in DOMAIN iterator : Hit(i))
  <2>1. FlagInv /\ pos \notin DOMAIN iterator
    BY <1>2 DEF IterInv, Iter!Done
  <2>2. ~result => \A i \in DOMAIN iterator : ~Hit(i)
    BY <2>1, <1>0, <1>1, Zenon DEF FlagInv
  <2> QED
    BY <2>1, <2>2, Zenon DEF FlagInv
<1>3. \A v : v \in Iter!Range(Iter!Values(iterator)) <=> \E i \in DOMAIN iterator : v = iterator[i].value
  BY DEF Iter!Range, Iter!Values
<1>4. Iter!FlagsExact
  <2> SUFFICES ASSUME Iter!Done
               PROVE  /\ consumer = "Any" => (result <=> \E v \in Iter!Range(Iter!Values(iterator)) : Iter!IsTrue(v))
                      /\ consumer = "All" => (~result <=> \A v \in Iter!Range(Iter!Values(iterator)) : Iter!IsTrue(v))
    BY DEF Iter!FlagsExact
  <2>1. ASSUME consumer = "Any" PROVE result <=> \E v \in Iter!Range(Iter!Values(iterator)) : Iter!IsTrue(v)
    <3>1. \A i : Hit(i) <=> Iter!IsTrue(iterator[i].value)
      BY <2>1 DEF Hit, Iter!AnswerOf
    <3>2. (\E i \in DOMAIN iterator : Hit(i)) <=> \E v \in Iter!Range(Iter!Values(iterator)) : Iter!IsTrue(v)
      BY <3>1, <1>3, Zenon
    <3>3. consumer \in {"Any", "All"}
      BY <2>1
    <3> QED
      BY <3>2, <3>3, <1>2, Zenon
  <2>2. ASSUME consumer = "All" PROVE ~result <=> \A v \in Iter!Range(Iter!Values(iterator)) : Iter!IsTrue(v)
    <3>1. \A i : Hit(i) <=> ~Iter!IsTrue(iterator[i].value)
      BY <2>2 DEF Hit, Iter!AnswerOf
    <3>2. (\E i \in DOMAIN iterator : Hit(i)) <=> \E v \in Iter!Range(Iter!Values(iterator)) : ~Iter!IsTrue(v)
      BY <3>1, <1>3, Zenon
    <3>3. consumer \in {"Any", "All"}
      BY <2>2
    <3> QED
      BY <3>2, <3>3, <1>2, Zenon
  <2> QED
    BY <2>1, <2>2, Zenon
<1>5. Iter!FirstReturned
  <2> DEFINE found == {i \in DOMAIN iterator : Iter!IsTrue(iterator[i].value)}
  <2> SUFFICES ASSUME Iter!Done, consumer \in {"TryForEach", "FirstSome"}, Iter!EndsOnBreak(iterator)
               PROVE  result = IF found = {} THEN <<>> ELSE <<iterator[Iter!Least(found)].value>>
    BY DEF Iter!FirstReturned
  <2>1. FirstInv /\ pos \notin DOMAIN iterator
    BY DEF IterInv, Iter!Done
  <2>2. \A i : Hit(i) <=> Iter!IsTrue(iterator[i].value)
    BY DEF Hit, Iter!AnswerOf
  <2>3. CASE pos \in 1..Len(iterator) + 1 /\ result = <<>> /\ \A i \in 1..pos - 1 : ~Hit(i)
    BY <2>1, <2>2, <2>3, <1>0, <1>1
  <2>4. CASE \E i \in DOMAIN iterator : Hit(i) /\ (\A j \in 1..i - 1 : ~Hit(j)) /\ result = <<iterator[i].value>>
    <3>1. PICK i \in DOMAIN iterator : Hit(i) /\ (\A j \in 1..i - 1 : ~Hit(j)) /\ result = <<iterator[i].value>>
      BY <2>4
    <3>2. i \in found /\ found \subseteq 1..n
      BY <3>1, <2>2, <1>0
    <3>3. \A j \in found : i <= j
      <4> SUFFICES ASSUME NEW j \in found, ~(i <= j) PROVE FALSE
        OBVIOUS
      <4>1. j \in 1..i - 1
        BY <3>2, <1>0
      <4> QED
        BY <4>1, <3>1, <2>2
    <3> HIDE DEF found
    <3>4. Iter!Least(found) \in found /\ \A j \in found : Iter!Least(found) <= j
      BY <3>2, <3>3 DEF Iter!Least
    <3>5. Iter!Least(found) = i
      BY <3>2, <3>3, <3>4
    <3> QED
      BY <3>1, <3>2, <3>5
  <2> QED
    BY <2>1, <2>3, <2>4 DEF FirstInv
<1> QED
  BY <1>4, <1>5

-----------------------------------------------------------------------------
(***************************************************************************)
(* The parts side by side.  The choice of a part is never revised, and the *)
(* steps taken while it is chosen are steps of that part alone.            *)
(***************************************************************************)
LEMMA PartKept == ASSUME [PartsNext]_partsVars PROVE part' = part
  BY DEF PartsNext, partsVars

LEMMA WorkerChosen ==
    /\ PartsInit /\ part = "worker" => Worker!Init
    /\ [PartsNext]_partsVars /\ part = "worker" => [Worker!Next]_Worker!vars
<1>1. PartsInit /\ part = "worker" => Worker!Init
  BY DEF PartsInit
<1>2. [PartsNext]_partsVars /\ part = "worker" => [Worker!Next]_Worker!vars
  BY DEF PartsNext, partsVars, workerVars, group1, Worker!vars, Worker!objects, Worker!queues, Worker!process
<1> QED
  BY <1>1, <1>2

LEMMA QuotaChosen ==
    /\ PartsInit /\ part = "quota" => Quota!Init
    /\ [PartsNext]_partsVars /\ part = "quota" => [Quota!Next]_Quota!vars
<1>1. PartsInit /\ part = "quota" => Quota!Init
  BY DEF PartsInit
<1>2. [PartsNext]_partsVars /\ part = "quota" => [Quota!Next]_Quota!vars
  BY DEF PartsNext, partsVars, quotaVars, group1, Quota!vars
<1> QED
  BY <1>1, <1>2

LEMMA HandlerChosen ==
    /\ PartsInit /\ part = "webhook" => Handler!Init
    /\ [PartsNext]_partsVars /\ part = "webhook" => [Handler!Next]_Handler!vars
<1>1. PartsInit /\ part = "webhook" => Handler!Init
  BY DEF PartsInit
<1>2. [PartsNext]_partsVars /\ part = "webhook" => [Handler!Next]_Handler!vars
  BY DEF PartsNext, partsVars, webhookVars, group1, Handler!vars
<1> QED
  BY <1>1, <1>2

LEMMA InfChosen ==
    /\ PartsInit /\ part = "sources" => Inf!Init
    /\ [PartsNext]_partsVars /\ part = "sources" => [Inf!Next]_Inf!vars
<1>1. PartsInit /\ part = "sources" => Inf!Init
  BY DEF PartsInit
<1>2. [PartsNext]_partsVars /\ part = "sources" => [Inf!Next]_Inf!vars
  BY DEF PartsNext, partsVars, sourcesVars, group1, Inf!vars, Inf!cluster, Inf!list
<1> QED
  BY <1>1, <1>2

LEMMA HttpChosen ==
    /\ PartsInit /\ part = "http" => Http!Init
    /\ [PartsNext]_partsVars /\ part = "http" => [Http!Next]_Http!vars
<1>1. PartsInit /\ part = "http" => Http!Init
  BY DEF PartsInit
<1>2. [PartsNext]_partsVars /\ part = "http" => [Http!Next]_Http!vars
  BY DEF PartsNext, partsVars, httpVars, group2, Http!vars
<1> QED
  BY <1>1, <1>2

LEMMA ObsChosen ==
    /\ PartsInit /\ part = "observers" => Obs!Init
    /\ [PartsNext]_partsVars /\ part = "observers" => [Obs!Next]_Obs!vars
<1>1. PartsInit /\ part = "observers" => Obs!Init
  BY DEF PartsInit
<1>2. [PartsNext]_partsVars /\ part = "observers" => [Obs!Next]_Obs!vars
  BY DEF PartsNext, partsVars, observersVars, group2, Obs!vars
<1> QED
  BY <1>1, <1>2

LEMMA MuxChosen ==
    /\ PartsInit /\ part = "mux" => Mux!Init
    /\ [PartsNext]_partsVars /\ part = "mux" => [Mux!Next]_Mux!vars
<1>1. PartsInit /\ part = "mux" => Mux!Init
  BY DEF PartsInit
<1>2. [PartsNext]_partsVars /\ part = "mux" => [Mux!Next]_Mux!vars
  BY DEF PartsNext, partsVars, muxVars, group2, Mux!vars
<1> QED
  BY <1>1, <1>2

(***************************************************************************)
(* util/worker: for any number of keys, workers and changes, until the     *)
(* queue is shut down a change whose handler has enqueued the key is       *)
(* handled or will be read by an execution to come, and no two workers     *)
(* execute a key.                                                          *)
(***************************************************************************)
THEOREM NoChangeForgotten == PartsSpec => []NothingForgotten
<1>1. PartsInit /\ part = "worker" => WorkerInv
  BY WorkerChosen, WorkerInvInit
<1>2. [PartsNext]_partsVars /\ part = "worker" /\ WorkerInv => WorkerInv'
  BY WorkerChosen, WorkerInvStep
<1>3. [PartsNext]_partsVars => (part = "worker" <=> (part = "worker")')
  BY PartKept
<1>4. WorkerInv => Worker!NothingForgotten /\ Worker!OneWorkerPerItem
  BY DEF WorkerInv
<1> QED
  BY <1>1, <1>2, <1>3, <1>4, PTL DEF PartsSpec, NothingForgotten

(***************************************************************************)
(* disruptionquota: AdmitBatch admits what the quota allows, for batches,  *)
(* counts and limits of any size: the minimum stands on top of the         *)
(* unconfirmed lag, the admissions stay within MaxConcurrentLag, and what  *)
(* was refused could not be admitted with what is left.                    *)
(***************************************************************************)
THEOREM QuotaAdmitsExactly == PartsSpec => []AdmittedExactly
<1>1. PartsInit /\ part = "quota" => Quota!Init
  BY QuotaChosen
<1>2. [PartsNext]_partsVars /\ part = "quota" => [Quota!Next]_Quota!vars
  BY QuotaChosen
<1>3. [PartsNext]_partsVars => (part = "quota" <=> (part = "quota")')
  BY PartKept
<1>4. Quota!Spec => []Quota!AdmittedExactly
  BY QuotaExact, PartsAssumption DEF QuotaConstants
<1> QED
  BY <1>1, <1>2, <1>3, <1>4, PTL DEF PartsSpec, Quota!Spec, AdmittedExactly

(***************************************************************************)
(* disruptionquota: AdmitBatch refuses the earliest of reviews that are    *)
(* alike, and tells denied from retry by what stands in the way, for       *)
(* batches, counts and limits of any size.                                 *)
(***************************************************************************)
THEOREM QuotaRefusesRightly == PartsSpec => []RefusedRightly
<1>1. PartsInit /\ part = "quota" => Quota!Init
  BY QuotaChosen
<1>2. [PartsNext]_partsVars /\ part = "quota" => [Quota!Next]_Quota!vars
  BY QuotaChosen
<1>3. [PartsNext]_partsVars => (part = "quota" <=> (part = "quota")')
  BY PartKept
<1>4. Quota!Spec => []Quota!RefusedRightly
  BY QuotaRight, PartsAssumption DEF QuotaConstants
<1> QED
  BY <1>1, <1>2, <1>3, <1>4, PTL DEF PartsSpec, Quota!Spec, RefusedRightly

(***************************************************************************)
(* handler.go: for any reviews and PodProtectors, whatever the informer    *)
(* and the pool do meanwhile, a review is allowed in earnest only if every *)
(* PodProtector that matches the pod and was there all along agreed, and   *)
(* one that is rejected holds no bucket of the only PodProtector that      *)
(* matches.                                                                *)
(***************************************************************************)
THEOREM AnswersAlwaysBacked == PartsSpec => []AnswersBacked
<1>1. PartsInit /\ part = "webhook" => Handler!Init
  BY HandlerChosen
<1>2. [PartsNext]_partsVars /\ part = "webhook" => [Handler!Next]_Handler!vars
  BY HandlerChosen
<1>3. [PartsNext]_partsVars => (part = "webhook" <=> (part = "webhook")')
  BY PartKept
<1>4. Handler!Spec => []Handler!AnswersBacked
  BY HandlerBacked, PartsAssumption DEF HandlerConstants
<1> QED
  BY <1>1, <1>2, <1>3, <1>4, PTL DEF PartsSpec, Handler!Spec, AnswersBacked

(***************************************************************************)
(* multi_informer.go: for any lists of sources, and whichever informer     *)
(* cannot be started, the informers of the map always run, no others run   *)
(* between updates, and a source that stays in the list keeps its          *)
(* informer.                                                               *)
(***************************************************************************)
THEOREM SourcesAlwaysRunOn == PartsSpec => SourcesRunOn
<1>1. PartsInit /\ part = "sources" => Inf!Init
  BY InfChosen
<1>2. [PartsNext]_partsVars /\ part = "sources" => [Inf!Next]_Inf!vars
  BY InfChosen
<1>3. [PartsNext]_partsVars => (part = "sources" <=> (part = "sources")')
  BY PartKept
<1>4. Inf!Spec => [][Inf!SourcesRunOn]_Inf!vars
  BY SourcesKept, PartsAssumption DEF SourceConstants
<1>5. /\ [PartsNext]_partsVars
      /\ part = "sources" => [Inf!SourcesRunOn]_Inf!vars
      => [part = "sources" => Inf!SourcesRunOn]_<<part, sourcesVars>>
  BY PartKept DEF Inf!vars, Inf!cluster, Inf!list, sourcesVars
<1> QED
  BY <1>1, <1>2, <1>3, <1>4, <1>5, PTL DEF PartsSpec, Inf!Spec, SourcesRunOn

(***************************************************************************)
(* For any number of requests, once Join of the servers (util/http) has    *)
(* returned without an error no handler runs and none will; for any number *)
(* of implementations, once a joined monitor (util/o11y) has returned none *)
(* of its parts runs on.                                                   *)
(***************************************************************************)
THEOREM JoinedIsQuiet == PartsSpec => []JoinedMeansQuiet
<1>1. PartsInit /\ part = "http" => Http!Init
  BY HttpChosen
<1>2. [PartsNext]_partsVars /\ part = "http" => [Http!Next]_Http!vars
  BY HttpChosen
<1>3. [PartsNext]_partsVars => (part = "http" <=> (part = "http")')
  BY PartKept
<1>4. Http!Spec => []Http!JoinedMeansQuiet
  BY ServersQuiet
<1>5. PartsInit /\ part = "observers" => Obs!Init
  BY ObsChosen
<1>6. [PartsNext]_partsVars /\ part = "observers" => [Obs!Next]_Obs!vars
  BY ObsChosen
<1>7. [PartsNext]_partsVars => (part = "observers" <=> (part = "observers")')
  BY PartKept
<1>8. Obs!Spec => []Obs!ReturnedMeansEnded
  BY MonitorsEnded
<1> QED
  BY <1>1, <1>2, <1>3, <1>4, <1>5, <1>6, <1>7, <1>8, PTL DEF PartsSpec, Http!Spec, Obs!Spec, JoinedMeansQuiet

(***************************************************************************)
(* component/mux.go, o11y/component.go: in whatever order an interface and *)
(* any number of implementations are declared, exactly the selected one is *)
(* kept; in whatever order observers are provided and requested, every     *)
(* function calls each implementation that sets it once.                   *)
(***************************************************************************)
THEOREM OrderNeverMatters == PartsSpec => []OrderIrrelevant
<1>1. PartsInit /\ part = "mux" => Mux!Init
  BY MuxChosen
<1>2. [PartsNext]_partsVars /\ part = "mux" => [Mux!Next]_Mux!vars
  BY MuxChosen
<1>3. [PartsNext]_partsVars => (part = "mux" <=> (part = "mux")')
  BY PartKept
<1>4. Mux!Spec => []Mux!OneSelected
  BY MuxSelectsOne, PartsAssumption DEF MuxConstants
<1>5. PartsInit /\ part = "observers" => Obs!Init
  BY ObsChosen
<1>6. [PartsNext]_partsVars /\ part = "observers" => [Obs!Next]_Obs!vars
  BY ObsChosen
<1>7. [PartsNext]_partsVars => (part = "observers" <=> (part = "observers")')
  BY PartKept
<1>8. Obs!Spec => []Obs!AllProvided
  BY ObserversJoined
<1> QED
  BY <1>1, <1>2, <1>3, <1>4, <1>5, <1>6, <1>7, <1>8, PTL DEF PartsSpec, Mux!Spec, Obs!Spec, OrderIrrelevant

LEMMA IterChosen ==
    /\ PartsInit /\ part = "iter" => Iter!Init
    /\ [PartsNext]_partsVars /\ part = "iter" => [Iter!Next]_Iter!vars
<1>1. PartsInit /\ part = "iter" => Iter!Init
  BY DEF PartsInit
<1>2. [PartsNext]_partsVars /\ part = "iter" => [Iter!Next]_Iter!vars
  BY DEF PartsNext, partsVars, iterVars, group3, Iter!vars
<1> QED
  BY <1>1, <1>2

(***************************************************************************)
(* iter/iter.go: for iterators of any length, with or without filters, Any *)
(* and All answer whether some or every item that is pushed is true; over  *)
(* any iterator that ends when its receiver answers Break, TryForEach      *)
(* returns the first error and FirstSome the first value.                  *)
(***************************************************************************)
THEOREM ConsumersAreExact == PartsSpec => []ConsumersExact
<1>1. PartsInit /\ part = "iter" => IterInv
  BY IterChosen, IterInit
<1>2. [PartsNext]_partsVars /\ part = "iter" /\ IterInv => IterInv'
  BY IterChosen, IterStep
<1>3. [PartsNext]_partsVars => (part = "iter" <=> (part = "iter")')
  BY PartKept
<1>4. IterInv => Iter!FlagsExact /\ Iter!FirstReturned
  BY IterHolds
<1> QED
  BY <1>1, <1>2, <1>3, <1>4, PTL DEF PartsSpec, ConsumersExact
=============================================================================
