------------------------------- MODULE Worker -------------------------------
(***************************************************************************)
(* The worker of a controller (util/worker): event handlers enqueue keys,  *)
(* WorkerCount goroutines execute them, an error re-enqueues with a delay. *)
(* The queue is client-go's rate limiting queue: `dirty` deduplicates, and *)
(* a key in `processing` is queued again only when it is done.             *)
(***************************************************************************)
EXTENDS Naturals, Sequences, FiniteSets, SequencesExt

CONSTANTS Items, Workers, NoItem,
          MaxVersion,       \* bound on the changes of an object
          ConflictBackoff   \* whether MaxDelayConflict differs from MaxDelay

VARIABLES
    version,     \* version[i]: the object of key i, as a cache shows it
    notified,    \* notified[i]: the last version whose handler enqueued i
    handled,     \* handled[i]: the version that the last success of i had read
    queue, dirty, processing, waiting, shuttingDown,
    worker,      \* worker[w] = [st, item, read]
    starter,     \* where the goroutine `start` is
    synced,      \* whether the prerequisites hold
    ctxDone, joined

objects  == <<version, notified, handled>>
queues   == <<queue, dirty, processing, waiting, shuttingDown>>
process  == <<starter, synced, ctxDone, joined>>
vars     == <<objects, queues, worker, process>>

Unborn  == [st |-> "unborn", item |-> NoItem, read |-> 0]
Idle    == [st |-> "idle", item |-> NoItem, read |-> 0]

Init ==
    /\ version = [i \in Items |-> 1] /\ notified = [i \in Items |-> 0] /\ handled = [i \in Items |-> 0]
    /\ queue = <<>> /\ dirty = {} /\ processing = {} /\ waiting = {} /\ shuttingDown = FALSE
    /\ worker = [w \in Workers |-> Unborn]
    /\ starter = "await" /\ synced = FALSE /\ ctxDone = FALSE /\ joined = FALSE

-----------------------------------------------------------------------------
(* client-go's queue. *)
Add(i) ==
    IF shuttingDown \/ i \in dirty THEN UNCHANGED <<queue, dirty>>
    ELSE /\ dirty' = dirty \cup {i}
         /\ queue' = IF i \in processing THEN queue ELSE Append(queue, i)

AddDelayed(i) == waiting' = IF shuttingDown THEN waiting ELSE waiting \cup {i}

(* The delay of a key ends. *)
Ripen(i) ==
    /\ i \in waiting
    /\ waiting' = waiting \ {i}
    /\ Add(i)
    /\ UNCHANGED <<objects, processing, shuttingDown, worker, process>>

-----------------------------------------------------------------------------
(* The objects change, and the handlers of the informers enqueue their keys. *)
Change(i) ==
    /\ version[i] < MaxVersion
    /\ version' = [version EXCEPT ![i] = @ + 1]
    /\ UNCHANGED <<notified, handled, queues, worker, process>>

Enqueue(i) ==
    /\ notified[i] < version[i]
    /\ notified' = [notified EXCEPT ![i] = version[i]]
    /\ Add(i)
    /\ UNCHANGED <<version, handled, processing, waiting, shuttingDown, worker, process>>

EnqueueDelayed(i) ==
    /\ notified[i] < version[i]
    /\ notified' = [notified EXCEPT ![i] = version[i]]
    /\ AddDelayed(i)
    /\ UNCHANGED <<version, handled, queue, dirty, processing, shuttingDown, worker, process>>

-----------------------------------------------------------------------------
(* start, which runs in a goroutine of its own. *)
BeforeStart ==   \* the elector's Await
    /\ starter = "await"
    /\ \/ starter' = "prereqs"
       \/ ctxDone /\ starter' = "quit"
    /\ UNCHANGED <<objects, queues, worker, synced, ctxDone, joined>>

WaitPrereqs ==
    /\ starter = "prereqs"
    /\ \/ synced /\ starter' = "spawn"
       \/ ctxDone /\ starter' = "quit"
    /\ UNCHANGED <<objects, queues, worker, synced, ctxDone, joined>>

(* completion.Add(WorkerCount) and the goroutines. *)
Spawn ==
    /\ starter = "spawn" /\ starter' = "watch"
    /\ worker' = [w \in Workers |-> Idle]
    /\ UNCHANGED <<objects, queues, synced, ctxDone, joined>>

ShutDownAtOnce ==   \* mutant: the queue is shut down although nobody asked to stop
    /\ starter = "watch" /\ ~shuttingDown
    /\ shuttingDown' = TRUE
    /\ UNCHANGED <<objects, queue, dirty, processing, waiting, worker, process>>

ShutDown ==
    /\ starter = "watch" /\ ctxDone /\ ~shuttingDown
    /\ shuttingDown' = TRUE
    /\ UNCHANGED <<objects, queue, dirty, processing, waiting, worker, process>>

Sync ==
    /\ ~synced /\ synced' = TRUE
    /\ UNCHANGED <<objects, queues, worker, starter, ctxDone, joined>>

-----------------------------------------------------------------------------
(* runWorker: Get, spinOnce, and again. *)
To(w, s) == worker' = [worker EXCEPT ![w].st = s]

Get(w) ==
    /\ worker[w].st = "idle" /\ queue # <<>>
    /\ LET i == Head(queue)
       IN  /\ queue' = Tail(queue)
           /\ dirty' = dirty \ {i}
           /\ processing' = processing \cup {i}
           /\ worker' = [worker EXCEPT ![w] = [st |-> "got", item |-> i, read |-> 0]]
    /\ UNCHANGED <<objects, waiting, shuttingDown, process>>

Exit(w) ==
    /\ worker[w].st = "idle" /\ queue = <<>> /\ shuttingDown
    /\ To(w, "exited")
    /\ UNCHANGED <<objects, queues, process>>

(* The executor looks at the object ... *)
Read(w) ==
    /\ worker[w].st = "got"
    /\ worker' = [worker EXCEPT ![w].st = "read", ![w].read = version[worker[w].item]]
    /\ UNCHANGED <<objects, queues, process>>

(* ... and returns. *)
Succeed(w) ==
    /\ worker[w].st = "read"
    /\ handled' = [handled EXCEPT ![worker[w].item] = worker[w].read]
    /\ To(w, "done")
    /\ UNCHANGED <<version, notified, queues, process>>

Fail(w) ==
    /\ worker[w].st = "read"
    /\ \E kind \in {"error", "conflict"} : To(w, kind)
    /\ UNCHANGED <<objects, queues, process>>

(* queue.AddRateLimited *)
AddRateLimited(w) ==
    /\ worker[w].st \in {"error", "conflict"}
    /\ AddDelayed(worker[w].item)
    /\ To(w, IF worker[w].st = "conflict" /\ ConflictBackoff THEN "backoff" ELSE "done")
    /\ UNCHANGED <<objects, queue, dirty, processing, shuttingDown, process>>

(* queue.AddAfter(conflictBackoff): of two delays the queue keeps the shorter. *)
AddAfter(w) ==
    /\ worker[w].st = "backoff"
    /\ AddDelayed(worker[w].item)
    /\ To(w, "done")
    /\ UNCHANGED <<objects, queue, dirty, processing, shuttingDown, process>>

DirtyDropped(w) ==   \* mutant: a key that became dirty meanwhile is not queued again
    /\ worker[w].st = "done"
    /\ processing' = processing \ {worker[w].item}
    /\ dirty' = dirty \ {worker[w].item}
    /\ worker' = [worker EXCEPT ![w] = Idle]
    /\ UNCHANGED <<objects, queue, waiting, shuttingDown, process>>

(* The deferred queue.Done. *)
Done(w) ==
    /\ worker[w].st = "done"
    /\ processing' = processing \ {worker[w].item}
    /\ queue' = IF worker[w].item \in dirty THEN Append(queue, worker[w].item) ELSE queue
    /\ worker' = [worker EXCEPT ![w] = Idle]
    /\ UNCHANGED <<objects, dirty, waiting, shuttingDown, process>>

(* The process: a signal, and the join of the component. *)
Stop ==
    /\ ~ctxDone /\ ctxDone' = TRUE
    /\ UNCHANGED <<objects, queues, worker, starter, synced, joined>>

(* completion.Wait() *)
Join ==
    /\ ctxDone /\ ~joined
    /\ \A w \in Workers : worker[w].st \in {"unborn", "exited"}
    /\ joined' = TRUE
    /\ UNCHANGED <<objects, queues, worker, starter, synced, ctxDone>>

Goroutine(w) ==
    Get(w) \/ Exit(w) \/ Read(w) \/ Succeed(w) \/ Fail(w) \/ AddRateLimited(w) \/ AddAfter(w) \/ Done(w)

Next ==
    \/ \E i \in Items : Ripen(i) \/ Change(i) \/ Enqueue(i) \/ EnqueueDelayed(i)
    \/ BeforeStart \/ WaitPrereqs \/ Spawn \/ ShutDown \/ Sync
    \/ \E w \in Workers : Goroutine(w)
    \/ Stop \/ Join

Spec == Init /\ [][Next]_vars

(* The goroutines run and delays end; an executor that is retried for ever *)
(* succeeds in the end: the errors of an API server are transient.         *)
Fairness ==
    /\ WF_vars(BeforeStart \/ WaitPrereqs \/ Spawn \/ ShutDown)
    /\ WF_vars(Sync) /\ WF_vars(Join)
    /\ \A i \in Items : WF_vars(Ripen(i)) /\ WF_vars(Enqueue(i) \/ EnqueueDelayed(i))
    /\ \A w \in Workers : WF_vars(Goroutine(w))
    /\ \A i \in Items : SF_vars(\E w \in Workers : Succeed(w) /\ worker[w].item = i)

-----------------------------------------------------------------------------
Executing(w) == worker[w].st \notin {"unborn", "idle", "exited"}

(* Something under way will read at least version v of the object of i. *)
Underway(i, v) ==
    \/ i \in dirty \cup waiting
    \/ \E w \in Workers :
          /\ worker[w].item = i
          /\ \/ worker[w].st \in {"got", "error", "conflict", "backoff"}
             \/ worker[w].st = "read" /\ worker[w].read >= v

(* A key is executed by one worker at a time, although it may be enqueued, *)
(* delayed and retried at any moment (spinOnce runs the executor between   *)
(* Get and the deferred Done).                                             *)
OneWorkerPerItem ==
    \A v, w \in Workers : v # w /\ Executing(v) /\ Executing(w) => worker[v].item # worker[w].item

(* Until the queue is shut down, a change whose handler has enqueued the   *)
(* key is either handled or will be read by an execution to come: neither  *)
(* deduplication, nor an error, nor a change during the execution loses it.*)
NothingForgotten ==
    \A i \in Items : ~shuttingDown /\ handled[i] < notified[i] => Underway(i, notified[i])

(* Every change is handled, unless the process stops. *)
EveryChangeHandled ==
    \A i \in Items : \A v \in 1..MaxVersion : version[i] = v ~> (handled[i] >= v \/ ctxDone)

(* After a signal the workers drain the queue and exit, whatever fails     *)
(* meanwhile, and the component is joined.                                 *)
JoinReturns == ctxDone ~> joined
=============================================================================
