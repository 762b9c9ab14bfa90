----------------------------- MODULE Aggregator -----------------------------
(***************************************************************************)
(* The aggregator of one cell (aggregator/aggregator, aggregator/synctime, *)
(* aggregator/updatetrigger) and one PodProtector: pod informers in        *)
(* shards, the label index, the sync time of every shard, the pool of      *)
(* PodProtectors that wait for the next event, the work queue, and the     *)
(* reconciliation, step by step.                                           *)
(*                                                                         *)
(* The environment is the apiserver of the cell, whose pods change and     *)
(* emit events, and the webhook, which appends buckets to the history of   *)
(* the stored PodProtector.  Time is a clock that all of them read;        *)
(* 0 stands for a time that is not set.  The seven replica counts of an    *)
(* aggregation are abstracted to two: all pods and available pods.         *)
(***************************************************************************)
EXTENDS PodProtector, SequencesExt

CONSTANTS Shards,      \* pod informer shards, numbered from 0
          Trigger,     \* the dummy pod of the update trigger, matched by no PodProtector
          ShardOf,     \* getShardNumber, for every pod and the dummy pod
          NamedPods,   \* the pods whose buckets carry the pod name
          InitPods,    \* the pods that exist, ready, at the start
          Algorithm,   \* --aggregator-informer-synctime-algorithm: "clock" or "status"
          Grace,       \* terminationGracePeriodSeconds
          MinReady,    \* spec.minReadySeconds
          LagFree,     \* whether watch events arrive before the clock advances
          Faults,      \* of "relist" and "restart" the faults of which one may happen, once
          MaxTime,     \* bound on the clock, which stops there
          MaxWatch     \* bound on the events of a shard that are not handled yet

ASSUME AggregatorAssumption ==
    /\ Shards # {} /\ IsFiniteSet(Shards) /\ Shards \subseteq Nat
    /\ Trigger \notin Pods
    /\ ShardOf \in [Pods \cup {Trigger} -> Shards]
    /\ NamedPods \subseteq Pods /\ InitPods \subseteq Pods
    /\ Algorithm \in {"clock", "status"}
    /\ Grace \in Nat /\ MinReady \in Nat
    /\ LagFree \in BOOLEAN
    /\ Faults \subseteq {"relist", "restart"}
    /\ MaxTime \in Nat /\ MaxTime > MinReady /\ MaxWatch \in Nat \ {0}

VARIABLES
    now,           \* the clock
    obj,           \* obj[p]: pod p as the apiserver of the cell stores it
    terminatedAt,  \* terminatedAt[p]: when the deletion of p was carried out
    approved,      \* the reviews the webhook approved
    faults,        \* the faults that may still happen
    spin,          \* the next call of the update trigger
    watch,         \* watch[s]: events on their way to the informer of shard s
    lister,        \* lister[p]: pod p in the store of its informer
    notices,       \* notices[s]: stored events that the handler has not finished
    stage,         \* stage[s]: where the handler is with the first of them
    index,         \* podIndex: the pods tracked by the label index
    syncTime,      \* syncTime[s]: lastInformerSync of shard s
    unsynced,      \* unsynced[s]: pods of the first list that are not in the store yet
    pool,          \* the shards whose nextEventPool holds the PodProtector
    ppr, cache,    \* the stored PodProtector, and the one in the informer
    queued,        \* whether the work queue holds the PodProtector
    alarm,         \* when a delayed addition puts it there
    pc, task       \* the reconciliation under way and its local variables

cluster   == <<now, obj, terminatedAt, approved, faults, spin>>
informers == <<watch, lister, notices, stage, index, syncTime, unsynced>>
queue     == <<queued, alarm>>
local     == <<lister, notices, stage, index, syncTime, unsynced, pool, ppr, cache, queue, pc, task>>
vars      == <<cluster, informers, pool, ppr, cache, queue, pc, task>>

AllPods == Pods \cup {Trigger}
Absent  == [created |-> 0, ready |-> 0, deleting |-> 0, touched |-> 0]
NoPpr   == [rv |-> 0, cell |-> FALSE, total |-> 0, available |-> 0, history |-> {}]
Idle    == [ppr |-> NoPpr, unread |-> {}, failed |-> FALSE, pods |-> {}, available |-> {}, requeue |-> 0,
            shards |-> {}, times |-> [s \in Shards |-> 0]]

(***************************************************************************)
(* A pod: when it was created, when it became ready, its deletionTimestamp *)
(* and the latest of its condition probes and update trigger annotation.   *)
(***************************************************************************)
PodObject == [created : Nat, ready : Nat, deleting : Nat, touched : Nat]
Event     == [pod : AllPods, obj : PodObject, gone : BOOLEAN]
Protector == [rv : Nat, cell : BOOLEAN, total : Nat, available : Nat,
              history : SUBSET Bucket]

Init ==
    /\ now = 1 + MinReady
    /\ obj = [p \in AllPods |-> IF p \in InitPods THEN [Absent EXCEPT !.created = 1, !.ready = 1]
                                                  ELSE Absent]
    /\ terminatedAt = [p \in Pods |-> 0]
    /\ approved = {}
    /\ faults = Faults
    /\ spin = "create"
    /\ watch = [s \in Shards |-> <<>>]
    /\ lister = obj
    /\ notices = [s \in Shards |-> <<>>]
    /\ stage = [s \in Shards |-> "sync"]
    /\ index = InitPods
    /\ syncTime = [s \in Shards |-> 1]
    /\ unsynced = [s \in Shards |-> 0]
    /\ pool = {}
    /\ ppr = [rv |-> 1, cell |-> InitPods # {}, total |-> Cardinality(InitPods),
              available |-> Cardinality(InitPods), history |-> {}]
    /\ cache = ppr
    /\ queued = FALSE
    /\ alarm = 0
    /\ pc = "idle"
    /\ task = Idle

-----------------------------------------------------------------------------
(* IsPodAvailable. *)
IsPodAvailable(o, t) ==
    o.deleting = 0 /\ o.ready # 0 /\ t - o.ready >= MinReady

(* Ready, but not for MinReady yet: the reconciliation is repeated by then. *)
ReadyLater(o, t) == o.deleting = 0 /\ o.ready # 0 /\ t - o.ready < MinReady

(* The time a pod event tells, by the interpreter that is configured. *)
InterpretStatus(o) ==
    Max({IF o.deleting # 0 THEN o.deleting ELSE o.created, o.touched})

Interpret(o) == IF Algorithm = "clock" THEN now ELSE InterpretStatus(o)

(* workqueue.AddAfter: of two delays of one item the earlier one counts. *)
AddAfter(time) == alarm' = IF alarm = 0 \/ time < alarm THEN time ELSE alarm

(* A delay that is not determined, by jitter or by backoff: due from now on. *)
enqueueDelayed == AddAfter(1)

-----------------------------------------------------------------------------
EventOf(p, o, gone) == [pod |-> p, obj |-> o, gone |-> gone]

(* The cell: every change of a pod emits an event of the shard of the pod. *)
Emit(p, o, gone) ==
    /\ Len(watch[ShardOf[p]]) + Len(notices[ShardOf[p]]) < MaxWatch
    /\ watch' = [watch EXCEPT ![ShardOf[p]] =
                    Append(@, EventOf(p, o, gone))]
    /\ obj' = [obj EXCEPT ![p] = IF gone THEN Absent ELSE o]

NoLag == \A s \in Shards : watch[s] = <<>> /\ notices[s] = <<>>

Tick ==
    /\ now < MaxTime
    /\ LagFree => NoLag
    /\ now' = now + 1
    /\ UNCHANGED <<obj, terminatedAt, approved, faults, spin, informers, pool, ppr, cache, queue, pc, task>>

CreatePod(p) ==
    /\ obj[p] = Absent /\ terminatedAt[p] = 0
    /\ Emit(p, [Absent EXCEPT !.created = now], FALSE)
    /\ UNCHANGED <<now, terminatedAt, approved, faults, spin, local>>

BecomeReady(p) ==
    /\ obj[p] # Absent /\ obj[p].ready = 0 /\ obj[p].deleting = 0
    /\ Emit(p, [obj[p] EXCEPT !.ready = now], FALSE)
    /\ UNCHANGED <<now, terminatedAt, approved, faults, spin, local>>

(* The webhook approves review r and stores its bucket. *)
Approve(r) ==
    /\ r \notin approved /\ terminatedAt[PodOf[r]] = 0 /\ obj[PodOf[r]].ready # 0
    /\ \E h \in Summarize(ppr.history \cup {NewBucket(r, now)}) :
          ppr' = [ppr EXCEPT !.rv = @ + 1, !.cell = TRUE, !.history = h]
    /\ approved' = approved \cup {r}
    /\ UNCHANGED <<now, obj, terminatedAt, faults, spin, informers, pool, cache, queue, pc, task>>

(* The cell carries out an approved deletion: the pod starts to terminate ... *)
Terminate(p) ==
    /\ obj[p] # Absent /\ obj[p].deleting = 0
    /\ p \in PodsOf(approved)
    /\ Emit(p, [obj[p] EXCEPT !.deleting = now + Grace], FALSE)
    /\ terminatedAt' = [terminatedAt EXCEPT ![p] = now]
    /\ UNCHANGED <<now, approved, faults, spin, local>>

(* ... and is gone when its grace period is over. *)
RemovePod(p) ==
    /\ obj[p].deleting # 0 /\ obj[p].deleting <= now
    /\ Emit(p, obj[p], TRUE)
    /\ UNCHANGED <<now, terminatedAt, approved, faults, spin, local>>

(***************************************************************************)
(* The update trigger: the dummy pod is created, which succeeds also when  *)
(* it exists, and from then on its annotation is replaced by the time.     *)
(***************************************************************************)
spinCreate ==
    /\ spin = "create"
    /\ IF obj[Trigger] = Absent
       THEN Emit(Trigger, [Absent EXCEPT !.created = now, !.touched = now], FALSE)
       ELSE UNCHANGED <<obj, watch>>
    /\ spin' = "update"
    /\ UNCHANGED <<now, terminatedAt, approved, faults, local>>

spinUpdate ==
    /\ spin = "update"
    /\ obj[Trigger] # Absent
    /\ Emit(Trigger, [obj[Trigger] EXCEPT !.touched = now], FALSE)
    /\ UNCHANGED <<now, terminatedAt, approved, faults, spin, local>>

-----------------------------------------------------------------------------
(* An informer takes a watch event into its store and notifies the handler. *)
StoreEvent(s) ==
    /\ watch[s] # <<>>
    /\ LET e == Head(watch[s])
       IN  /\ lister' = [lister EXCEPT ![e.pod] = IF e.gone THEN Absent ELSE e.obj]
           /\ notices' = [notices EXCEPT ![s] = Append(@, e)]
    /\ watch' = [watch EXCEPT ![s] = Tail(@)]
    /\ unsynced' = [unsynced EXCEPT ![s] = IF @ > 0 THEN @ - 1 ELSE 0]
    /\ UNCHANGED <<cluster, stage, index, syncTime, pool, ppr, cache, queue, pc, task>>

(***************************************************************************)
(* A list: the present state of every pod of the shard, in some order, and *)
(* then the pods of the store that are gone, each in its last known state  *)
(* (DeletedFinalStateUnknown).  An empty one marks the initial sync.       *)
(***************************************************************************)
Present(s) == {p \in AllPods : ShardOf[p] = s /\ obj[p] # Absent}

Vanished(s, known) == {p \in AllPods : ShardOf[p] = s /\ obj[p] = Absent /\ known[p] # Absent}

Lists(s, known) ==
    {l[1] \o l[2] :
        l \in SetToSeqs({EventOf(p, obj[p], FALSE) : p \in Present(s)})
              \X SetToSeqs({EventOf(p, known[p], TRUE) : p \in Vanished(s, known)})}

markInitialInformerSync(s, time) ==
    IF Present(s) = {} /\ time = 0 THEN now ELSE time

(* The watch of a shard breaks: what it did not deliver is replaced by a list. *)
Relist(s) ==
    /\ "relist" \in faults
    /\ faults' = {}
    /\ watch[s] # <<>> /\ unsynced[s] = 0
    /\ \E l \in Lists(s, lister) : watch' = [watch EXCEPT ![s] = l]
    /\ syncTime' = [syncTime EXCEPT ![s] = markInitialInformerSync(s, @)]
    /\ UNCHANGED <<now, obj, terminatedAt, approved, spin, lister, notices, stage, index, unsynced,
                   pool, ppr, cache, queue, pc, task>>

(***************************************************************************)
(* The process is replaced by another one: the caches, the index, the sync *)
(* times, the pool and the queue are empty, and the pods are listed.       *)
(***************************************************************************)
Restart ==
    /\ "restart" \in faults
    /\ faults' = {}
    /\ lister' = [p \in AllPods |-> Absent]
    /\ watch' \in {f \in [Shards -> UNION {Lists(s, lister') : s \in Shards}] :
                      \A s \in Shards : f[s] \in Lists(s, lister')}
    /\ unsynced' = [s \in Shards |-> Cardinality(Present(s))]
    /\ syncTime' = [s \in Shards |-> markInitialInformerSync(s, 0)]
    /\ notices' = [s \in Shards |-> <<>>]
    /\ stage' = [s \in Shards |-> "sync"]
    /\ index' = {}
    /\ pool' = {}
    /\ cache' = NoPpr
    /\ queued' = FALSE
    /\ alarm' = 0
    /\ pc' = "idle"
    /\ task' = Idle
    /\ spin' = "create"
    /\ UNCHANGED <<now, obj, terminatedAt, approved, ppr>>

-----------------------------------------------------------------------------
(***************************************************************************)
(* podEventHandler.handle: the index tracks the pod, the sync time of the  *)
(* shard moves to the time of the event if that is later, and the          *)
(* PodProtectors that match the pod or wait in the pool are enqueued.      *)
(***************************************************************************)
Tracked(e) == IF e.gone THEN index \ {e.pod} ELSE index \cup ({e.pod} \cap Pods)

(* A query of the index holds its read lock until the last pod has been looked up. *)
ReadLocked == pc = "pods" /\ task.unread # {}

NotifyInformerSync(s) ==
    /\ notices[s] # <<>> /\ stage[s] = "sync" /\ ~ReadLocked
    /\ index' = Tracked(Head(notices[s]))
    /\ syncTime' = [syncTime EXCEPT ![s] = Max({@, Interpret(Head(notices[s]).obj)})]
    /\ stage' = [stage EXCEPT ![s] = "drain"]
    /\ UNCHANGED <<cluster, watch, lister, notices, unsynced, pool, ppr, cache, queue, pc, task>>

DrainForgotten(s) ==   \* mutant: only the PodProtectors that match the pod are enqueued
    /\ notices[s] # <<>> /\ stage[s] = "drain"
    /\ IF Head(notices[s]).pod \in Pods THEN enqueueDelayed ELSE UNCHANGED alarm
    /\ pool' = pool \ {s}
    /\ notices' = [notices EXCEPT ![s] = Tail(@)]
    /\ stage' = [stage EXCEPT ![s] = "sync"]
    /\ UNCHANGED <<cluster, watch, lister, index, syncTime, unsynced, ppr, cache, queued, pc, task>>

(* nextEventPool.Drain and Push of the pools of the shards. *)
Drain(s) == pool' = pool \ {s}
Push(shards) == pool' = pool \cup shards

DrainAndEnqueue(s) ==
    /\ notices[s] # <<>> /\ stage[s] = "drain"
    /\ IF s \in pool \/ (Head(notices[s]).pod \in Pods /\ cache # NoPpr)
       THEN enqueueDelayed ELSE UNCHANGED alarm
    /\ Drain(s)
    /\ notices' = [notices EXCEPT ![s] = Tail(@)]
    /\ stage' = [stage EXCEPT ![s] = "sync"]
    /\ UNCHANGED <<cluster, watch, lister, index, syncTime, unsynced, ppr, cache, queued, pc, task>>

(* The informer of the PodProtectors catches up; its post handler enqueues. *)
DeliverPpr ==
    /\ cache # ppr
    /\ cache' = ppr
    /\ enqueueDelayed
    /\ UNCHANGED <<cluster, informers, pool, ppr, queued, pc, task>>

(* A delay is over. *)
FireAlarm ==
    /\ alarm # 0 /\ alarm <= now
    /\ alarm' = 0
    /\ queued' = TRUE
    /\ UNCHANGED <<cluster, informers, pool, ppr, cache, pc, task>>

-----------------------------------------------------------------------------
(* The reconciliation is over; what is left in the queue stays there. *)
EndReconcile == pc' = "idle" /\ task' = Idle

GivenUp == EndReconcile /\ UNCHANGED alarm   \* mutant: the item is not added again

(* It failed: the worker adds the item with a rate limit. *)
FailReconcile == EndReconcile /\ enqueueDelayed

(* The prerequisites of the worker: all informers have their first list. *)
HasSynced == cache # NoPpr /\ \A s \in Shards : unsynced[s] = 0

(* tryReconcile reads the cached PodProtector and asks the index for its pods. *)
StartReconcile ==
    /\ HasSynced
    /\ queued /\ pc = "idle"
    /\ queued' = FALSE
    /\ pc' = "pods"
    /\ task' = [Idle EXCEPT !.ppr = cache, !.unread = index]
    /\ UNCHANGED <<cluster, informers, pool, ppr, cache, alarm>>

(***************************************************************************)
(* findRelevantPods: one pod from the lister.  A missing one is an error   *)
(* that does not end the iteration, and which the next pod overwrites.     *)
(***************************************************************************)
FindPod(p) ==
    /\ pc = "pods" /\ p \in task.unread
    /\ task' = [task EXCEPT !.unread = @ \ {p},
                            !.failed = (lister[p] = Absent),
                            !.pods = @ \cup {q \in {<<p, lister[p]>>} : q[2] # Absent /\ q[2].deleting = 0}]
    /\ UNCHANGED <<cluster, informers, pool, ppr, cache, queue, pc>>

RequeueForgotten(t) ==   \* mutant: nothing is remembered of pods that will become available
    [t EXCEPT !.available = {q[1] : q \in {q \in t.pods : IsPodAvailable(q[2], now)}}]

(* aggregateStatus: the available pods, and when the next one will be. *)
Aggregation(t) ==
    LET later == {q[2].ready + MinReady : q \in {q \in t.pods : ReadyLater(q[2], now)}}
    IN  [t EXCEPT !.available = {q[1] : q \in {q \in t.pods : IsPodAvailable(q[2], now)}},
                  !.requeue = IF later = {} THEN 0 ELSE Min(later)]

(* A cell without pods that has no status gets none. *)
AggregateStatus ==
    /\ pc = "pods" /\ task.unread = {} /\ ~task.failed
    /\ IF ~task.ppr.cell /\ task.pods = {}
       THEN EndReconcile
       ELSE /\ pc' = "sync"
            /\ task' = [Aggregation(task) EXCEPT !.shards = Shards]
    /\ UNCHANGED <<cluster, informers, pool, ppr, cache, queue>>

(* The last pod of the iteration was missing. *)
PodMissing ==
    /\ pc = "pods" /\ task.unread = {} /\ task.failed
    /\ FailReconcile
    /\ UNCHANGED <<cluster, informers, pool, ppr, cache, queued>>

(* The sync time of the next shard is read; without one there is no result. *)
ReadSyncTime ==
    /\ pc = "sync" /\ task.shards # {}
    /\ LET s == Min(task.shards)
       IN  IF syncTime[s] = 0
           THEN FailReconcile
           ELSE /\ task' = [task EXCEPT !.shards = @ \ {s}, !.times[s] = syncTime[s]]
                /\ UNCHANGED <<pc, alarm>>
    /\ UNCHANGED <<cluster, informers, pool, ppr, cache, queued>>

-----------------------------------------------------------------------------
MinLastEventTime(times) == Min({times[s] : s \in Shards})

(* lastEventTimeList.get: the shard of the pod if its name is known, or the earliest. *)
LastEventTime(b, times) ==
    IF b.podUid \in NamedPods THEN times[ShardOf[b.podUid]] ELSE MinLastEventTime(times)

ObsoleteAtOnce(b, times) ==   \* mutant: a bucket that starts at the sync time is removed
    IF b.podUid # NoUid THEN b.startTime <= LastEventTime(b, times)
                        ELSE b.endTime <= MinLastEventTime(times)

Obsolete(b, times) ==
    IF b.podUid # NoUid THEN b.startTime < LastEventTime(b, times)
                        ELSE b.endTime < MinLastEventTime(times)

(* The shards whose next event may make an outstanding bucket obsolete. *)
NextEventOf(b, times) ==
    IF b.podUid \in NamedPods THEN {ShardOf[b.podUid]}
                              ELSE {s \in Shards : times[s] < b.startTime}

(* The copy of the PodProtector as updateLastEventTime leaves it. *)
Outstanding(t) == {b \in t.ppr.history : ~Obsolete(b, t.times)}

UpdateLastEventTime ==
    /\ pc = "sync" /\ task.shards = {}
    /\ Push(UNION {NextEventOf(b, task.times) : b \in Outstanding(task)})
    /\ IF task.requeue # 0 THEN AddAfter(task.requeue) ELSE UNCHANGED alarm
    /\ pc' = "write"
    /\ UNCHANGED <<cluster, informers, ppr, cache, queued, task>>

HasChanged(t) ==
    \/ Cardinality(t.pods) # t.ppr.total
    \/ Cardinality(t.available) # t.ppr.available
    \/ Outstanding(t) # t.ppr.history

(* The copies that Summarize may leave to be written. *)
Updates(t) ==
    {[t.ppr EXCEPT !.rv = @ + 1, !.cell = TRUE, !.total = Cardinality(t.pods),
                   !.available = Cardinality(t.available),
                   !.history = h] :
        h \in Summarize(Outstanding(t))}

NothingChanged ==
    /\ pc = "write" /\ ~HasChanged(task)
    /\ EndReconcile
    /\ UNCHANGED <<cluster, informers, pool, ppr, cache, queue>>

UpdateStatus ==
    /\ pc = "write" /\ HasChanged(task)
    /\ ppr.rv = task.ppr.rv
    /\ ppr' \in Updates(task)
    /\ EndReconcile
    /\ UNCHANGED <<cluster, informers, pool, cache, queue>>

(* The update conflicts, or fails otherwise. *)
UpdateFails ==
    /\ pc = "write" /\ HasChanged(task)
    /\ FailReconcile
    /\ UNCHANGED <<cluster, informers, pool, ppr, cache, queued>>

-----------------------------------------------------------------------------
Cell ==
    \/ Tick
    \/ \E p \in Pods : CreatePod(p) \/ BecomeReady(p) \/ Terminate(p) \/ RemovePod(p)
    \/ \E r \in Reviews : Approve(r)

UpdateTrigger == spinCreate \/ spinUpdate

Handler(s) == NotifyInformerSync(s) \/ DrainAndEnqueue(s)

Informers ==
    \/ \E s \in Shards : StoreEvent(s) \/ Relist(s) \/ Handler(s)
    \/ DeliverPpr

Reconcile ==
    \/ StartReconcile
    \/ \E p \in Pods : FindPod(p)
    \/ AggregateStatus
    \/ PodMissing
    \/ ReadSyncTime
    \/ UpdateLastEventTime
    \/ NothingChanged
    \/ UpdateStatus
    \/ UpdateFails

Next == Cell \/ UpdateTrigger \/ Informers \/ FireAlarm \/ Reconcile \/ Restart

Spec == Init /\ [][Next]_vars

(***************************************************************************)
(* The clock, the update trigger, the informers, the timers and the worker *)
(* go on; nothing is assumed of the pods, the webhook and the faults.  An  *)
(* update is not refused forever, and a handler that waits for the lock of *)
(* the index is let in before the next query.                              *)
(***************************************************************************)
Fairness ==
    /\ WF_vars(Tick)
    /\ WF_vars(UpdateTrigger)
    /\ \A s \in Shards : WF_vars(StoreEvent(s)) /\ SF_vars(Handler(s))
    /\ WF_vars(DeliverPpr)
    /\ WF_vars(FireAlarm)
    /\ WF_vars(StartReconcile)
    /\ WF_vars(\E p \in Pods : FindPod(p))
    /\ WF_vars(AggregateStatus \/ PodMissing \/ ReadSyncTime \/ UpdateLastEventTime)
    /\ WF_vars(NothingChanged \/ UpdateStatus \/ UpdateFails)
    /\ SF_vars(UpdateStatus)

FairSpec == Spec /\ Fairness

-----------------------------------------------------------------------------
TypeOK ==
    /\ now \in 1..MaxTime
    /\ obj \in [AllPods -> PodObject]
    /\ terminatedAt \in [Pods -> 0..MaxTime]
    /\ approved \subseteq Reviews
    /\ faults \subseteq Faults
    /\ spin \in {"create", "update"}
    /\ watch \in [Shards -> Seq(Event)]
    /\ lister \in [AllPods -> PodObject]
    /\ notices \in [Shards -> Seq(Event)]
    /\ stage \in [Shards -> {"sync", "drain"}]
    /\ index \subseteq Pods
    /\ syncTime \in [Shards -> Nat]
    /\ unsynced \in [Shards -> Nat]
    /\ pool \subseteq Shards
    /\ ppr \in Protector /\ cache \in Protector
    /\ queued \in BOOLEAN
    /\ alarm \in Nat
    /\ pc \in {"idle", "pods", "sync", "write"}
    /\ pc = "idle" <=> task = Idle
    /\ \A s \in Shards : stage[s] = "drain" => notices[s] # <<>>

(* The events of shard s that have not reached its sync time. *)
Unseen(s) ==
    Range(watch[s]) \cup
    Range(IF stage[s] = "drain" THEN Tail(notices[s]) ELSE notices[s])

(***************************************************************************)
(* "Since a reflector stream is strongly consistent, any new pod event may *)
(* be used to update the lastEventTime of that cell" (docs/design.md): a   *)
(* bucket of a known pod is dropped only when all events of its shard up   *)
(* to the time of the bucket have been seen.                               *)
(***************************************************************************)
DropsPassed ==
    pc = "write" /\ ppr' # ppr /\ approved' = approved =>
        \A b \in ppr.history \ ppr'.history :
            b.podUid \in NamedPods =>
                \A e \in Unseen(ShardOf[b.podUid]) :
                    ~e.gone /\ e.obj.deleting # 0 => terminatedAt[e.pod] > b.startTime

(***************************************************************************)
(* "Aggregator counts the number of available pods ..., as well as the     *)
(* time at which this number is known to be correct" (docs/design.md): no  *)
(* pod is counted that was deleted before the time that is written with    *)
(* the count.                                                              *)
(***************************************************************************)
CountKnownCorrect ==
    [][pc = "write" /\ ppr' # ppr /\ approved' = approved =>
          \A p \in task.available :
              terminatedAt[p] = 0 \/ terminatedAt[p] >= MinLastEventTime(task.times)]_vars

(* Nothing is under way that would start a reconciliation. *)
AtRest ==
    /\ NoLag
    /\ cache = ppr
    /\ ~queued /\ alarm = 0 /\ pc = "idle"

ActuallyAvailable == {p \in Pods : IsPodAvailable(obj[p], now)}

(***************************************************************************)
(* No change is forgotten: whenever the aggregator has nothing left to do, *)
(* the stored count is the number of available pods, and every outstanding *)
(* bucket of a known pod waits in the pool of its shard, whatever happened *)
(* between the reads and the writes of earlier reconciliations.            *)
(***************************************************************************)
RestMeansCurrent ==
    AtRest =>
        /\ ppr.available = Cardinality(ActuallyAvailable)
        /\ \A b \in ppr.history : b.podUid \in NamedPods => ShardOf[b.podUid] \in pool

(***************************************************************************)
(* Every state has the declared types, and whenever the aggregator has     *)
(* nothing left to do, the stored count is that of the pods and every      *)
(* outstanding bucket waits in a pool, whatever fell between the reads and *)
(* the write of tryReconcile.                                              *)
(***************************************************************************)
CurrentAtRest == TypeOK /\ RestMeansCurrent

(***************************************************************************)
(* The stored count follows the pods: it is correct again and again.       *)
(***************************************************************************)
CountConverges == []<>(ppr.available = Cardinality(ActuallyAvailable))

(***************************************************************************)
(* NextEventPool: "as long as we receive informer events for any pod, we   *)
(* can conclude that the informer stream is updated up to that point,      *)
(* which allows clearing the admission history entries older than it"      *)
(* (next_event_pool.go).  With the update trigger running, every bucket    *)
(* is cleared in the end.                                                  *)
(***************************************************************************)
BucketsCleared ==
    \A t \in 1 + MinReady..MaxTime - 1 :
        (\E b \in ppr.history : b.endTime = t) ~> ~(\E b \in ppr.history : b.endTime = t)
=============================================================================
