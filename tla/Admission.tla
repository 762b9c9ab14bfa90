----------------------------- MODULE Admission -----------------------------
(***************************************************************************)
(* The webhook: several replicas reserve disruptions of one PodProtector   *)
(* by optimistic updates of its status, each from its own, possibly stale, *)
(* informer cache.                                                         *)
(*                                                                         *)
(*   Handle        webhook/handler/handler.go: a review of a pod deletion  *)
(*                 is let through, or joins the batch of the PodProtector  *)
(*   StartExecute, AdmitItem, Update..., Conflict                          *)
(*                 webhook/handler/pool_adapter.go, tryExecute, called by  *)
(*                 the batch goroutine of util/retrybatch                  *)
(*                                                                         *)
(* The rest is the environment: the apiserver of the cell, which carries   *)
(* out or drops an approved deletion and gives up on slow reviews; the     *)
(* generator, which changes the specification; and the aggregator, of      *)
(* which this module only assumes what docs/design.md says it computes,    *)
(* "the number of available pods ... as well as the time at which this     *)
(* number is known to be correct".                                         *)
(*                                                                         *)
(* All reviews ask for the default health criterion.  The batch is a set:  *)
(* reviews arrive in any order, and so are judged in any order; the order  *)
(* within one batch is the subject of QuotaBatch.                          *)
(***************************************************************************)
EXTENDS PodProtector, DisruptionQuota

CONSTANTS Replicas,       \* the webhook instances
          InitAvailable,  \* the pods that are available, and aggregated, at the start
          MinAvailables,  \* the values of spec.minAvailable, the first one among them
          InitMin,
          LagLimits,      \* the values of MaxConcurrentLag, 0 for unrestricted
          InitLagLimit,
          MaxRevision     \* bound on the revisions written by the environment

ASSUME AdmissionAssumption ==
    /\ InitAvailable \subseteq Pods
    /\ MinAvailables \subseteq Nat
    /\ InitMin \in MinAvailables
    /\ LagLimits \subseteq Nat
    /\ InitLagLimit \in LagLimits
    /\ MaxRevision \in Nat

VARIABLES
    ppr,          \* the PodProtector as the core apiserver stores it
    cache,        \* cache[i]: the revision of it in the informer of replica i
    phase,        \* phase[i]: "gather" a batch, or "execute" it
    batch,        \* batch[i]: the reviews in the batch of replica i
    base,         \* base[i]: originalPpr of the execution
    work,         \* work[i]: the admission history in the copy being modified
    quota,        \* quota[i]: disruptionquota.State of the execution
    todo,         \* todo[i]: the undetermined items not judged yet
    admitted,     \* admitted[i]: the items whose result lets the pod go
    review,       \* review[r]: the progress of review r at the apiserver of its cell
    reservedAt,   \* reservedAt[r]: start time reserved for r in the stored history, or 0
    available,    \* the pods that have become available
    deleted,      \* the pods whose deletion the cell has carried out
    seenAvailable, seenDeleted   \* the part of these the aggregator of the cell has seen

env   == <<available, deleted, seenAvailable, seenDeleted>>
local == <<phase, batch, base, work, quota, todo, admitted>>
vars  == <<ppr, cache, local, review, reservedAt, env>>

-----------------------------------------------------------------------------
(***************************************************************************)
(* What the webhook uses of a PodProtector: its resource version, two      *)
(* fields of its specification, the available pods of all cells as last    *)
(* aggregated, and the admission history of all cells.                     *)
(***************************************************************************)
Protector ==
    [rv        : Nat,
     min       : Nat,
     maxLag    : Nat,
     available : SUBSET Pods,
     history   : SUBSET Bucket]

InitPpr ==
    [rv |-> 0, min |-> InitMin, maxLag |-> InitLagLimit,
     available |-> InitAvailable, history |-> {}]

(***************************************************************************)
(* "pending" reviews wait for the webhook; "allowed" ones were approved    *)
(* with a reservation and "waved" ones without, and the cell may now carry *)
(* out their deletion; "deleted" ones did; "closed" ones never will.       *)
(***************************************************************************)
Progress == {"new", "pending", "allowed", "waved", "deleted", "closed"}

AvailablePod == [criterion |-> "Available", is |-> Criteria]

(* The quota before any review of the batch is charged. *)
InitialQuota(p, history) ==
    MakeState([k \in Criteria |-> Cardinality(p.available)], Lag(history), p.min, p.maxLag)

Init ==
    /\ ppr = InitPpr
    /\ cache = [i \in Replicas |-> InitPpr]
    /\ phase = [i \in Replicas |-> "gather"]
    /\ batch = [i \in Replicas |-> {}]
    /\ base = [i \in Replicas |-> InitPpr]
    /\ work = [i \in Replicas |-> {}]
    /\ quota = [i \in Replicas |-> InitialQuota(InitPpr, {})]
    /\ todo = [i \in Replicas |-> {}]
    /\ admitted = [i \in Replicas |-> {}]
    /\ review = [r \in Reviews |-> "new"]
    /\ reservedAt = [r \in Reviews |-> 0]
    /\ available = InitAvailable
    /\ deleted = {}
    /\ seenAvailable = InitAvailable
    /\ seenDeleted = {}

-----------------------------------------------------------------------------
(***************************************************************************)
(* Handle: a terminating pod is not counted twice, a pod that is not       *)
(* available has nothing to lose; both are let through without a           *)
(* reservation.  Any other review is submitted to the batch, which accepts *)
(* it only while the batch goroutine is not executing.                     *)
(***************************************************************************)
AlreadyTerminating(r) ==
    /\ review[r] = "new"
    /\ PodOf[r] \in deleted
    /\ review' = [review EXCEPT ![r] = "closed"]
    /\ UNCHANGED <<ppr, cache, local, reservedAt, env>>

StillUnavailable(r) ==
    /\ review[r] = "new"
    /\ PodOf[r] \notin deleted \cup available
    /\ review' = [review EXCEPT ![r] = "waved"]
    /\ UNCHANGED <<ppr, cache, local, reservedAt, env>>

Submit(i, r) ==
    /\ review[r] = "new"
    /\ PodOf[r] \in available \ deleted
    /\ phase[i] = "gather"
    /\ batch' = [batch EXCEPT ![i] = @ \cup {r}]
    /\ review' = [review EXCEPT ![r] = "pending"]
    /\ UNCHANGED <<ppr, cache, phase, base, work, quota, todo, admitted, reservedAt, env>>

-----------------------------------------------------------------------------
(* The buckets of a history that were reserved for pod p alone. *)
BucketsOf(history, p) == {b \in history : b.podUid = p}

RestampForgotten(b, reviews, t) ==   \* mutant: the start time is not moved
    [b EXCEPT !.reviews = @ \cup reviews]

(***************************************************************************)
(* The items whose pod has a bucket already move the start time of the     *)
(* first such bucket to the time of the execution.                         *)
(***************************************************************************)
Restamp(b, reviews, t) ==
    [b EXCEPT !.startTime = t, !.endTime = t, !.reviews = @ \cup reviews]

Restamped(history, duplicates, t) ==
    {{IF b.podUid \in PodsOf(duplicates) /\ first[b.podUid] = b
      THEN Restamp(b, {r \in duplicates : PodOf[r] = b.podUid}, t)
      ELSE b : b \in history} :
        first \in {f \in [PodsOf(duplicates) -> history] :
                      \A p \in PodsOf(duplicates) : f[p] \in Oldest(BucketsOf(history, p))}}

DuplicatesUnchecked(i, history) == {}   \* mutant: no look for an existing bucket

(* The items whose pod has a bucket of its own. *)
Duplicates(i, history) ==
    {r \in batch[i] : review[r] = "pending" /\ BucketsOf(history, PodOf[r]) # {}}

(* executeBatch: the reviews of the batch whose context is not canceled. *)
Live(i) == {r \in batch[i] : review[r] = "pending"}

(* Every review of the batch has expired: there is nothing to execute. *)
DrainAll(i) ==
    /\ phase[i] = "gather"
    /\ batch[i] # {} /\ Live(i) = {}
    /\ batch' = [batch EXCEPT ![i] = {}]
    /\ UNCHANGED <<ppr, cache, phase, base, work, quota, todo, admitted,
                   review, reservedAt, env>>

(***************************************************************************)
(* The first half of tryExecute: the cached revision is copied and         *)
(* summarized, duplicate items are answered, and the quota is computed     *)
(* from the summary.                                                       *)
(***************************************************************************)
StartExecute(i) ==
    /\ phase[i] = "gather"
    /\ Live(i) # {}
    /\ \E summarized \in Summarize(cache[i].history) :
         LET duplicates == Duplicates(i, summarized)
         IN  /\ \E h \in Restamped(summarized, duplicates, cache[i].rv + 1) :
                    work' = [work EXCEPT ![i] = h]
             /\ quota' = [quota EXCEPT ![i] = InitialQuota(cache[i], summarized)]
             /\ todo' = [todo EXCEPT ![i] = Live(i) \ duplicates]
             /\ admitted' = [admitted EXCEPT ![i] = duplicates]
    /\ phase' = [phase EXCEPT ![i] = "execute"]
    /\ batch' = [batch EXCEPT ![i] = Live(i)]
    /\ base' = [base EXCEPT ![i] = cache[i]]
    /\ UNCHANGED <<ppr, cache, review, reservedAt, env>>

(* One round of the loop over the undetermined items. *)
AdmitItem(i, r) ==
    /\ phase[i] = "execute"
    /\ r \in todo[i]
    /\ todo' = [todo EXCEPT ![i] = @ \ {r}]
    /\ quota' = [quota EXCEPT ![i] = AdmitBatchItem(@, AvailablePod)]
    /\ IF ShouldDisrupt(getResult(quota[i], AvailablePod))
       THEN /\ work' = [work EXCEPT ![i] = @ \cup {NewBucket(r, base[i].rv + 1)}]
            /\ admitted' = [admitted EXCEPT ![i] = @ \cup {r}]
       ELSE UNCHANGED <<work, admitted>>
    /\ UNCHANGED <<ppr, cache, phase, batch, base, review, reservedAt, env>>

(* The execution is over: its local state is dropped and b is left in the batch. *)
EndExecute(i, b) ==
    /\ phase' = [phase EXCEPT ![i] = "gather"]
    /\ batch' = [batch EXCEPT ![i] = b]
    /\ base' = [base EXCEPT ![i] = InitPpr]
    /\ work' = [work EXCEPT ![i] = {}]
    /\ quota' = [quota EXCEPT ![i] = InitialQuota(InitPpr, {})]
    /\ todo' = [todo EXCEPT ![i] = {}]
    /\ admitted' = [admitted EXCEPT ![i] = {}]

UpdateUnversioned(i, h) ==   \* mutant: the update overwrites whatever is stored
    /\ ppr' = [base[i] EXCEPT !.rv = ppr.rv + 1, !.history = h]
    /\ reservedAt' = [r \in Reviews |->
                        IF r \in admitted[i] THEN base[i].rv + 1 ELSE reservedAt[r]]

(* The apiserver stores the copy if it derives from the revision it has. *)
UpdateStatus(i, h) ==
    /\ base[i].rv = ppr.rv
    /\ ppr' = [base[i] EXCEPT !.rv = @ + 1, !.history = h]
    /\ reservedAt' = [r \in Reviews |->
                        IF r \in admitted[i] THEN base[i].rv + 1 ELSE reservedAt[r]]

(* Every review of the batch that still waits gets its answer. *)
Dispatch(i, allowed) ==
    review' = [r \in Reviews |->
                 CASE r \in Live(i) /\ r \in allowed    -> "allowed"
                   [] r \in Live(i) /\ r \notin allowed -> "closed"
                   [] OTHER                             -> review[r]]

(* The batch is fully judged and the copy summarized again, which leaves h. *)
Judged(i, h) ==
    /\ phase[i] = "execute"
    /\ todo[i] = {}
    /\ h \in Summarize(work[i])

(* The copy equals the original, so nothing is written. *)
FinishUnchanged(i) ==
    /\ \E h \in Summarize(work[i]) : Judged(i, h) /\ h = base[i].history
    /\ Dispatch(i, admitted[i])
    /\ EndExecute(i, {})
    /\ UNCHANGED <<ppr, cache, reservedAt, env>>

FinishUpdated(i) ==
    /\ \E h \in Summarize(work[i]) :
          Judged(i, h) /\ h # base[i].history /\ UpdateStatus(i, h)
    /\ Dispatch(i, admitted[i])
    /\ EndExecute(i, {})
    /\ UNCHANGED <<cache, env>>

ConflictDropsBatch(i) ==   \* mutant: a conflict ends the batch without an answer
    /\ \E h \in Summarize(work[i]) : Judged(i, h) /\ h # base[i].history
    /\ base[i].rv # ppr.rv
    /\ EndExecute(i, {})
    /\ UNCHANGED <<ppr, cache, review, reservedAt, env>>

(* The stored revision is another one: the batch is kept for a retry. *)
Conflict(i) ==
    /\ \E h \in Summarize(work[i]) : Judged(i, h) /\ h # base[i].history
    /\ base[i].rv # ppr.rv
    /\ EndExecute(i, batch[i])
    /\ UNCHANGED <<ppr, cache, review, reservedAt, env>>

(***************************************************************************)
(* UpdateStatus fails with another error, and all reviews are answered     *)
(* with an internal error.  The update may have been stored nevertheless,  *)
(* when only its response was lost.                                        *)
(***************************************************************************)
UpdateRefused(i) ==
    /\ \E h \in Summarize(work[i]) : Judged(i, h) /\ h # base[i].history
    /\ Dispatch(i, {})
    /\ EndExecute(i, {})
    /\ UNCHANGED <<ppr, cache, reservedAt, env>>

ResponseLost(i) ==
    /\ \E h \in Summarize(work[i]) :
          Judged(i, h) /\ h # base[i].history /\ UpdateStatus(i, h)
    /\ Dispatch(i, {})
    /\ EndExecute(i, {})
    /\ UNCHANGED <<cache, env>>

-----------------------------------------------------------------------------
(* The informer of replica i catches up with the stored revision. *)
Deliver(i) ==
    /\ cache[i] # ppr
    /\ cache' = [cache EXCEPT ![i] = ppr]
    /\ UNCHANGED <<ppr, local, review, reservedAt, env>>

(* The apiserver of the cell gives up waiting for the webhook. *)
Expire(r) ==
    /\ review[r] = "pending"
    /\ review' = [review EXCEPT ![r] = "closed"]
    /\ UNCHANGED <<ppr, cache, local, reservedAt, env>>

(* The cell carries out an approved deletion, if the pod is still there ... *)
Delete(r) ==
    /\ review[r] \in {"allowed", "waved"}
    /\ PodOf[r] \notin deleted
    /\ deleted' = deleted \cup {PodOf[r]}
    /\ review' = [review EXCEPT ![r] = "deleted"]
    /\ UNCHANGED <<ppr, cache, local, reservedAt, available, seenAvailable, seenDeleted>>

(* ... or drops it: another webhook objects, or the response comes too late. *)
Drop(r) ==
    /\ review[r] \in {"allowed", "waved"}
    /\ review' = [review EXCEPT ![r] = "closed"]
    /\ UNCHANGED <<ppr, cache, local, reservedAt, env>>

BecomeAvailable(p) ==
    /\ p \notin available \cup deleted
    /\ available' = available \cup {p}
    /\ UNCHANGED <<ppr, cache, local, review, reservedAt, deleted, seenAvailable, seenDeleted>>

SeeAvailable(p) ==
    /\ p \in available \ seenAvailable
    /\ seenAvailable' = seenAvailable \cup {p}
    /\ UNCHANGED <<ppr, cache, local, review, reservedAt, available, deleted, seenDeleted>>

SeeDeleted(p) ==
    /\ p \in deleted \ seenDeleted
    /\ seenDeleted' = seenDeleted \cup {p}
    /\ UNCHANGED <<ppr, cache, local, review, reservedAt, available, deleted, seenAvailable>>

(***************************************************************************)
(* The assumption on the aggregator: when it reports time t for cell c, it *)
(* has seen what became of every review of that cell whose reservation is  *)
(* older than t.                                                           *)
(***************************************************************************)
Settled(r) ==
    \/ review[r] = "closed"
    \/ review[r] = "deleted" /\ PodOf[r] \in seenDeleted

KnownCorrectAt(c, t) ==
    \A r \in Reviews :
        CellOf[PodOf[r]] = c /\ reservedAt[r] # 0 /\ reservedAt[r] < t => Settled(r)

(***************************************************************************)
(* The aggregator of cell c replaces the count of the cell and removes the *)
(* buckets that are older than the time it reports; tryReconcile writes    *)
(* only what has changed, and summarizes before it writes.                 *)
(***************************************************************************)
Aggregated(c) ==
    {p \in ppr.available : CellOf[p] # c} \cup
    {p \in seenAvailable \ seenDeleted : CellOf[p] = c}

Outstanding(c, t) == {b \in ppr.history : b.cell # c \/ b.endTime >= t}

Aggregate(c, t) ==
    /\ ppr.rv < MaxRevision
    /\ KnownCorrectAt(c, t)
    /\ \/ Aggregated(c) # ppr.available
       \/ Outstanding(c, t) # ppr.history
    /\ \E h \in Summarize(Outstanding(c, t)) :
          ppr' = [ppr EXCEPT !.rv = @ + 1, !.available = Aggregated(c), !.history = h]
    /\ UNCHANGED <<cache, local, review, reservedAt, env>>

(* The generator, or a user, changes the specification. *)
ChangeSpec(min, maxLag) ==
    /\ ppr.rv < MaxRevision
    /\ <<min, maxLag>> # <<ppr.min, ppr.maxLag>>
    /\ ppr' = [ppr EXCEPT !.rv = @ + 1, !.min = min, !.maxLag = maxLag]
    /\ UNCHANGED <<cache, local, review, reservedAt, env>>

(* All reviews have been answered, and all approved deletions carried out. *)
Quiescent ==
    /\ \A r \in Reviews : review[r] \in {"deleted", "closed"}
    /\ UNCHANGED vars

-----------------------------------------------------------------------------
Webhook(i) ==
    \/ \E r \in Reviews : Submit(i, r)
    \/ DrainAll(i)
    \/ StartExecute(i)
    \/ \E r \in Reviews : AdmitItem(i, r)
    \/ FinishUnchanged(i)
    \/ FinishUpdated(i)
    \/ Conflict(i)
    \/ UpdateRefused(i)
    \/ ResponseLost(i)
    \/ Deliver(i)

Cell ==
    \/ \E r \in Reviews :
          \/ AlreadyTerminating(r)
          \/ StillUnavailable(r)
          \/ Expire(r)
          \/ Delete(r)
          \/ Drop(r)
    \/ \E p \in Pods : BecomeAvailable(p) \/ SeeAvailable(p) \/ SeeDeleted(p)

Core ==
    \/ \E c \in Cells, t \in 1..ppr.rv + 1 : Aggregate(c, t)
    \/ \E min \in MinAvailables, maxLag \in LagLimits : ChangeSpec(min, maxLag)

Next ==
    \/ \E i \in Replicas : Webhook(i)
    \/ Cell
    \/ Core
    \/ Quiescent

Spec == Init /\ [][Next]_vars

(***************************************************************************)
(* The scheduler runs the batch goroutine and the informer of a replica    *)
(* whenever they can run; the timers that separate two executions expire.  *)
(* Nothing is assumed of the clients, the cells and the aggregators.       *)
(***************************************************************************)
Finish(i) ==
    \/ FinishUnchanged(i)
    \/ FinishUpdated(i)
    \/ Conflict(i)
    \/ UpdateRefused(i)
    \/ ResponseLost(i)

FairSpec ==
    /\ Spec
    /\ \A i \in Replicas :
          /\ WF_vars(DrainAll(i))
          /\ WF_vars(StartExecute(i))
          /\ WF_vars(\E r \in Reviews : AdmitItem(i, r))
          /\ WF_vars(Finish(i))
          /\ WF_vars(Deliver(i))

-----------------------------------------------------------------------------
TypeOK ==
    /\ ppr \in Protector
    /\ cache \in [Replicas -> Protector]
    /\ phase \in [Replicas -> {"gather", "execute"}]
    /\ batch \in [Replicas -> SUBSET Reviews]
    /\ base \in [Replicas -> Protector]
    /\ work \in [Replicas -> SUBSET Bucket]
    /\ quota \in [Replicas -> [healthy : [Criteria -> Int], Reject : Nat, Retry : Nat,
                               Remaining : SUBSET Int]]
    /\ todo \in [Replicas -> SUBSET Reviews]
    /\ admitted \in [Replicas -> SUBSET Reviews]
    /\ review \in [Reviews -> Progress]
    /\ reservedAt \in [Reviews -> Nat]
    /\ available \in SUBSET Pods
    /\ deleted \in SUBSET Pods
    /\ seenAvailable \in SUBSET available
    /\ seenDeleted \in SUBSET deleted
    /\ \A i \in Replicas :
          /\ todo[i] \cup admitted[i] \subseteq batch[i]
          /\ todo[i] \cap admitted[i] = {}
          /\ phase[i] = "gather" => todo[i] = {} /\ admitted[i] = {}

(* The pods that serve and that no approved deletion is about to take away. *)
Safe ==
    available \ (deleted \cup PodsOf({r \in Reviews : review[r] \in {"allowed", "waved"}}))

(* Pods let go because they were not available when their review was handled. *)
Waved ==
    PodsOf({r \in Reviews : review[r] \in {"waved", "deleted"} /\ reservedAt[r] = 0})

(***************************************************************************)
(* Pods that go although no counter of the history counts them: those let  *)
(* through while unavailable ("this marginal case is exceptionally rare    *)
(* and is impractical to prevent", handler.go), and those whose bucket was *)
(* merged away by CompactBuckets.                                          *)
(***************************************************************************)
Uncounted ==
    Waved \cup (PodsOf(Reserved(ppr.history)) \ PodsOf(Counted(ppr.history)))

(* Status.Summary.EstimatedAvailable of a PodProtector. *)
EstimatedAvailable(p) == Cardinality(p.available) - Lag(p.history)

(***************************************************************************)
(* No approval is ever forgotten: a review that was approved with a        *)
(* reservation has a bucket in the stored history until its pod is known   *)
(* to be gone and no longer aggregated, whatever mixture of stale caches,  *)
(* conflicts, lost responses, retries and compactions led there.           *)
(***************************************************************************)
Accounted ==
    \A r \in Reviews :
        /\ review[r] = "allowed" => r \in Reserved(ppr.history)
        /\ review[r] = "deleted" /\ reservedAt[r] # 0 =>
              \/ r \in Reserved(ppr.history)
              \/ PodOf[r] \in seenDeleted \ ppr.available

(***************************************************************************)
(* The estimate every admission is based on is never higher than the       *)
(* number of pods that will remain once all approved deletions are carried *)
(* out, but for the pods that no counter counts.                           *)
(***************************************************************************)
EstimateSound ==
    EstimatedAvailable(ppr) <= Cardinality(Safe) + Cardinality(Uncounted)

(***************************************************************************)
(* The purpose of the webhook: a write that reserves a pod that was not    *)
(* reserved before leaves minAvailable pods that no approved deletion can  *)
(* take away, but for the pods that no counter counts.                     *)
(***************************************************************************)
NewDisruption ==
    ~(PodsOf(Reserved(ppr'.history)) \subseteq PodsOf(Reserved(ppr.history)))

DisruptionKeepsMinimum ==
    [][NewDisruption => Cardinality(Safe') + Cardinality(Uncounted') >= ppr'.min]_vars

(***************************************************************************)
(* Two reviews of one pod, on the same replica or on two with caches of    *)
(* different age, reserve it once: a write never adds a bucket for a pod   *)
(* that has one ("Pods ... should not contribute twice to the admission    *)
(* history", handler.go).                                                  *)
(***************************************************************************)
ReservedOnce ==
    [][\A p \in Pods :
          BucketsOf(ppr.history, p) # {} =>
              Cardinality(BucketsOf(ppr'.history, p)) <= Cardinality(BucketsOf(ppr.history, p))]_vars

(***************************************************************************)
(* "Maximum sum of AdmissionCount.Counter at any point" (types.go,         *)
(* MaxConcurrentLag): no write makes the sum of the counters grow beyond   *)
(* the limit.                                                              *)
(***************************************************************************)
LagStaysLimited ==
    [][ppr'.maxLag # 0 /\ Lag(ppr'.history) > Lag(ppr.history)
          => Lag(ppr'.history) <= ppr'.maxLag]_vars

(***************************************************************************)
(* README: "the control plane can never disrupt the service beyond the     *)
(* minimum n pods".                                                        *)
(***************************************************************************)
NeverBeyondMinimum ==
    [][NewDisruption => Cardinality(Safe') >= ppr'.min]_vars

(* Every review that the webhook accepts is answered or expires. *)
ReviewAnswered ==
    \A r \in Reviews : review[r] = "pending" ~> review[r] # "pending"
=============================================================================
