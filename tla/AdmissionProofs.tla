-------------------------- MODULE AdmissionProofs --------------------------
(***************************************************************************)
(* The safety of the webhook for every number of replicas, cells, pods and *)
(* reviews, every compaction threshold and every value of the quotas.      *)
(*                                                                         *)
(* The argument: a write is stored only on the revision it was computed    *)
(* from, so a batch judged against a stale cache changes nothing; a batch  *)
(* judged against the stored revision keeps all its reservations and adds  *)
(* its own, with a time stamp that is newer than all others; and a bucket  *)
(* that is as new as the newest reservation in it is not removed before    *)
(* all of them are settled.                                                *)
(***************************************************************************)
EXTENDS Admission, PodProtectorProofs

(* What every revision of the PodProtector, stored or cached, satisfies. *)
WellFormed(o) ==
    \A b \in o.history :
        /\ b.endTime <= o.rv
        /\ b.podUid # NoUid => b.podUid \in PodsOf(b.reviews)
        /\ \A r \in b.reviews : /\ b.cell = CellOf[PodOf[r]]
                                /\ reservedAt[r] # 0
                                /\ reservedAt[r] <= b.endTime

(* A copy of the PodProtector that is as new as the stored one equals it. *)
Coherent(o) == o.rv <= ppr.rv /\ (o.rv = ppr.rv => o = ppr)

Revisions ==
    /\ WellFormed(ppr)
    /\ \A i \in Replicas : WellFormed(cache[i]) /\ Coherent(cache[i])
    /\ \A i \in Replicas : phase[i] = "execute" => WellFormed(base[i]) /\ Coherent(base[i])

(* A review is in the batch of one replica, and has no reservation yet. *)
Batches ==
    /\ \A i \in Replicas : \A r \in batch[i] :
          review[r] \in {"pending", "closed"} /\ reservedAt[r] = 0
    /\ \A i, j \in Replicas : i # j => batch[i] \cap batch[j] = {}

(***************************************************************************)
(* The history in the copy has the reservations of the original and those  *)
(* of the admitted items, and each bucket is either stamped by this        *)
(* execution or ends no earlier than the original bucket of its reviews.   *)
(***************************************************************************)
WorkKeeps(i) ==
    /\ Reserved(work[i]) = Reserved(base[i].history) \cup admitted[i]
    /\ \A b \in work[i] :
          /\ b.endTime <= base[i].rv + 1
          /\ b.podUid # NoUid => b.podUid \in PodsOf(b.reviews)
          /\ \A r \in b.reviews :
                /\ b.cell = CellOf[PodOf[r]]
                /\ \/ b.endTime = base[i].rv + 1
                   \/ \E o \in base[i].history : r \in o.reviews /\ o.endTime <= b.endTime

(***************************************************************************)
(* The quota that is left never exceeds what the estimate of the copy      *)
(* leaves above the minimum, and is not negative once it was used.         *)
(***************************************************************************)
QuotaLeft(i) == quota[i].healthy["Available"] - quota[i].Retry

QuotaSound(i) ==
    /\ QuotaLeft(i) <= Cardinality(base[i].available) - Lag(work[i]) - base[i].min
    /\ (\E r \in admitted[i] : PodOf[r] \notin PodsOf(Reserved(base[i].history)))
          => QuotaLeft(i) >= 0

Executions ==
    \A i \in Replicas : phase[i] = "execute" => WorkKeeps(i) /\ QuotaSound(i)

(* The pods and the reviews of the cells. *)
Cellwise ==
    /\ ppr.available \subseteq seenAvailable
    /\ \A r \in Reviews :
          /\ reservedAt[r] <= ppr.rv
          /\ review[r] \in {"new", "pending", "waved"} => reservedAt[r] = 0
    /\ \A p \in deleted : \E r \in Reviews : review[r] = "deleted" /\ PodOf[r] = p

(* The inductive invariant. *)
IndInv ==
    /\ TypeOK
    /\ Revisions
    /\ Batches
    /\ Executions
    /\ Cellwise
    /\ Accounted
-----------------------------------------------------------------------------
(* The lag of a history is a natural number. *)
LEMMA CountedType ==
    ASSUME NEW H \in SUBSET Bucket
    PROVE  /\ Counted(H) \in SUBSET Reviews
           /\ IsFiniteSet(Counted(H))
           /\ Lag(H) \in Nat
<1>1. Counted(H) \in SUBSET Reviews
    BY CountedMember DEF Bucket
<1>2. IsFiniteSet(Counted(H))
    BY <1>1, FS_Subset, PodProtectorAssumption
<1> QED BY <1>1, <1>2, FS_CardinalityType DEF Lag

QuotaState ==
    [healthy : [Criteria -> Int], Reject : Nat, Retry : Nat, Remaining : SUBSET Int]

(* The quota at the start of an execution has its type. *)
LEMMA InitialQuotaType ==
    ASSUME NEW o \in Protector, NEW H \in SUBSET Bucket
    PROVE  /\ InitialQuota(o, H) \in QuotaState
           /\ Cardinality(o.available) \in Nat
           /\ InitialQuota(o, H).healthy["Available"] = Cardinality(o.available)
           /\ InitialQuota(o, H).Retry = o.min + Lag(H)
<1>1. Lag(H) \in Nat
    BY CountedType
<1>2. o.available \in SUBSET Pods /\ o.min \in Nat /\ o.maxLag \in Nat
    BY DEF Protector
<1>3. Cardinality(o.available) \in Nat
    BY <1>2, FS_Subset, FS_CardinalityType, PodProtectorAssumption
<1>4. (IF o.maxLag = 0 THEN {} ELSE {o.maxLag - Lag(H)}) \in SUBSET Int
    BY <1>1, <1>2
<1> QED BY <1>1, <1>2, <1>3, <1>4 DEF InitialQuota, MakeState, QuotaState, Criteria

(* The PodProtector at the start has its type. *)
LEMMA InitPprType == InitPpr \in Protector
    BY AdmissionAssumption DEF InitPpr, Protector

(* The three ways a revision of the PodProtector is derived from another. *)
LEMMA ProtectorUpdates ==
    ASSUME NEW o \in Protector, NEW h \in SUBSET Bucket, NEW p \in SUBSET Pods,
           NEW min \in Nat, NEW maxLag \in Nat
    PROVE  /\ [o EXCEPT !.rv = @ + 1, !.history = h] \in Protector
           /\ [o EXCEPT !.rv = @ + 1, !.available = p, !.history = h] \in Protector
           /\ [o EXCEPT !.rv = @ + 1, !.min = min, !.maxLag = maxLag] \in Protector
<1>1. o.rv \in Nat /\ o.rv + 1 \in Nat
    BY DEF Protector
<1>2. \A n \in Nat : [o EXCEPT !.rv = n, !.history = h] \in Protector
    BY DEF Protector
<1>3. \A n \in Nat : [o EXCEPT !.rv = n, !.available = p, !.history = h] \in Protector
    BY DEF Protector
<1>4. \A n \in Nat : [o EXCEPT !.rv = n, !.min = min, !.maxLag = maxLag] \in Protector
    BY DEF Protector
<1> QED BY <1>1, <1>2, <1>3, <1>4

(* What moving the start time of existing buckets to t, for reviews D, does to a history. *)
Restamps(h, H, D, t) ==
    /\ h \in SUBSET Bucket
    /\ Reserved(h) = Reserved(H) \cup D
    /\ Counted(h) = Counted(H)
    /\ \A b \in h :
          \/ b \in H
          \/ \E o \in H :
                /\ o.podUid \in PodsOf(D)
                /\ b.podUid = o.podUid /\ b.cell = o.cell /\ b.endTime = t
                /\ o.reviews \subseteq b.reviews
                /\ \A r \in b.reviews : r \in o.reviews \/ PodOf[r] = o.podUid

(* Restamping changes only the times and reviews of duplicate items. *)
LEMMA RestampedFacts ==
    ASSUME NEW H \in SUBSET Bucket, NEW D \in SUBSET Reviews, NEW t \in Nat,
           NEW h \in Restamped(H, D, t)
    PROVE  Restamps(h, H, D, t)
<1> DEFINE step(f, b) == IF b.podUid \in PodsOf(D) /\ f[b.podUid] = b
                         THEN Restamp(b, {r \in D : PodOf[r] = b.podUid}, t)
                         ELSE b
<1>1. PICK f \in [PodsOf(D) -> H] :
          /\ \A p \in PodsOf(D) : f[p] \in Oldest(BucketsOf(H, p))
          /\ h = {step(f, b) : b \in H}
    BY DEF Restamped
<1>2. \A p \in PodsOf(D) : f[p] \in H /\ f[p].podUid = p
    BY <1>1 DEF Oldest, BucketsOf
<1>3. \A b \in H : LET R == Restamp(b, {r \in D : PodOf[r] = b.podUid}, t)
                   IN  /\ R \in Bucket
                       /\ R.reviews = b.reviews \cup {r \in D : PodOf[r] = b.podUid}
                       /\ R.charged = b.charged
    BY DEF Restamp, Bucket
<1>4. \A b \in H : /\ step(f, b) \in Bucket
                   /\ step(f, b).charged = b.charged
                   /\ b.reviews \subseteq step(f, b).reviews
                   /\ step(f, b).reviews \subseteq b.reviews \cup D
    BY <1>3
<1> HIDE DEF step
<1>5. h \in SUBSET Bucket
    BY <1>1, <1>4
<1>6. Counted(h) = Counted(H)
  <2>1. Counted(h) \subseteq Counted(H)
      BY <1>1, <1>4, CountedMember
  <2>2. Counted(H) \subseteq Counted(h)
      BY <1>1, <1>4, CountedMember
  <2> QED BY <2>1, <2>2
<1>7. Reserved(h) \subseteq Reserved(H) \cup D
    BY <1>1, <1>4, ReservedMember
<1>8. Reserved(H) \subseteq Reserved(h)
    BY <1>1, <1>4, ReservedMember
<1>9. ASSUME NEW r \in D PROVE r \in Reserved(h)
  <2>1. PodOf[r] \in PodsOf(D)
      BY DEF PodsOf
  <2>2. f[PodOf[r]] \in H /\ f[PodOf[r]].podUid = PodOf[r]
      BY <2>1, <1>2
  <2>3. step(f, f[PodOf[r]]) = Restamp(f[PodOf[r]], {x \in D : PodOf[x] = PodOf[r]}, t)
      BY <2>1, <2>2 DEF step
  <2>4. r \in step(f, f[PodOf[r]]).reviews
      BY <2>2, <2>3, <1>3
  <2> QED BY <2>2, <2>4, <1>1, ReservedMember
<1>10. \A b \in h : \/ b \in H
                    \/ \E o \in H : /\ o.podUid \in PodsOf(D)
                                    /\ b.podUid = o.podUid /\ b.cell = o.cell /\ b.endTime = t
                                    /\ o.reviews \subseteq b.reviews
                                    /\ \A r \in b.reviews : r \in o.reviews \/ PodOf[r] = o.podUid
  <2>1. ASSUME NEW o \in H, step(f, o) # o
        PROVE  /\ o.podUid \in PodsOf(D)
               /\ step(f, o) = Restamp(o, {r \in D : PodOf[r] = o.podUid}, t)
      BY <2>1 DEF step
  <2>2. \A o \in H : LET R == Restamp(o, {r \in D : PodOf[r] = o.podUid}, t)
                     IN  R.podUid = o.podUid /\ R.cell = o.cell /\ R.endTime = t
      BY DEF Restamp, Bucket
  <2>3. ASSUME NEW o \in H, step(f, o) # o
        PROVE  /\ o.podUid \in PodsOf(D)
               /\ step(f, o).podUid = o.podUid /\ step(f, o).cell = o.cell
               /\ step(f, o).endTime = t
               /\ o.reviews \subseteq step(f, o).reviews
               /\ \A r \in step(f, o).reviews : r \in o.reviews \/ PodOf[r] = o.podUid
      BY <2>1, <2>2, <2>3, <1>3
  <2>4. \A b \in h : \E o \in H : b = step(f, o)
      BY <1>1
  <2> QED BY <2>3, <2>4
<1> QED BY <1>5, <1>6, <1>7, <1>8, <1>9, <1>10 DEF Restamps

(* The bucket appended for an approved review has its type. *)
LEMMA NewBucketType ==
    ASSUME NEW r \in Reviews, NEW t \in Nat
    PROVE  NewBucket(r, t) \in Bucket
BY PodProtectorAssumption DEF NewBucket, Bucket

(* Judging an item leaves a quota of the same type. *)
LEMMA AdmitBatchItemType ==
    ASSUME NEW q \in QuotaState
    PROVE  AdmitBatchItem(q, AvailablePod) \in QuotaState
<1>1. q.Remaining \in SUBSET Int /\ q.healthy \in [Criteria -> Int]
    BY DEF QuotaState
<1>2. {n - 1 : n \in q.Remaining} \in SUBSET Int
    BY <1>1
<1>3. [k \in Criteria |-> IF k \in AvailablePod.is THEN q.healthy[k] - 1 ELSE q.healthy[k]]
          \in [Criteria -> Int]
    BY <1>1
<1> QED BY <1>2, <1>3 DEF AdmitBatchItem, disruptState, QuotaState

-----------------------------------------------------------------------------
(* The initial state has the declared types. *)
LEMMA TypeInit == Init => TypeOK
<1> SUFFICES ASSUME Init PROVE TypeOK
    OBVIOUS
<1>1. InitialQuota(InitPpr, {}) \in QuotaState
    BY InitPprType, InitialQuotaType
<1> QED BY <1>1, InitPprType, AdmissionAssumption DEF Init, TypeOK, QuotaState, Progress

(* The end of an execution, whatever its outcome, leaves well-typed local state. *)
LEMMA EndExecuteType ==
    ASSUME TypeOK, NEW i \in Replicas, NEW b \in SUBSET Reviews, EndExecute(i, b)
    PROVE  /\ phase' \in [Replicas -> {"gather", "execute"}]
           /\ batch' \in [Replicas -> SUBSET Reviews]
           /\ base' \in [Replicas -> Protector]
           /\ work' \in [Replicas -> SUBSET Bucket]
           /\ quota' \in [Replicas -> QuotaState]
           /\ todo' \in [Replicas -> SUBSET Reviews]
           /\ admitted' \in [Replicas -> SUBSET Reviews]
           /\ \A j \in Replicas :
                 /\ todo'[j] \cup admitted'[j] \subseteq batch'[j]
                 /\ todo'[j] \cap admitted'[j] = {}
                 /\ phase'[j] = "gather" => todo'[j] = {} /\ admitted'[j] = {}
<1>1. InitialQuota(InitPpr, {}) \in QuotaState
    BY InitPprType, InitialQuotaType
<1> QED BY <1>1, InitPprType DEF EndExecute, TypeOK, QuotaState

(* Answering a batch keeps the types. *)
LEMMA DispatchType ==
    ASSUME TypeOK, NEW i \in Replicas, NEW allowed, Dispatch(i, allowed)
    PROVE  review' \in [Reviews -> Progress]
BY DEF Dispatch, TypeOK, Progress

(* A stored update keeps the types. *)
LEMMA UpdateStatusType ==
    ASSUME TypeOK, NEW i \in Replicas, NEW h \in Summarize(work[i]), UpdateStatus(i, h)
    PROVE  ppr' \in Protector /\ reservedAt' \in [Reviews -> Nat]
<1>1. work[i] \in SUBSET Bucket /\ base[i] \in Protector
    BY DEF TypeOK
<1>2. h \in SUBSET Bucket
    BY <1>1, SummarizeKeeps DEF Keeps
<1>3. ppr' \in Protector
    BY <1>1, <1>2, ProtectorUpdates, InitPprType DEF UpdateStatus, TypeOK
<1>4. base[i].rv + 1 \in Nat
    BY <1>1 DEF Protector
<1>5. reservedAt' \in [Reviews -> Nat]
    BY <1>4 DEF UpdateStatus, TypeOK
<1> QED BY <1>3, <1>5

(* StartExecute keeps the types. *)
LEMMA StartExecuteType ==
    ASSUME TypeOK, NEW i \in Replicas, StartExecute(i)
    PROVE  TypeOK'
<1>1. cache[i] \in Protector /\ cache[i].rv + 1 \in Nat /\ cache[i].history \in SUBSET Bucket
    BY DEF TypeOK, Protector
<1>2. Live(i) \in SUBSET Reviews /\ Live(i) \subseteq batch[i]
    BY DEF Live, TypeOK
<1>3. PICK H \in Summarize(cache[i].history) :
          /\ \E h \in Restamped(H, Duplicates(i, H), cache[i].rv + 1) :
                work' = [work EXCEPT ![i] = h]
          /\ quota' = [quota EXCEPT ![i] = InitialQuota(cache[i], H)]
          /\ todo' = [todo EXCEPT ![i] = Live(i) \ Duplicates(i, H)]
          /\ admitted' = [admitted EXCEPT ![i] = Duplicates(i, H)]
    BY DEF StartExecute
<1>4. H \in SUBSET Bucket
    BY <1>1, SummarizeKeeps DEF Keeps
<1>5. Duplicates(i, H) \subseteq Live(i) /\ Duplicates(i, H) \in SUBSET Reviews
    BY <1>2 DEF Duplicates, Live
<1>6. PICK h \in Restamped(H, Duplicates(i, H), cache[i].rv + 1) : work' = [work EXCEPT ![i] = h]
    BY <1>3
<1>7. h \in SUBSET Bucket
  <2>1. Restamps(h, H, Duplicates(i, H), cache[i].rv + 1)
      BY <1>1, <1>4, <1>5, RestampedFacts
  <2> QED BY <2>1 DEF Restamps
<1>8. InitialQuota(cache[i], H) \in QuotaState
    BY <1>1, <1>4, InitialQuotaType
<1> QED BY <1>1, <1>2, <1>3, <1>5, <1>6, <1>7, <1>8
        DEF StartExecute, TypeOK, QuotaState, env

(* AdmitItem keeps the types; the item leaves todo. *)
LEMMA AdmitItemType ==
    ASSUME TypeOK, NEW i \in Replicas, NEW r \in Reviews, AdmitItem(i, r)
    PROVE  TypeOK'
<1>1. base[i].rv + 1 \in Nat
    BY DEF TypeOK, Protector
<1>2. NewBucket(r, base[i].rv + 1) \in Bucket
    BY <1>1, NewBucketType
<1>3. quota[i] \in QuotaState
    BY DEF TypeOK, QuotaState
<1>4. AdmitBatchItem(quota[i], AvailablePod) \in QuotaState
    BY <1>3, AdmitBatchItemType
<1>5. quota' \in [Replicas -> QuotaState]
    BY <1>4 DEF AdmitItem, TypeOK, QuotaState
<1>6. work' \in [Replicas -> SUBSET Bucket]
    BY <1>2 DEF AdmitItem, TypeOK
<1>7. /\ todo' \in [Replicas -> SUBSET Reviews]
      /\ admitted' \in [Replicas -> SUBSET Reviews]
      /\ \A j \in Replicas :
            /\ todo'[j] \cup admitted'[j] \subseteq batch'[j]
            /\ todo'[j] \cap admitted'[j] = {}
            /\ phase'[j] = "gather" => todo'[j] = {} /\ admitted'[j] = {}
  <2>1. /\ todo \in [Replicas -> SUBSET Reviews] /\ admitted \in [Replicas -> SUBSET Reviews]
        /\ \A j \in Replicas :
              /\ todo[j] \cup admitted[j] \subseteq batch[j]
              /\ todo[j] \cap admitted[j] = {}
              /\ phase[j] = "gather" => todo[j] = {} /\ admitted[j] = {}
      BY DEF TypeOK
  <2>2. /\ phase[i] = "execute" /\ r \in todo[i] /\ phase' = phase /\ batch' = batch
        /\ todo' = [todo EXCEPT ![i] = @ \ {r}]
        /\ \/ admitted' = admitted
           \/ admitted' = [admitted EXCEPT ![i] = @ \cup {r}]
      BY DEF AdmitItem
  <2>3. /\ todo' \in [Replicas -> SUBSET Reviews]
        /\ admitted' \in [Replicas -> SUBSET Reviews]
      BY <2>1, <2>2
  <2>4. /\ todo'[i] = todo[i] \ {r}
        /\ admitted'[i] \subseteq admitted[i] \cup {r}
        /\ \A j \in Replicas \ {i} : todo'[j] = todo[j] /\ admitted'[j] = admitted[j]
      BY <2>1, <2>2
  <2>5. ASSUME NEW j \in Replicas
        PROVE  /\ todo'[j] \cup admitted'[j] \subseteq batch'[j]
               /\ todo'[j] \cap admitted'[j] = {}
               /\ phase'[j] = "gather" => todo'[j] = {} /\ admitted'[j] = {}
    <3>1. CASE j = i
        BY <3>1, <2>1, <2>2, <2>4
    <3>2. CASE j # i
        BY <3>2, <2>1, <2>2, <2>4
    <3> QED BY <3>1, <3>2
  <2> QED BY <2>3, <2>5
<1> QED BY <1>5, <1>6, <1>7 DEF AdmitItem, TypeOK, QuotaState, env

(* The write of an aggregator keeps the types. *)
LEMMA AggregateType ==
    ASSUME TypeOK, NEW c \in Cells, NEW t \in Nat, Aggregate(c, t)
    PROVE  TypeOK'
<1>1. Outstanding(c, t) \in SUBSET Bucket
    BY DEF Outstanding, TypeOK, Protector
<1>2. Aggregated(c) \in SUBSET Pods
    BY DEF Aggregated, TypeOK, Protector
<1>3. PICK h \in Summarize(Outstanding(c, t)) :
          ppr' = [ppr EXCEPT !.rv = @ + 1, !.available = Aggregated(c), !.history = h]
    BY DEF Aggregate
<1>4. h \in SUBSET Bucket
    BY <1>1, SummarizeKeeps DEF Keeps
<1>5. ppr' \in Protector
    BY <1>2, <1>3, <1>4, ProtectorUpdates, InitPprType DEF TypeOK
<1> QED BY <1>5 DEF Aggregate, TypeOK, local, env

(* Every step preserves the type invariant. *)
LEMMA TypeStep == TypeOK /\ [Next]_vars => TypeOK'
<1> SUFFICES ASSUME TypeOK, [Next]_vars PROVE TypeOK'
    OBVIOUS
<1> USE DEF QuotaState
<1>1. ASSUME NEW i \in Replicas, Webhook(i) PROVE TypeOK'
  <2>1. ASSUME NEW r \in Reviews, Submit(i, r) PROVE TypeOK'
      BY <2>1 DEF Submit, TypeOK, env, Progress
  <2>2. CASE DrainAll(i)
      BY <2>2 DEF DrainAll, TypeOK, env
  <2>3. CASE StartExecute(i)
      BY <2>3, StartExecuteType
  <2>4. ASSUME NEW r \in Reviews, AdmitItem(i, r) PROVE TypeOK'
      BY <2>4, AdmitItemType
  <2>5. CASE FinishUnchanged(i)
      BY <2>5, EndExecuteType, DispatchType DEF FinishUnchanged, TypeOK, env
  <2>6. CASE FinishUpdated(i)
      BY <2>6, EndExecuteType, DispatchType, UpdateStatusType DEF FinishUpdated, TypeOK, env
  <2>7. CASE Conflict(i)
    <3>1. batch[i] \in SUBSET Reviews
        BY DEF TypeOK
    <3> QED BY <2>7, <3>1, EndExecuteType DEF Conflict, TypeOK, env
  <2>8. CASE UpdateRefused(i)
      BY <2>8, EndExecuteType, DispatchType DEF UpdateRefused, TypeOK, env
  <2>9. CASE ResponseLost(i)
      BY <2>9, EndExecuteType, DispatchType, UpdateStatusType DEF ResponseLost, TypeOK, env
  <2>10. CASE Deliver(i)
      BY <2>10 DEF Deliver, TypeOK, local, env
  <2> QED BY <1>1, <2>1, <2>2, <2>3, <2>4, <2>5, <2>6, <2>7, <2>8, <2>9, <2>10 DEF Webhook
<1>2. CASE Cell
  <2>1. ASSUME NEW r \in Reviews, AlreadyTerminating(r) \/ StillUnavailable(r) \/ Expire(r) \/ Drop(r)
        PROVE  TypeOK'
    <3>1. review' \in [Reviews -> Progress]
        BY <2>1 DEF AlreadyTerminating, StillUnavailable, Expire, Drop, TypeOK, Progress
    <3>2. UNCHANGED <<ppr, cache, local, reservedAt, env>>
        BY <2>1 DEF AlreadyTerminating, StillUnavailable, Expire, Drop
    <3> QED BY <3>1, <3>2 DEF TypeOK, local, env
  <2>2. ASSUME NEW r \in Reviews, Delete(r) PROVE TypeOK'
      BY <2>2, PodProtectorAssumption DEF Delete, TypeOK, local, Progress
  <2>3. ASSUME NEW p \in Pods, BecomeAvailable(p) \/ SeeAvailable(p) \/ SeeDeleted(p)
        PROVE  TypeOK'
      BY <2>3 DEF BecomeAvailable, SeeAvailable, SeeDeleted, TypeOK, local
  <2> QED BY <1>2, <2>1, <2>2, <2>3 DEF Cell
<1>3. CASE Core
  <2>1. ASSUME NEW c \in Cells, NEW t \in 1..ppr.rv + 1, Aggregate(c, t) PROVE TypeOK'
      BY <2>1, AggregateType
  <2>2. ASSUME NEW min \in MinAvailables, NEW maxLag \in LagLimits, ChangeSpec(min, maxLag)
        PROVE  TypeOK'
    <3>1. min \in Nat /\ maxLag \in Nat
        BY AdmissionAssumption
    <3>2. ppr' \in Protector
        BY <2>2, <3>1, ProtectorUpdates DEF ChangeSpec, TypeOK
    <3> QED BY <2>2, <3>2 DEF ChangeSpec, TypeOK, local, env
  <2> QED BY <1>3, <2>1, <2>2 DEF Core
<1>4. CASE Quiescent \/ UNCHANGED vars
    BY <1>4 DEF Quiescent, vars, TypeOK, local, env
<1> QED BY <1>1, <1>2, <1>3, <1>4 DEF Next

(***************************************************************************)
(* Type correctness: every variable of the webhook and its environment     *)
(* keeps its type, and no execution outlives its batch.                    *)
(***************************************************************************)
THEOREM TypeCorrect == Spec => []TypeOK
BY TypeInit, TypeStep, PTL DEF Spec

-----------------------------------------------------------------------------
(* An admission finds quota left, and takes one from it. *)
LEMMA AdmitChargesQuota ==
    ASSUME NEW q \in QuotaState
    PROVE  /\ ~ShouldDisrupt(getResult(q, AvailablePod)) => AdmitBatchItem(q, AvailablePod) = q
           /\ ShouldDisrupt(getResult(q, AvailablePod)) =>
                 /\ q.healthy["Available"] > q.Retry
                 /\ AdmitBatchItem(q, AvailablePod).healthy["Available"] = q.healthy["Available"] - 1
                 /\ AdmitBatchItem(q, AvailablePod).Retry = q.Retry
<1>1. /\ AvailablePod.criterion = "Available" /\ AvailablePod.is = Criteria
      /\ "Available" \in Criteria
    BY DEF AvailablePod, Criteria
<1>2. q.healthy["Available"] \in Int /\ q.Retry \in Nat /\ q.Reject \in Nat
    BY <1>1 DEF QuotaState
<1>3. ASSUME ShouldDisrupt(getResult(q, AvailablePod))
      PROVE  q.healthy["Available"] > q.Retry
  <2>1. getResult(q, AvailablePod)
          = getResultForCriterion(q.healthy["Available"], TRUE, q)
      BY <1>1, <1>3 DEF getResult, ShouldDisrupt
  <2>2. getResultForCriterion(q.healthy["Available"], TRUE, q) \in {"Ok", "AlreadyUnhealthy"}
      BY <1>3, <2>1 DEF ShouldDisrupt
  <2> QED BY <1>2, <2>2 DEF getResultForCriterion
<1>4. /\ disruptState(q, AvailablePod).healthy["Available"] = q.healthy["Available"] - 1
      /\ disruptState(q, AvailablePod).Retry = q.Retry
    BY <1>1 DEF disruptState, QuotaState
<1> QED BY <1>3, <1>4 DEF AdmitBatchItem

(* Adding a bucket for a review raises the lag by at most one. *)
LEMMA AddBucket ==
    ASSUME NEW H \in SUBSET Bucket, NEW r \in Reviews, NEW t \in Nat
    PROVE  /\ Reserved(H \cup {NewBucket(r, t)}) = Reserved(H) \cup {r}
           /\ Lag(H \cup {NewBucket(r, t)}) <= Lag(H) + 1
<1>1. /\ NewBucket(r, t).reviews = {r} /\ NewBucket(r, t).charged = {r}
    BY DEF NewBucket
<1>2. Reserved(H \cup {NewBucket(r, t)}) = Reserved(H) \cup {r}
  <2>1. \A x : x \in Reserved(H \cup {NewBucket(r, t)}) <=> x \in Reserved(H) \/ x = r
      BY <1>1, ReservedMember
  <2> QED BY <2>1
<1>3. Counted(H \cup {NewBucket(r, t)}) = Counted(H) \cup {r}
  <2>1. \A x : x \in Counted(H \cup {NewBucket(r, t)}) <=> x \in Counted(H) \/ x = r
      BY <1>1, CountedMember
  <2> QED BY <2>1
<1>4. IsFiniteSet(Counted(H)) /\ Cardinality(Counted(H)) \in Nat
    BY CountedType DEF Lag
<1>5. Cardinality(Counted(H) \cup {r}) <= Cardinality(Counted(H)) + 1
    BY <1>4, FS_AddElement
<1> QED BY <1>2, <1>3, <1>5 DEF Lag

-----------------------------------------------------------------------------
(* The inductive invariant holds initially. *)
LEMMA IndInit == Init => IndInv
<1> SUFFICES ASSUME Init PROVE IndInv
    OBVIOUS
<1>1. TypeOK
    BY TypeInit
<1>2. Revisions /\ Batches /\ Executions
    BY DEF Init, Revisions, WellFormed, Coherent, InitPpr, Batches, Executions
<1>3. Cellwise
    BY DEF Init, Cellwise, InitPpr
<1>4. Accounted
    BY DEF Init, Accounted
<1> QED BY <1>1, <1>2, <1>3, <1>4 DEF IndInv

(* The batch, computed from one revision, starts an execution from it. *)
LEMMA StartExecuteWorks ==
    ASSUME IndInv, NEW i \in Replicas, StartExecute(i)
    PROVE  WorkKeeps(i)' /\ QuotaSound(i)'
<1> DEFINE o == cache[i]
<1>1. o \in Protector /\ o.rv \in Nat /\ o.rv + 1 \in Nat /\ o.history \in SUBSET Bucket
    BY DEF IndInv, TypeOK, Protector
<1>2. WellFormed(o)
    BY DEF IndInv, Revisions
<1>3. PICK H \in Summarize(o.history) :
          /\ \E h \in Restamped(H, Duplicates(i, H), o.rv + 1) : work' = [work EXCEPT ![i] = h]
          /\ quota' = [quota EXCEPT ![i] = InitialQuota(o, H)]
          /\ admitted' = [admitted EXCEPT ![i] = Duplicates(i, H)]
    BY DEF StartExecute
<1> DEFINE D == Duplicates(i, H)
<1>4. Keeps(H, o.history) /\ H \in SUBSET Bucket
    BY <1>1, SummarizeKeeps DEF Keeps
<1>5. D \in SUBSET Reviews
    BY DEF Duplicates, IndInv, TypeOK
<1>6. PICK h \in Restamped(H, D, o.rv + 1) : work' = [work EXCEPT ![i] = h]
    BY <1>3
<1>7. /\ work'[i] = h /\ base'[i] = o /\ admitted'[i] = D
      /\ quota'[i] = InitialQuota(o, H)
    BY <1>3, <1>6 DEF StartExecute, IndInv, TypeOK
<1>8. /\ Reserved(h) = Reserved(H) \cup D
      /\ Counted(h) = Counted(H)
      /\ \A b \in h :
            \/ b \in H
            \/ \E x \in H :
                  /\ x.podUid \in PodsOf(D)
                  /\ b.podUid = x.podUid /\ b.cell = x.cell /\ b.endTime = o.rv + 1
                  /\ x.reviews \subseteq b.reviews
                  /\ \A r \in b.reviews : r \in x.reviews \/ PodOf[r] = x.podUid
  <2>1. Restamps(h, H, D, o.rv + 1)
      BY <1>1, <1>4, <1>5, RestampedFacts
  <2> QED BY <2>1 DEF Restamps
<1>9. \A p \in PodsOf(D) : p \in Pods /\ p # NoUid
    BY <1>5, PodProtectorAssumption DEF PodsOf
<1>10. \A b \in H : b.podUid # NoUid => b \in o.history /\ b.podUid \in PodsOf(b.reviews)
    BY <1>2, <1>4 DEF Keeps, WellFormed
<1>11. ASSUME NEW b \in h
       PROVE  /\ b.endTime <= o.rv + 1
              /\ b.podUid # NoUid => b.podUid \in PodsOf(b.reviews)
              /\ \A r \in b.reviews :
                    /\ b.cell = CellOf[PodOf[r]]
                    /\ \/ b.endTime = o.rv + 1
                       \/ \E x \in o.history : r \in x.reviews /\ x.endTime <= b.endTime
  <2>1. CASE b \in H
    <3>1. PICK x \in o.history : b.endTime = x.endTime
        BY <2>1, <1>4 DEF Keeps
    <3>2. x.endTime \in Nat /\ x.endTime <= o.rv
        BY <1>1, <1>2 DEF WellFormed, Bucket
    <3>3. b.endTime <= o.rv + 1
        BY <3>1, <3>2, <1>1
    <3>4. \A r \in b.reviews : \E y \in o.history :
              r \in y.reviews /\ y.cell = b.cell /\ y.endTime <= b.endTime
        BY <2>1, <1>4 DEF Keeps
    <3>5. \A y \in o.history : \A r \in y.reviews : y.cell = CellOf[PodOf[r]]
        BY <1>2 DEF WellFormed
    <3> QED BY <3>3, <3>4, <3>5, <2>1, <1>10
  <2>2. CASE b \notin H
    <3>1. PICK x \in H :
              /\ x.podUid \in PodsOf(D)
              /\ b.podUid = x.podUid /\ b.cell = x.cell /\ b.endTime = o.rv + 1
              /\ x.reviews \subseteq b.reviews
              /\ \A r \in b.reviews : r \in x.reviews \/ PodOf[r] = x.podUid
        BY <2>2, <1>8
    <3>2. x \in o.history /\ x.podUid \in PodsOf(x.reviews)
        BY <3>1, <1>4, <1>9, <1>10
    <3>4. PICK y \in x.reviews : PodOf[y] = x.podUid
        BY <3>2 DEF PodsOf
    <3>5. \A r \in x.reviews : x.cell = CellOf[PodOf[r]]
        BY <3>2, <1>2 DEF WellFormed
    <3>6. \A r \in b.reviews : b.cell = CellOf[PodOf[r]]
        BY <3>1, <3>4, <3>5
    <3>7. b.podUid \in PodsOf(b.reviews)
        BY <3>1, <3>2 DEF PodsOf
    <3> QED BY <3>1, <3>6, <3>7, <1>1
  <2> QED BY <2>1, <2>2
<1>12. WorkKeeps(i)'
  <2>1. Reserved(h) = Reserved(o.history) \cup D
      BY <1>4, <1>8 DEF Keeps
  <2> QED BY <2>1, <1>7, <1>11 DEF WorkKeeps
<1>13. Lag(h) = Lag(H) /\ Lag(H) \in Nat
    BY <1>4, <1>8, CountedType DEF Lag
<1>14. /\ quota'[i].healthy["Available"] = Cardinality(o.available)
       /\ quota'[i].Retry = o.min + Lag(H)
       /\ Cardinality(o.available) \in Nat
    BY <1>1, <1>4, <1>7, InitialQuotaType
<1>15. ASSUME NEW r \in D PROVE PodOf[r] \in PodsOf(Reserved(o.history))
  <2>1. PICK b \in H : b.podUid = PodOf[r]
      BY DEF Duplicates, BucketsOf
  <2>2. b \in o.history /\ b.podUid \in PodsOf(b.reviews)
      BY <2>1, <1>5, <1>10, PodProtectorAssumption
  <2> QED BY <2>1, <2>2 DEF PodsOf, Reserved
<1>16. o.min \in Nat
    BY <1>1 DEF Protector
<1>17. QuotaSound(i)'
  <2>1. quota'[i].healthy["Available"] - quota'[i].Retry
          <= Cardinality(o.available) - Lag(h) - o.min
      BY <1>13, <1>14, <1>16
  <2> QED BY <2>1, <1>7, <1>15 DEF QuotaSound, QuotaLeft
<1> QED BY <1>12, <1>17

(* One round of the loop charges the quota for the bucket it appends. *)
LEMMA AdmitItemWorks ==
    ASSUME IndInv, NEW i \in Replicas, NEW r \in Reviews, AdmitItem(i, r)
    PROVE  WorkKeeps(i)' /\ QuotaSound(i)'
<1>1. /\ phase[i] = "execute" /\ base'[i] = base[i]
      /\ quota'[i] = AdmitBatchItem(quota[i], AvailablePod)
    BY DEF AdmitItem, IndInv, TypeOK
<1>2. WorkKeeps(i) /\ QuotaSound(i)
    BY <1>1 DEF IndInv, Executions
<1>3. quota[i] \in QuotaState
    BY DEF IndInv, TypeOK, QuotaState
<1>4. base[i].rv \in Nat /\ base[i].rv + 1 \in Nat /\ work[i] \in SUBSET Bucket
    BY DEF IndInv, TypeOK, Protector
<1>5. CASE ~ShouldDisrupt(getResult(quota[i], AvailablePod))
  <2>1. work' = work /\ admitted' = admitted /\ quota'[i] = quota[i]
      BY <1>1, <1>3, <1>5, AdmitChargesQuota DEF AdmitItem
  <2> QED BY <1>1, <1>2, <2>1 DEF WorkKeeps, QuotaSound, QuotaLeft
<1>6. CASE ShouldDisrupt(getResult(quota[i], AvailablePod))
  <2> DEFINE n == NewBucket(r, base[i].rv + 1)
  <2>1. work'[i] = work[i] \cup {n} /\ admitted'[i] = admitted[i] \cup {r}
      BY <1>6 DEF AdmitItem, IndInv, TypeOK
  <2>2. /\ n.endTime = base[i].rv + 1 /\ n.podUid = PodOf[r]
        /\ n.reviews = {r} /\ n.cell = CellOf[PodOf[r]]
      BY DEF NewBucket
  <2>3. /\ Reserved(work'[i]) = Reserved(work[i]) \cup {r}
        /\ Lag(work'[i]) <= Lag(work[i]) + 1
    <3>1. /\ Reserved(work[i] \cup {n}) = Reserved(work[i]) \cup {r}
          /\ Lag(work[i] \cup {n}) <= Lag(work[i]) + 1
        BY <1>4, AddBucket
    <3> QED BY <2>1, <3>1
  <2>4. n.podUid \in PodsOf(n.reviews)
      BY <2>2 DEF PodsOf
  <2>5. WorkKeeps(i)'
    <3>1. ASSUME NEW b \in work'[i]
          PROVE  /\ b.endTime <= base[i].rv + 1
                 /\ b.podUid # NoUid => b.podUid \in PodsOf(b.reviews)
                 /\ \A x \in b.reviews :
                       /\ b.cell = CellOf[PodOf[x]]
                       /\ \/ b.endTime = base[i].rv + 1
                          \/ \E y \in base[i].history : x \in y.reviews /\ y.endTime <= b.endTime
      <4>1. CASE b \in work[i]
          BY <4>1, <1>2 DEF WorkKeeps
      <4>2. CASE b = n
          BY <4>2, <2>2, <2>4, <1>4
      <4> QED BY <4>1, <4>2, <2>1
    <3>2. Reserved(work'[i]) = Reserved(base[i].history) \cup admitted'[i]
        BY <2>1, <2>3, <1>2 DEF WorkKeeps
    <3> QED BY <3>1, <3>2, <1>1 DEF WorkKeeps
  <2>6. QuotaSound(i)'
    <3>1. /\ quota[i].healthy["Available"] > quota[i].Retry
          /\ quota'[i].healthy["Available"] = quota[i].healthy["Available"] - 1
          /\ quota'[i].Retry = quota[i].Retry
        BY <1>1, <1>3, <1>6, AdmitChargesQuota
    <3>2. quota[i].healthy["Available"] \in Int /\ quota[i].Retry \in Nat
        BY <1>3 DEF QuotaState, Criteria
    <3>3. Lag(work[i]) \in Nat /\ Lag(work'[i]) \in Nat
      <4>1. work'[i] \in SUBSET Bucket
          BY <2>1, <1>4, NewBucketType
      <4> QED BY <4>1, <1>4, CountedType
    <3>4. base[i].min \in Nat /\ Cardinality(base[i].available) \in Nat
      <4>1. base[i] \in Protector
          BY DEF IndInv, TypeOK
      <4> QED BY <4>1, <1>4, InitialQuotaType DEF Protector
    <3>5. quota[i].healthy["Available"] - quota[i].Retry
            <= Cardinality(base[i].available) - Lag(work[i]) - base[i].min
        BY <1>2 DEF QuotaSound, QuotaLeft
    <3>6. quota'[i].healthy["Available"] - quota'[i].Retry
            <= Cardinality(base[i].available) - Lag(work'[i]) - base[i].min
        BY <3>1, <3>2, <3>3, <3>4, <3>5, <2>3
    <3>7. quota'[i].healthy["Available"] - quota'[i].Retry >= 0
        BY <3>1, <3>2
    <3> QED BY <3>6, <3>7, <1>1 DEF QuotaSound, QuotaLeft
  <2> QED BY <2>5, <2>6
<1> QED BY <1>5, <1>6

-----------------------------------------------------------------------------
(* A reservation, once made, keeps its time. *)
StampsKept == \A r \in Reviews : reservedAt[r] # 0 => reservedAt'[r] = reservedAt[r]

(* New reservations leave a revision that was well-formed so. *)
LEMMA WellFormedStable ==
    ASSUME NEW o \in Protector, WellFormed(o), StampsKept
    PROVE  \A b \in o.history :
              /\ b.endTime <= o.rv
              /\ b.podUid # NoUid => b.podUid \in PodsOf(b.reviews)
              /\ \A r \in b.reviews : /\ b.cell = CellOf[PodOf[r]]
                                      /\ reservedAt'[r] # 0
                                      /\ reservedAt'[r] <= b.endTime
<1>1. \A b \in o.history : b \in Bucket /\ b.reviews \subseteq Reviews
    BY DEF Protector, Bucket
<1> QED BY <1>1 DEF WellFormed, StampsKept

(* Summarizing a part of a well-formed history leaves a well-formed history. *)
LEMMA KeepsWellFormed ==
    ASSUME TypeOK, NEW o \in Protector, WellFormed(o),
           NEW H \in SUBSET o.history, NEW h, Keeps(h, H)
    PROVE  \A b \in h :
              /\ b.endTime <= o.rv
              /\ b.podUid # NoUid => b.podUid \in PodsOf(b.reviews)
              /\ \A r \in b.reviews : /\ b.cell = CellOf[PodOf[r]]
                                      /\ reservedAt[r] # 0
                                      /\ reservedAt[r] <= b.endTime
<1> SUFFICES ASSUME NEW b \in h
             PROVE  /\ b.endTime <= o.rv
                    /\ b.podUid # NoUid => b.podUid \in PodsOf(b.reviews)
                    /\ \A r \in b.reviews : /\ b.cell = CellOf[PodOf[r]]
                                            /\ reservedAt[r] # 0
                                            /\ reservedAt[r] <= b.endTime
    OBVIOUS
<1>1. b.endTime <= o.rv
    BY DEF Keeps, WellFormed
<1>2. b.podUid # NoUid => b.podUid \in PodsOf(b.reviews)
    BY DEF Keeps, WellFormed
<1>3. ASSUME NEW r \in b.reviews
      PROVE  b.cell = CellOf[PodOf[r]] /\ reservedAt[r] # 0 /\ reservedAt[r] <= b.endTime
  <2>1. PICK x \in H : r \in x.reviews /\ x.cell = b.cell /\ x.endTime <= b.endTime
      BY <1>3 DEF Keeps
  <2>2. x \in Bucket /\ b \in Bucket /\ r \in Reviews
      BY <2>1 DEF Keeps, Protector, Bucket
  <2>3. x.endTime \in Nat /\ b.endTime \in Nat /\ reservedAt[r] \in Nat
      BY <2>2 DEF Bucket, TypeOK
  <2>4. x.cell = CellOf[PodOf[r]] /\ reservedAt[r] # 0 /\ reservedAt[r] <= x.endTime
      BY <2>1 DEF WellFormed
  <2> QED BY <2>1, <2>3, <2>4
<1> QED BY <1>1, <1>2, <1>3

(* What an execution that is fully judged has found, stored or not. *)
LEMMA JudgedFacts ==
    ASSUME IndInv, NEW i \in Replicas, NEW h, Judged(i, h)
    PROVE  /\ WorkKeeps(i) /\ QuotaSound(i) /\ Keeps(h, work[i])
           /\ base[i] \in Protector /\ WellFormed(base[i]) /\ Coherent(base[i])
           /\ \A r \in admitted[i] : r \in batch[i] /\ r \in Reviews /\ reservedAt[r] = 0
           /\ Reserved(h) = Reserved(base[i].history) \cup admitted[i]
<1>1. WorkKeeps(i) /\ QuotaSound(i)
    BY DEF IndInv, Executions, Judged
<1>2. base[i] \in Protector /\ work[i] \in SUBSET Bucket
    BY DEF IndInv, TypeOK
<1>3. WellFormed(base[i]) /\ Coherent(base[i])
    BY DEF IndInv, Revisions, Judged
<1>4. Keeps(h, work[i])
    BY <1>2, SummarizeKeeps DEF Judged
<1>5. \A r \in admitted[i] : r \in batch[i] /\ r \in Reviews /\ reservedAt[r] = 0
    BY DEF IndInv, TypeOK, Batches
<1>6. Reserved(h) = Reserved(base[i].history) \cup admitted[i]
    BY <1>1, <1>4 DEF WorkKeeps, Keeps
<1> QED BY <1>1, <1>2, <1>3, <1>4, <1>5, <1>6

(***************************************************************************)
(* The write of an execution is stored only if it was computed from the    *)
(* stored revision; it then keeps every reservation, adds those of the     *)
(* admitted items, and stamps them with the new revision.                  *)
(***************************************************************************)
LEMMA CommitFacts ==
    ASSUME IndInv, NEW i \in Replicas, NEW h, Judged(i, h), UpdateStatus(i, h)
    PROVE  /\ base[i] = ppr /\ ppr \in Protector /\ ppr.rv \in Nat
           /\ ppr'.rv = ppr.rv + 1 /\ ppr'.history = h
           /\ ppr'.available = ppr.available /\ ppr'.min = ppr.min
           /\ Reserved(h) = Reserved(ppr.history) \cup admitted[i]
           /\ StampsKept
           /\ \A r \in Reviews :
                 reservedAt'[r] = IF r \in admitted[i] THEN ppr.rv + 1 ELSE reservedAt[r]
<1>1. base[i] = ppr /\ ppr \in Protector /\ ppr.rv \in Nat
    BY JudgedFacts DEF Coherent, UpdateStatus, IndInv, TypeOK, Protector
<1>2. /\ ppr'.rv = ppr.rv + 1 /\ ppr'.history = h
      /\ ppr'.available = ppr.available /\ ppr'.min = ppr.min
    BY <1>1 DEF UpdateStatus, Protector
<1>3. Reserved(h) = Reserved(ppr.history) \cup admitted[i]
    BY <1>1, JudgedFacts
<1>4. \A r \in Reviews :
          reservedAt'[r] = IF r \in admitted[i] THEN ppr.rv + 1 ELSE reservedAt[r]
    BY <1>1 DEF UpdateStatus
<1>5. StampsKept
    BY <1>4, JudgedFacts DEF StampsKept
<1> QED BY <1>1, <1>2, <1>3, <1>4, <1>5

(* The stored revision is well-formed after such a write. *)
LEMMA CommitWellFormed ==
    ASSUME IndInv, NEW i \in Replicas, NEW h, Judged(i, h), UpdateStatus(i, h)
    PROVE  WellFormed(ppr)'
<1>1. /\ base[i] = ppr /\ ppr \in Protector /\ ppr.rv \in Nat
      /\ ppr'.rv = ppr.rv + 1 /\ ppr'.history = h
      /\ Reserved(h) = Reserved(ppr.history) \cup admitted[i]
      /\ \A r \in Reviews :
            reservedAt'[r] = IF r \in admitted[i] THEN ppr.rv + 1 ELSE reservedAt[r]
    BY CommitFacts
<1>2. WorkKeeps(i) /\ Keeps(h, work[i]) /\ WellFormed(ppr)
    BY JudgedFacts, <1>1
<1>3. ASSUME NEW b \in h
      PROVE  /\ b.endTime <= ppr.rv + 1
             /\ b.podUid # NoUid => b.podUid \in PodsOf(b.reviews)
    BY <1>1, <1>2 DEF WorkKeeps, Keeps
<1>4. ASSUME NEW b \in h, NEW r \in b.reviews
      PROVE  /\ b.cell = CellOf[PodOf[r]]
             /\ reservedAt'[r] # 0
             /\ reservedAt'[r] <= b.endTime
  <2>1. PICK x \in work[i] : r \in x.reviews /\ x.cell = b.cell /\ x.endTime <= b.endTime
      BY <1>2, <1>4 DEF Keeps
  <2>2. b \in Bucket /\ x \in Bucket
      BY <1>2 DEF Keeps, IndInv, TypeOK
  <2>3. r \in Reviews /\ b.endTime \in Nat /\ x.endTime \in Nat
      BY <2>1, <2>2 DEF Bucket
  <2>4. x.cell = CellOf[PodOf[r]]
      BY <2>1, <1>2 DEF WorkKeeps
  <2>5. \/ x.endTime = ppr.rv + 1
        \/ \E y \in ppr.history : r \in y.reviews /\ y.endTime <= x.endTime
      BY <2>1, <1>1, <1>2 DEF WorkKeeps
  <2>6. reservedAt[r] \in Nat /\ reservedAt[r] <= ppr.rv
      BY <2>3 DEF IndInv, Cellwise, TypeOK
  <2>7. ASSUME NEW y \in ppr.history, r \in y.reviews
        PROVE  y.endTime \in Nat /\ reservedAt[r] # 0 /\ reservedAt[r] <= y.endTime
      BY <2>7, <1>1, <1>2 DEF WellFormed, Protector, Bucket
  <2>8. CASE r \in admitted[i]
    <3>1. reservedAt[r] = 0 /\ reservedAt'[r] = ppr.rv + 1
        BY <2>8, <2>3, <1>1, JudgedFacts
    <3>2. x.endTime = ppr.rv + 1
        BY <3>1, <2>5, <2>7
    <3> QED BY <3>1, <3>2, <2>1, <2>3, <2>4, <1>1
  <2>9. CASE r \notin admitted[i]
    <3>1. reservedAt'[r] = reservedAt[r]
        BY <2>9, <2>3, <1>1
    <3>2. r \in Reserved(ppr.history)
        BY <1>1, <1>4, <2>9, ReservedMember
    <3>3. reservedAt[r] # 0
        BY <3>2, <2>7, ReservedMember
    <3>4. reservedAt[r] <= x.endTime
        BY <2>3, <2>5, <2>6, <2>7, <1>1
    <3> QED BY <3>1, <3>3, <3>4, <2>1, <2>3, <2>4, <2>6
  <2> QED BY <2>8, <2>9
<1> QED BY <1>1, <1>3, <1>4 DEF WellFormed

-----------------------------------------------------------------------------
(***************************************************************************)
(* What becomes of the parts of the invariant when a step leaves, or moves *)
(* in one of a few ways, the state they are about.                         *)
(***************************************************************************)
LEMMA RevisionsLocal ==   \* neither the stored revision nor a cache changes
    ASSUME IndInv, UNCHANGED <<ppr, cache, reservedAt>>,
           \A j \in Replicas : phase'[j] = "execute" =>
               \/ phase[j] = "execute" /\ base'[j] = base[j]
               \/ base'[j] = cache[j]
    PROVE  Revisions'
BY DEF IndInv, Revisions, WellFormed, Coherent

(* Revisions is kept when a new revision is stored. *)
LEMMA RevisionsStored ==
    ASSUME IndInv, ppr' \in Protector, ppr'.rv = ppr.rv + 1, WellFormed(ppr)', StampsKept,
           UNCHANGED cache,
           \A j \in Replicas : phase'[j] = "execute" => phase[j] = "execute" /\ base'[j] = base[j]
    PROVE  Revisions'
<1>1. ppr.rv \in Nat
    BY DEF IndInv, TypeOK, Protector
<1>2. ASSUME NEW o \in Protector, WellFormed(o), Coherent(o)
      PROVE  /\ o.rv <= ppr'.rv /\ o.rv # ppr'.rv
             /\ \A b \in o.history :
                   /\ b.endTime <= o.rv
                   /\ b.podUid # NoUid => b.podUid \in PodsOf(b.reviews)
                   /\ \A r \in b.reviews : /\ b.cell = CellOf[PodOf[r]]
                                           /\ reservedAt'[r] # 0
                                           /\ reservedAt'[r] <= b.endTime
  <2>1. o.rv \in Nat /\ o.rv <= ppr.rv
      BY <1>2 DEF Coherent, Protector
  <2>2. o.rv <= ppr'.rv /\ o.rv # ppr'.rv
      BY <2>1, <1>1
  <2> QED BY <2>2, <1>2, WellFormedStable
<1>3. ASSUME NEW j \in Replicas PROVE WellFormed(cache[j])' /\ Coherent(cache[j])'
  <2>1. cache[j] \in Protector /\ WellFormed(cache[j]) /\ Coherent(cache[j])
      BY DEF IndInv, TypeOK, Revisions
  <2> QED BY <2>1, <1>2 DEF WellFormed, Coherent
<1>4. ASSUME NEW j \in Replicas, phase'[j] = "execute"
      PROVE  WellFormed(base[j])' /\ Coherent(base[j])'
  <2>1. base'[j] = base[j] /\ base[j] \in Protector /\ WellFormed(base[j]) /\ Coherent(base[j])
      BY <1>4 DEF IndInv, TypeOK, Revisions
  <2> QED BY <2>1, <1>2 DEF WellFormed, Coherent
<1> QED BY <1>3, <1>4 DEF Revisions

(* Batches is kept when no review joins a batch. *)
LEMMA BatchesShrink ==
    ASSUME IndInv,
           \A j \in Replicas : batch'[j] \subseteq batch[j],
           \A j \in Replicas : \A r \in batch'[j] :
               review'[r] \in {"pending", "closed"} /\ reservedAt'[r] = 0
    PROVE  Batches'
BY DEF IndInv, Batches

(* An execution that a step leaves alone is as sound as before. *)
LEMMA ExecutionFrame ==
    ASSUME IndInv, NEW j \in Replicas, phase[j] = "execute",
           base'[j] = base[j], work'[j] = work[j], quota'[j] = quota[j], admitted'[j] = admitted[j]
    PROVE  WorkKeeps(j)' /\ QuotaSound(j)'
<1>1. WorkKeeps(j) /\ QuotaSound(j)
    BY DEF IndInv, Executions
<1>2. WorkKeeps(j)'
    BY <1>1 DEF WorkKeeps
<1>3. QuotaSound(j)'
    BY <1>1 DEF QuotaSound, QuotaLeft
<1> QED BY <1>2, <1>3

(* Executions is kept when no execution begins or goes on. *)
LEMMA ExecutionsLocal ==
    ASSUME IndInv,
           \A j \in Replicas : phase'[j] = "execute" =>
               /\ phase[j] = "execute" /\ base'[j] = base[j] /\ work'[j] = work[j]
               /\ quota'[j] = quota[j] /\ admitted'[j] = admitted[j]
    PROVE  Executions'
<1>1. ASSUME NEW j \in Replicas, phase'[j] = "execute"
      PROVE  WorkKeeps(j)' /\ QuotaSound(j)'
  <2>1. /\ phase[j] = "execute" /\ base'[j] = base[j] /\ work'[j] = work[j]
        /\ quota'[j] = quota[j] /\ admitted'[j] = admitted[j]
      BY <1>1
  <2> QED BY <2>1, ExecutionFrame
<1> QED BY <1>1 DEF Executions

(* The end of an execution concerns its replica only. *)
LEMMA EndExecuteFrame ==
    ASSUME IndInv, NEW i \in Replicas, NEW b \in SUBSET batch[i], EndExecute(i, b)
    PROVE  /\ \A j \in Replicas : phase'[j] = "execute" =>
                 /\ phase[j] = "execute" /\ base'[j] = base[j] /\ work'[j] = work[j]
                 /\ quota'[j] = quota[j] /\ admitted'[j] = admitted[j]
           /\ \A j \in Replicas : batch'[j] \subseteq batch[j]
           /\ \A j \in Replicas : j # i => batch'[j] = batch[j]
           /\ batch'[i] = b
BY DEF EndExecute, IndInv, TypeOK

(* The reviews that are left in a batch were not in the one that was answered. *)
LEMMA BatchAnswered ==
    ASSUME IndInv, NEW i \in Replicas, EndExecute(i, {})
    PROVE  \A j \in Replicas : \A r \in batch'[j] :
              r \notin batch[i] /\ r \in batch[j] /\ r \in Reviews
<1> SUFFICES ASSUME NEW j \in Replicas, NEW r \in batch'[j]
             PROVE  r \notin batch[i] /\ r \in batch[j] /\ r \in Reviews
    OBVIOUS
<1>1. j # i /\ batch'[j] = batch[j]
    BY DEF EndExecute, IndInv, TypeOK
<1>2. batch[i] \cap batch[j] = {}
    BY <1>1 DEF IndInv, Batches
<1>3. batch[j] \in SUBSET Reviews
    BY DEF IndInv, TypeOK
<1> QED BY <1>1, <1>2, <1>3

(* An answer concerns the reviews of the batch that still wait. *)
LEMMA DispatchFrame ==
    ASSUME IndInv, NEW i \in Replicas, NEW allowed, Dispatch(i, allowed)
    PROVE  /\ \A r \in Reviews : r \notin batch[i] => review'[r] = review[r]
           /\ \A r \in batch[i] :
                 /\ review'[r] \in {"allowed", "closed"}
                 /\ review'[r] = "allowed" => r \in allowed
BY DEF Dispatch, Live, IndInv, TypeOK, Batches

-----------------------------------------------------------------------------
(* All but the type invariant, which TypeStep preserves. *)
Rest == Revisions /\ Batches /\ Executions /\ Cellwise /\ Accounted

(* An execution that ends without a write, and without an approval. *)
LEMMA UnstoredStep ==
    ASSUME IndInv, NEW i \in Replicas, Dispatch(i, {}), EndExecute(i, {}),
           UNCHANGED <<ppr, cache, reservedAt, env>>
    PROVE  Rest'
<1>1. /\ \A r \in Reviews : r \notin batch[i] => review'[r] = review[r]
      /\ \A r \in batch[i] : review'[r] = "closed"
    BY DispatchFrame
<1>2. Revisions'
    BY EndExecuteFrame, RevisionsLocal
<1>3. Batches'
  <2>1. \A j \in Replicas : \A r \in batch'[j] : r \notin batch[i] /\ r \in batch[j] /\ r \in Reviews
      BY BatchAnswered
  <2>2. \A j \in Replicas : \A r \in batch'[j] :
            review'[r] \in {"pending", "closed"} /\ reservedAt'[r] = 0
      BY <2>1, <1>1 DEF IndInv, Batches
  <2> QED BY <2>2, EndExecuteFrame, BatchesShrink
<1>4. Executions'
    BY EndExecuteFrame, ExecutionsLocal
<1>5. Cellwise'
  <2>1. \A r \in Reviews : review[r] = "deleted" => review'[r] = "deleted"
      BY <1>1 DEF IndInv, Batches
  <2>2. \A r \in Reviews : review'[r] \in {"new", "pending", "waved"} => review'[r] = review[r]
      BY <1>1
  <2> QED BY <2>1, <2>2 DEF IndInv, Cellwise, env
<1>6. Accounted'
  <2>1. \A r \in Reviews : review'[r] \in {"allowed", "deleted"} => review'[r] = review[r]
      BY <1>1
  <2> QED BY <2>1 DEF IndInv, Accounted, env
<1> QED BY <1>2, <1>3, <1>4, <1>5, <1>6 DEF Rest

(* An execution whose copy equals the original has approved nothing. *)
LEMMA FinishUnchangedStep ==
    ASSUME IndInv, NEW i \in Replicas, FinishUnchanged(i)
    PROVE  Rest'
<1>1. PICK h : Judged(i, h) /\ h = base[i].history
    BY DEF FinishUnchanged
<1>2. /\ WellFormed(base[i])
      /\ \A r \in admitted[i] : reservedAt[r] = 0
      /\ Reserved(base[i].history) = Reserved(base[i].history) \cup admitted[i]
    BY <1>1, JudgedFacts
<1>3. \A r \in Reserved(base[i].history) : reservedAt[r] # 0
    BY <1>2, ReservedMember DEF WellFormed
<1>4. admitted[i] = {}
    BY <1>2, <1>3
<1> QED BY <1>4, UnstoredStep DEF FinishUnchanged

(* A conflict keeps the batch, and discards what was judged. *)
LEMMA ConflictStep ==
    ASSUME IndInv, NEW i \in Replicas, Conflict(i)
    PROVE  Rest'
<1>1. EndExecute(i, batch[i]) /\ UNCHANGED <<ppr, cache, review, reservedAt, env>>
    BY DEF Conflict
<1>2. Revisions'
    BY <1>1, EndExecuteFrame, RevisionsLocal
<1>3. Batches'
  <2>1. \A j \in Replicas : batch'[j] \subseteq batch[j]
      BY <1>1, EndExecuteFrame
  <2>2. \A j \in Replicas : \A r \in batch'[j] :
            review'[r] \in {"pending", "closed"} /\ reservedAt'[r] = 0
      BY <1>1, <2>1 DEF IndInv, Batches
  <2> QED BY <2>1, <2>2, BatchesShrink
<1>4. Executions'
    BY <1>1, EndExecuteFrame, ExecutionsLocal
<1>5. Cellwise' /\ Accounted'
    BY <1>1 DEF IndInv, Cellwise, Accounted, env
<1> QED BY <1>2, <1>3, <1>4, <1>5 DEF Rest

(***************************************************************************)
(* An execution that ends with a write, whether its answers are sent or    *)
(* replaced by an internal error because the response was lost.            *)
(***************************************************************************)
LEMMA StoredStep ==
    ASSUME IndInv, TypeOK', NEW i \in Replicas, NEW h, Judged(i, h), UpdateStatus(i, h),
           NEW A \in SUBSET admitted[i], Dispatch(i, A), EndExecute(i, {}),
           UNCHANGED <<cache, env>>
    PROVE  Rest'
<1>1. /\ \A r \in Reviews : r \notin batch[i] => review'[r] = review[r]
      /\ \A r \in batch[i] : /\ review'[r] \in {"allowed", "closed"}
                             /\ review'[r] = "allowed" => r \in admitted[i]
    BY DispatchFrame
<1>2. /\ ppr.rv \in Nat /\ ppr'.rv = ppr.rv + 1 /\ ppr'.history = h
      /\ ppr'.available = ppr.available
      /\ Reserved(h) = Reserved(ppr.history) \cup admitted[i]
      /\ StampsKept
      /\ \A r \in Reviews :
            reservedAt'[r] = IF r \in admitted[i] THEN ppr.rv + 1 ELSE reservedAt[r]
    BY CommitFacts
<1>3. \A r \in admitted[i] : r \in batch[i] /\ r \in Reviews /\ reservedAt[r] = 0
    BY JudgedFacts
<1>4. Revisions'
  <2>1. ppr' \in Protector /\ WellFormed(ppr)'
      BY CommitWellFormed DEF TypeOK
  <2>2. \A j \in Replicas : phase'[j] = "execute" => phase[j] = "execute" /\ base'[j] = base[j]
      BY EndExecuteFrame
  <2> QED BY <2>1, <2>2, <1>2, RevisionsStored
<1>5. Batches'
  <2>1. \A j \in Replicas : \A r \in batch'[j] : r \notin batch[i] /\ r \in batch[j] /\ r \in Reviews
      BY BatchAnswered
  <2>2. \A j \in Replicas : \A r \in batch'[j] :
            review'[r] \in {"pending", "closed"} /\ reservedAt'[r] = 0
      BY <2>1, <1>1, <1>2, <1>3 DEF IndInv, Batches
  <2> QED BY <2>2, EndExecuteFrame, BatchesShrink
<1>6. Executions'
    BY EndExecuteFrame, ExecutionsLocal
<1>7. Cellwise'
  <2>1. \A r \in Reviews : review[r] = "deleted" => review'[r] = "deleted"
      BY <1>1 DEF IndInv, Batches
  <2>2. ASSUME NEW r \in Reviews, review'[r] \in {"new", "pending", "waved"}
        PROVE  reservedAt'[r] = 0
    <3>1. r \notin batch[i] /\ review'[r] = review[r]
        BY <2>2, <1>1
    <3> QED BY <3>1, <2>2, <1>2, <1>3 DEF IndInv, Cellwise
  <2>3. ASSUME NEW r \in Reviews PROVE reservedAt'[r] <= ppr'.rv
    <3>1. reservedAt[r] \in Nat /\ reservedAt[r] <= ppr.rv
        BY DEF IndInv, TypeOK, Cellwise
    <3> QED BY <3>1, <1>2
  <2>4. ppr'.available \subseteq seenAvailable'
      BY <1>2 DEF IndInv, Cellwise, env
  <2>5. \A p \in deleted' : \E r \in Reviews : review'[r] = "deleted" /\ PodOf[r] = p
      BY <2>1 DEF IndInv, Cellwise, env
  <2> QED BY <2>2, <2>3, <2>4, <2>5 DEF Cellwise
<1>8. Accounted'
  <2> SUFFICES ASSUME NEW r \in Reviews
               PROVE  /\ review'[r] = "allowed" => r \in Reserved(h)
                      /\ review'[r] = "deleted" /\ reservedAt'[r] # 0 =>
                            \/ r \in Reserved(h)
                            \/ PodOf[r] \in seenDeleted' \ ppr'.available
      BY <1>2 DEF Accounted
  <2>1. review'[r] = "allowed" => review[r] = "allowed" \/ r \in admitted[i]
      BY <1>1
  <2>2. review'[r] = "deleted" => review[r] = "deleted" /\ r \notin batch[i]
      BY <1>1
  <2> QED BY <2>1, <2>2, <1>2, <1>3 DEF IndInv, Accounted, env
<1> QED BY <1>4, <1>5, <1>6, <1>7, <1>8 DEF Rest

-----------------------------------------------------------------------------
(* Submit keeps the inductive invariant. *)
LEMMA SubmitStep ==
    ASSUME IndInv, NEW i \in Replicas, NEW r \in Reviews, Submit(i, r)
    PROVE  Rest'
<1>1. /\ UNCHANGED <<ppr, cache, phase, base, work, quota, todo, admitted, reservedAt, env>>
      /\ review' = [review EXCEPT ![r] = "pending"] /\ review[r] = "new"
      /\ batch' = [batch EXCEPT ![i] = @ \cup {r}]
    BY DEF Submit
<1>2. reservedAt[r] = 0 /\ review \in [Reviews -> Progress]
    BY <1>1 DEF IndInv, Cellwise, TypeOK
<1>3. \A j \in Replicas : r \notin batch[j]
    BY <1>1 DEF IndInv, Batches
<1>4. Revisions' /\ Executions'
    BY <1>1, RevisionsLocal, ExecutionsLocal
<1>5. Batches'
  <2>1. \A j \in Replicas : batch'[j] = IF j = i THEN batch[i] \cup {r} ELSE batch[j]
      BY <1>1 DEF IndInv, TypeOK
  <2>2. \A j \in Replicas : \A x \in batch'[j] :
            review'[x] \in {"pending", "closed"} /\ reservedAt'[x] = 0
    <3> SUFFICES ASSUME NEW j \in Replicas, NEW x \in batch'[j]
                 PROVE  review'[x] \in {"pending", "closed"} /\ reservedAt'[x] = 0
        OBVIOUS
    <3>1. CASE x = r
        BY <3>1, <1>1, <1>2
    <3>2. CASE x # r
      <4>1. x \in batch[j] /\ x \in Reviews
          BY <3>2, <2>1 DEF IndInv, TypeOK
      <4> QED BY <4>1, <3>2, <1>1, <1>2 DEF IndInv, Batches
    <3> QED BY <3>1, <3>2
  <2>3. ASSUME NEW j \in Replicas, NEW k \in Replicas, j # k
        PROVE  batch'[j] \cap batch'[k] = {}
    <3>1. batch[j] \cap batch[k] = {}
        BY <2>3 DEF IndInv, Batches
    <3> QED BY <3>1, <2>1, <2>3, <1>3
  <2> QED BY <2>2, <2>3 DEF Batches
<1>6. \A x \in Reviews : review'[x] = IF x = r THEN "pending" ELSE review[x]
    BY <1>1, <1>2
<1>7. Cellwise'
    BY <1>1, <1>2, <1>6 DEF IndInv, Cellwise, env
<1>8. Accounted'
    BY <1>1, <1>6 DEF IndInv, Accounted, env
<1> QED BY <1>4, <1>5, <1>7, <1>8 DEF Rest

(* DrainAll keeps the inductive invariant. *)
LEMMA DrainAllStep ==
    ASSUME IndInv, NEW i \in Replicas, DrainAll(i)
    PROVE  Rest'
<1>1. /\ UNCHANGED <<ppr, cache, phase, base, work, quota, todo, admitted, review, reservedAt, env>>
      /\ batch' = [batch EXCEPT ![i] = {}]
    BY DEF DrainAll
<1>2. \A j \in Replicas : batch'[j] \subseteq batch[j]
    BY <1>1 DEF IndInv, TypeOK
<1>3. Revisions' /\ Executions'
    BY <1>1, RevisionsLocal, ExecutionsLocal
<1>4. Batches'
  <2>1. \A j \in Replicas : \A r \in batch'[j] :
            review'[r] \in {"pending", "closed"} /\ reservedAt'[r] = 0
      BY <1>1, <1>2 DEF IndInv, Batches
  <2> QED BY <2>1, <1>2, BatchesShrink
<1>5. Cellwise' /\ Accounted'
    BY <1>1 DEF IndInv, Cellwise, Accounted, env
<1> QED BY <1>3, <1>4, <1>5 DEF Rest

(* StartExecute keeps the inductive invariant. *)
LEMMA StartExecuteStep ==
    ASSUME IndInv, NEW i \in Replicas, StartExecute(i)
    PROVE  Rest'
<1>1. /\ UNCHANGED <<ppr, cache, review, reservedAt, env>>
      /\ phase' = [phase EXCEPT ![i] = "execute"]
      /\ batch' = [batch EXCEPT ![i] = Live(i)]
      /\ base' = [base EXCEPT ![i] = cache[i]]
    BY DEF StartExecute
<1>2. \A j \in Replicas : j # i =>
          /\ phase'[j] = phase[j] /\ base'[j] = base[j] /\ work'[j] = work[j]
          /\ quota'[j] = quota[j] /\ admitted'[j] = admitted[j]
    BY DEF StartExecute, IndInv, TypeOK
<1>3. \A j \in Replicas : batch'[j] \subseteq batch[j]
    BY <1>1 DEF IndInv, TypeOK, Live
<1>4. Revisions'
  <2>1. base'[i] = cache[i]
      BY <1>1 DEF IndInv, TypeOK
  <2> QED BY <2>1, <1>1, <1>2, RevisionsLocal
<1>5. Batches'
  <2>1. \A j \in Replicas : \A r \in batch'[j] :
            review'[r] \in {"pending", "closed"} /\ reservedAt'[r] = 0
      BY <1>1, <1>3 DEF IndInv, Batches
  <2> QED BY <2>1, <1>3, BatchesShrink
<1>6. Executions'
  <2>1. WorkKeeps(i)' /\ QuotaSound(i)'
      BY StartExecuteWorks
  <2>2. ASSUME NEW j \in Replicas, j # i, phase'[j] = "execute"
        PROVE  WorkKeeps(j)' /\ QuotaSound(j)'
      BY <2>2, <1>2, ExecutionFrame
  <2> QED BY <2>1, <2>2 DEF Executions
<1>7. Cellwise' /\ Accounted'
    BY <1>1 DEF IndInv, Cellwise, Accounted, env
<1> QED BY <1>4, <1>5, <1>6, <1>7 DEF Rest

(* AdmitItem keeps the inductive invariant. *)
LEMMA AdmitItemStep ==
    ASSUME IndInv, NEW i \in Replicas, NEW r \in Reviews, AdmitItem(i, r)
    PROVE  Rest'
<1>1. UNCHANGED <<ppr, cache, phase, batch, base, review, reservedAt, env>>
    BY DEF AdmitItem
<1>2. \A j \in Replicas : j # i =>
          work'[j] = work[j] /\ quota'[j] = quota[j] /\ admitted'[j] = admitted[j]
    BY DEF AdmitItem, IndInv, TypeOK
<1>3. Revisions'
    BY <1>1, RevisionsLocal
<1>4. Batches'
    BY <1>1 DEF IndInv, Batches
<1>5. Executions'
  <2>1. WorkKeeps(i)' /\ QuotaSound(i)'
      BY AdmitItemWorks
  <2>2. ASSUME NEW j \in Replicas, j # i, phase'[j] = "execute"
        PROVE  WorkKeeps(j)' /\ QuotaSound(j)'
      BY <2>2, <1>1, <1>2, ExecutionFrame
  <2> QED BY <2>1, <2>2 DEF Executions
<1>6. Cellwise' /\ Accounted'
    BY <1>1 DEF IndInv, Cellwise, Accounted, env
<1> QED BY <1>3, <1>4, <1>5, <1>6 DEF Rest

(* Delivering the stored revision to a cache keeps the invariant. *)
LEMMA DeliverStep ==
    ASSUME IndInv, NEW i \in Replicas, Deliver(i)
    PROVE  Rest'
<1>1. UNCHANGED <<ppr, local, review, reservedAt, env>> /\ cache' = [cache EXCEPT ![i] = ppr]
    BY DEF Deliver
<1>2. \A j \in Replicas : cache'[j] = cache[j] \/ cache'[j] = ppr
    BY <1>1 DEF IndInv, TypeOK
<1>3. ppr.rv \in Nat
    BY DEF IndInv, TypeOK, Protector
<1>4. \A j \in Replicas : WellFormed(cache[j])' /\ Coherent(cache[j])'
    BY <1>1, <1>2, <1>3 DEF IndInv, Revisions, WellFormed, Coherent
<1>5. Revisions'
    BY <1>1, <1>4 DEF IndInv, Revisions, WellFormed, Coherent, local
<1>6. Batches' /\ Executions'
    BY <1>1 DEF IndInv, Batches, Executions, WorkKeeps, QuotaSound, QuotaLeft, local
<1>7. Cellwise' /\ Accounted'
    BY <1>1 DEF IndInv, Cellwise, Accounted, env
<1> QED BY <1>5, <1>6, <1>7 DEF Rest

-----------------------------------------------------------------------------
(* The steps of the cells. *)
LEMMA CellFrame ==
    ASSUME IndInv, UNCHANGED <<ppr, cache, local, reservedAt>>
    PROVE  Revisions' /\ Executions'
<1>1. Revisions'
    BY RevisionsLocal DEF local
<1>2. Executions'
    BY ExecutionsLocal DEF local
<1> QED BY <1>1, <1>2

(* A review moves on in its cell, and nothing is written. *)
LEMMA ReviewMoves ==
    ASSUME IndInv, UNCHANGED <<ppr, cache, local, reservedAt>>,
           NEW r \in Reviews, NEW v \in Progress, review' = [review EXCEPT ![r] = v],
           review[r] \notin {"pending", "closed"} \/ v = "closed"
    PROVE  /\ Revisions' /\ Executions' /\ Batches'
           /\ \A x \in Reviews : review'[x] = IF x = r THEN v ELSE review[x]
<1>1. \A x \in Reviews : review'[x] = IF x = r THEN v ELSE review[x]
    BY DEF IndInv, TypeOK
<1>2. batch' = batch /\ \A j \in Replicas : batch[j] \subseteq Reviews
    BY DEF local, IndInv, TypeOK
<1>3. \A j \in Replicas : \A x \in batch'[j] :
          review'[x] \in {"pending", "closed"} /\ reservedAt'[x] = 0
    BY <1>1, <1>2 DEF IndInv, Batches
<1>4. Batches'
    BY <1>2, <1>3, BatchesShrink
<1> QED BY <1>1, <1>4, CellFrame

(* The steps of the cells keep the inductive invariant. *)
LEMMA CellStep == IndInv /\ Cell => Rest'
<1> SUFFICES ASSUME IndInv, Cell PROVE Rest'
    OBVIOUS
<1>1. ASSUME NEW r \in Reviews, AlreadyTerminating(r) \/ StillUnavailable(r) PROVE Rest'
  <2>1. PICK v \in {"closed", "waved"} : review' = [review EXCEPT ![r] = v]
      BY <1>1 DEF AlreadyTerminating, StillUnavailable
  <2>2. review[r] = "new" /\ UNCHANGED <<ppr, cache, local, reservedAt, env>>
      BY <1>1 DEF AlreadyTerminating, StillUnavailable
  <2>3. /\ Revisions' /\ Executions' /\ Batches'
        /\ \A x \in Reviews : review'[x] = IF x = r THEN v ELSE review[x]
    <3>1. v \in Progress /\ review[r] \notin {"pending", "closed"}
        BY <2>2 DEF Progress
    <3> QED BY <3>1, <2>1, <2>2, ReviewMoves
  <2>4. Cellwise'
      BY <2>2, <2>3 DEF IndInv, Cellwise, env
  <2>5. Accounted'
      BY <2>2, <2>3 DEF IndInv, Accounted, env
  <2> QED BY <2>3, <2>4, <2>5 DEF Rest
<1>2. ASSUME NEW r \in Reviews, Expire(r) \/ Drop(r) PROVE Rest'
  <2>1. /\ review' = [review EXCEPT ![r] = "closed"]
        /\ review[r] \in {"pending", "allowed", "waved"}
        /\ UNCHANGED <<ppr, cache, local, reservedAt, env>>
      BY <1>2 DEF Expire, Drop
  <2>2. /\ Revisions' /\ Executions' /\ Batches'
        /\ \A x \in Reviews : review'[x] = IF x = r THEN "closed" ELSE review[x]
      BY <2>1, ReviewMoves DEF Progress
  <2>3. Cellwise'
      BY <2>1, <2>2 DEF IndInv, Cellwise, env
  <2>4. Accounted'
      BY <2>1, <2>2 DEF IndInv, Accounted, env
  <2> QED BY <2>2, <2>3, <2>4 DEF Rest
<1>3. ASSUME NEW r \in Reviews, Delete(r) PROVE Rest'
  <2>1. /\ review' = [review EXCEPT ![r] = "deleted"] /\ review[r] \in {"allowed", "waved"}
        /\ deleted' = deleted \cup {PodOf[r]}
        /\ UNCHANGED <<ppr, cache, local, reservedAt, available, seenAvailable, seenDeleted>>
      BY <1>3 DEF Delete
  <2>2. /\ Revisions' /\ Executions' /\ Batches'
        /\ \A x \in Reviews : review'[x] = IF x = r THEN "deleted" ELSE review[x]
      BY <2>1, ReviewMoves DEF Progress
  <2>3. Cellwise'
      BY <2>1, <2>2 DEF IndInv, Cellwise
  <2>4. Accounted'
    <3>1. review[r] = "allowed" => r \in Reserved(ppr.history)
        BY DEF IndInv, Accounted
    <3>2. review[r] = "waved" => reservedAt[r] = 0
        BY DEF IndInv, Cellwise
    <3> QED BY <3>1, <3>2, <2>1, <2>2 DEF IndInv, Accounted
  <2> QED BY <2>2, <2>3, <2>4 DEF Rest
<1>4. ASSUME NEW p \in Pods, BecomeAvailable(p) \/ SeeAvailable(p) \/ SeeDeleted(p) PROVE Rest'
  <2>1. /\ UNCHANGED <<ppr, cache, local, review, reservedAt, deleted>>
        /\ seenAvailable \subseteq seenAvailable' /\ seenDeleted \subseteq seenDeleted'
      BY <1>4 DEF BecomeAvailable, SeeAvailable, SeeDeleted
  <2>2. Revisions' /\ Executions'
      BY <2>1, CellFrame
  <2>3. Batches'
      BY <2>1 DEF IndInv, Batches, local
  <2>4. Cellwise'
      BY <2>1 DEF IndInv, Cellwise
  <2>5. Accounted'
      BY <2>1 DEF IndInv, Accounted
  <2> QED BY <2>2, <2>3, <2>4, <2>5 DEF Rest
<1> QED BY <1>1, <1>2, <1>3, <1>4 DEF Cell

-----------------------------------------------------------------------------
(***************************************************************************)
(* The aggregator removes the bucket of a review only when the review is   *)
(* settled: the bucket ends no earlier than the reservation was made.      *)
(***************************************************************************)
LEMMA AggregateStep ==
    ASSUME IndInv, TypeOK', NEW c \in Cells, NEW t \in Nat, Aggregate(c, t)
    PROVE  Rest'
<1>1. /\ UNCHANGED <<cache, local, review, reservedAt, env>> /\ KnownCorrectAt(c, t)
      /\ ppr \in Protector /\ ppr.rv \in Nat
    BY DEF Aggregate, IndInv, TypeOK, Protector
<1>2. PICK h \in Summarize(Outstanding(c, t)) :
          ppr' = [ppr EXCEPT !.rv = @ + 1, !.available = Aggregated(c), !.history = h]
    BY DEF Aggregate
<1>3. ppr'.rv = ppr.rv + 1 /\ ppr'.available = Aggregated(c) /\ ppr'.history = h
    BY <1>1, <1>2 DEF Protector
<1>4. Outstanding(c, t) \in SUBSET ppr.history /\ Outstanding(c, t) \in SUBSET Bucket
    BY <1>1 DEF Outstanding, Protector
<1>5. Keeps(h, Outstanding(c, t)) /\ WellFormed(ppr)
    BY <1>4, SummarizeKeeps DEF IndInv, Revisions
<1>6. \A b \in h :
          /\ b.endTime <= ppr.rv
          /\ b.podUid # NoUid => b.podUid \in PodsOf(b.reviews)
          /\ \A r \in b.reviews : /\ b.cell = CellOf[PodOf[r]]
                                  /\ reservedAt[r] # 0
                                  /\ reservedAt[r] <= b.endTime
    BY <1>1, <1>4, <1>5, KeepsWellFormed DEF IndInv
<1>7. Revisions'
  <2>1. \A b \in h : b.endTime <= ppr.rv + 1
    <3>1. \A b \in h : b.endTime \in Nat
        BY <1>5 DEF Keeps, Bucket
    <3> QED BY <3>1, <1>1, <1>6
  <2>2. WellFormed(ppr)'
      BY <2>1, <1>1, <1>3, <1>6 DEF WellFormed
  <2>3. StampsKept
      BY <1>1 DEF StampsKept
  <2> QED BY <2>2, <2>3, <1>1, <1>3, RevisionsStored DEF TypeOK, local
<1>8. Batches' /\ Executions'
    BY <1>1, ExecutionsLocal DEF IndInv, Batches, local
<1>9. Cellwise'
  <2>1. Aggregated(c) \subseteq seenAvailable
      BY DEF Aggregated, IndInv, Cellwise
  <2>2. \A r \in Reviews : reservedAt[r] <= ppr.rv + 1
    <3>1. \A r \in Reviews : reservedAt[r] \in Nat /\ reservedAt[r] <= ppr.rv
        BY DEF IndInv, TypeOK, Cellwise
    <3> QED BY <3>1, <1>1
  <2> QED BY <2>1, <2>2, <1>1, <1>3 DEF IndInv, Cellwise, env
<1>10. ASSUME NEW r \in Reviews, r \in Reserved(ppr.history), ~Settled(r)
       PROVE  r \in Reserved(h)
  <2>1. PICK b \in ppr.history : r \in b.reviews
      BY <1>10, ReservedMember
  <2>2. b.cell = CellOf[PodOf[r]] /\ reservedAt[r] # 0 /\ reservedAt[r] <= b.endTime
      BY <2>1, <1>5 DEF WellFormed
  <2>3. reservedAt[r] \in Nat /\ b.endTime \in Nat
      BY <1>1 DEF IndInv, TypeOK, Protector, Bucket
  <2>4. b.cell = c => ~(reservedAt[r] < t)
      BY <2>2, <1>1, <1>10 DEF KnownCorrectAt
  <2>5. b \in Outstanding(c, t)
      BY <2>2, <2>3, <2>4 DEF Outstanding
  <2> QED BY <2>1, <2>5, <1>5, ReservedMember DEF Keeps
<1>11. ASSUME NEW r \in Reviews, PodOf[r] \in seenDeleted, PodOf[r] \notin ppr.available
       PROVE  PodOf[r] \in seenDeleted \ Aggregated(c)
    BY <1>11 DEF Aggregated
<1>12. Accounted'
  <2> SUFFICES ASSUME NEW r \in Reviews
               PROVE  /\ review[r] = "allowed" => r \in Reserved(h)
                      /\ review[r] = "deleted" /\ reservedAt[r] # 0 =>
                            \/ r \in Reserved(h)
                            \/ PodOf[r] \in seenDeleted \ Aggregated(c)
      BY <1>1, <1>3 DEF Accounted, env
  <2>1. review[r] = "allowed" => r \in Reserved(h)
      BY <1>10 DEF IndInv, Accounted, Settled
  <2>2. ASSUME review[r] = "deleted", reservedAt[r] # 0, r \notin Reserved(h)
        PROVE  PodOf[r] \in seenDeleted \ Aggregated(c)
    <3>1. CASE r \notin Reserved(ppr.history)
        BY <3>1, <2>2, <1>11 DEF IndInv, Accounted
    <3>2. CASE r \in Reserved(ppr.history)
      <4>1. PICK b \in ppr.history : r \in b.reviews
          BY <3>2, ReservedMember
      <4>2. b.cell = CellOf[PodOf[r]] /\ b \notin Outstanding(c, t)
          BY <4>1, <2>2, <1>5, ReservedMember DEF WellFormed, Keeps
      <4>3. CellOf[PodOf[r]] = c
          BY <4>2 DEF Outstanding
      <4>4. PodOf[r] \in seenDeleted
          BY <3>2, <2>2, <1>10 DEF Settled
      <4> QED BY <4>3, <4>4 DEF Aggregated
    <3> QED BY <3>1, <3>2
  <2> QED BY <2>1, <2>2
<1> QED BY <1>7, <1>8, <1>9, <1>12 DEF Rest

(* A change of the specification keeps the inductive invariant. *)
LEMMA ChangeSpecStep ==
    ASSUME IndInv, TypeOK', NEW min, NEW maxLag, ChangeSpec(min, maxLag)
    PROVE  Rest'
<1>1. /\ UNCHANGED <<cache, local, review, reservedAt, env>>
      /\ ppr \in Protector /\ ppr.rv \in Nat
    BY DEF ChangeSpec, IndInv, TypeOK, Protector
<1>2. /\ ppr'.rv = ppr.rv + 1 /\ ppr'.available = ppr.available
      /\ ppr'.history = ppr.history
    BY <1>1 DEF ChangeSpec, Protector
<1>3. WellFormed(ppr)'
  <2>1. \A b \in ppr.history : b.endTime \in Nat
      BY <1>1 DEF Protector, Bucket
  <2> QED BY <2>1, <1>1, <1>2 DEF IndInv, Revisions, WellFormed
<1>4. Revisions'
  <2>1. StampsKept
      BY <1>1 DEF StampsKept
  <2> QED BY <2>1, <1>1, <1>2, <1>3, RevisionsStored DEF TypeOK, local
<1>5. Batches' /\ Executions'
    BY <1>1, ExecutionsLocal DEF IndInv, Batches, local
<1>6. Cellwise'
  <2>1. \A r \in Reviews : reservedAt[r] \in Nat /\ reservedAt[r] <= ppr.rv
      BY DEF IndInv, TypeOK, Cellwise
  <2> QED BY <2>1, <1>1, <1>2 DEF IndInv, Cellwise, env
<1>7. Accounted'
    BY <1>1, <1>2 DEF IndInv, Accounted, env
<1> QED BY <1>4, <1>5, <1>6, <1>7 DEF Rest

(* Every step preserves the inductive invariant. *)
LEMMA IndStep == IndInv /\ [Next]_vars => IndInv'
<1> SUFFICES ASSUME IndInv, [Next]_vars PROVE Rest'
  <2>1. IndInv /\ [Next]_vars => TypeOK'
      BY TypeStep DEF IndInv
  <2> QED BY <2>1 DEF IndInv, Rest
<1>1. TypeOK'
    BY TypeStep DEF IndInv
<1>2. ASSUME NEW i \in Replicas, Webhook(i) PROVE Rest'
  <2>1. ASSUME NEW r \in Reviews, Submit(i, r) PROVE Rest'
      BY <2>1, SubmitStep
  <2>2. CASE DrainAll(i)
      BY <2>2, DrainAllStep
  <2>3. CASE StartExecute(i)
      BY <2>3, StartExecuteStep
  <2>4. ASSUME NEW r \in Reviews, AdmitItem(i, r) PROVE Rest'
      BY <2>4, AdmitItemStep
  <2>5. CASE FinishUnchanged(i)
      BY <2>5, FinishUnchangedStep
  <2>6. CASE FinishUpdated(i)
    <3>1. PICK h : Judged(i, h) /\ UpdateStatus(i, h)
        BY <2>6 DEF FinishUpdated
    <3> QED BY <3>1, <2>6, <1>1, StoredStep DEF FinishUpdated
  <2>7. CASE Conflict(i)
      BY <2>7, ConflictStep
  <2>8. CASE UpdateRefused(i)
      BY <2>8, UnstoredStep DEF UpdateRefused
  <2>9. CASE ResponseLost(i)
    <3>1. PICK h : Judged(i, h) /\ UpdateStatus(i, h)
        BY <2>9 DEF ResponseLost
    <3> QED BY <3>1, <2>9, <1>1, StoredStep DEF ResponseLost
  <2>10. CASE Deliver(i)
      BY <2>10, DeliverStep
  <2> QED BY <1>2, <2>1, <2>2, <2>3, <2>4, <2>5, <2>6, <2>7, <2>8, <2>9, <2>10 DEF Webhook
<1>3. CASE Cell
    BY <1>3, CellStep
<1>4. CASE Core
  <2>1. ASSUME NEW c \in Cells, NEW t \in 1..ppr.rv + 1, Aggregate(c, t) PROVE Rest'
    <3>1. t \in Nat
        BY DEF IndInv, TypeOK, Protector
    <3> QED BY <3>1, <2>1, <1>1, AggregateStep
  <2>2. ASSUME NEW min \in MinAvailables, NEW maxLag \in LagLimits, ChangeSpec(min, maxLag)
        PROVE  Rest'
      BY <2>2, <1>1, ChangeSpecStep
  <2> QED BY <1>4, <2>1, <2>2 DEF Core
<1>5. CASE Quiescent \/ UNCHANGED vars
  <2>1. UNCHANGED <<ppr, cache, local, review, reservedAt, env>>
      BY <1>5 DEF Quiescent, vars
  <2>2. Revisions' /\ Executions'
      BY <2>1, CellFrame
  <2>3. Batches'
      BY <2>1 DEF IndInv, Batches, local
  <2>4. Cellwise' /\ Accounted'
      BY <2>1 DEF IndInv, Cellwise, Accounted, env
  <2> QED BY <2>2, <2>3, <2>4 DEF Rest
<1> QED BY <1>2, <1>3, <1>4, <1>5 DEF Next

(* The inductive invariant holds in every reachable state. *)
LEMMA Inductive == Spec => []IndInv
BY IndInit, IndStep, PTL DEF Spec

(***************************************************************************)
(* No approval is forgotten: every review that was approved with a         *)
(* reservation has a bucket in the stored history until its pod is known   *)
(* to be gone, whatever the replicas, the aggregators and the users do.    *)
(***************************************************************************)
THEOREM ReservationsAccounted == Spec => []Accounted
<1>1. IndInv => Accounted
    BY DEF IndInv
<1> QED BY <1>1, Inductive, PTL

-----------------------------------------------------------------------------
(* A set covered by two finite sets has at most as many elements as both. *)
LEMMA CoverCardinality ==
    ASSUME NEW S, NEW T, NEW U, IsFiniteSet(T), IsFiniteSet(U), S \subseteq T \cup U
    PROVE  /\ Cardinality(S) \in Nat /\ Cardinality(T) \in Nat /\ Cardinality(U) \in Nat
           /\ Cardinality(S) <= Cardinality(T) + Cardinality(U)
<1>1. /\ IsFiniteSet(T \cup U) /\ IsFiniteSet(T \cap U)
      /\ Cardinality(T \cup U) = Cardinality(T) + Cardinality(U) - Cardinality(T \cap U)
    BY FS_Union, FS_Intersection
<1>2. IsFiniteSet(S) /\ Cardinality(S) <= Cardinality(T \cup U)
    BY <1>1, FS_Subset
<1>3. /\ Cardinality(S) \in Nat /\ Cardinality(T) \in Nat /\ Cardinality(U) \in Nat
      /\ Cardinality(T \cap U) \in Nat /\ Cardinality(T \cup U) \in Nat
    BY <1>1, <1>2, FS_CardinalityType
<1> QED BY <1>1, <1>2, <1>3

(* An aggregated pod that no counter counts is safe, or known not to be counted. *)
LEMMA UncountedSafe ==
    ASSUME IndInv
    PROVE  ppr.available \ PodsOf(Counted(ppr.history)) \subseteq Safe \cup Uncounted
<1> SUFFICES ASSUME NEW p \in ppr.available, p \notin PodsOf(Counted(ppr.history)), p \notin Safe
             PROVE  p \in Uncounted
    OBVIOUS
<1>1. p \in available
    BY DEF IndInv, Cellwise, TypeOK
<1>2. PICK r \in Reviews : PodOf[r] = p /\ review[r] \in {"allowed", "waved", "deleted"}
  <2>1. CASE p \in deleted
      BY <2>1 DEF IndInv, Cellwise
  <2>2. CASE p \in PodsOf({r \in Reviews : review[r] \in {"allowed", "waved"}})
      BY <2>2 DEF PodsOf
  <2> QED BY <1>1, <2>1, <2>2 DEF Safe
<1>3. CASE r \in Reserved(ppr.history)
    BY <1>2, <1>3 DEF Uncounted, PodsOf
<1>4. CASE r \notin Reserved(ppr.history)
  <2>1. review[r] \in {"waved", "deleted"} /\ reservedAt[r] = 0
      BY <1>2, <1>4 DEF IndInv, Accounted, Cellwise
  <2> QED BY <2>1, <1>2 DEF Uncounted, Waved, PodsOf
<1> QED BY <1>3, <1>4

(* The inductive invariant implies that the estimate is sound. *)
LEMMA EstimateIsSound ==
    IndInv => /\ EstimateSound
              /\ EstimatedAvailable(ppr) \in Int
              /\ Cardinality(Safe) \in Nat /\ Cardinality(Uncounted) \in Nat
<1> SUFFICES ASSUME IndInv
             PROVE  /\ EstimateSound
                    /\ EstimatedAvailable(ppr) \in Int
                    /\ Cardinality(Safe) \in Nat /\ Cardinality(Uncounted) \in Nat
    OBVIOUS
<1> DEFINE A == ppr.available
           H == ppr.history
           C == PodsOf(Counted(H))
<1>1. A \in SUBSET Pods /\ H \in SUBSET Bucket
    BY DEF IndInv, TypeOK, Protector
<1>2. Counted(H) \in SUBSET Reviews /\ Lag(H) \in Nat
    BY <1>1, CountedType
<1>3. IsFiniteSet(C) /\ Cardinality(C) <= Lag(H)
    BY <1>2, PodsOfCardinality DEF Lag
<1>4. IsFiniteSet(A \ C)
    BY <1>1, FS_Subset, PodProtectorAssumption
<1>5. IsFiniteSet(Safe)
    BY FS_Subset, PodProtectorAssumption DEF Safe, IndInv, TypeOK
<1>6. IsFiniteSet(Uncounted)
  <2>1. Uncounted \subseteq Pods
    <3>1. Waved \subseteq Pods
        BY PodProtectorAssumption DEF Waved, PodsOf
    <3>2. Reserved(H) \subseteq Reviews
        BY <1>1, ReservedMember DEF Bucket
    <3>3. PodsOf(Reserved(H)) \subseteq Pods
        BY <3>2, PodProtectorAssumption DEF PodsOf
    <3> QED BY <3>1, <3>3 DEF Uncounted
  <2> QED BY <2>1, FS_Subset, PodProtectorAssumption
<1>7. /\ Cardinality(A) \in Nat /\ Cardinality(A \ C) \in Nat /\ Cardinality(C) \in Nat
      /\ Cardinality(A) <= Cardinality(A \ C) + Cardinality(C)
    BY <1>3, <1>4, CoverCardinality
<1>8. /\ Cardinality(Safe) \in Nat /\ Cardinality(Uncounted) \in Nat
      /\ Cardinality(A \ C) <= Cardinality(Safe) + Cardinality(Uncounted)
    BY <1>5, <1>6, UncountedSafe, CoverCardinality
<1> QED BY <1>2, <1>3, <1>7, <1>8 DEF EstimateSound, EstimatedAvailable

(***************************************************************************)
(* The estimate that admissions are based on never exceeds the pods that   *)
(* will remain, but for those that no counter counts.                      *)
(***************************************************************************)
THEOREM EstimateNeverTooHigh == Spec => []EstimateSound
<1>1. IndInv => EstimateSound
    BY EstimateIsSound
<1> QED BY <1>1, Inductive, PTL

(* A write that reserves another pod leaves an estimate of at least the minimum. *)
LEMMA CommitKeepsEstimate ==
    ASSUME IndInv, NEW i \in Replicas, NEW h, Judged(i, h), UpdateStatus(i, h), NewDisruption
    PROVE  EstimatedAvailable(ppr') >= ppr'.min
<1>1. /\ base[i] = ppr /\ ppr \in Protector /\ ppr'.history = h
      /\ ppr'.available = ppr.available /\ ppr'.min = ppr.min
      /\ Reserved(h) = Reserved(ppr.history) \cup admitted[i]
    BY CommitFacts
<1>2. QuotaSound(i) /\ Keeps(h, work[i])
    BY JudgedFacts
<1>3. \E r \in admitted[i] : PodOf[r] \notin PodsOf(Reserved(ppr.history))
    BY <1>1 DEF NewDisruption, PodsOf
<1>4. /\ QuotaLeft(i) >= 0
      /\ QuotaLeft(i) <= Cardinality(ppr.available) - Lag(work[i]) - ppr.min
    BY <1>1, <1>2, <1>3 DEF QuotaSound
<1>5. work[i] \in SUBSET Bucket /\ h \in SUBSET Bucket /\ Counted(h) \subseteq Counted(work[i])
    BY <1>2 DEF Keeps, IndInv, TypeOK
<1>6. Lag(h) \in Nat /\ Lag(work[i]) \in Nat /\ Lag(h) <= Lag(work[i])
    BY <1>5, CountedType, FS_Subset DEF Lag
<1>7. ppr.min \in Nat /\ Cardinality(ppr.available) \in Nat
    BY <1>1, <1>5, InitialQuotaType DEF Protector
<1>8. QuotaLeft(i) \in Int
  <2>1. quota[i] \in QuotaState
      BY DEF IndInv, TypeOK, QuotaState
  <2> QED BY <2>1 DEF QuotaLeft, QuotaState, Criteria
<1> QED BY <1>1, <1>4, <1>6, <1>7, <1>8 DEF EstimatedAvailable

(***************************************************************************)
(* The purpose of the webhook, for every number of replicas, cells, pods   *)
(* and reviews: a write that reserves a pod that was not reserved before   *)
(* leaves minAvailable pods that no approved deletion can take away, but   *)
(* for the pods that no counter counts.                                    *)
(***************************************************************************)
THEOREM MinimumKept == Spec => DisruptionKeepsMinimum
<1>1. ASSUME IndInv, IndInv', [Next]_vars, NewDisruption
      PROVE  Cardinality(Safe') + Cardinality(Uncounted') >= ppr'.min
  <2>0. PICK i \in Replicas : FinishUpdated(i) \/ ResponseLost(i)
    <3>1. ppr'.history # ppr.history
        BY <1>1 DEF NewDisruption
    <3>2. ASSUME NEW i \in Replicas, Webhook(i)
          PROVE  FinishUpdated(i) \/ ResponseLost(i)
        BY <3>1, <3>2 DEF Webhook, Submit, DrainAll, StartExecute, AdmitItem, FinishUnchanged,
                          Conflict, UpdateRefused, Deliver
    <3>3. ~Cell
        BY <3>1 DEF Cell, AlreadyTerminating, StillUnavailable, Expire, Delete, Drop,
                    BecomeAvailable, SeeAvailable, SeeDeleted
    <3>4. ASSUME NEW c \in Cells, NEW t \in 1..ppr.rv + 1, Aggregate(c, t) PROVE FALSE
      <4>1. ppr \in Protector
          BY <1>1 DEF IndInv, TypeOK
      <4>2. PICK h \in Summarize(Outstanding(c, t)) : ppr'.history = h
          BY <4>1, <3>4 DEF Aggregate, Protector
      <4>3. Outstanding(c, t) \in SUBSET Bucket /\ Outstanding(c, t) \subseteq ppr.history
          BY <4>1 DEF Outstanding, Protector
      <4>4. Reserved(h) = Reserved(Outstanding(c, t))
          BY <4>3, SummarizeKeeps DEF Keeps
      <4>5. Reserved(h) \subseteq Reserved(ppr.history)
          BY <4>3, <4>4, ReservedMember
      <4> QED BY <4>2, <4>5, <1>1 DEF NewDisruption, PodsOf
    <3>5. ASSUME NEW min \in MinAvailables, NEW maxLag \in LagLimits, ChangeSpec(min, maxLag)
          PROVE  FALSE
        BY <3>1, <3>5, <1>1 DEF ChangeSpec, IndInv, TypeOK, Protector
    <3>6. \E i \in Replicas : FinishUpdated(i) \/ ResponseLost(i)
        BY <3>1, <3>2, <3>3, <3>4, <3>5, <1>1 DEF Next, Core, Quiescent, vars
    <3> QED BY <3>6
  <2>1. PICK h : Judged(i, h) /\ UpdateStatus(i, h)
      BY <2>0 DEF FinishUpdated, ResponseLost
  <2>2. EstimatedAvailable(ppr') >= ppr'.min
      BY <2>1, <1>1, CommitKeepsEstimate
  <2>3. /\ EstimateSound'
        /\ (EstimatedAvailable(ppr) \in Int)'
        /\ (Cardinality(Safe) \in Nat)' /\ (Cardinality(Uncounted) \in Nat)'
      BY <1>1, EstimateIsSound, PTL
  <2>4. EstimatedAvailable(ppr') <= Cardinality(Safe') + Cardinality(Uncounted')
      BY <2>3 DEF EstimateSound, EstimatedAvailable
  <2>5. ppr'.min \in Nat
      BY <1>1 DEF IndInv, TypeOK, Protector
  <2> QED BY <2>2, <2>3, <2>4, <2>5 DEF EstimatedAvailable
<1>2. IndInv /\ IndInv' /\ [Next]_vars =>
          [NewDisruption => Cardinality(Safe') + Cardinality(Uncounted') >= ppr'.min]_vars
    BY <1>1
<1> QED BY <1>2, Inductive, PTL DEF Spec, DisruptionKeepsMinimum

-----------------------------------------------------------------------------
(***************************************************************************)
(* What the steps do to the revisions and to the executions, as far as the *)
(* two properties below look at them.                                      *)
(***************************************************************************)
SameExecution(j) == work'[j] = work[j] /\ todo'[j] = todo[j] /\ quota'[j] = quota[j]

(* An execution goes on, untouched or by one item, or starts from the cache. *)
LEMMA ExecutionSteps ==
    ASSUME IndInv, [Next]_vars, NEW j \in Replicas, phase'[j] = "execute"
    PROVE  \/ StartExecute(j)
           \/ /\ phase[j] = "execute" /\ base'[j] = base[j]
              /\ SameExecution(j) \/ \E r \in Reviews : AdmitItem(j, r)
<1> DEFINE goal == \/ StartExecute(j)
                   \/ /\ phase[j] = "execute" /\ base'[j] = base[j]
                      /\ SameExecution(j) \/ \E r \in Reviews : AdmitItem(j, r)
           kept == phase[j] = "execute" /\ base'[j] = base[j] /\ SameExecution(j)
<1>1. ASSUME NEW i \in Replicas, Webhook(i) PROVE goal
  <2>1. ASSUME NEW r \in Reviews, Submit(i, r) PROVE kept
      BY <2>1 DEF Submit, SameExecution
  <2>2. CASE DrainAll(i)
      BY <2>2 DEF DrainAll, SameExecution
  <2>3. CASE StartExecute(i)
    <3>1. CASE i = j
        BY <2>3, <3>1
    <3>2. CASE i # j
        BY <2>3, <3>2 DEF StartExecute, SameExecution, IndInv, TypeOK
    <3> QED BY <3>1, <3>2
  <2>4. ASSUME NEW r \in Reviews, AdmitItem(i, r) PROVE goal
    <3>1. CASE i = j
      <4>1. phase[j] = "execute" /\ base'[j] = base[j]
          BY <2>4, <3>1 DEF AdmitItem
      <4> QED BY <2>4, <3>1, <4>1
    <3>2. CASE i # j
      <4>1. todo'[j] = todo[j] /\ quota'[j] = quota[j] /\ phase' = phase /\ base' = base
          BY <2>4, <3>2 DEF AdmitItem, IndInv, TypeOK
      <4>2. work'[j] = work[j]
          BY <2>4, <3>2 DEF AdmitItem, IndInv, TypeOK
      <4> QED BY <4>1, <4>2 DEF SameExecution
    <3> QED BY <3>1, <3>2
  <2>5. ASSUME NEW b, EndExecute(i, b) PROVE kept
    <3>1. i # j
        BY <2>5 DEF EndExecute, IndInv, TypeOK
    <3> QED BY <2>5, <3>1 DEF EndExecute, SameExecution, IndInv, TypeOK
  <2>6. CASE FinishUnchanged(i) \/ FinishUpdated(i) \/ Conflict(i) \/ UpdateRefused(i) \/ ResponseLost(i)
      BY <2>5, <2>6 DEF FinishUnchanged, FinishUpdated, Conflict, UpdateRefused, ResponseLost
  <2>7. CASE Deliver(i)
      BY <2>7 DEF Deliver, local, SameExecution
  <2> QED BY <1>1, <2>1, <2>2, <2>3, <2>4, <2>6, <2>7 DEF Webhook
<1>2. ASSUME UNCHANGED local PROVE kept
    BY <1>2 DEF local, SameExecution
<1>3. CASE Cell
    BY <1>2, <1>3 DEF Cell, AlreadyTerminating, StillUnavailable, Expire, Delete, Drop,
                      BecomeAvailable, SeeAvailable, SeeDeleted
<1>4. CASE Core
    BY <1>2, <1>4 DEF Core, Aggregate, ChangeSpec
<1>5. CASE Quiescent \/ UNCHANGED vars
    BY <1>2, <1>5 DEF Quiescent, vars
<1> QED BY <1>1, <1>3, <1>4, <1>5 DEF Next

(* A cache keeps its revision or takes the stored one. *)
LEMMA CacheSteps ==
    ASSUME IndInv, [Next]_vars, NEW j \in Replicas
    PROVE  cache'[j] = cache[j] \/ cache'[j] = ppr
<1>1. ASSUME NEW i \in Replicas, Webhook(i) PROVE cache'[j] = cache[j] \/ cache'[j] = ppr
  <2>1. cache' = cache \/ cache' = [cache EXCEPT ![i] = ppr]
      BY <1>1 DEF Webhook, Submit, DrainAll, StartExecute, AdmitItem, FinishUnchanged, FinishUpdated,
                  Conflict, UpdateRefused, ResponseLost, Deliver
  <2> QED BY <2>1 DEF IndInv, TypeOK
<1>2. CASE Cell
    BY <1>2 DEF Cell, AlreadyTerminating, StillUnavailable, Expire, Delete, Drop,
                BecomeAvailable, SeeAvailable, SeeDeleted
<1>3. CASE Core
    BY <1>3 DEF Core, Aggregate, ChangeSpec
<1>4. CASE Quiescent \/ UNCHANGED vars
    BY <1>4 DEF Quiescent, vars
<1> QED BY <1>1, <1>2, <1>3, <1>4 DEF Next

(* The stored revision changes by a write of the webhook, of an aggregator or of a user. *)
LEMMA StoreSteps ==
    ASSUME IndInv, [Next]_vars
    PROVE  \/ ppr' = ppr
           \/ \E i \in Replicas : \E h \in Summarize(work[i]) : Judged(i, h) /\ UpdateStatus(i, h)
           \/ \E c \in Cells, t \in Nat : Aggregate(c, t)
           \/ \E min \in MinAvailables, maxLag \in LagLimits : ChangeSpec(min, maxLag)
<1>1. ASSUME NEW i \in Replicas, Webhook(i)
      PROVE  ppr' = ppr \/ \E h \in Summarize(work[i]) : Judged(i, h) /\ UpdateStatus(i, h)
  <2>1. CASE FinishUpdated(i)
      BY <2>1 DEF FinishUpdated
  <2>2. CASE ResponseLost(i)
      BY <2>2 DEF ResponseLost
  <2>3. CASE ~FinishUpdated(i) /\ ~ResponseLost(i)
      BY <1>1, <2>3 DEF Webhook, Submit, DrainAll, StartExecute, AdmitItem, FinishUnchanged,
                        Conflict, UpdateRefused, Deliver
  <2> QED BY <2>1, <2>2, <2>3
<1>2. CASE Cell
    BY <1>2 DEF Cell, AlreadyTerminating, StillUnavailable, Expire, Delete, Drop,
                BecomeAvailable, SeeAvailable, SeeDeleted
<1>3. CASE Core
  <2>1. ASSUME NEW c \in Cells, NEW t \in 1..ppr.rv + 1, Aggregate(c, t)
        PROVE  \E d \in Cells, u \in Nat : Aggregate(d, u)
    <3>1. t \in Nat
        BY DEF IndInv, TypeOK, Protector
    <3> QED BY <2>1, <3>1
  <2> QED BY <1>3, <2>1 DEF Core
<1>4. CASE Quiescent \/ UNCHANGED vars
    BY <1>4 DEF Quiescent, vars
<1> QED BY <1>1, <1>2, <1>3, <1>4 DEF Next

-----------------------------------------------------------------------------
(***************************************************************************)
(* Two reviews of one pod.  The stored history is never compacted when an  *)
(* execution starts, since it was compacted when it was stored, so a pod   *)
(* that has a bucket is found; restamping makes no bucket; and the loop    *)
(* appends buckets only for pods that have none.                           *)
(***************************************************************************)
SingleBuckets(i) ==
    /\ Small(base[i].history)
    /\ \A c \in Cells : IsFiniteSet(InCell(work[i], c))
    /\ \A p \in Pods :
          BucketsOf(base[i].history, p) # {} =>
              /\ IsFiniteSet(BucketsOf(work[i], p))
              /\ Cardinality(BucketsOf(work[i], p)) <= Cardinality(BucketsOf(base[i].history, p))
    /\ \A r \in todo[i] : BucketsOf(base[i].history, PodOf[r]) = {}

OnceInv ==
    /\ Small(ppr.history)
    /\ \A i \in Replicas : Small(cache[i].history)
    /\ \A i \in Replicas : phase[i] = "execute" => SingleBuckets(i)

(* A part of a small history is small. *)
LEMMA SmallSubset ==
    ASSUME NEW H, NEW G \in SUBSET H, Small(H)
    PROVE  Small(G)
<1>1. ASSUME NEW c \in Cells
      PROVE  IsFiniteSet(InCell(G, c)) /\ Cardinality(InCell(G, c)) <= CompactThreshold
  <2>1. InCell(G, c) \in SUBSET InCell(H, c)
      BY DEF InCell
  <2>2. IsFiniteSet(InCell(H, c)) /\ Cardinality(InCell(H, c)) <= CompactThreshold
      BY DEF Small
  <2>3. IsFiniteSet(InCell(G, c)) /\ Cardinality(InCell(G, c)) <= Cardinality(InCell(H, c))
      BY <2>1, <2>2, FS_Subset
  <2>4. Cardinality(InCell(G, c)) \in Nat /\ Cardinality(InCell(H, c)) \in Nat /\ CompactThreshold \in Nat
      BY <2>2, <2>3, FS_CardinalityType, PodProtectorAssumption
  <2> QED BY <2>2, <2>3, <2>4
<1> QED BY <1>1 DEF Small

(* The buckets of a pod are in its cell, hence finitely many. *)
LEMMA BucketsOfFinite ==
    ASSUME NEW o \in Protector, WellFormed(o), NEW p \in Pods, Small(o.history)
    PROVE  IsFiniteSet(BucketsOf(o.history, p))
<1>1. CellOf[p] \in Cells /\ p # NoUid
    BY PodProtectorAssumption
<1>2. BucketsOf(o.history, p) \in SUBSET InCell(o.history, CellOf[p])
    BY <1>1 DEF WellFormed, BucketsOf, InCell, PodsOf
<1>3. IsFiniteSet(InCell(o.history, CellOf[p]))
    BY <1>1 DEF Small
<1> QED BY <1>2, <1>3, FS_Subset

(* The image of a finite set under a function is no larger. *)
LEMMA ImageSize ==
    ASSUME NEW S, IsFiniteSet(S), NEW g, NEW T, T = {g[x] : x \in S}
    PROVE  IsFiniteSet(T) /\ Cardinality(T) <= Cardinality(S)
<1> DEFINE f == [x \in S |-> g[x]]
<1>1. f \in Surjection(S, T)
    BY DEF Surjection
<1> QED BY <1>1, FS_Surjection

(* Restamping leaves every bucket in its cell and to its pod. *)
LEMMA RestampedSizes ==
    ASSUME NEW H \in SUBSET Bucket, NEW D \in SUBSET Reviews, NEW t \in Nat,
           NEW h \in Restamped(H, D, t)
    PROVE  /\ \A c : IsFiniteSet(InCell(H, c)) => IsFiniteSet(InCell(h, c))
           /\ \A p : IsFiniteSet(BucketsOf(H, p)) =>
                 /\ IsFiniteSet(BucketsOf(h, p))
                 /\ Cardinality(BucketsOf(h, p)) <= Cardinality(BucketsOf(H, p))
<1> DEFINE step(f, b) == IF b.podUid \in PodsOf(D) /\ f[b.podUid] = b
                         THEN Restamp(b, {r \in D : PodOf[r] = b.podUid}, t)
                         ELSE b
<1>1. PICK f \in [PodsOf(D) -> H] : h = {step(f, b) : b \in H}
    BY DEF Restamped
<1>2. \A b \in H : step(f, b).podUid = b.podUid /\ step(f, b).cell = b.cell
    BY DEF Restamp, Bucket
<1> HIDE DEF step
<1> DEFINE g == [b \in H |-> step(f, b)]
<1>3. h = {g[b] : b \in H} /\ \A b \in H : g[b].podUid = b.podUid /\ g[b].cell = b.cell
    BY <1>1, <1>2
<1> HIDE DEF g
<1>4. ASSUME NEW c, IsFiniteSet(InCell(H, c)) PROVE IsFiniteSet(InCell(h, c))
  <2>1. InCell(h, c) = {g[b] : b \in InCell(H, c)}
      BY <1>3 DEF InCell
  <2> QED BY <2>1, <1>4, ImageSize
<1>5. ASSUME NEW p, IsFiniteSet(BucketsOf(H, p))
      PROVE  /\ IsFiniteSet(BucketsOf(h, p))
             /\ Cardinality(BucketsOf(h, p)) <= Cardinality(BucketsOf(H, p))
  <2>1. BucketsOf(h, p) = {g[b] : b \in BucketsOf(H, p)}
      BY <1>3 DEF BucketsOf
  <2> QED BY <2>1, <1>5, ImageSize
<1> QED BY <1>4, <1>5

(* An execution that starts finds every pod that has a bucket. *)
LEMMA StartExecuteSingle ==
    ASSUME IndInv, OnceInv, NEW i \in Replicas, StartExecute(i)
    PROVE  SingleBuckets(i)'
<1> DEFINE o == cache[i]
<1>1. /\ o \in Protector /\ o.rv + 1 \in Nat /\ o.history \in SUBSET Bucket
      /\ WellFormed(o) /\ Small(o.history)
    BY DEF IndInv, TypeOK, Revisions, Protector, OnceInv
<1>2. \A H \in Summarize(o.history) : H = o.history
  <2>1. \A c \in Cells : IsFiniteSet(InCell(o.history, c))
      BY <1>1 DEF Small
  <2> QED BY <1>1, <2>1, SummarizeBounds
<1> DEFINE D == Duplicates(i, o.history)
<1>3. PICK h \in Restamped(o.history, D, o.rv + 1) :
          work' = [work EXCEPT ![i] = h] /\ todo' = [todo EXCEPT ![i] = Live(i) \ D]
    BY <1>2 DEF StartExecute
<1>4. work'[i] = h /\ todo'[i] = Live(i) \ D /\ base'[i] = o
    BY <1>3 DEF StartExecute, IndInv, TypeOK
<1>5. D \in SUBSET Reviews
    BY DEF Duplicates, IndInv, TypeOK
<1>6. /\ \A c : IsFiniteSet(InCell(o.history, c)) => IsFiniteSet(InCell(h, c))
      /\ \A p : IsFiniteSet(BucketsOf(o.history, p)) =>
            /\ IsFiniteSet(BucketsOf(h, p))
            /\ Cardinality(BucketsOf(h, p)) <= Cardinality(BucketsOf(o.history, p))
    BY <1>1, <1>3, <1>5, RestampedSizes
<1>7. \A c \in Cells : IsFiniteSet(InCell(h, c))
    BY <1>1, <1>6 DEF Small
<1>8. \A p \in Pods : /\ IsFiniteSet(BucketsOf(h, p))
                      /\ Cardinality(BucketsOf(h, p)) <= Cardinality(BucketsOf(o.history, p))
    BY <1>1, <1>6, BucketsOfFinite
<1>9. \A r \in Live(i) \ D : BucketsOf(o.history, PodOf[r]) = {}
    BY DEF Live, Duplicates
<1> QED BY <1>1, <1>4, <1>7, <1>8, <1>9 DEF SingleBuckets

(* The loop appends a bucket only for a pod that has none in the original. *)
LEMMA AdmitItemSingle ==
    ASSUME IndInv, NEW i \in Replicas, NEW r \in Reviews, AdmitItem(i, r), SingleBuckets(i)
    PROVE  SingleBuckets(i)'
<1>1. /\ base'[i] = base[i] /\ r \in todo[i] /\ todo'[i] \subseteq todo[i]
    BY DEF AdmitItem, IndInv, TypeOK
<1>2. CASE work'[i] = work[i]
    BY <1>1, <1>2 DEF SingleBuckets
<1>3. CASE work'[i] # work[i]
  <2> DEFINE n == NewBucket(r, base[i].rv + 1)
  <2>1. work'[i] = work[i] \cup {n} /\ n.podUid = PodOf[r]
      BY <1>3 DEF AdmitItem, IndInv, TypeOK, NewBucket
  <2> HIDE DEF n
  <2>2. ASSUME NEW c \in Cells PROVE IsFiniteSet(InCell(work'[i], c))
    <3>1. InCell(work'[i], c) \in SUBSET (InCell(work[i], c) \cup {n})
        BY <2>1 DEF InCell
    <3>2. IsFiniteSet(InCell(work[i], c) \cup {n})
        BY FS_AddElement DEF SingleBuckets
    <3> QED BY <3>1, <3>2, FS_Subset
  <2>3. ASSUME NEW p \in Pods, BucketsOf(base[i].history, p) # {}
        PROVE  BucketsOf(work'[i], p) = BucketsOf(work[i], p)
    <3>1. p # PodOf[r]
        BY <1>1, <2>3 DEF SingleBuckets
    <3> QED BY <2>1, <3>1 DEF BucketsOf
  <2> QED BY <1>1, <2>2, <2>3 DEF SingleBuckets
<1> QED BY <1>2, <1>3

(* Every step keeps histories compacted and pods to their buckets. *)
LEMMA OnceStep ==
    ASSUME IndInv, OnceInv, [Next]_vars
    PROVE  OnceInv'
<1>1. Small(ppr.history)'
  <2>1. ASSUME NEW i \in Replicas, NEW h \in Summarize(work[i]), Judged(i, h), UpdateStatus(i, h)
        PROVE  Small(ppr.history)'
    <3>1. ppr'.history = h /\ work[i] \in SUBSET Bucket
        BY <2>1, CommitFacts DEF IndInv, TypeOK
    <3>2. \A c \in Cells : IsFiniteSet(InCell(work[i], c))
        BY <2>1 DEF OnceInv, SingleBuckets, Judged
    <3>3. Small(h)
        BY <3>1, <3>2, SummarizeBounds
    <3> QED BY <3>1, <3>3 DEF Small
  <2>2. ASSUME NEW c \in Cells, NEW t \in Nat, Aggregate(c, t) PROVE Small(ppr.history)'
    <3>1. ppr \in Protector
        BY DEF IndInv, TypeOK
    <3>2. PICK h \in Summarize(Outstanding(c, t)) : ppr'.history = h
        BY <2>2, <3>1 DEF Aggregate, Protector
    <3>3. Outstanding(c, t) \in SUBSET Bucket /\ Outstanding(c, t) \in SUBSET ppr.history
        BY <3>1 DEF Outstanding, Protector
    <3>4. Small(Outstanding(c, t))
        BY <3>3, SmallSubset DEF OnceInv
    <3>5. Small(h)
        BY <3>3, <3>4, SummarizeBounds DEF Small
    <3> QED BY <3>2, <3>5 DEF Small
  <2>3. ASSUME NEW min, NEW maxLag, ChangeSpec(min, maxLag) PROVE Small(ppr.history)'
    <3>1. ppr'.history = ppr.history
        BY <2>3 DEF ChangeSpec, IndInv, TypeOK, Protector
    <3> QED BY <3>1 DEF OnceInv, Small
  <2>4. CASE ppr' = ppr
      BY <2>4 DEF OnceInv, Small
  <2> QED BY <2>1, <2>2, <2>3, <2>4, StoreSteps
<1>2. ASSUME NEW j \in Replicas PROVE Small(cache[j].history)'
  <2>1. cache'[j] = cache[j] \/ cache'[j] = ppr
      BY CacheSteps
  <2> QED BY <2>1 DEF OnceInv, Small
<1>3. ASSUME NEW j \in Replicas, phase'[j] = "execute" PROVE SingleBuckets(j)'
  <2>1. CASE StartExecute(j)
      BY <2>1, StartExecuteSingle
  <2>2. CASE phase[j] = "execute" /\ base'[j] = base[j] /\ SameExecution(j)
      BY <2>2 DEF OnceInv, SingleBuckets, SameExecution, Small
  <2>3. ASSUME phase[j] = "execute", NEW r \in Reviews, AdmitItem(j, r) PROVE SingleBuckets(j)'
      BY <2>3, AdmitItemSingle DEF OnceInv
  <2> QED BY <1>3, <2>1, <2>2, <2>3, ExecutionSteps
<1> QED BY <1>1, <1>2, <1>3 DEF OnceInv

(* A write leaves a pod that has buckets no more of them. *)
LEMMA StepReservesOnce ==
    ASSUME IndInv, OnceInv, [Next]_vars, NEW p \in Pods, BucketsOf(ppr.history, p) # {}
    PROVE  Cardinality(BucketsOf(ppr'.history, p)) <= Cardinality(BucketsOf(ppr.history, p))
<1> DEFINE B == BucketsOf(ppr.history, p)
<1>1. ppr \in Protector /\ p # NoUid
    BY PodProtectorAssumption DEF IndInv, TypeOK
<1>2. IsFiniteSet(B) /\ Cardinality(B) \in Nat
    BY <1>1, BucketsOfFinite, FS_CardinalityType DEF IndInv, Revisions, OnceInv
<1>3. ASSUME NEW i \in Replicas, NEW h \in Summarize(work[i]), Judged(i, h), UpdateStatus(i, h)
      PROVE  Cardinality(BucketsOf(ppr'.history, p)) <= Cardinality(B)
  <2> DEFINE W == BucketsOf(work[i], p)
             G == BucketsOf(h, p)
  <2>1. base[i] = ppr /\ ppr'.history = h /\ Keeps(h, work[i])
      BY <1>3, CommitFacts, JudgedFacts
  <2>2. IsFiniteSet(W) /\ Cardinality(W) <= Cardinality(B)
      BY <1>3, <2>1 DEF OnceInv, SingleBuckets, Judged
  <2>3. G \in SUBSET W
      BY <1>1, <2>1 DEF Keeps, BucketsOf
  <2> HIDE DEF W, G, B
  <2>4. Cardinality(G) <= Cardinality(W) /\ Cardinality(G) \in Nat /\ Cardinality(W) \in Nat
      BY <2>2, <2>3, FS_Subset, FS_CardinalityType
  <2>5. Cardinality(G) <= Cardinality(B)
      BY <1>2, <2>2, <2>4
  <2> QED BY <2>1, <2>5 DEF G
<1>4. ASSUME NEW c \in Cells, NEW t \in Nat, Aggregate(c, t)
      PROVE  Cardinality(BucketsOf(ppr'.history, p)) <= Cardinality(B)
  <2>1. PICK h \in Summarize(Outstanding(c, t)) : ppr'.history = h
      BY <1>1, <1>4 DEF Aggregate, Protector
  <2>2. Outstanding(c, t) \in SUBSET Bucket /\ Outstanding(c, t) \subseteq ppr.history
      BY <1>1 DEF Outstanding, Protector
  <2>3. Keeps(h, Outstanding(c, t))
      BY <2>2, SummarizeKeeps
  <2>4. BucketsOf(h, p) \in SUBSET B
      BY <1>1, <2>2, <2>3 DEF Keeps, BucketsOf
  <2>5. Cardinality(BucketsOf(h, p)) <= Cardinality(B)
      BY <1>2, <2>4, FS_Subset
  <2> QED BY <2>1, <2>5
<1>5. ASSUME NEW min, NEW maxLag, ChangeSpec(min, maxLag)
      PROVE  Cardinality(BucketsOf(ppr'.history, p)) <= Cardinality(B)
  <2>1. ppr'.history = ppr.history
      BY <1>1, <1>5 DEF ChangeSpec, Protector
  <2> QED BY <1>2, <2>1
<1>6. CASE ppr' = ppr
    BY <1>2, <1>6
<1> QED BY <1>3, <1>4, <1>5, <1>6, StoreSteps

(* Initially there is no bucket at all. *)
LEMMA OnceInit == Init => OnceInv
<1> SUFFICES ASSUME Init PROVE OnceInv
    OBVIOUS
<1>1. \A c : InCell({}, c) = {}
    BY DEF InCell
<1>2. Small({})
    BY <1>1, FS_EmptySet, PodProtectorAssumption DEF Small
<1>3. ppr.history = {} /\ \A i \in Replicas : cache[i].history = {} /\ phase[i] = "gather"
    BY DEF Init, InitPpr
<1> QED BY <1>2, <1>3 DEF OnceInv

(***************************************************************************)
(* "Pods ... should not contribute twice to the admission history"         *)
(* (handler.go), for any number of replicas, reviews and cells and any     *)
(* threshold: no write adds a bucket for a pod that has one.               *)
(***************************************************************************)
THEOREM PodsReservedOnce == Spec => ReservedOnce
<1> DEFINE once == \A p \in Pods :
                      BucketsOf(ppr.history, p) # {} =>
                          Cardinality(BucketsOf(ppr'.history, p)) <= Cardinality(BucketsOf(ppr.history, p))
<1>1. IndInv /\ OnceInv /\ [Next]_vars => OnceInv'
    BY OnceStep
<1>2. IndInv /\ OnceInv /\ [Next]_vars => [once]_vars
    BY StepReservesOnce
<1> QED BY <1>1, <1>2, OnceInit, Inductive, PTL DEF Spec, ReservedOnce

-----------------------------------------------------------------------------
(***************************************************************************)
(* The limit on unconfirmed admissions.  Every revision is within it, and  *)
(* what an execution has left of it is what its copy leaves.               *)
(***************************************************************************)
Within(o) == o.maxLag = InitLagLimit /\ (InitLagLimit # 0 => Lag(o.history) <= InitLagLimit)

LimitLeft(i) ==
    /\ Within(base[i])
    /\ InitLagLimit # 0 =>
          \E n \in Nat : quota[i].Remaining = {n} /\ Lag(work[i]) + n <= InitLagLimit

LagInv ==
    /\ Within(ppr)
    /\ \A i \in Replicas : Within(cache[i])
    /\ \A i \in Replicas : phase[i] = "execute" => LimitLeft(i)

(* What is left by Summarize, or a part of it, counts no more. *)
LEMMA KeepsLag ==
    ASSUME NEW H \in SUBSET Bucket, NEW G \in SUBSET H, NEW h, Keeps(h, G)
    PROVE  Lag(h) \in Nat /\ Lag(H) \in Nat /\ Lag(h) <= Lag(H)
<1>1. h \in SUBSET Bucket /\ Counted(h) \in SUBSET Counted(H)
    BY CountedMember DEF Keeps
<1>2. Lag(h) \in Nat /\ Lag(H) \in Nat /\ IsFiniteSet(Counted(H))
    BY <1>1, CountedType
<1> QED BY <1>1, <1>2, FS_Subset DEF Lag

(* An execution starts with what its revision leaves of the limit. *)
LEMMA StartExecuteLimit ==
    ASSUME IndInv, LagInv, NEW i \in Replicas, StartExecute(i)
    PROVE  LimitLeft(i)'
<1> DEFINE o == cache[i]
<1>1. /\ o \in Protector /\ o.rv + 1 \in Nat /\ o.history \in SUBSET Bucket
      /\ Within(o) /\ InitLagLimit \in Nat
    BY AdmissionAssumption DEF IndInv, TypeOK, Protector, LagInv
<1>2. PICK H \in Summarize(o.history) :
          /\ \E h \in Restamped(H, Duplicates(i, H), o.rv + 1) : work' = [work EXCEPT ![i] = h]
          /\ quota' = [quota EXCEPT ![i] = InitialQuota(o, H)]
    BY DEF StartExecute
<1> DEFINE D == Duplicates(i, H)
<1>3. PICK h \in Restamped(H, D, o.rv + 1) : work' = [work EXCEPT ![i] = h]
    BY <1>2
<1>4. work'[i] = h /\ quota'[i] = InitialQuota(o, H) /\ base'[i] = o
    BY <1>2, <1>3 DEF StartExecute, IndInv, TypeOK
<1>5. Keeps(H, o.history) /\ H \in SUBSET Bucket
    BY <1>1, SummarizeKeeps DEF Keeps
<1>6. Lag(H) \in Nat /\ Lag(o.history) \in Nat /\ Lag(H) <= Lag(o.history)
    BY <1>1, <1>5, KeepsLag
<1>7. Lag(h) = Lag(H)
  <2>1. D \in SUBSET Reviews
      BY DEF Duplicates, IndInv, TypeOK
  <2>2. Restamps(h, H, D, o.rv + 1)
      BY <1>1, <1>5, <2>1, RestampedFacts
  <2> QED BY <2>2 DEF Restamps, Lag
<1>8. ASSUME InitLagLimit # 0
      PROVE  \E n \in Nat : quota'[i].Remaining = {n} /\ Lag(h) + n <= InitLagLimit
  <2>1. quota'[i].Remaining = {InitLagLimit - Lag(H)}
      BY <1>1, <1>4, <1>8 DEF InitialQuota, MakeState, Within
  <2>2. InitLagLimit - Lag(H) \in Nat /\ Lag(h) + (InitLagLimit - Lag(H)) <= InitLagLimit
      BY <1>1, <1>6, <1>7, <1>8 DEF Within
  <2> QED BY <2>1, <2>2
<1> QED BY <1>1, <1>4, <1>8 DEF LimitLeft, Within

(* An item is admitted only while something is left of the limit, and uses one of it. *)
LEMMA AdmitItemLimit ==
    ASSUME IndInv, NEW i \in Replicas, NEW r \in Reviews, AdmitItem(i, r), LimitLeft(i)
    PROVE  LimitLeft(i)'
<1>1. base'[i] = base[i] /\ quota'[i] = AdmitBatchItem(quota[i], AvailablePod)
    BY DEF AdmitItem, IndInv, TypeOK
<1>2. quota[i] \in QuotaState /\ work[i] \in SUBSET Bucket /\ base[i].rv + 1 \in Nat
    BY DEF IndInv, TypeOK, QuotaState, Protector
<1>3. CASE ~ShouldDisrupt(getResult(quota[i], AvailablePod))
  <2>1. work' = work /\ quota'[i] = quota[i]
      BY <1>1, <1>3 DEF AdmitItem, AdmitBatchItem
  <2> QED BY <1>1, <2>1 DEF LimitLeft, Within
<1>4. CASE ShouldDisrupt(getResult(quota[i], AvailablePod))
  <2> DEFINE b == NewBucket(r, base[i].rv + 1)
  <2>1. work'[i] = work[i] \cup {b}
      BY <1>4 DEF AdmitItem, IndInv, TypeOK
  <2>2. Lag(work'[i]) <= Lag(work[i]) + 1 /\ Lag(work[i]) \in Nat /\ Lag(work'[i]) \in Nat
    <3>1. work'[i] \in SUBSET Bucket
        BY <1>2, <2>1, NewBucketType
    <3> QED BY <1>2, <2>1, <3>1, AddBucket, CountedType
  <2>3. /\ quota[i].Remaining # {0}
        /\ quota'[i].Remaining = {n - 1 : n \in quota[i].Remaining}
      BY <1>1, <1>2, <1>4 DEF getResult, ShouldDisrupt, AdmitBatchItem, disruptState, QuotaState
  <2>4. ASSUME InitLagLimit # 0
        PROVE  \E n \in Nat : quota'[i].Remaining = {n} /\ Lag(work'[i]) + n <= InitLagLimit
    <3>1. PICK n \in Nat : quota[i].Remaining = {n} /\ Lag(work[i]) + n <= InitLagLimit
        BY <2>4 DEF LimitLeft
    <3>2. n # 0 /\ quota'[i].Remaining = {n - 1}
        BY <2>3, <3>1
    <3>3. n - 1 \in Nat /\ Lag(work'[i]) + (n - 1) <= InitLagLimit
        BY <2>2, <3>1, <3>2, AdmissionAssumption
    <3> QED BY <3>2, <3>3
  <2> QED BY <1>1, <2>4 DEF LimitLeft, Within
<1> QED BY <1>3, <1>4

(* Every step leaves revisions and executions within the limit, if it never changes. *)
LEMMA LagStep ==
    ASSUME LagLimits = {InitLagLimit}, IndInv, LagInv, [Next]_vars
    PROVE  LagInv'
<1>0. InitLagLimit \in Nat /\ ppr \in Protector /\ Within(ppr)
    BY AdmissionAssumption DEF IndInv, TypeOK, LagInv
<1>1. Within(ppr)'
  <2>1. ASSUME NEW i \in Replicas, NEW h \in Summarize(work[i]), Judged(i, h), UpdateStatus(i, h)
        PROVE  Within(ppr)'
    <3>1. base[i] = ppr /\ Keeps(h, work[i]) /\ work[i] \in SUBSET Bucket
        BY <2>1, CommitFacts, JudgedFacts DEF IndInv, TypeOK
    <3>2. ppr'.history = h /\ ppr'.maxLag = ppr.maxLag
        BY <1>0, <2>1, <3>1 DEF UpdateStatus, Protector
    <3>3. Lag(h) \in Nat /\ Lag(work[i]) \in Nat /\ Lag(h) <= Lag(work[i])
        BY <3>1, KeepsLag
    <3>4. ASSUME InitLagLimit # 0 PROVE Lag(h) <= InitLagLimit
      <4>1. PICK n \in Nat : Lag(work[i]) + n <= InitLagLimit
          BY <2>1, <3>4 DEF LagInv, LimitLeft, Judged
      <4> QED BY <1>0, <3>3, <4>1
    <3> QED BY <1>0, <3>2, <3>4 DEF Within
  <2>2. ASSUME NEW c \in Cells, NEW t \in Nat, Aggregate(c, t) PROVE Within(ppr)'
    <3>1. PICK h \in Summarize(Outstanding(c, t)) : ppr'.history = h /\ ppr'.maxLag = ppr.maxLag
        BY <1>0, <2>2 DEF Aggregate, Protector
    <3>2. ppr.history \in SUBSET Bucket /\ Outstanding(c, t) \in SUBSET ppr.history
        BY <1>0 DEF Outstanding, Protector
    <3>3. Lag(h) \in Nat /\ Lag(ppr.history) \in Nat /\ Lag(h) <= Lag(ppr.history)
        BY <3>2, SummarizeKeeps, KeepsLag
    <3> QED BY <1>0, <3>1, <3>3 DEF Within
  <2>3. ASSUME NEW min, NEW maxLag \in LagLimits, ChangeSpec(min, maxLag) PROVE Within(ppr)'
    <3>1. ppr'.history = ppr.history /\ ppr'.maxLag = InitLagLimit
        BY <1>0, <2>3 DEF ChangeSpec, Protector
    <3> QED BY <1>0, <3>1 DEF Within
  <2>4. CASE ppr' = ppr
      BY <1>0, <2>4 DEF Within
  <2> QED BY <2>1, <2>2, <2>3, <2>4, StoreSteps
<1>2. ASSUME NEW j \in Replicas PROVE Within(cache[j])'
  <2>1. cache'[j] = cache[j] \/ cache'[j] = ppr
      BY CacheSteps
  <2> QED BY <2>1 DEF LagInv, Within
<1>3. ASSUME NEW j \in Replicas, phase'[j] = "execute" PROVE LimitLeft(j)'
  <2>1. CASE StartExecute(j)
      BY <2>1, StartExecuteLimit
  <2>2. CASE phase[j] = "execute" /\ base'[j] = base[j] /\ SameExecution(j)
      BY <2>2 DEF LagInv, LimitLeft, SameExecution, Within
  <2>3. ASSUME phase[j] = "execute", NEW r \in Reviews, AdmitItem(j, r) PROVE LimitLeft(j)'
      BY <2>3, AdmitItemLimit DEF LagInv
  <2> QED BY <1>3, <2>1, <2>2, <2>3, ExecutionSteps
<1> QED BY <1>1, <1>2, <1>3 DEF LagInv

(* The empty history counts nothing. *)
LEMMA LagInit == Init => LagInv
<1> SUFFICES ASSUME Init PROVE LagInv
    OBVIOUS
<1>1. Counted({}) = {}
    BY CountedMember
<1>2. Lag({}) = 0
    BY <1>1, FS_EmptySet DEF Lag
<1>3. Within(InitPpr)
    BY <1>2, AdmissionAssumption DEF Within, InitPpr
<1>4. ppr = InitPpr /\ \A i \in Replicas : cache[i] = InitPpr /\ phase[i] = "gather"
    BY DEF Init
<1> QED BY <1>3, <1>4 DEF LagInv

(***************************************************************************)
(* "Maximum sum of AdmissionCount.Counter at any point" (types.go,         *)
(* MaxConcurrentLag), across replicas with caches of any age: no write     *)
(* makes the sum of the counters grow beyond the limit.  The limit must    *)
(* not be changed: quota.go tests what is left of it for equality with     *)
(* zero, so a limit that is lowered below the sum limits nothing.          *)
(***************************************************************************)
THEOREM LagAlwaysLimited ==
    ASSUME LagLimits = {InitLagLimit}
    PROVE  Spec => LagStaysLimited
<1> DEFINE limited == ppr'.maxLag # 0 /\ Lag(ppr'.history) > Lag(ppr.history)
                          => Lag(ppr'.history) <= ppr'.maxLag
<1>1. IndInv /\ LagInv /\ [Next]_vars => LagInv'
    BY LagStep
<1>2. LagInv' => [limited]_vars
    BY DEF LagInv, Within
<1> QED BY <1>1, <1>2, LagInit, Inductive, PTL DEF Spec, LagStaysLimited
=============================================================================
