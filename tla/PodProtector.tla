---------------------------- MODULE PodProtector ----------------------------
(***************************************************************************)
(* The admission history that a PodProtector keeps in its status           *)
(* (apis/v1alpha1/types.go) and the operations on it                       *)
(* (util/podprotector/podprotector.go).                                    *)
(*                                                                         *)
(* A history is a set of buckets, each in the cell it belongs to.  Time is *)
(* the revision of the object: StartTime is read from the clock of the     *)
(* webhook after it read a revision and before it wrote the next one, and  *)
(* a write succeeds only on the revision that was read, so the start times *)
(* of the buckets are ordered as the revisions that wrote them.            *)
(*                                                                         *)
(* The Counter of a bucket is kept as the set of reviews it counts, the    *)
(* field charged, so that the number the code stores is its cardinality.   *)
(* The field reviews is not in the code: it is the set of all reviews that *)
(* rely on the bucket, those that were merged into it included.            *)
(***************************************************************************)
EXTENDS Integers, FiniteSets

CONSTANTS Cells,             \* the cells that pods are partitioned into
          Pods,              \* the pods selected by the PodProtector
          CellOf,            \* the cell of each pod
          Reviews,           \* the admission reviews for deletions of these pods
          PodOf,             \* the pod each review is about
          CompactThreshold,  \* AdmissionHistoryConfig.CompactThreshold
          NoUid              \* the absent PodUid of a compacted bucket

ASSUME PodProtectorAssumption ==
    /\ IsFiniteSet(Pods)
    /\ IsFiniteSet(Reviews)
    /\ CellOf \in [Pods -> Cells]
    /\ PodOf \in [Reviews -> Pods]
    /\ CompactThreshold \in Nat \ {0}
    /\ NoUid \notin Pods

(* PodProtectorAdmissionBucket; endTime of a single-pod bucket is its startTime. *)
Bucket ==
    [cell      : Cells,
     podUid    : Pods \cup {NoUid},
     startTime : Nat,
     endTime   : Nat,
     charged   : SUBSET Reviews,
     reviews   : SUBSET Reviews]

(* The bucket that approving review r at time t appends. *)
NewBucket(r, t) ==
    [cell |-> CellOf[PodOf[r]], podUid |-> PodOf[r], startTime |-> t, endTime |-> t,
     charged |-> {r}, reviews |-> {r}]

InCell(history, c) == {b \in history : b.cell = c}

(* The reviews the counters of the history count; their number is the lag. *)
Counted(history) == UNION {b.charged : b \in history}

(* The reviews that rely on a bucket of the history. *)
Reserved(history) == UNION {b.reviews : b \in history}

PodsOf(reviews) == {PodOf[r] : r \in reviews}

-----------------------------------------------------------------------------
(* The buckets that may come first when buckets are sorted by start time. *)
Oldest(buckets) ==
    {b \in buckets : \A o \in buckets : b.startTime <= o.startTime}

(***************************************************************************)
(* The sets of n buckets that may precede all others after the sort, which *)
(* is not stable: any order of equal start times is possible.              *)
(***************************************************************************)
OldestGroups(buckets, n) ==
    {d \in SUBSET buckets :
        /\ Cardinality(d) = n
        /\ \A b \in d, o \in buckets \ d : b.startTime <= o.startTime}

EndTimeForgotten(merged, first) ==   \* mutant: the end time of the first bucket is kept
    {[first EXCEPT !.podUid = NoUid, !.reviews = Reserved(merged)]}

(***************************************************************************)
(* The buckets of merged collapse into the first one of them.  It takes    *)
(* the latest end time of all, and keeps its own counter: a single-pod     *)
(* bucket becomes a compacted one with Counter 1, and the counters of the  *)
(* others are not added to it.                                             *)
(***************************************************************************)
CompactedBuckets(merged, first) ==
    {[first EXCEPT !.podUid  = NoUid,
                   !.endTime = e,
                   !.reviews = Reserved(merged)] :
        e \in {e \in {b.endTime : b \in merged} : \A b \in merged : b.endTime <= e}}

(* What CompactBuckets may leave of the buckets of one cell. *)
CompactBuckets(buckets) ==
    LET delta == Cardinality(buckets) - CompactThreshold
    IN  IF delta <= 0
        THEN {buckets}
        ELSE UNION {UNION {{(buckets \ d) \cup {compact} :
                                compact \in CompactedBuckets(d, first)} :
                           first \in Oldest(d)} :
                    d \in OldestGroups(buckets, delta + 1)}

(***************************************************************************)
(* Summarize compacts the buckets of every cell.  The sums it computes     *)
(* from them are AggregatedAvailable and EstimatedAvailable =              *)
(* AggregatedAvailable - Lag(history).                                     *)
(***************************************************************************)
Summarize(history) ==
    LET outcomes == UNION {CompactBuckets(InCell(history, c)) : c \in Cells}
    IN  {UNION {f[c] : c \in Cells} :
            f \in {f \in [Cells -> outcomes] :
                       \A c \in Cells : f[c] \in CompactBuckets(InCell(history, c))}}

Lag(history) == Cardinality(Counted(history))
=============================================================================
