------------------------- MODULE PodProtectorProofs -------------------------
(***************************************************************************)
(* What the operations on the admission history preserve, for every set of *)
(* cells, pods and reviews and every compaction threshold.                 *)
(***************************************************************************)
EXTENDS PodProtector, FiniteSetTheorems, TLAPS

(***************************************************************************)
(* h keeps all that the correctness of the webhook needs of history H:     *)
(* every reservation, with a bucket of the same cell that ends no earlier; *)
(* no review is counted that was not; single-pod buckets are unchanged;    *)
(* and no end time is invented.                                            *)
(***************************************************************************)
Keeps(h, H) ==
    /\ h \in SUBSET Bucket
    /\ Reserved(h) = Reserved(H)
    /\ Counted(h) \subseteq Counted(H)
    /\ \A b \in h : \A r \in b.reviews :
          \E o \in H : r \in o.reviews /\ o.cell = b.cell /\ o.endTime <= b.endTime
    /\ \A b \in h : b.podUid # NoUid => b \in H
    /\ \A b \in h : \E o \in H : b.endTime = o.endTime

(* Membership in the reservations of a history. *)
LEMMA ReservedMember ==
    ASSUME NEW H, NEW r
    PROVE  r \in Reserved(H) <=> \E b \in H : r \in b.reviews
BY DEF Reserved

(* Membership in the counted reviews of a history. *)
LEMMA CountedMember ==
    ASSUME NEW H, NEW r
    PROVE  r \in Counted(H) <=> \E b \in H : r \in b.charged
BY DEF Counted

(* Merging one group of buckets of a cell keeps what matters. *)
LEMMA CompactOneKeeps ==
    ASSUME NEW c, NEW B \in SUBSET Bucket, \A b \in B : b.cell = c,
           NEW d \in SUBSET B, NEW first \in d,
           NEW compact \in CompactedBuckets(d, first)
    PROVE  Keeps((B \ d) \cup {compact}, B)
<1> DEFINE h == (B \ d) \cup {compact}
<1>1. PICK e \in {b.endTime : b \in d} :
          /\ \A b \in d : b.endTime <= e
          /\ compact = [first EXCEPT !.podUid = NoUid, !.endTime = e, !.reviews = Reserved(d)]
    BY DEF CompactedBuckets
<1>2. PICK last \in d : e = last.endTime
    BY <1>1
<1>3. first \in Bucket /\ last \in Bucket
    BY <1>2
<1>4. Reserved(d) \subseteq Reviews
    BY ReservedMember DEF Bucket
<1>5. /\ compact \in Bucket
      /\ compact.cell = first.cell /\ compact.podUid = NoUid /\ compact.endTime = e
      /\ compact.charged = first.charged /\ compact.reviews = Reserved(d)
    BY <1>1, <1>2, <1>3, <1>4 DEF Bucket
<1>6. h \in SUBSET Bucket
    BY <1>5
<1>7. Reserved(h) = Reserved(B)
  <2>1. ASSUME NEW r \in Reserved(h) PROVE r \in Reserved(B)
    BY <2>1, <1>5, ReservedMember
  <2>2. ASSUME NEW r \in Reserved(B) PROVE r \in Reserved(h)
    BY <2>2, <1>5, ReservedMember
  <2> QED BY <2>1, <2>2
<1>8. Counted(h) \subseteq Counted(B)
    BY <1>5, CountedMember
<1>9. ASSUME NEW b \in h, NEW r \in b.reviews
      PROVE  \E o \in B : r \in o.reviews /\ o.cell = b.cell /\ o.endTime <= b.endTime
  <2>1. CASE b = compact
    <3>1. PICK o \in d : r \in o.reviews
        BY <2>1, <1>5, <1>9, ReservedMember
    <3>2. o \in B /\ o.cell = first.cell /\ o.endTime <= e
        BY <1>1
    <3> QED BY <3>1, <3>2, <2>1, <1>5
  <2>2. CASE b \in B \ d
    <3>1. b.endTime \in Nat
        BY <2>2 DEF Bucket
    <3> QED BY <3>1, <2>2, <1>9
  <2> QED BY <2>1, <2>2
<1>10. \A b \in h : b.podUid # NoUid => b \in B
    BY <1>5
<1>11. \A b \in h : \E o \in B : b.endTime = o.endTime
    BY <1>2, <1>5
<1> QED BY <1>6, <1>7, <1>8, <1>9, <1>10, <1>11 DEF Keeps

(* A history keeps its own reservations. *)
LEMMA KeepsItself ==
    ASSUME NEW H \in SUBSET Bucket
    PROVE  Keeps(H, H)
<1>1. \A b \in H : b.endTime \in Nat
    BY DEF Bucket
<1> QED BY <1>1 DEF Keeps

(* CompactBuckets keeps what matters of the buckets of one cell. *)
LEMMA CompactBucketsKeeps ==
    ASSUME NEW c, NEW B \in SUBSET Bucket, \A b \in B : b.cell = c,
           NEW h \in CompactBuckets(B)
    PROVE  Keeps(h, B)
<1> DEFINE delta == Cardinality(B) - CompactThreshold
<1>1. CASE delta <= 0
    BY <1>1, KeepsItself DEF CompactBuckets
<1>2. CASE ~(delta <= 0)
  <2>1. PICK d \in OldestGroups(B, delta + 1) :
          h \in UNION {{(B \ d) \cup {compact} : compact \in CompactedBuckets(d, first)} :
                       first \in Oldest(d)}
      BY <1>2 DEF CompactBuckets
  <2>2. PICK first \in Oldest(d) :
          h \in {(B \ d) \cup {compact} : compact \in CompactedBuckets(d, first)}
      BY <2>1
  <2>3. PICK compact \in CompactedBuckets(d, first) : h = (B \ d) \cup {compact}
      BY <2>2
  <2>4. d \in SUBSET B /\ first \in d
      BY DEF OldestGroups, Oldest
  <2> QED BY <2>3, <2>4, CompactOneKeeps
<1> QED BY <1>1, <1>2

(***************************************************************************)
(* Summarize, which the webhook and the aggregator call before every write *)
(* of the status, keeps every reservation of every cell.                   *)
(***************************************************************************)
THEOREM SummarizeKeeps ==
    ASSUME NEW H \in SUBSET Bucket, NEW h \in Summarize(H)
    PROVE  Keeps(h, H)
<1> DEFINE outcomes == UNION {CompactBuckets(InCell(H, c)) : c \in Cells}
<1>1. PICK f \in [Cells -> outcomes] :
          /\ \A c \in Cells : f[c] \in CompactBuckets(InCell(H, c))
          /\ h = UNION {f[c] : c \in Cells}
    BY DEF Summarize
<1>2. \A c \in Cells : InCell(H, c) \in SUBSET Bucket /\ \A b \in InCell(H, c) : b.cell = c
    BY DEF InCell
<1>3. ASSUME NEW c \in Cells PROVE Keeps(f[c], InCell(H, c))
  <2>1. f[c] \in CompactBuckets(InCell(H, c))
    BY <1>1
  <2>2. InCell(H, c) \in SUBSET Bucket /\ \A b \in InCell(H, c) : b.cell = c
    BY <1>2
  <2> QED BY <2>1, <2>2, CompactBucketsKeeps
<1>4. \A b : b \in h <=> \E c \in Cells : b \in f[c]
    BY <1>1
<1>5. \A c \in Cells : \A o \in InCell(H, c) : o \in H
    BY DEF InCell
<1>6. \A o \in H : o.cell \in Cells /\ o \in InCell(H, o.cell)
    BY DEF InCell, Bucket
<1>7. h \in SUBSET Bucket
    BY <1>3, <1>4 DEF Keeps
<1>8. Reserved(h) = Reserved(H)
  <2>1. ASSUME NEW r \in Reserved(h) PROVE r \in Reserved(H)
    <3>1. PICK b \in h : r \in b.reviews
        BY ReservedMember
    <3>2. PICK c \in Cells : b \in f[c]
        BY <1>4
    <3>3. PICK o \in InCell(H, c) : r \in o.reviews
        BY <3>1, <3>2, <1>3 DEF Keeps
    <3> QED BY <3>3, <1>5, ReservedMember
  <2>2. ASSUME NEW r \in Reserved(H) PROVE r \in Reserved(h)
    <3>1. PICK o \in H : r \in o.reviews
        BY ReservedMember
    <3>2. r \in Reserved(InCell(H, o.cell)) /\ o.cell \in Cells
        BY <3>1, <1>6, ReservedMember
    <3>3. r \in Reserved(f[o.cell])
        BY <3>2, <1>3 DEF Keeps
    <3>4. PICK b \in f[o.cell] : r \in b.reviews
        BY <3>3, ReservedMember
    <3> QED BY <3>2, <3>4, <1>4, ReservedMember
  <2> QED BY <2>1, <2>2
<1>9. ASSUME NEW r \in Counted(h) PROVE r \in Counted(H)
  <2>1. PICK b \in h : r \in b.charged
      BY CountedMember
  <2>2. PICK c \in Cells : b \in f[c]
      BY <1>4
  <2>3. r \in Counted(f[c])
      BY <2>1, <2>2, CountedMember
  <2>4. r \in Counted(InCell(H, c))
      BY <2>3, <1>3 DEF Keeps
  <2> QED BY <2>4, <1>5, CountedMember
<1>10. ASSUME NEW b \in h, NEW r \in b.reviews
       PROVE  \E o \in H : r \in o.reviews /\ o.cell = b.cell /\ o.endTime <= b.endTime
    BY <1>3, <1>4, <1>5, <1>10 DEF Keeps
<1>11. \A b \in h : b.podUid # NoUid => b \in H
    BY <1>3, <1>4, <1>5 DEF Keeps
<1>12. \A b \in h : \E o \in H : b.endTime = o.endTime
    BY <1>3, <1>4, <1>5 DEF Keeps
<1> QED BY <1>7, <1>8, <1>9, <1>10, <1>11, <1>12 DEF Keeps

(* No cell has more buckets than CompactThreshold. *)
Small(history) ==
    \A c \in Cells : /\ IsFiniteSet(InCell(history, c))
                     /\ Cardinality(InCell(history, c)) <= CompactThreshold

(* CompactBuckets leaves no more than CompactThreshold buckets of a cell, all of that cell. *)
LEMMA CompactBucketsBounds ==
    ASSUME NEW c, NEW B \in SUBSET Bucket, \A b \in B : b.cell = c, IsFiniteSet(B),
           NEW h \in CompactBuckets(B)
    PROVE  /\ \A b \in h : b.cell = c
           /\ IsFiniteSet(h) /\ Cardinality(h) <= CompactThreshold
           /\ Cardinality(B) <= CompactThreshold => h = B
<1> DEFINE n == Cardinality(B)
           delta == n - CompactThreshold
<1>1. n \in Nat /\ CompactThreshold \in Nat \ {0}
    BY FS_CardinalityType, PodProtectorAssumption
<1>2. CASE delta <= 0
    BY <1>1, <1>2 DEF CompactBuckets
<1>3. CASE ~(delta <= 0)
  <2>1. PICK d \in OldestGroups(B, delta + 1) :
          h \in UNION {{(B \ d) \cup {compact} : compact \in CompactedBuckets(d, first)} :
                       first \in Oldest(d)}
      BY <1>3 DEF CompactBuckets
  <2>2. PICK first \in Oldest(d) :
          h \in {(B \ d) \cup {compact} : compact \in CompactedBuckets(d, first)}
      BY <2>1
  <2>3. PICK compact \in CompactedBuckets(d, first) : h = (B \ d) \cup {compact}
      BY <2>2
  <2>4. d \in SUBSET B /\ first \in d /\ Cardinality(d) = delta + 1
      BY DEF OldestGroups, Oldest
  <2>5. compact.cell = c
      BY <2>4 DEF CompactedBuckets, Bucket
  <2> HIDE DEF n
  <2>6. IsFiniteSet(B \ d) /\ Cardinality(B \ d) = n - Cardinality(B \cap d)
      BY FS_Difference DEF n
  <2>7. Cardinality(B \cap d) = n - CompactThreshold + 1
    <3>1. B \cap d = d
        BY <2>4
    <3> QED BY <2>4, <3>1
  <2>8. Cardinality(B \ d) = CompactThreshold - 1
    <3>1. n - (n - CompactThreshold + 1) = CompactThreshold - 1
        BY <1>1
    <3> QED BY <2>6, <2>7, <3>1
  <2>9. IsFiniteSet(h) /\ Cardinality(h) <= CompactThreshold
    <3> DEFINE rest == B \ d
    <3> HIDE DEF rest
    <3>1. IsFiniteSet(rest) /\ Cardinality(rest) = CompactThreshold - 1 /\ h = rest \cup {compact}
        BY <2>3, <2>6, <2>8 DEF rest
    <3>2. CASE compact \in rest
      <4>1. h = rest
          BY <3>1, <3>2
      <4>2. IsFiniteSet(h) /\ Cardinality(h) = CompactThreshold - 1
          BY <3>1, <4>1
      <4> QED BY <1>1, <4>2
    <3>3. CASE compact \notin rest
      <4>1. IsFiniteSet(rest \cup {compact}) /\ Cardinality(rest \cup {compact}) = Cardinality(rest) + 1
          BY <3>1, <3>3, FS_AddElement
      <4>2. IsFiniteSet(h) /\ Cardinality(h) = (CompactThreshold - 1) + 1
          BY <3>1, <4>1
      <4> QED BY <1>1, <4>2
    <3> QED BY <3>2, <3>3
  <2> QED BY <1>1, <1>3, <2>3, <2>5, <2>9 DEF n
<1> QED BY <1>2, <1>3

(***************************************************************************)
(* Summarize bounds the history: what it leaves has at most                *)
(* CompactThreshold buckets in every cell, and of a history that already   *)
(* has no more nothing is compacted.                                       *)
(***************************************************************************)
THEOREM SummarizeBounds ==
    ASSUME NEW H \in SUBSET Bucket, \A c \in Cells : IsFiniteSet(InCell(H, c)), NEW h \in Summarize(H)
    PROVE  Small(h) /\ (Small(H) => h = H)
<1> DEFINE outcomes == UNION {CompactBuckets(InCell(H, c)) : c \in Cells}
<1>1. PICK f \in [Cells -> outcomes] :
          /\ \A c \in Cells : f[c] \in CompactBuckets(InCell(H, c))
          /\ h = UNION {f[c] : c \in Cells}
    BY DEF Summarize
<1>2. ASSUME NEW c \in Cells
      PROVE  /\ \A b \in f[c] : b.cell = c
             /\ IsFiniteSet(f[c]) /\ Cardinality(f[c]) <= CompactThreshold
             /\ Small(H) => f[c] = InCell(H, c)
  <2>1. f[c] \in CompactBuckets(InCell(H, c)) /\ IsFiniteSet(InCell(H, c))
      BY <1>1
  <2>2. InCell(H, c) \in SUBSET Bucket /\ \A b \in InCell(H, c) : b.cell = c
      BY DEF InCell
  <2> QED BY <2>1, <2>2, CompactBucketsBounds DEF Small
<1>3. \A b : b \in h <=> \E c \in Cells : b \in f[c]
    BY <1>1
<1>4. \A c \in Cells : InCell(h, c) = f[c]
    BY <1>2, <1>3 DEF InCell
<1>5. Small(h)
    BY <1>2, <1>4 DEF Small
<1>6. ASSUME Small(H) PROVE h = H
  <2>1. \A b \in H : b.cell \in Cells /\ b \in InCell(H, b.cell)
      BY DEF InCell, Bucket
  <2>2. \A c \in Cells : f[c] = InCell(H, c)
      BY <1>2, <1>6
  <2> QED BY <2>1, <2>2, <1>3 DEF InCell
<1> QED BY <1>5, <1>6

(* No more pods than reviews. *)
LEMMA PodsOfCardinality ==
    ASSUME NEW R \in SUBSET Reviews
    PROVE  /\ IsFiniteSet(R) /\ IsFiniteSet(PodsOf(R))
           /\ Cardinality(PodsOf(R)) <= Cardinality(R)
<1>1. IsFiniteSet(R)
    BY FS_Subset, PodProtectorAssumption
<1> DEFINE f == [r \in R |-> PodOf[r]]
<1>2. f \in Surjection(R, PodsOf(R))
    BY DEF Surjection, PodsOf
<1> QED BY <1>1, <1>2, FS_Surjection
=============================================================================
