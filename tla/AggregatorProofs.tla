-------------------------- MODULE AggregatorProofs --------------------------
(***************************************************************************)
(* Proofs about Aggregator, for any number of pods, shards, reviews and    *)
(* faults and for either algorithm of the sync time: whenever the          *)
(* aggregator has nothing left to do, the stored count is that of the pods *)
(* and every outstanding bucket of a known pod waits for the next event.   *)
(*                                                                         *)
(* That is a statement about a state in which nothing is under way, and    *)
(* says nothing of the states before it.  The invariant follows a change   *)
(* of a pod on its way: what the watch has still to deliver turns the      *)
(* store into what the apiserver has (Delivered), what the handlers have   *)
(* still to do turns the index into what the store has (Tracks), a         *)
(* reconciliation under way has read what the store holds, except of pods  *)
(* whose handler will wake it up again (PodsRead, CountRead), and an idle  *)
(* one has written it (CountStored).                                       *)
(***************************************************************************)
EXTENDS Aggregator, PodProtectorProofs

(* A store that handles event e holds this for its pod. *)
Result(e) == IF e.gone THEN Absent ELSE e.obj

(* No event of q is of pod p; the last one of p leaves o. *)
NoneOf(q, p)     == \A k \in 1..Len(q) : q[k].pod # p
LastOf(q, p, o)  == \A k \in 1..Len(q) :
                        q[k].pod = p /\ (\A j \in k + 1 .. Len(q) : q[j].pod # p) => Result(q[k]) = o

(* Events of shard s: pods that exist are in a state of their own. *)
Routed(q, s) == \A k \in 1..Len(q) : ShardOf[q[k].pod] = s /\ (~q[k].gone => q[k].obj # Absent)

(* The events whose pods the index does not know of yet. *)
Untracked(s) == IF stage[s] = "drain" THEN Tail(notices[s]) ELSE notices[s]

-----------------------------------------------------------------------------
Task ==
    [ppr : Protector, unread : SUBSET Pods, failed : BOOLEAN, pods : SUBSET (Pods \X PodObject),
     available : SUBSET Pods, requeue : Nat, shards : SUBSET Shards, times : [Shards -> Nat]]

TaskTyped ==
    /\ task \in Task /\ IsFiniteSet(task.pods)
    /\ pc # "pods" => task.unread = {}
    /\ \A q \in task.pods : q[1] \notin task.unread

EventsRouted == \A s \in Shards : Routed(watch[s], s) /\ Routed(notices[s], s)

(* A PodProtector without a status of the cell counts nothing. *)
Empty(x) == ~x.cell => x.available = 0 /\ x.history = {}

(* A cached or copied PodProtector is the stored one or an older one. *)
Revision(x) == x = ppr \/ x.rv < ppr.rv

Revisions ==
    /\ ppr.rv > 0 /\ Revision(cache) /\ Empty(ppr) /\ Empty(cache)
    /\ pc # "idle" => cache # NoPpr /\ task.ppr # NoPpr /\ Revision(task.ppr) /\ Empty(task.ppr)

Delivered ==
    \A p \in Pods :
        /\ NoneOf(watch[ShardOf[p]], p) => lister[p] = obj[p]
        /\ LastOf(watch[ShardOf[p]], p, obj[p])

Tracks ==
    \A p \in Pods :
        /\ NoneOf(Untracked(ShardOf[p]), p) => (p \in index <=> lister[p] # Absent)
        /\ LastOf(Untracked(ShardOf[p]), p, lister[p])

(* The reconciliation will be repeated, or begin. *)
Woken == queued \/ alarm # 0

(* The handlers have finished with all that is in the store of pod p. *)
Handled(p) == NoneOf(notices[ShardOf[p]], p)
AllHandled == \A p \in Pods : Handled(p)

(* What a reconciliation finds of pod p. *)
Found(p) == {q \in {<<p, lister[p]>>} : q[2] # Absent /\ q[2].deleting = 0}

Available == {p \in Pods : IsPodAvailable(lister[p], now)}
NoneLater == \A p \in Pods : ~ReadyLater(lister[p], now)

(* The buckets of known pods wait for the next event. *)
Await(history) == \A b \in history : b.podUid \in NamedPods => ShardOf[b.podUid] \in pool

PodsRead ==
    pc # "idle" /\ ~Woken =>
        /\ task.ppr = cache
        /\ \A p \in Pods : Handled(p) /\ p \notin task.unread => {q \in task.pods : q[1] = p} = Found(p)

CountRead ==
    ~Woken /\ AllHandled =>
        /\ pc = "sync" /\ task.requeue = 0 => task.available = Available /\ NoneLater
        /\ pc = "write" => task.available = Available /\ NoneLater /\ Await(Outstanding(task))

CountStored ==
    ~Woken /\ AllHandled /\ pc = "idle" /\ cache = ppr =>
        ppr.available = Cardinality(Available) /\ NoneLater /\ Await(ppr.history)

IInv ==
    /\ TypeOK /\ TaskTyped /\ EventsRouted /\ Revisions
    /\ Delivered /\ Tracks /\ PodsRead /\ CountRead /\ CountStored

-----------------------------------------------------------------------------
(* Sequences of events. *)

(* Appending an event: none is of p if none was and this one is not. *)
LEMMA NoneAppend ==
    ASSUME NEW q \in Seq(Event), NEW e \in Event, NEW p
    PROVE  NoneOf(Append(q, e), p) <=> NoneOf(q, p) /\ e.pod # p
<1>1. /\ Len(Append(q, e)) = Len(q) + 1 /\ Len(q) \in Nat
      /\ Append(q, e)[Len(q) + 1] = e
      /\ \A k \in 1..Len(q) : Append(q, e)[k] = q[k]
    OBVIOUS
<1> DEFINE a == Append(q, e)
<1> HIDE DEF a
<1>2. Len(a) = Len(q) + 1 /\ a[Len(q) + 1] = e /\ \A k \in 1..Len(q) : a[k] = q[k]
    BY <1>1 DEF a
<1>3. NoneOf(a, p) <=> NoneOf(q, p) /\ e.pod # p
    BY <1>1, <1>2 DEF NoneOf
<1> QED BY <1>3 DEF a

(* The last event of p after another one is appended. *)
LEMMA LastAppend ==
    ASSUME NEW q \in Seq(Event), NEW e \in Event, NEW p, NEW o,
           \/ LastOf(q, p, o) /\ e.pod # p
           \/ Result(e) = o /\ e.pod = p
    PROVE  LastOf(Append(q, e), p, o)
<1>1. /\ Len(Append(q, e)) = Len(q) + 1 /\ Len(q) \in Nat
      /\ Append(q, e)[Len(q) + 1] = e
      /\ \A k \in 1..Len(q) : Append(q, e)[k] = q[k]
    OBVIOUS
<1> DEFINE a == Append(q, e)
<1> HIDE DEF a
<1>2. Len(a) = Len(q) + 1 /\ a[Len(q) + 1] = e /\ \A k \in 1..Len(q) : a[k] = q[k]
    BY <1>1 DEF a
<1>3. ASSUME NEW k \in 1..Len(a), a[k].pod = p, \A j \in k + 1 .. Len(a) : a[j].pod # p
      PROVE  Result(a[k]) = o
    <2>1. CASE k = Len(q) + 1
        BY <2>1, <1>2, <1>3
    <2>2. CASE k # Len(q) + 1
        <3>1. k \in 1..Len(q) /\ Len(q) + 1 \in k + 1 .. Len(a)
            BY <1>1, <1>2, <2>2
        <3>2. e.pod # p
            BY <3>1, <1>2, <1>3
        <3>3. \A j \in k + 1 .. Len(q) : j \in 1..Len(q) /\ j \in k + 1 .. Len(a)
            BY <3>1, <1>1, <1>2
        <3>4. \A j \in k + 1 .. Len(q) : q[j].pod # p
            BY <3>3, <1>2, <1>3
        <3>5. q[k].pod = p /\ a[k] = q[k]
            BY <3>1, <1>2, <1>3
        <3> QED BY <3>1, <3>2, <3>4, <3>5 DEF LastOf
    <2> QED BY <2>1, <2>2
<1>4. LastOf(a, p, o)
    BY <1>3 DEF LastOf
<1> QED BY <1>4 DEF a

(* Taking the first event: none is of p if the first is not and no other is. *)
LEMMA NoneTail ==
    ASSUME NEW q \in Seq(Event), q # <<>>, NEW p
    PROVE  NoneOf(q, p) <=> Head(q).pod # p /\ NoneOf(Tail(q), p)
<1>1. /\ Len(Tail(q)) = Len(q) - 1 /\ Len(q) \in Nat /\ Len(q) > 0 /\ Head(q) = q[1]
      /\ \A k \in 1..Len(q) - 1 : Tail(q)[k] = q[k + 1]
    OBVIOUS
<1> DEFINE a == Tail(q)
<1> HIDE DEF a
<1>2. Len(a) = Len(q) - 1 /\ \A k \in 1..Len(q) - 1 : a[k] = q[k + 1]
    BY <1>1 DEF a
<1>3. ASSUME q[1].pod # p, NoneOf(a, p), NEW k \in 1..Len(q)
      PROVE  q[k].pod # p
    <2>1. CASE k = 1
        BY <2>1, <1>3
    <2>2. CASE k # 1
        <3>1. k - 1 \in 1..Len(q) - 1 /\ (k - 1) + 1 = k
            BY <1>1, <2>2
        <3> QED BY <3>1, <1>2, <1>3 DEF NoneOf
    <2> QED BY <2>1, <2>2
<1>4. ASSUME NoneOf(q, p) PROVE q[1].pod # p /\ NoneOf(a, p)
    <2>1. 1 \in 1..Len(q) /\ \A k \in 1..Len(q) - 1 : k + 1 \in 1..Len(q)
        BY <1>1
    <2> QED BY <2>1, <1>2, <1>4 DEF NoneOf
<1>5. NoneOf(q, p) <=> q[1].pod # p /\ NoneOf(a, p)
    BY <1>3, <1>4 DEF NoneOf
<1> QED BY <1>1, <1>5 DEF a

(* The last event of p when the first is taken: that one, or one of the others. *)
LEMMA LastTail ==
    ASSUME NEW q \in Seq(Event), q # <<>>, NEW p, NEW o, LastOf(q, p, o)
    PROVE  /\ LastOf(Tail(q), p, o)
           /\ Head(q).pod = p /\ NoneOf(Tail(q), p) => Result(Head(q)) = o
<1>1. /\ Len(Tail(q)) = Len(q) - 1 /\ Len(q) \in Nat /\ Len(q) > 0 /\ Head(q) = q[1]
      /\ \A k \in 1..Len(q) - 1 : Tail(q)[k] = q[k + 1]
    OBVIOUS
<1> DEFINE a == Tail(q)
<1> HIDE DEF a
<1>2. Len(a) = Len(q) - 1 /\ \A k \in 1..Len(q) - 1 : a[k] = q[k + 1]
    BY <1>1 DEF a
<1>3. ASSUME NEW k \in 1..Len(a), \A j \in k + 1 .. Len(a) : a[j].pod # p, NEW j \in k + 2 .. Len(q)
      PROVE  q[j].pod # p
    <2>1. j - 1 \in k + 1 .. Len(a) /\ j - 1 \in 1..Len(q) - 1 /\ (j - 1) + 1 = j
        BY <1>1, <1>2
    <2> QED BY <2>1, <1>2, <1>3
<1>4. LastOf(a, p, o)
    <2> SUFFICES ASSUME NEW k \in 1..Len(a), a[k].pod = p, \A j \in k + 1 .. Len(a) : a[j].pod # p
                 PROVE  Result(a[k]) = o
        BY DEF LastOf
    <2>1. k + 1 \in 1..Len(q) /\ (k + 1) + 1 = k + 2 /\ a[k] = q[k + 1]
        BY <1>1, <1>2
    <2>2. \A j \in (k + 1) + 1 .. Len(q) : q[j].pod # p
        BY <2>1, <1>3
    <2> QED BY <2>1, <2>2 DEF LastOf
<1>5. ASSUME q[1].pod = p, NoneOf(a, p) PROVE Result(q[1]) = o
    <2>1. 1 \in 1..Len(q) /\ \A j \in 1 + 1 .. Len(q) : j - 1 \in 1..Len(q) - 1 /\ (j - 1) + 1 = j
        BY <1>1
    <2>2. ASSUME NEW j \in 1 + 1 .. Len(q) PROVE q[j].pod # p
        <3>1. j - 1 \in 1..Len(a) /\ q[j] = a[j - 1]
            BY <2>1, <1>2
        <3> QED BY <3>1, <1>5 DEF NoneOf
    <2> QED BY <2>1, <2>2, <1>5 DEF LastOf
<1> QED BY <1>1, <1>4, <1>5 DEF a

LEMMA AppendSome ==
    ASSUME NEW q \in Seq(Event), NEW e \in Event
    PROVE  Append(q, e) \in Seq(Event) /\ Append(q, e) # <<>>
<1> DEFINE a == Append(q, e)
<1>1. a \in Seq(Event) /\ Len(a) = Len(q) + 1 /\ Len(q) \in Nat
    OBVIOUS
<1> HIDE DEF a
<1>2. Len(a) # 0
    BY <1>1
<1>3. a # <<>>
    BY <1>2
<1> QED BY <1>1, <1>3 DEF a

(* An event is appended behind the first one. *)
LEMMA TailAppend ==
    ASSUME NEW q \in Seq(Event), q # <<>>, NEW e \in Event
    PROVE  Tail(Append(q, e)) = Append(Tail(q), e)
<1>1. /\ Append(q, e) \in Seq(Event) /\ Append(q, e) # <<>> /\ Len(Append(q, e)) = Len(q) + 1
      /\ Tail(q) \in Seq(Event) /\ Len(Tail(q)) = Len(q) - 1 /\ Len(q) \in Nat /\ Len(q) > 0
    OBVIOUS
<1> DEFINE a == Tail(Append(q, e))
           b == Append(Tail(q), e)
<1>2. a \in Seq(Event) /\ b \in Seq(Event) /\ Len(a) = Len(q) /\ Len(b) = Len(q)
    BY <1>1
<1>3. ASSUME NEW k \in 1..Len(q) PROVE a[k] = b[k]
    <2>1. a[k] = Append(q, e)[k + 1]
        BY <1>1
    <2>2. CASE k = Len(q)
        BY <2>1, <2>2, <1>1
    <2>3. CASE k # Len(q)
        <3>0. Len(q) \in Nat
            BY <1>1
        <3>1. k \in 1..Len(q) - 1 /\ k + 1 \in 1..Len(q)
            BY <2>3, <3>0
        <3>2. Append(q, e)[k + 1] = q[k + 1]
            BY <3>1
        <3>3. Tail(q)[k] = q[k + 1]
            BY <3>1
        <3>4. \A i \in 1..Len(Tail(q)) : b[i] = Tail(q)[i]
            BY <1>1
        <3>5. b[k] = Tail(q)[k]
            BY <3>1, <3>4, <1>1
        <3> QED BY <2>1, <3>2, <3>3, <3>5
    <2> QED BY <2>2, <2>3
<1> HIDE DEF a, b
<1>4. a = b
    BY <1>2, <1>3
<1> QED BY <1>4 DEF a, b

(* Without events of p there is no last one. *)
LEMMA NoneLast ==
    ASSUME NEW q, NEW p, NEW o, NoneOf(q, p)
    PROVE  LastOf(q, p, o)
BY DEF NoneOf, LastOf

(* The events of a shard stay events of that shard. *)
LEMMA RoutedAppend ==
    ASSUME NEW q \in Seq(Event), NEW e \in Event, NEW s, Routed(q, s),
           ShardOf[e.pod] = s, ~e.gone => e.obj # Absent
    PROVE  Routed(Append(q, e), s)
<1>1. /\ Len(Append(q, e)) = Len(q) + 1 /\ Len(q) \in Nat
      /\ Append(q, e)[Len(q) + 1] = e
      /\ \A k \in 1..Len(q) : Append(q, e)[k] = q[k]
    OBVIOUS
<1> DEFINE a == Append(q, e)
<1> HIDE DEF a
<1>2. Len(a) = Len(q) + 1 /\ a[Len(q) + 1] = e /\ \A k \in 1..Len(q) : a[k] = q[k]
    BY <1>1 DEF a
<1>3. Routed(a, s)
    BY <1>1, <1>2 DEF Routed
<1> QED BY <1>3 DEF a

LEMMA RoutedTail ==
    ASSUME NEW q \in Seq(Event), q # <<>>, NEW s, Routed(q, s)
    PROVE  /\ Routed(Tail(q), s)
           /\ ShardOf[Head(q).pod] = s
           /\ ~Head(q).gone => Head(q).obj # Absent
<1>1. /\ Len(Tail(q)) = Len(q) - 1 /\ Len(q) \in Nat /\ Len(q) > 0 /\ Head(q) = q[1]
      /\ \A k \in 1..Len(q) - 1 : Tail(q)[k] = q[k + 1]
    OBVIOUS
<1> DEFINE a == Tail(q)
<1> HIDE DEF a
<1>2. Len(a) = Len(q) - 1 /\ \A k \in 1..Len(q) - 1 : a[k] = q[k + 1]
    BY <1>1 DEF a
<1>3. 1 \in 1..Len(q) /\ \A k \in 1..Len(q) - 1 : k + 1 \in 1..Len(q)
    BY <1>1
<1>4. Routed(a, s)
    BY <1>2, <1>3 DEF Routed
<1>5. ShardOf[q[1].pod] = s /\ (~q[1].gone => q[1].obj # Absent)
    BY <1>3 DEF Routed
<1> QED BY <1>1, <1>4, <1>5 DEF a

(* The sequences of the elements of a finite set hold all of them and nothing else. *)
LEMMA SequencesOfSet ==
    ASSUME NEW S, IsFiniteSet(S), NEW f \in SetToSeqs(S)
    PROVE  /\ f \in Seq(S)
           /\ \A k \in 1..Len(f) : f[k] \in S
           /\ \A e \in S : \E k \in 1..Len(f) : f[k] = e
<1> DEFINE n == Cardinality(S)
<1>1. n \in Nat
    BY FS_CardinalityType
<1> HIDE DEF n
<1>2. f \in [1..n -> S] /\ \A i, j \in 1..n : i # j => f[i] # f[j]
    BY DEF SetToSeqs, n
<1>3. f \in Injection(1..n, S)
    BY <1>2 DEF Injection, IsInjective
<1>4. IsFiniteSet(1..n) /\ Cardinality(1..n) = n
    BY <1>1, FS_Interval
<1>5. f \in Surjection(1..n, S)
    BY <1>3, <1>4, FS_Injection DEF n
<1>6. f \in Seq(S) /\ Len(f) = n
    BY <1>1, <1>2
<1> QED BY <1>2, <1>5, <1>6 DEF Surjection

(***************************************************************************)
(* A list leaves of every pod what the apiserver has: each event of it     *)
(* does, and a pod of which it has none is neither there nor in the store. *)
(***************************************************************************)
LEMMA ListDelivers ==
    ASSUME obj \in [AllPods -> PodObject],
           NEW s \in Shards, NEW known \in [AllPods -> PodObject], NEW l \in Lists(s, known)
    PROVE  /\ l \in Seq(Event)
           /\ Routed(l, s)
           /\ \A k \in 1..Len(l) : Result(l[k]) = obj[l[k].pod]
           /\ \A p \in Pods : ShardOf[p] = s /\ NoneOf(l, p) => known[p] = obj[p]
<1> DEFINE Gone == Vanished(s, known)
           A == {EventOf(p, obj[p], FALSE) : p \in Present(s)}
           B == {EventOf(p, known[p], TRUE) : p \in Gone}
<1>1. IsFiniteSet(AllPods)
    BY PodProtectorAssumption, FS_AddElement DEF AllPods
<1>2. IsFiniteSet(Present(s)) /\ IsFiniteSet(Gone)
    BY <1>1, FS_Subset DEF Present, Vanished
<1>3. IsFiniteSet(A)
    <2> DEFINE f == [p \in Present(s) |-> EventOf(p, obj[p], FALSE)]
    <2>1. f \in Surjection(Present(s), A)
        BY DEF Surjection
    <2> QED BY <2>1, <1>2, FS_Surjection
<1>4. IsFiniteSet(B)
    <2> DEFINE f == [p \in Gone |-> EventOf(p, known[p], TRUE)]
    <2>1. f \in Surjection(Gone, B)
        BY DEF Surjection
    <2> QED BY <2>1, <1>2, FS_Surjection
<1>5. \E listed \in SetToSeqs(A), gone \in SetToSeqs(B) : l = listed \o gone
    BY DEF Lists
<1>6. \A e \in A : /\ e \in Event /\ ShardOf[e.pod] = s /\ e.obj # Absent
                   /\ ~e.gone /\ Result(e) = obj[e.pod]
    <2> SUFFICES ASSUME NEW p \in Present(s), NEW e, e = EventOf(p, obj[p], FALSE)
                 PROVE  /\ e \in Event /\ ShardOf[e.pod] = s /\ e.obj # Absent
                        /\ ~e.gone /\ Result(e) = obj[e.pod]
        OBVIOUS
    <2>1. p \in AllPods /\ ShardOf[p] = s /\ obj[p] # Absent /\ obj[p] \in PodObject
        BY DEF Present
    <2>2. e.pod = p /\ e.obj = obj[p] /\ ~e.gone
        BY DEF EventOf
    <2>3. e \in Event
        BY <2>1 DEF EventOf, Event
    <2> QED BY <2>1, <2>2, <2>3 DEF Result
<1>7. \A e \in B : e \in Event /\ ShardOf[e.pod] = s /\ e.gone /\ Result(e) = obj[e.pod]
    <2> SUFFICES ASSUME NEW p \in Gone, NEW e, e = EventOf(p, known[p], TRUE)
                 PROVE  e \in Event /\ ShardOf[e.pod] = s /\ e.gone /\ Result(e) = obj[e.pod]
        OBVIOUS
    <2>1. p \in AllPods /\ ShardOf[p] = s /\ obj[p] = Absent /\ known[p] \in PodObject
        BY DEF Vanished
    <2>2. e.pod = p /\ e.gone
        BY DEF EventOf
    <2>3. e \in Event
        BY <2>1 DEF EventOf, Event
    <2> QED BY <2>1, <2>2, <2>3 DEF Result
<1>8. \A p \in Pods : ShardOf[p] = s /\ obj[p] # Absent => \E e \in A : e.pod = p
    <2> SUFFICES ASSUME NEW p \in Pods, ShardOf[p] = s, obj[p] # Absent
                 PROVE  \E e \in A : e.pod = p
        OBVIOUS
    <2>1. p \in Present(s)
        BY DEF Present, AllPods
    <2>2. EventOf(p, obj[p], FALSE) \in A /\ EventOf(p, obj[p], FALSE).pod = p
        BY <2>1 DEF EventOf
    <2> QED BY <2>2
<1>9. \A p \in Pods : ShardOf[p] = s /\ obj[p] = Absent /\ known[p] # Absent => \E e \in B : e.pod = p
    <2> SUFFICES ASSUME NEW p \in Pods, ShardOf[p] = s, obj[p] = Absent, known[p] # Absent
                 PROVE  \E e \in B : e.pod = p
        OBVIOUS
    <2>1. p \in Gone
        BY DEF AllPods, Vanished
    <2>2. EventOf(p, known[p], TRUE) \in B /\ EventOf(p, known[p], TRUE).pod = p
        BY <2>1 DEF EventOf
    <2> QED BY <2>2
<1> HIDE DEF A, B
<1> PICK listed \in SetToSeqs(A), gone \in SetToSeqs(B) : l = listed \o gone
    BY <1>5
<1>10. /\ listed \in Seq(A) /\ gone \in Seq(B)
       /\ \A k \in 1..Len(listed) : listed[k] \in A
       /\ \A k \in 1..Len(gone) : gone[k] \in B
       /\ \A e \in A : \E k \in 1..Len(listed) : listed[k] = e
       /\ \A e \in B : \E k \in 1..Len(gone) : gone[k] = e
    BY <1>3, <1>4, SequencesOfSet
<1>11. listed \in Seq(Event) /\ gone \in Seq(Event)
    BY <1>6, <1>7, <1>10
<1>12. /\ l \in Seq(Event) /\ Len(l) = Len(listed) + Len(gone)
       /\ \A k \in 1..Len(listed) : l[k] = listed[k]
       /\ \A k \in 1..Len(gone) : l[Len(listed) + k] = gone[k]
    BY <1>11
<1>13. Len(listed) \in Nat /\ Len(gone) \in Nat
    BY <1>11
<1>14. \A k \in 1..Len(l) : l[k] \in A \cup B
    <2> SUFFICES ASSUME NEW k \in 1..Len(l) PROVE l[k] \in A \cup B
        OBVIOUS
    <2>1. CASE k <= Len(listed)
        BY <2>1, <1>10, <1>12, <1>13
    <2>2. CASE k > Len(listed)
        <3>1. k - Len(listed) \in 1..Len(gone) /\ Len(listed) + (k - Len(listed)) = k
            BY <2>2, <1>12, <1>13
        <3> QED BY <3>1, <1>10, <1>12
    <2> QED BY <2>1, <2>2, <1>13
<1>15. \A e \in A \cup B : \E k \in 1..Len(l) : l[k] = e
    <2>1. ASSUME NEW e \in A PROVE \E k \in 1..Len(l) : l[k] = e
        BY <1>10, <1>12, <1>13
    <2>2. ASSUME NEW e \in B PROVE \E k \in 1..Len(l) : l[k] = e
        <3>1. PICK k \in 1..Len(gone) : gone[k] = e
            BY <1>10, <2>2
        <3>2. Len(listed) + k \in 1..Len(l) /\ l[Len(listed) + k] = e
            BY <3>1, <1>12, <1>13
        <3> QED BY <3>2
    <2> QED BY <2>1, <2>2
<1>16. Routed(l, s) /\ \A k \in 1..Len(l) : Result(l[k]) = obj[l[k].pod]
    BY <1>6, <1>7, <1>14 DEF Routed
<1>17. ASSUME NEW p \in Pods, ShardOf[p] = s, NoneOf(l, p) PROVE known[p] = obj[p]
    <2>1. \A e \in A \cup B : e.pod # p
        BY <1>15, <1>17 DEF NoneOf
    <2> QED BY <2>1, <1>8, <1>9, <1>17
<1> QED BY <1>12, <1>16, <1>17

-----------------------------------------------------------------------------
(* Numbers. *)

(* A set of naturals that is not empty has a least element. *)
LEMMA MinElement ==
    ASSUME NEW S \in SUBSET Nat, S # {}
    PROVE  Min(S) \in S
<1>1. IsWellFoundedOn(OpToRel(<, Nat), Nat)
    BY NatLessThanWellFounded
<1>2. PICK x \in S : \A y \in S : ~ (<<y, x>> \in OpToRel(<, Nat))
    BY <1>1, WFMin, Zenon
<1>3. ASSUME NEW y \in S PROVE ~(y < x)
    <2>1. <<y, x>> \in Nat \X Nat /\ <<y, x>>[1] = y /\ <<y, x>>[2] = x
        OBVIOUS
    <2> QED BY <1>2, <2>1, Zenon DEF OpToRel
<1>4. \A y \in S : x <= y
    <2> SUFFICES ASSUME NEW y \in S PROVE x <= y
        BY Zenon
    <2>1. ~(y < x)
        BY <1>3, Zenon
    <2>2. x \in Nat /\ y \in Nat
        BY Zenon
    <2> QED BY <2>1, <2>2, SMT
<1> QED BY <1>4, Zenon DEF Min

LEMMA MaxOfTwo ==
    ASSUME NEW x \in Nat, NEW y \in Nat
    PROVE  Max({x, y}) \in Nat
<1>1. \E m \in {x, y} : \A z \in {x, y} : m >= z
    OBVIOUS
<1> QED BY <1>1 DEF Max

(* The time of an event is a time. *)
LEMMA InterpretedTime ==
    ASSUME NEW o \in PodObject, now \in Nat
    PROVE  Interpret(o) \in Nat
<1>1. o.deleting \in Nat /\ o.created \in Nat /\ o.touched \in Nat
    BY DEF PodObject
<1>2. (IF o.deleting # 0 THEN o.deleting ELSE o.created) \in Nat
    BY <1>1
<1> QED BY <1>1, <1>2, MaxOfTwo DEF Interpret, InterpretStatus

(***************************************************************************)
(* A pod that is not waiting for MinReady is available later exactly when  *)
(* it is available now.                                                    *)
(***************************************************************************)
LEMMA AvailableLater ==
    ASSUME NEW o \in PodObject, NEW t \in Nat, ~ReadyLater(o, t)
    PROVE  /\ ~ReadyLater(o, t + 1)
           /\ IsPodAvailable(o, t + 1) <=> IsPodAvailable(o, t)
<1>1. o.ready \in Nat /\ MinReady \in Nat
    BY AggregatorAssumption DEF PodObject
<1> QED BY <1>1 DEF ReadyLater, IsPodAvailable

-----------------------------------------------------------------------------
(* What a step that leaves the variables of a part of the invariant alone preserves. *)

LEMMA TaskFrame ==
    ASSUME TaskTyped, UNCHANGED <<pc, task>> PROVE TaskTyped'
BY DEF TaskTyped

LEMMA RoutedFrame ==
    ASSUME EventsRouted, UNCHANGED <<watch, notices>> PROVE EventsRouted'
BY DEF EventsRouted

LEMMA RevisionsFrame ==
    ASSUME Revisions, UNCHANGED <<ppr, cache, pc, task>> PROVE Revisions'
BY DEF Revisions, Revision

LEMMA DeliveredFrame ==
    ASSUME Delivered, UNCHANGED <<watch, lister, obj>> PROVE Delivered'
BY DEF Delivered

LEMMA TracksFrame ==
    ASSUME Tracks, UNCHANGED <<notices, stage, index, lister>> PROVE Tracks'
BY DEF Tracks, Untracked

LEMMA PodsReadFrame ==
    ASSUME PodsRead, UNCHANGED <<queue, pc, task, cache, notices, lister>> PROVE PodsRead'
BY DEF PodsRead, Woken, queue, Handled, Found

LEMMA CountReadFrame ==
    ASSUME CountRead, UNCHANGED <<queue, notices, pc, task, lister, now, pool>> PROVE CountRead'
BY DEF CountRead, Woken, queue, AllHandled, Handled, Available, NoneLater, Await

LEMMA CountStoredFrame ==
    ASSUME CountStored, UNCHANGED <<queue, notices, pc, cache, ppr, lister, now, pool>> PROVE CountStored'
BY DEF CountStored, Woken, queue, AllHandled, Handled, Available, NoneLater, Await

(* A step that leaves something in the queue makes no promise about the count. *)
LEMMA WokenKeeps ==
    ASSUME Woken' PROVE PodsRead' /\ CountRead' /\ CountStored'
BY DEF PodsRead, CountRead, CountStored, Woken

-----------------------------------------------------------------------------
(* The cell. *)

LEMMA TickKeeps ==
    ASSUME IInv, Tick PROVE IInv'
<1> USE DEF IInv
<1>1. /\ UNCHANGED <<obj, terminatedAt, approved, faults, spin, watch, lister, notices, stage, index,
                     syncTime, unsynced, pool, ppr, cache, queue, queued, alarm, pc, task>>
      /\ now' = now + 1 /\ now < MaxTime /\ now \in Nat /\ now' \in 1..MaxTime
    BY AggregatorAssumption DEF Tick, TypeOK, informers, queue
<1>2. TypeOK'
    BY <1>1 DEF TypeOK
<1>3. \A p \in Pods : lister[p] \in PodObject
    BY DEF TypeOK, AllPods
<1>4. NoneLater => NoneLater' /\ Available' = Available
    BY <1>1, <1>3, AvailableLater DEF NoneLater, Available
<1>5. /\ Woken' <=> Woken
      /\ AllHandled' <=> AllHandled
      /\ \A h : Await(h)' <=> Await(h)
      /\ Outstanding(task)' = Outstanding(task)
    BY <1>1 DEF Woken, AllHandled, Handled, Await
<1>6. CountRead'
    BY <1>1, <1>4, <1>5 DEF CountRead, Await
<1>7. CountStored'
    BY <1>1, <1>4, <1>5 DEF CountStored, Await
<1> QED BY <1>1, <1>2, <1>6, <1>7, TaskFrame, RoutedFrame, RevisionsFrame, DeliveredFrame, TracksFrame,
           PodsReadFrame DEF queue

(***************************************************************************)
(* A change of a pod leaves the parts of the aggregator alone; its event   *)
(* brings the change to the store.                                         *)
(***************************************************************************)
LEMMA EmitKeeps ==
    ASSUME IInv, NEW p \in AllPods, NEW o \in PodObject, NEW gone \in BOOLEAN,
           ~gone => o # Absent, Emit(p, o, gone), UNCHANGED <<now, local>>,
           /\ terminatedAt' \in [Pods -> 0..MaxTime]
           /\ approved' \subseteq Reviews
           /\ faults' \subseteq Faults
           /\ spin' \in {"create", "update"}
    PROVE  IInv'
<1> USE DEF IInv
<1>1. UNCHANGED <<now, lister, notices, stage, index, syncTime, unsynced, pool, ppr, cache, queue,
                  queued, alarm, pc, task>>
    BY DEF local, queue
<1> DEFINE e == EventOf(p, o, gone)
           s == ShardOf[p]
<1>2. e \in Event /\ e.pod = p /\ Result(e) = (IF gone THEN Absent ELSE o) /\ (~e.gone => e.obj # Absent)
    BY DEF EventOf, Event, Result
<1>3. Absent \in PodObject
    BY DEF Absent, PodObject
<1>4. s \in Shards /\ \A q \in Pods : q \in AllPods /\ ShardOf[q] \in Shards
    BY AggregatorAssumption DEF AllPods
<1>5. /\ watch' = [watch EXCEPT ![s] = Append(watch[s], e)]
      /\ obj' = [obj EXCEPT ![p] = Result(e)]
    BY <1>2 DEF Emit
<1> HIDE DEF e, s
<1>6. watch \in [Shards -> Seq(Event)] /\ watch[s] \in Seq(Event) /\ obj \in [AllPods -> PodObject]
    BY <1>4 DEF TypeOK
<1>7. watch' \in [Shards -> Seq(Event)] /\ obj' \in [AllPods -> PodObject]
    <2>1. Append(watch[s], e) \in Seq(Event) /\ Result(e) \in PodObject
        BY <1>2, <1>3, <1>6
    <2> QED BY <2>1, <1>4, <1>5, <1>6
<1>8. TypeOK'
    BY <1>1, <1>7 DEF TypeOK
<1>9. EventsRouted'
    <2>1. Routed(Append(watch[s], e), s)
        BY <1>2, <1>4, <1>6, RoutedAppend DEF EventsRouted, s
    <2> QED BY <2>1, <1>1, <1>5, <1>6 DEF EventsRouted
<1>10. Delivered'
    <2> SUFFICES ASSUME NEW q \in Pods
                 PROVE  /\ NoneOf(watch'[ShardOf[q]], q) => lister[q] = obj'[q]
                        /\ LastOf(watch'[ShardOf[q]], q, obj'[q])
        BY <1>1 DEF Delivered
    <2>1. /\ NoneOf(watch[ShardOf[q]], q) => lister[q] = obj[q]
          /\ LastOf(watch[ShardOf[q]], q, obj[q])
        BY DEF Delivered
    <2>2. CASE ShardOf[q] # s
        <3>1. q # p
            BY <2>2 DEF s
        <3> QED BY <2>1, <2>2, <3>1, <1>4, <1>5, <1>6
    <2>3. CASE ShardOf[q] = s /\ q # p
        <3>1. watch'[ShardOf[q]] = Append(watch[s], e) /\ obj'[q] = obj[q] /\ e.pod # q
            BY <2>3, <1>2, <1>4, <1>5, <1>6
        <3> QED BY <3>1, <2>1, <2>3, <1>2, <1>6, NoneAppend, LastAppend
    <2>4. CASE q = p
        <3>1. watch'[ShardOf[q]] = Append(watch[s], e) /\ obj'[q] = Result(e)
            BY <2>4, <1>4, <1>5, <1>6 DEF s
        <3> QED BY <3>1, <2>4, <1>2, <1>6, NoneAppend, LastAppend
    <2> QED BY <2>2, <2>3, <2>4 DEF s
<1> QED BY <1>1, <1>8, <1>9, <1>10, TaskFrame, RevisionsFrame, TracksFrame,
           PodsReadFrame, CountReadFrame, CountStoredFrame

(* Every change of a pod is such a step. *)
LEMMA PodChangeKeeps ==
    ASSUME IInv, NEW p \in Pods, CreatePod(p) \/ BecomeReady(p) \/ Terminate(p) \/ RemovePod(p)
    PROVE  IInv'
<1>1. TypeOK
    BY DEF IInv
<1>2. p \in AllPods /\ obj[p] \in PodObject /\ now \in Nat /\ now # 0 /\ now \in 0..MaxTime
    BY <1>1, AggregatorAssumption DEF TypeOK, AllPods
<1>3. Absent \in PodObject /\ Absent.created = 0 /\ Absent.ready = 0 /\ Absent.deleting = 0
    BY DEF Absent, PodObject
<1>4. CASE CreatePod(p)
    <2> DEFINE o == [Absent EXCEPT !.created = now]
    <2>1. o \in PodObject /\ o # Absent
        <3>1. o.created = now
            BY DEF Absent
        <3> QED BY <1>2, <1>3, <3>1 DEF PodObject, Absent
    <2> HIDE DEF o
    <2> QED BY <1>1, <1>2, <1>4, <2>1, EmitKeeps DEF CreatePod, TypeOK, o
<1>5. CASE BecomeReady(p)
    <2> DEFINE o == [obj[p] EXCEPT !.ready = now]
    <2>1. o \in PodObject /\ o # Absent
        <3>1. o.ready = now
            BY <1>2 DEF PodObject
        <3>2. o \in PodObject
            BY <1>2 DEF PodObject
        <3> QED BY <1>2, <1>3, <3>1, <3>2
    <2> HIDE DEF o
    <2> QED BY <1>1, <1>2, <1>5, <2>1, EmitKeeps DEF BecomeReady, TypeOK, o
<1>6. CASE Terminate(p)
    <2> DEFINE o == [obj[p] EXCEPT !.deleting = now + Grace]
    <2>1. o \in PodObject /\ o # Absent
        <3>1. now + Grace \in Nat /\ now + Grace # 0
            BY <1>2, AggregatorAssumption
        <3>2. o.deleting = now + Grace
            BY <1>2 DEF PodObject
        <3>3. o \in PodObject
            BY <1>2, <3>1 DEF PodObject
        <3> QED BY <1>3, <3>1, <3>2, <3>3
    <2> HIDE DEF o
    <2>2. terminatedAt' \in [Pods -> 0..MaxTime]
        BY <1>1, <1>2, <1>6 DEF Terminate, TypeOK
    <2> QED BY <1>1, <1>2, <1>6, <2>1, <2>2, EmitKeeps DEF Terminate, TypeOK, o
<1>7. CASE RemovePod(p)
    BY <1>1, <1>2, <1>7, EmitKeeps DEF RemovePod, TypeOK
<1> QED BY <1>4, <1>5, <1>6, <1>7

(* The pods of the update trigger. *)
LEMMA UpdateTriggerKeeps ==
    ASSUME IInv, UpdateTrigger PROVE IInv'
<1>1. TypeOK
    BY DEF IInv
<1>2. Trigger \in AllPods /\ obj[Trigger] \in PodObject /\ now \in Nat /\ now # 0
    BY <1>1, AggregatorAssumption DEF TypeOK, AllPods
<1>3. Absent \in PodObject /\ Absent.touched = 0
    BY DEF Absent, PodObject
<1>4. CASE spinCreate /\ obj[Trigger] = Absent
    <2> DEFINE o == [Absent EXCEPT !.created = now, !.touched = now]
    <2>1. o \in PodObject /\ o # Absent
        <3>1. o.touched = now
            BY DEF Absent
        <3> QED BY <1>2, <1>3, <3>1 DEF PodObject, Absent
    <2> HIDE DEF o
    <2> QED BY <1>1, <1>2, <1>4, <2>1, EmitKeeps DEF spinCreate, TypeOK, o
<1>5. CASE spinCreate /\ obj[Trigger] # Absent
    <2>1. /\ UNCHANGED <<now, obj, terminatedAt, approved, faults, watch, lister, notices, stage, index,
                         syncTime, unsynced, pool, ppr, cache, queue, queued, alarm, pc, task>>
          /\ spin' = "update"
        BY <1>5 DEF spinCreate, local, queue
    <2>2. TypeOK'
        BY <1>1, <2>1 DEF TypeOK
    <2> QED BY <2>1, <2>2, TaskFrame, RoutedFrame, RevisionsFrame, DeliveredFrame, TracksFrame,
               PodsReadFrame, CountReadFrame, CountStoredFrame DEF IInv
<1>6. CASE spinUpdate
    <2> DEFINE o == [obj[Trigger] EXCEPT !.touched = now]
    <2>1. o \in PodObject /\ o # Absent
        <3>1. o.touched = now /\ o \in PodObject
            BY <1>2 DEF PodObject
        <3> QED BY <1>2, <1>3, <3>1
    <2> HIDE DEF o
    <2> QED BY <1>1, <1>2, <1>6, <2>1, EmitKeeps DEF spinUpdate, TypeOK, o
<1> QED BY <1>4, <1>5, <1>6 DEF UpdateTrigger

(* An approval changes the stored PodProtector, of which the informer has to learn. *)
LEMMA ApproveKeeps ==
    ASSUME IInv, NEW r \in Reviews, Approve(r) PROVE IInv'
<1> USE DEF IInv
<1>1. /\ UNCHANGED <<now, obj, terminatedAt, faults, spin, watch, lister, notices, stage, index,
                     syncTime, unsynced, pool, cache, queue, queued, alarm, pc, task>>
      /\ approved' = approved \cup {r}
    BY DEF Approve, informers, queue
<1>2. PICK h \in Summarize(ppr.history \cup {NewBucket(r, now)}) :
          ppr' = [ppr EXCEPT !.rv = @ + 1, !.cell = TRUE, !.history = h]
    BY DEF Approve
<1>3. ppr \in Protector /\ ppr.history \in SUBSET Bucket /\ ppr.rv \in Nat /\ now \in Nat
    BY DEF TypeOK, Protector
<1>4. NewBucket(r, now) \in Bucket
    BY <1>3, PodProtectorAssumption DEF NewBucket, Bucket
<1>5. h \in SUBSET Bucket
    BY <1>3, <1>4, SummarizeKeeps DEF Keeps
<1>6. ppr' \in Protector /\ ppr'.rv = ppr.rv + 1 /\ ppr'.cell = TRUE
    <2>1. ppr.rv + 1 \in Nat
        BY <1>3
    <2>2. ppr' \in Protector
        BY <1>2, <1>3, <1>5, <2>1 DEF Protector
    <2>3. ppr'.rv = ppr.rv + 1 /\ ppr'.cell = TRUE
        BY <1>2, <1>3 DEF Protector
    <2> QED BY <2>2, <2>3
<1>7. TypeOK'
    BY <1>1, <1>6 DEF TypeOK
<1>8. \A x \in Protector : Revision(x) => x.rv < ppr'.rv /\ x # ppr'
    BY <1>3, <1>6 DEF Revision, Protector
<1>9. cache \in Protector /\ (pc # "idle" => task.ppr \in Protector)
    BY DEF TypeOK, TaskTyped, Task
<1>10. Revisions'
    BY <1>1, <1>3, <1>6, <1>8, <1>9 DEF Revisions, Revision, Empty
<1>11. CountStored'
    BY <1>1, <1>8, <1>9 DEF CountStored, Revisions
<1> QED BY <1>1, <1>7, <1>10, <1>11, TaskFrame, RoutedFrame, DeliveredFrame, TracksFrame,
           PodsReadFrame, CountReadFrame DEF queue

-----------------------------------------------------------------------------
(* The informers and the handlers. *)

(* A stored event is one that the index does not know of. *)
LEMMA StoredUntracked ==
    ASSUME IInv, NEW s \in Shards, StoreEvent(s)
    PROVE  /\ Untracked(s) \in Seq(Event)
           /\ Untracked(s)' = Append(Untracked(s), Head(watch[s]))
           /\ \A t \in Shards : t # s => Untracked(t)' = Untracked(t)
<1> DEFINE e == Head(watch[s])
<1>1. /\ watch[s] # <<>> /\ watch[s] \in Seq(Event)
      /\ notices \in [Shards -> Seq(Event)] /\ notices[s] \in Seq(Event)
      /\ notices' = [notices EXCEPT ![s] = Append(notices[s], e)] /\ stage' = stage
    BY DEF IInv, TypeOK, StoreEvent
<1>2. e \in Event
    BY <1>1
<1> HIDE DEF e
<1>3. Untracked(s)' = Append(Untracked(s), e) /\ Untracked(s) \in Seq(Event)
    <2>1. notices'[s] = Append(notices[s], e) /\ stage'[s] = stage[s]
        BY <1>1
    <2>2. CASE stage[s] = "drain"
        <3>1. notices[s] # <<>>
            BY <2>2 DEF IInv, TypeOK
        <3>2. Tail(notices[s]) \in Seq(Event)
            BY <3>1, <1>1
        <3>3. Tail(Append(notices[s], e)) = Append(Tail(notices[s]), e)
            BY <3>1, <1>1, <1>2, TailAppend
        <3> QED BY <2>1, <2>2, <3>2, <3>3 DEF Untracked
    <2>3. CASE stage[s] # "drain"
        BY <2>1, <2>3, <1>1 DEF Untracked
    <2> QED BY <2>2, <2>3
<1>4. \A t \in Shards : t # s => Untracked(t)' = Untracked(t)
    BY <1>1 DEF Untracked
<1> QED BY <1>3, <1>4 DEF e

LEMMA StoreEventKeeps ==
    ASSUME IInv, NEW s \in Shards, StoreEvent(s) PROVE IInv'
<1> USE DEF IInv
<1> DEFINE e == Head(watch[s])
<1>1. /\ UNCHANGED <<now, obj, terminatedAt, approved, faults, spin, stage, index, syncTime, pool, ppr, cache,
                     queue, queued, alarm, pc, task>>
      /\ watch[s] # <<>>
      /\ watch' = [watch EXCEPT ![s] = Tail(watch[s])]
      /\ lister' = [lister EXCEPT ![e.pod] = Result(e)]
      /\ notices' = [notices EXCEPT ![s] = Append(notices[s], e)]
      /\ unsynced' = [unsynced EXCEPT ![s] = IF @ > 0 THEN @ - 1 ELSE 0]
    BY DEF StoreEvent, Result, cluster, queue
<1>2. /\ watch \in [Shards -> Seq(Event)] /\ notices \in [Shards -> Seq(Event)]
      /\ watch[s] \in Seq(Event) /\ notices[s] \in Seq(Event)
      /\ lister \in [AllPods -> PodObject] /\ unsynced \in [Shards -> Nat]
      /\ Routed(watch[s], s) /\ Routed(notices[s], s)
    BY DEF TypeOK, EventsRouted
<1>3. Tail(watch[s]) \in Seq(Event) /\ e \in Event
    BY <1>1, <1>2
<1>4. /\ Routed(Tail(watch[s]), s) /\ ShardOf[e.pod] = s
      /\ ~e.gone => e.obj # Absent
    BY <1>1, <1>2, RoutedTail
<1> HIDE DEF e
<1>5. /\ e.pod \in AllPods /\ Result(e) \in PodObject
      /\ Append(notices[s], e) \in Seq(Event) /\ Append(notices[s], e) # <<>>
    <2>1. Absent \in PodObject
        BY DEF Absent, PodObject
    <2>2. e.pod \in AllPods /\ Result(e) \in PodObject
        BY <2>1, <1>3 DEF Event, Result
    <2>3. Append(notices[s], e) \in Seq(Event) /\ Append(notices[s], e) # <<>>
        BY <1>2, <1>3, AppendSome
    <2> QED BY <2>2, <2>3
<1>6. TypeOK'
    <2>1. /\ watch' \in [Shards -> Seq(Event)] /\ notices' \in [Shards -> Seq(Event)]
          /\ lister' \in [AllPods -> PodObject]
        BY <1>1, <1>2, <1>3, <1>5
    <2>2. unsynced' \in [Shards -> Nat]
        BY <1>1, <1>2
    <2>3. \A t \in Shards : stage[t] = "drain" => notices'[t] # <<>>
        BY <1>1, <1>2, <1>5 DEF TypeOK
    <2> QED BY <1>1, <2>1, <2>2, <2>3 DEF TypeOK
<1>7. EventsRouted'
    <2>1. Routed(Append(notices[s], e), s)
        BY <1>2, <1>3, <1>4, RoutedAppend
    <2> QED BY <2>1, <1>1, <1>2, <1>4 DEF EventsRouted
<1>8. \A p \in Pods : p \in AllPods /\ ShardOf[p] \in Shards
    BY AggregatorAssumption DEF AllPods
<1>9. Delivered'
    <2> SUFFICES ASSUME NEW p \in Pods
                 PROVE  /\ NoneOf(watch'[ShardOf[p]], p) => lister'[p] = obj[p]
                        /\ LastOf(watch'[ShardOf[p]], p, obj[p])
        BY <1>1 DEF Delivered
    <2>1. /\ NoneOf(watch[ShardOf[p]], p) => lister[p] = obj[p]
          /\ LastOf(watch[ShardOf[p]], p, obj[p])
        BY DEF Delivered
    <2>2. CASE ShardOf[p] # s
        <3>1. p # e.pod
            BY <2>2, <1>4
        <3> QED BY <2>1, <2>2, <3>1, <1>1, <1>2, <1>8
    <2>3. CASE ShardOf[p] = s
        <3>1. watch'[ShardOf[p]] = Tail(watch[s])
            BY <2>3, <1>1, <1>2
        <3>2. /\ LastOf(Tail(watch[s]), p, obj[p])
              /\ e.pod = p /\ NoneOf(Tail(watch[s]), p) => Result(e) = obj[p]
            BY <2>1, <2>3, <1>1, <1>2, LastTail DEF e
        <3>3. NoneOf(watch[s], p) <=> e.pod # p /\ NoneOf(Tail(watch[s]), p)
            BY <1>1, <1>2, NoneTail DEF e
        <3>4. lister'[p] = IF e.pod = p THEN Result(e) ELSE lister[p]
            BY <1>1, <1>2, <1>8
        <3> QED BY <2>1, <2>3, <3>1, <3>2, <3>3, <3>4
    <2> QED BY <2>2, <2>3
<1>10. Untracked(s)' = Append(Untracked(s), e) /\ Untracked(s) \in Seq(Event)
    BY StoredUntracked DEF e
<1>11. \A t \in Shards : t # s => Untracked(t)' = Untracked(t)
    BY StoredUntracked
<1>12. Tracks'
    <2> SUFFICES ASSUME NEW p \in Pods
                 PROVE  /\ NoneOf(Untracked(ShardOf[p])', p) => (p \in index <=> lister'[p] # Absent)
                        /\ LastOf(Untracked(ShardOf[p])', p, lister'[p])
        BY <1>1 DEF Tracks
    <2>1. /\ NoneOf(Untracked(ShardOf[p]), p) => (p \in index <=> lister[p] # Absent)
          /\ LastOf(Untracked(ShardOf[p]), p, lister[p])
        BY DEF Tracks
    <2>2. lister'[p] = IF e.pod = p THEN Result(e) ELSE lister[p]
        BY <1>1, <1>2, <1>8
    <2>3. CASE ShardOf[p] # s
        BY <2>1, <2>2, <2>3, <1>4, <1>8, <1>11
    <2>4. CASE ShardOf[p] = s
        BY <2>1, <2>2, <2>4, <1>3, <1>10, NoneAppend, LastAppend
    <2> QED BY <2>3, <2>4
<1>13. \A p \in Pods : Handled(p)' => Handled(p) /\ lister'[p] = lister[p]
    <2> SUFFICES ASSUME NEW p \in Pods, NoneOf(notices'[ShardOf[p]], p)
                 PROVE  NoneOf(notices[ShardOf[p]], p) /\ lister'[p] = lister[p]
        BY DEF Handled
    <2>1. CASE ShardOf[p] # s
        BY <2>1, <1>1, <1>2, <1>4, <1>8
    <2>2. CASE ShardOf[p] = s
        <3>1. NoneOf(notices[s], p) /\ e.pod # p
            BY <2>2, <1>1, <1>2, <1>3, NoneAppend
        <3> QED BY <2>2, <3>1, <1>1, <1>2, <1>8
    <2> QED BY <2>1, <2>2
<1>14. Woken' <=> Woken
    BY <1>1 DEF Woken
<1>15. PodsRead'
    <2>1. \A p \in Pods : lister'[p] = lister[p] => Found(p)' = Found(p)
        BY DEF Found
    <2> QED BY <2>1, <1>1, <1>13, <1>14 DEF PodsRead
<1>16. AllHandled' => AllHandled /\ Available' = Available /\ (NoneLater' <=> NoneLater)
    BY <1>1, <1>13 DEF AllHandled, Available, NoneLater
<1>17. CountRead'
    BY <1>1, <1>14, <1>16 DEF CountRead, Await
<1>18. CountStored'
    BY <1>1, <1>14, <1>16 DEF CountStored, Await
<1> QED BY <1>1, <1>6, <1>7, <1>9, <1>12, <1>15, <1>17, <1>18, TaskFrame, RevisionsFrame

(* A list in place of the events that were not delivered. *)
LEMMA RelistKeeps ==
    ASSUME IInv, NEW s \in Shards, Relist(s) PROVE IInv'
<1> USE DEF IInv
<1>1. /\ UNCHANGED <<now, obj, terminatedAt, approved, spin, lister, notices, stage, index, unsynced, pool,
                     ppr, cache, queue, queued, alarm, pc, task>>
      /\ faults' = {}
      /\ syncTime' = [syncTime EXCEPT ![s] = markInitialInformerSync(s, syncTime[s])]
    BY DEF Relist, queue
<1>2. PICK l \in Lists(s, lister) : watch' = [watch EXCEPT ![s] = l]
    BY DEF Relist
<1>3. /\ watch \in [Shards -> Seq(Event)] /\ obj \in [AllPods -> PodObject]
      /\ lister \in [AllPods -> PodObject] /\ syncTime \in [Shards -> Nat] /\ now \in Nat
    BY DEF TypeOK
<1>4. /\ l \in Seq(Event)
      /\ Routed(l, s)
      /\ \A k \in 1..Len(l) : Result(l[k]) = obj[l[k].pod]
      /\ \A p \in Pods : ShardOf[p] = s /\ NoneOf(l, p) => lister[p] = obj[p]
    BY <1>3, ListDelivers
<1>5. TypeOK'
    <2>1. markInitialInformerSync(s, syncTime[s]) \in Nat
        BY <1>3 DEF markInitialInformerSync
    <2>2. watch' \in [Shards -> Seq(Event)] /\ syncTime' \in [Shards -> Nat]
        BY <1>1, <1>2, <1>3, <1>4, <2>1
    <2> QED BY <1>1, <2>2 DEF TypeOK
<1>6. EventsRouted'
    BY <1>1, <1>2, <1>3, <1>4 DEF EventsRouted
<1>7. Delivered'
    <2> SUFFICES ASSUME NEW p \in Pods
                 PROVE  /\ NoneOf(watch'[ShardOf[p]], p) => lister[p] = obj[p]
                        /\ LastOf(watch'[ShardOf[p]], p, obj[p])
        BY <1>1 DEF Delivered
    <2>1. CASE ShardOf[p] # s
        <3>1. watch'[ShardOf[p]] = watch[ShardOf[p]]
            BY <2>1, <1>2, <1>3, AggregatorAssumption
        <3> QED BY <3>1 DEF Delivered
    <2>2. CASE ShardOf[p] = s
        <3>1. watch'[ShardOf[p]] = l
            BY <2>2, <1>2, <1>3
        <3>2. LastOf(l, p, obj[p])
            BY <1>4 DEF LastOf
        <3> QED BY <2>2, <3>1, <3>2, <1>4
    <2> QED BY <2>1, <2>2
<1> QED BY <1>1, <1>5, <1>6, <1>7, TaskFrame, RevisionsFrame, TracksFrame,
           PodsReadFrame, CountReadFrame, CountStoredFrame

(* After a restart everything is to be delivered again, the PodProtector too. *)
LEMMA RestartKeeps ==
    ASSUME IInv, Restart PROVE IInv'
<1> USE DEF IInv
<1> DEFINE none == [p \in AllPods |-> Absent]
<1>1. /\ UNCHANGED <<now, obj, terminatedAt, approved, ppr>>
      /\ faults' = {} /\ spin' = "create" /\ index' = {} /\ pool' = {} /\ cache' = NoPpr
      /\ queued' = FALSE /\ alarm' = 0 /\ pc' = "idle" /\ task' = Idle
      /\ lister' = none
      /\ unsynced' = [s \in Shards |-> Cardinality(Present(s))]
      /\ syncTime' = [s \in Shards |-> markInitialInformerSync(s, 0)]
      /\ notices' = [s \in Shards |-> <<>>]
      /\ stage' = [s \in Shards |-> "sync"]
    BY DEF Restart
<1>2. /\ watch' \in [Shards -> UNION {Lists(s, lister') : s \in Shards}]
      /\ \A s \in Shards : watch'[s] \in Lists(s, lister')
    BY DEF Restart
<1>3. obj \in [AllPods -> PodObject] /\ now \in Nat /\ Absent \in PodObject
    BY DEF TypeOK, Absent, PodObject
<1>4. none \in [AllPods -> PodObject]
    BY <1>3
<1>5. \A p \in Pods : none[p] = Absent
    BY DEF AllPods
<1> HIDE DEF none
<1>6. \A s \in Shards : watch'[s] \in Lists(s, none)
    BY <1>1, <1>2
<1>7. \A s \in Shards :
          /\ watch'[s] \in Seq(Event)
          /\ Routed(watch'[s], s)
          /\ \A k \in 1..Len(watch'[s]) : Result(watch'[s][k]) = obj[watch'[s][k].pod]
          /\ \A p \in Pods : ShardOf[p] = s /\ NoneOf(watch'[s], p) => none[p] = obj[p]
    BY <1>3, <1>4, <1>6, ListDelivers
<1>8. \A p \in Pods : ShardOf[p] \in Shards
    BY AggregatorAssumption
<1> DEFINE nothing == <<>>
<1>9. nothing \in Seq(Event) /\ Len(nothing) = 0
    OBVIOUS
<1>10. \A s \in Shards : notices'[s] = nothing /\ stage'[s] = "sync"
    BY <1>1
<1>11. notices' \in [Shards -> Seq(Event)] /\ stage' \in [Shards -> {"sync", "drain"}]
    BY <1>1
<1> HIDE DEF nothing
<1>12. NoPpr \in Protector /\ NoPpr.rv = 0 /\ NoPpr.available = 0 /\ NoPpr.history = {}
    BY DEF NoPpr, Protector
<1>13. TypeOK'
    <2>1. watch' \in [Shards -> Seq(Event)]
        BY <1>2, <1>7
    <2>2. \A s \in Shards : Cardinality(Present(s)) \in Nat
        <3>1. IsFiniteSet(AllPods)
            BY PodProtectorAssumption, FS_AddElement DEF AllPods
        <3>2. \A s \in Shards : IsFiniteSet(Present(s))
            BY <3>1, FS_Subset DEF Present
        <3> QED BY <3>2, FS_CardinalityType
    <2>3. \A s \in Shards : markInitialInformerSync(s, 0) \in Nat
        BY <1>3 DEF markInitialInformerSync
    <2>4. unsynced' \in [Shards -> Nat] /\ syncTime' \in [Shards -> Nat]
        BY <1>1, <2>2, <2>3
    <2>5. faults' \subseteq Faults /\ index' \subseteq Pods /\ pool' \subseteq Shards
        BY <1>1
    <2> QED BY <1>1, <1>4, <1>10, <1>11, <1>12, <2>1, <2>4, <2>5 DEF TypeOK
<1>14. TaskTyped'
    <2>1. task' \in Task /\ task'.pods = {} /\ task'.unread = {}
        BY <1>1, <1>12 DEF Task, Idle
    <2> QED BY <2>1, <1>1, FS_EmptySet DEF TaskTyped
<1>15. EventsRouted'
    BY <1>7, <1>9, <1>10 DEF EventsRouted, Routed
<1>16. Revisions'
    BY <1>1, <1>12 DEF Revisions, Revision, Empty, TypeOK, Protector
<1>17. Delivered'
    <2> SUFFICES ASSUME NEW p \in Pods
                 PROVE  /\ NoneOf(watch'[ShardOf[p]], p) => lister'[p] = obj[p]
                        /\ LastOf(watch'[ShardOf[p]], p, obj[p])
        BY <1>1 DEF Delivered
    <2> QED BY <1>1, <1>7, <1>8 DEF LastOf
<1>18. Tracks'
    <2> SUFFICES ASSUME NEW p \in Pods
                 PROVE  /\ NoneOf(Untracked(ShardOf[p])', p) => (p \in index' <=> lister'[p] # Absent)
                        /\ LastOf(Untracked(ShardOf[p])', p, lister'[p])
        BY DEF Tracks
    <2>1. Untracked(ShardOf[p])' = nothing
        BY <1>8, <1>10 DEF Untracked
    <2>2. LastOf(nothing, p, lister'[p])
        BY <1>9 DEF LastOf
    <2> QED BY <2>1, <2>2, <1>1, <1>5
<1>19. cache' # ppr'
    BY <1>1, <1>12 DEF Revisions
<1>20. PodsRead' /\ CountRead' /\ CountStored'
    BY <1>1, <1>19 DEF PodsRead, CountRead, CountStored
<1> QED BY <1>13, <1>14, <1>15, <1>16, <1>17, <1>18, <1>20

(* The handler brings its first event into the index. *)
LEMMA NotifyKeeps ==
    ASSUME IInv, NEW s \in Shards, NotifyInformerSync(s) PROVE IInv'
<1> USE DEF IInv
<1> DEFINE e == Head(notices[s])
<1>1. /\ UNCHANGED <<now, obj, terminatedAt, approved, faults, spin, watch, lister, notices, unsynced, pool,
                     ppr, cache, queue, queued, alarm, pc, task>>
      /\ notices[s] # <<>> /\ stage[s] = "sync"
      /\ index' = Tracked(e)
      /\ syncTime' = [syncTime EXCEPT ![s] = Max({syncTime[s], Interpret(e.obj)})]
      /\ stage' = [stage EXCEPT ![s] = "drain"]
    BY DEF NotifyInformerSync, cluster, queue
<1>2. /\ notices \in [Shards -> Seq(Event)] /\ notices[s] \in Seq(Event)
      /\ stage \in [Shards -> {"sync", "drain"}] /\ syncTime \in [Shards -> Nat] /\ now \in Nat
      /\ index \subseteq Pods /\ Routed(notices[s], s)
    BY DEF TypeOK, EventsRouted
<1>3. e \in Event
    BY <1>1, <1>2
<1>4. ShardOf[e.pod] = s /\ (~e.gone => e.obj # Absent)
    BY <1>1, <1>2, RoutedTail
<1>5. Untracked(s) = notices[s] /\ Untracked(s)' = Tail(notices[s])
    BY <1>1, <1>2 DEF Untracked
<1>6. \A t \in Shards : t # s => Untracked(t)' = Untracked(t)
    BY <1>1, <1>2 DEF Untracked
<1> HIDE DEF e
<1>7. TypeOK'
    <2>1. e.obj \in PodObject
        BY <1>3 DEF Event
    <2>2. Max({syncTime[s], Interpret(e.obj)}) \in Nat
        BY <2>1, <1>2, InterpretedTime, MaxOfTwo
    <2>3. syncTime' \in [Shards -> Nat] /\ stage' \in [Shards -> {"sync", "drain"}]
        BY <1>1, <1>2, <2>2
    <2>4. index' \subseteq Pods
        BY <1>1, <1>2 DEF Tracked
    <2>5. \A t \in Shards : stage'[t] = "drain" => notices'[t] # <<>>
        BY <1>1, <1>2 DEF TypeOK
    <2> QED BY <1>1, <2>3, <2>4, <2>5 DEF TypeOK
<1>8. \A p \in Pods : ShardOf[p] \in Shards
    BY AggregatorAssumption
<1>9. Tracks'
    <2> SUFFICES ASSUME NEW p \in Pods
                 PROVE  /\ NoneOf(Untracked(ShardOf[p])', p) => (p \in index' <=> lister[p] # Absent)
                        /\ LastOf(Untracked(ShardOf[p])', p, lister[p])
        BY <1>1 DEF Tracks
    <2>1. /\ NoneOf(Untracked(ShardOf[p]), p) => (p \in index <=> lister[p] # Absent)
          /\ LastOf(Untracked(ShardOf[p]), p, lister[p])
        BY DEF Tracks
    <2>2. p # e.pod => (p \in index' <=> p \in index)
        BY <1>1 DEF Tracked
    <2>3. p = e.pod => (p \in index' <=> Result(e) # Absent)
        BY <1>1, <1>4 DEF Tracked, Result
    <2>4. CASE ShardOf[p] # s
        BY <2>1, <2>2, <2>4, <1>4, <1>6, <1>8
    <2>5. CASE ShardOf[p] = s
        <3>1. /\ LastOf(Tail(notices[s]), p, lister[p])
              /\ e.pod = p /\ NoneOf(Tail(notices[s]), p) => Result(e) = lister[p]
            BY <2>1, <2>5, <1>1, <1>2, <1>5, LastTail DEF e
        <3>2. NoneOf(notices[s], p) <=> e.pod # p /\ NoneOf(Tail(notices[s]), p)
            BY <1>1, <1>2, NoneTail DEF e
        <3> QED BY <2>1, <2>2, <2>3, <2>5, <3>1, <3>2, <1>5
    <2> QED BY <2>4, <2>5
<1> QED BY <1>1, <1>7, <1>9, TaskFrame, RoutedFrame, RevisionsFrame, DeliveredFrame,
           PodsReadFrame, CountReadFrame, CountStoredFrame

(***************************************************************************)
(* The handler finishes an event: a pod that this leaves handled wakes the *)
(* reconciliation, and so does a PodProtector that leaves the pool.        *)
(***************************************************************************)
LEMMA DrainKeeps ==
    ASSUME IInv, NEW s \in Shards, DrainAndEnqueue(s) PROVE IInv'
<1> USE DEF IInv
<1> DEFINE e == Head(notices[s])
<1>1. /\ UNCHANGED <<now, obj, terminatedAt, approved, faults, spin, watch, lister, index, syncTime, unsynced,
                     ppr, cache, queued, pc, task>>
      /\ notices[s] # <<>> /\ stage[s] = "drain"
      /\ IF s \in pool \/ (e.pod \in Pods /\ cache # NoPpr)
         THEN enqueueDelayed ELSE UNCHANGED alarm
      /\ pool' = pool \ {s}
      /\ notices' = [notices EXCEPT ![s] = Tail(notices[s])]
      /\ stage' = [stage EXCEPT ![s] = "sync"]
    BY DEF DrainAndEnqueue, Drain, cluster
<1>2. /\ notices \in [Shards -> Seq(Event)] /\ notices[s] \in Seq(Event)
      /\ stage \in [Shards -> {"sync", "drain"}] /\ alarm \in Nat
      /\ Routed(notices[s], s)
    BY DEF TypeOK, EventsRouted
<1>3. e \in Event /\ Tail(notices[s]) \in Seq(Event)
    BY <1>1, <1>2
<1>4. ShardOf[e.pod] = s /\ Routed(Tail(notices[s]), s)
    BY <1>1, <1>2, RoutedTail
<1>5. \A t \in Shards : Untracked(t)' = Untracked(t)
    BY <1>1, <1>2 DEF Untracked
<1>6. \A p : NoneOf(notices[s], p) <=> e.pod # p /\ NoneOf(Tail(notices[s]), p)
    BY <1>1, <1>2, NoneTail
<1> HIDE DEF e
<1>7. alarm' \in Nat /\ (alarm' = alarm \/ alarm' # 0) /\ (enqueueDelayed => alarm' # 0)
    BY <1>1, <1>2 DEF enqueueDelayed, AddAfter
<1>8. TypeOK'
    <2>1. notices' \in [Shards -> Seq(Event)] /\ stage' \in [Shards -> {"sync", "drain"}]
        BY <1>1, <1>2, <1>3
    <2>2. \A t \in Shards : stage'[t] = "drain" => notices'[t] # <<>>
        BY <1>1, <1>2 DEF TypeOK
    <2>3. pool' \subseteq Shards
        BY <1>1 DEF TypeOK
    <2> QED BY <1>1, <1>7, <2>1, <2>2, <2>3 DEF TypeOK
<1>9. EventsRouted'
    BY <1>1, <1>2, <1>4 DEF EventsRouted
<1>10. \A p \in Pods : ShardOf[p] \in Shards
    BY AggregatorAssumption
<1>11. Tracks'
    BY <1>1, <1>5, <1>10 DEF Tracks
<1>12. CASE Woken'
    BY <1>12, <1>1, <1>8, <1>9, <1>11, WokenKeeps, TaskFrame, RevisionsFrame, DeliveredFrame
<1>13. CASE ~Woken'
    <2>1. ~Woken /\ alarm' = alarm
        BY <1>1, <1>7, <1>13 DEF Woken
    <2>2. s \notin pool /\ pool' = pool /\ ~(e.pod \in Pods /\ cache # NoPpr)
        BY <1>1, <1>7, <1>13 DEF Woken, TypeOK
    <2>3. CASE cache = NoPpr
        <3>1. pc = "idle" /\ cache # ppr
            BY <2>3 DEF Revisions, NoPpr
        <3>2. PodsRead' /\ CountRead' /\ CountStored'
            BY <3>1, <1>1 DEF PodsRead, CountRead, CountStored
        <3> QED BY <3>2, <1>1, <1>8, <1>9, <1>11, TaskFrame, RevisionsFrame, DeliveredFrame
    <2>4. CASE e.pod \notin Pods
        <3>1. \A p \in Pods : Handled(p)' <=> Handled(p)
            <4> SUFFICES ASSUME NEW p \in Pods
                         PROVE  NoneOf(notices'[ShardOf[p]], p) <=> NoneOf(notices[ShardOf[p]], p)
                BY DEF Handled
            <4>1. e.pod # p
                BY <2>4
            <4> QED BY <4>1, <1>1, <1>2, <1>6, <1>10
        <3>2. AllHandled' <=> AllHandled
            BY <3>1 DEF AllHandled
        <3>3. PodsRead'
            BY <2>1, <3>1, <1>1 DEF PodsRead, Found, Woken
        <3>4. CountRead'
            BY <2>1, <2>2, <3>2, <1>1 DEF CountRead, Available, NoneLater, Await, Woken
        <3>5. CountStored'
            BY <2>1, <2>2, <3>2, <1>1 DEF CountStored, Available, NoneLater, Await, Woken
        <3> QED BY <3>3, <3>4, <3>5, <1>1, <1>8, <1>9, <1>11, TaskFrame, RevisionsFrame, DeliveredFrame
    <2> QED BY <2>2, <2>3, <2>4
<1> QED BY <1>12, <1>13

(* The informer of the PodProtectors. *)
LEMMA DeliverPprKeeps ==
    ASSUME IInv, DeliverPpr PROVE IInv'
<1> USE DEF IInv
<1>1. /\ UNCHANGED <<now, obj, terminatedAt, approved, faults, spin, watch, lister, notices, stage, index,
                     syncTime, unsynced, pool, ppr, queued, pc, task>>
      /\ cache' = ppr /\ enqueueDelayed
    BY DEF DeliverPpr, cluster, informers
<1>2. alarm' \in Nat /\ alarm' # 0
    BY <1>1 DEF enqueueDelayed, AddAfter, TypeOK
<1>3. TypeOK'
    BY <1>1, <1>2 DEF TypeOK
<1>4. Revisions'
    BY <1>1 DEF Revisions, Revision, NoPpr
<1>5. Woken'
    BY <1>2 DEF Woken
<1> QED BY <1>1, <1>3, <1>4, <1>5, TaskFrame, RoutedFrame, DeliveredFrame, TracksFrame, WokenKeeps

LEMMA FireAlarmKeeps ==
    ASSUME IInv, FireAlarm PROVE IInv'
<1> USE DEF IInv
<1>1. /\ UNCHANGED <<now, obj, terminatedAt, approved, faults, spin, watch, lister, notices, stage, index,
                     syncTime, unsynced, pool, ppr, cache, pc, task>>
      /\ alarm' = 0 /\ queued' = TRUE
    BY DEF FireAlarm, cluster, informers
<1>2. TypeOK'
    BY <1>1 DEF TypeOK
<1>3. Woken'
    BY <1>1 DEF Woken
<1> QED BY <1>1, <1>2, <1>3, TaskFrame, RoutedFrame, RevisionsFrame, DeliveredFrame, TracksFrame, WokenKeeps

-----------------------------------------------------------------------------
(* The reconciliation. *)

(* The local variables of a reconciliation. *)
LEMMA TaskFields ==
    ASSUME task \in Task
    PROVE  /\ task.ppr \in Protector /\ task.unread \subseteq Pods /\ task.failed \in BOOLEAN
           /\ task.pods \subseteq Pods \X PodObject /\ task.available \subseteq Pods /\ task.requeue \in Nat
           /\ task.shards \subseteq Shards /\ task.times \in [Shards -> Nat]
BY DEF Task

(* A reconciliation that has a PodProtector is not an idle one. *)
LEMMA BusyTask ==
    ASSUME NEW t, t.ppr # NoPpr PROVE t # Idle
BY DEF Idle

LEMMA IdleTask ==
    /\ Idle \in Task /\ Idle.pods = {} /\ Idle.unread = {} /\ IsFiniteSet({})
BY FS_EmptySet DEF Idle, Task, NoPpr, Protector

(* A reconciliation is over, and one that failed is repeated. *)
LEMMA EndKeeps ==
    ASSUME IInv, EndReconcile, UNCHANGED <<cluster, informers, pool, cache, queued>>,
           ppr' \in Protector, ppr' = ppr \/ ppr'.rv = ppr.rv + 1, Empty(ppr'),
           \/ alarm' = alarm /\ CountStored'
           \/ alarm' \in Nat \ {0}
    PROVE  IInv'
<1> USE DEF IInv
<1>1. /\ UNCHANGED <<now, obj, terminatedAt, approved, faults, spin, watch, lister, notices, stage, index,
                     syncTime, unsynced, pool, cache, queued>>
      /\ pc' = "idle" /\ task' = Idle
    BY DEF EndReconcile, cluster, informers
<1>2. TypeOK'
    BY <1>1 DEF TypeOK
<1>3. TaskTyped'
    BY <1>1, IdleTask DEF TaskTyped
<1>4. Revisions'
    BY <1>1 DEF Revisions, Revision, TypeOK, Protector
<1>5. PodsRead' /\ CountRead'
    BY <1>1 DEF PodsRead, CountRead
<1>6. CountStored'
    <2>1. CASE alarm' \in Nat \ {0}
        BY <2>1, WokenKeeps DEF Woken
    <2> QED BY <2>1
<1> QED BY <1>1, <1>2, <1>3, <1>4, <1>5, <1>6, RoutedFrame, DeliveredFrame, TracksFrame

LEMMA FailKeeps ==
    ASSUME IInv, FailReconcile, UNCHANGED <<cluster, informers, pool, ppr, cache, queued>>
    PROVE  IInv'
<1>1. alarm' \in Nat \ {0}
    BY DEF IInv, TypeOK, FailReconcile, enqueueDelayed, AddAfter
<1> QED BY <1>1, EndKeeps DEF IInv, TypeOK, Revisions, FailReconcile

LEMMA StartReconcileKeeps ==
    ASSUME IInv, StartReconcile PROVE IInv'
<1> USE DEF IInv
<1>1. /\ UNCHANGED <<now, obj, terminatedAt, approved, faults, spin, watch, lister, notices, stage, index,
                     syncTime, unsynced, pool, ppr, cache, alarm>>
      /\ queued' = FALSE /\ pc' = "pods" /\ cache # NoPpr
      /\ task' = [Idle EXCEPT !.ppr = cache, !.unread = index]
    BY DEF StartReconcile, HasSynced, cluster, informers
<1>2. /\ task'.ppr = cache /\ task'.unread = index /\ task'.pods = {}
    BY <1>1 DEF Idle
<1>3. task' \in Task
    BY <1>1, IdleTask DEF TypeOK, Task, Idle
<1>4. TypeOK'
    BY <1>1, <1>2, BusyTask DEF TypeOK
<1>5. TaskTyped'
    BY <1>1, <1>2, <1>3, IdleTask DEF TaskTyped
<1>6. Revisions'
    BY <1>1, <1>2 DEF Revisions, Revision
<1>7. PodsRead'
    <2> SUFFICES ASSUME NEW p \in Pods, Handled(p), p \notin index
                 PROVE  Found(p) = {}
        BY <1>1, <1>2 DEF PodsRead, Handled, Found
    <2>1. NoneOf(Untracked(ShardOf[p]), p)
        <3>1. notices[ShardOf[p]] \in Seq(Event) /\ ShardOf[p] \in Shards
            BY AggregatorAssumption DEF TypeOK
        <3>2. CASE stage[ShardOf[p]] = "drain"
            BY <3>1, <3>2, NoneTail DEF Handled, Untracked, TypeOK
        <3>3. CASE stage[ShardOf[p]] # "drain"
            BY <3>3 DEF Handled, Untracked
        <3> QED BY <3>2, <3>3
    <2>2. lister[p] = Absent
        BY <2>1 DEF Tracks
    <2> QED BY <2>2 DEF Found
<1>8. CountRead' /\ CountStored'
    BY <1>1 DEF CountRead, CountStored
<1> QED BY <1>1, <1>4, <1>5, <1>6, <1>7, <1>8, RoutedFrame, DeliveredFrame, TracksFrame

LEMMA FindPodKeeps ==
    ASSUME IInv, NEW p \in Pods, FindPod(p) PROVE IInv'
<1> USE DEF IInv
<1>1. /\ UNCHANGED <<now, obj, terminatedAt, approved, faults, spin, watch, lister, notices, stage, index,
                     syncTime, unsynced, pool, ppr, cache, queue, queued, alarm, pc>>
      /\ pc = "pods" /\ p \in task.unread
      /\ task' = [task EXCEPT !.unread = task.unread \ {p},
                              !.failed = (lister[p] = Absent),
                              !.pods = task.pods \cup Found(p)]
    BY DEF FindPod, Found, cluster, informers, queue
<1>2. task \in Task /\ IsFiniteSet(task.pods)
    BY DEF TaskTyped
<1>3. /\ task'.ppr = task.ppr /\ task'.unread = task.unread \ {p}
      /\ task'.pods = task.pods \cup Found(p)
    BY <1>1, <1>2 DEF Task
<1>4. lister[p] \in PodObject
    BY DEF TypeOK, AllPods
<1>5. Found(p) \subseteq Pods \X PodObject /\ IsFiniteSet(Found(p)) /\ \A q \in Found(p) : q[1] = p
    <2>1. Found(p) \subseteq {<<p, lister[p]>>}
        BY DEF Found
    <2>2. IsFiniteSet(Found(p))
        BY <2>1, FS_Singleton, FS_Subset
    <2> QED BY <2>1, <2>2, <1>4
<1>6. task' \in Task
    <2>1. task.unread \ {p} \in SUBSET Pods /\ task.pods \cup Found(p) \in SUBSET (Pods \X PodObject)
          /\ (lister[p] = Absent) \in BOOLEAN
        BY <1>2, <1>5, TaskFields
    <2> HIDE DEF Found
    <2> QED BY <1>1, <1>2, <2>1 DEF Task
<1>7. IsFiniteSet(task'.pods)
    <2>1. IsFiniteSet(task.pods \cup Found(p))
        BY <1>2, <1>5, FS_Union
    <2> QED BY <2>1, <1>3
<1>8. TypeOK'
    BY <1>1, <1>3, BusyTask DEF TypeOK, Revisions
<1>9. TaskTyped'
    BY <1>1, <1>3, <1>5, <1>6, <1>7 DEF TaskTyped
<1>10. Revisions'
    BY <1>1, <1>3 DEF Revisions, Revision
<1>11. PodsRead'
    <2> SUFFICES ASSUME ~Woken, NEW r \in Pods, Handled(r), r \notin task'.unread
                 PROVE  task.ppr = cache /\ {q \in task'.pods : q[1] = r} = Found(r)
        BY <1>1, <1>3 DEF PodsRead, Handled, Found, Woken
    <2>1. CASE r = p
        BY <2>1, <1>1, <1>3, <1>5 DEF PodsRead, TaskTyped
    <2>2. CASE r # p
        <3>1. r \notin task.unread
            BY <2>2, <1>3
        <3> QED BY <2>2, <3>1, <1>1, <1>3, <1>5 DEF PodsRead
    <2> QED BY <2>1, <2>2
<1>12. PodsRead' /\ CountRead' /\ CountStored'
    BY <1>1, <1>11 DEF CountRead, CountStored
<1> QED BY <1>1, <1>8, <1>9, <1>10, <1>12, RoutedFrame, DeliveredFrame, TracksFrame

(***************************************************************************)
(* Once all pods have been looked up, a reconciliation that nothing will   *)
(* repeat has what the store holds.                                        *)
(***************************************************************************)
LEMMA AllFound ==
    ASSUME IInv, pc # "idle", ~Woken, AllHandled, task.unread = {}
    PROVE  /\ task.ppr = cache
           /\ \A p \in Pods : IsPodAvailable(lister[p], now) \/ ReadyLater(lister[p], now)
                                  => <<p, lister[p]>> \in task.pods
           /\ \A q \in task.pods : q[1] \in Pods /\ q[2] = lister[q[1]]
<1>1. /\ task.ppr = cache
      /\ \A p \in Pods : {q \in task.pods : q[1] = p} = Found(p)
    BY DEF IInv, PodsRead, AllHandled
<1>2. task.pods \subseteq Pods \X PodObject
    BY TaskFields DEF IInv, TaskTyped
<1>3. ASSUME NEW p \in Pods, IsPodAvailable(lister[p], now) \/ ReadyLater(lister[p], now)
      PROVE  <<p, lister[p]>> \in task.pods
    <2>1. lister[p].deleting = 0 /\ lister[p].ready # 0
        BY <1>3 DEF IsPodAvailable, ReadyLater
    <2>2. lister[p] # Absent
        BY <2>1 DEF Absent
    <2>3. <<p, lister[p]>> \in Found(p)
        BY <2>1, <2>2 DEF Found
    <2> QED BY <1>1, <2>3
<1>4. ASSUME NEW q \in task.pods PROVE q[1] \in Pods /\ q[2] = lister[q[1]]
    <2>1. q[1] \in Pods
        BY <1>2
    <2>2. q \in Found(q[1])
        BY <1>1, <2>1
    <2> QED BY <2>1, <2>2 DEF Found
<1> QED BY <1>1, <1>3, <1>4

LEMMA AggregateStatusKeeps ==
    ASSUME IInv, AggregateStatus PROVE IInv'
<1>1. /\ UNCHANGED <<cluster, informers, pool, ppr, cache, queued, alarm>>
      /\ pc = "pods" /\ task.unread = {}
    BY DEF AggregateStatus, queue
<1>2. TypeOK /\ task \in Task /\ IsFiniteSet(task.pods)
    BY DEF IInv, TaskTyped
<1>3. CASE ~task.ppr.cell /\ task.pods = {}
    <2>1. EndReconcile
        BY <1>3 DEF AggregateStatus
    <2>2. CountStored'
        <3> SUFFICES ASSUME ~Woken, AllHandled, cache = ppr
                     PROVE  ppr.available = Cardinality(Available) /\ NoneLater /\ Await(ppr.history)
            BY <1>1, <2>1 DEF CountStored, Woken, AllHandled, Handled, Available, NoneLater, Await,
                              cluster, informers
        <3>1. /\ task.ppr = ppr
              /\ \A p \in Pods : ~IsPodAvailable(lister[p], now) /\ ~ReadyLater(lister[p], now)
            BY <1>1, <1>3, AllFound
        <3>2. ppr.available = 0 /\ ppr.history = {}
            BY <3>1, <1>1, <1>3 DEF IInv, Revisions, Empty
        <3>3. Available = {} /\ NoneLater
            BY <3>1 DEF Available, NoneLater
        <3> QED BY <3>2, <3>3, FS_EmptySet DEF Await
    <2> QED BY <1>1, <1>2, <2>1, <2>2, EndKeeps DEF IInv, TypeOK, Revisions
<1>4. CASE ~(~task.ppr.cell /\ task.pods = {})
    <2> DEFINE later == {q[2].ready + MinReady : q \in {q \in task.pods : ReadyLater(q[2], now)}}
               ready == {q[1] : q \in {q \in task.pods : IsPodAvailable(q[2], now)}}
               requeue == IF later = {} THEN 0 ELSE Min(later)
    <2>1. pc' = "sync" /\ task' = [Aggregation(task) EXCEPT !.shards = Shards]
        BY <1>4 DEF AggregateStatus
    <2>2. Aggregation(task) = [task EXCEPT !.available = ready, !.requeue = requeue]
        BY DEF Aggregation
    <2>3. ready \subseteq Pods
        BY <1>2, TaskFields
    <2>4. later \subseteq Nat \ {0}
        <3> SUFFICES ASSUME NEW q \in task.pods, ReadyLater(q[2], now)
                     PROVE  q[2].ready + MinReady \in Nat \ {0}
            OBVIOUS
        <3>1. q[2].ready \in Nat /\ q[2].ready # 0 /\ MinReady \in Nat
            BY <1>2, TaskFields, AggregatorAssumption DEF ReadyLater, PodObject
        <3> QED BY <3>1
    <2>5. requeue \in Nat /\ (requeue = 0 => later = {})
        BY <2>4, MinElement
    <2> HIDE DEF ready, requeue
    <2>6. /\ task' \in Task /\ task'.ppr = task.ppr /\ task'.unread = {} /\ task'.pods = task.pods
          /\ task'.available = ready /\ task'.requeue = requeue
        BY <1>1, <1>2, <2>1, <2>2, <2>3, <2>5 DEF Task
    <2>7. TypeOK'
        BY <1>1, <1>2, <2>1, <2>6, BusyTask DEF TypeOK, IInv, Revisions, cluster, informers
    <2>8. TaskTyped'
        BY <1>2, <2>6 DEF TaskTyped, IInv
    <2>9. Revisions'
        BY <1>1, <2>1, <2>6 DEF IInv, Revisions, Revision
    <2>10. PodsRead'
        BY <1>1, <2>1, <2>6 DEF IInv, PodsRead, Woken, Handled, Found, informers
    <2>11. CountRead'
        <3> SUFFICES ASSUME ~Woken, AllHandled, requeue = 0
                     PROVE  ready = Available /\ NoneLater
            BY <1>1, <2>1, <2>6 DEF CountRead, Woken, AllHandled, Handled, Available, NoneLater,
                                    cluster, informers
        <3>1. /\ \A p \in Pods : IsPodAvailable(lister[p], now) \/ ReadyLater(lister[p], now)
                                     => <<p, lister[p]>> \in task.pods
              /\ \A q \in task.pods : q[1] \in Pods /\ q[2] = lister[q[1]]
            BY <1>1, AllFound
        <3>2. ready = Available
            <4>1. ASSUME NEW p \in Available PROVE p \in ready
                <5>1. <<p, lister[p]>> \in task.pods /\ IsPodAvailable(<<p, lister[p]>>[2], now)
                    BY <3>1, <4>1 DEF Available
                <5>2. <<p, lister[p]>>[1] = p
                    OBVIOUS
                <5> QED BY <5>1, <5>2 DEF ready
            <4>2. ASSUME NEW p \in ready PROVE p \in Available
                <5>1. PICK q \in task.pods : IsPodAvailable(q[2], now) /\ p = q[1]
                    BY <4>2 DEF ready
                <5> QED BY <3>1, <5>1 DEF Available
            <4> QED BY <4>1, <4>2
        <3>3. NoneLater
            <4> SUFFICES ASSUME NEW p \in Pods, ReadyLater(lister[p], now) PROVE FALSE
                BY DEF NoneLater
            <4>1. <<p, lister[p]>> \in {q \in task.pods : ReadyLater(q[2], now)}
                BY <3>1
            <4>2. later = {}
                BY <2>5
            <4> QED BY <4>1, <4>2
        <3> QED BY <3>2, <3>3
    <2>12. CountStored'
        BY <2>1 DEF CountStored
    <2> QED BY <1>1, <2>7, <2>8, <2>9, <2>10, <2>11, <2>12, RoutedFrame, DeliveredFrame, TracksFrame
               DEF IInv, cluster, informers
<1> QED BY <1>3, <1>4

(* A sync time is read; without one the reconciliation fails. *)
LEMMA ReadSyncTimeKeeps ==
    ASSUME IInv, ReadSyncTime PROVE IInv'
<1> DEFINE s == Min(task.shards)
<1>1. /\ UNCHANGED <<cluster, informers, pool, ppr, cache, queued>>
      /\ pc = "sync" /\ task.shards # {}
    BY DEF ReadSyncTime
<1>2. TypeOK /\ task \in Task
    BY DEF IInv, TaskTyped
<1>3. s \in Shards /\ syncTime[s] \in Nat
    <2>1. task.shards \in SUBSET Nat /\ task.shards \subseteq Shards
        BY <1>2, TaskFields, AggregatorAssumption
    <2>2. s \in task.shards
        BY <1>1, <2>1, MinElement
    <2> QED BY <1>2, <2>1, <2>2 DEF TypeOK
<1> HIDE DEF s
<1>4. CASE syncTime[s] = 0
    BY <1>1, <1>4, FailKeeps DEF ReadSyncTime, s
<1>5. CASE syncTime[s] # 0
    <2>1. /\ task' = [task EXCEPT !.shards = @ \ {s}, !.times[s] = syncTime[s]]
          /\ UNCHANGED <<pc, alarm>>
        BY <1>5 DEF ReadSyncTime, s
    <2>2. /\ task'.ppr = task.ppr /\ task'.unread = task.unread /\ task'.pods = task.pods
          /\ task'.available = task.available /\ task'.requeue = task.requeue
        BY <1>2, <2>1 DEF Task
    <2>3. task' \in Task
        BY <1>2, <1>3, <2>1 DEF Task
    <2>4. TypeOK'
        BY <1>1, <1>2, <2>1, <2>2, BusyTask DEF TypeOK, IInv, Revisions, cluster, informers
    <2>5. TaskTyped'
        BY <2>1, <2>2, <2>3 DEF TaskTyped, IInv
    <2>6. Revisions'
        BY <1>1, <2>1, <2>2 DEF IInv, Revisions, Revision
    <2>7. PodsRead'
        BY <1>1, <2>1, <2>2 DEF IInv, PodsRead, Woken, Handled, Found, informers
    <2>8. CountRead'
        BY <1>1, <2>1, <2>2 DEF IInv, CountRead, Woken, AllHandled, Handled, Available, NoneLater,
                                cluster, informers
    <2>9. CountStored'
        BY <1>1, <2>1 DEF CountStored
    <2> QED BY <1>1, <2>4, <2>5, <2>6, <2>7, <2>8, <2>9, RoutedFrame, DeliveredFrame, TracksFrame
               DEF IInv, cluster, informers
<1> QED BY <1>4, <1>5

(* What remains of the history waits for the next events. *)
LEMMA UpdateLastEventTimeKeeps ==
    ASSUME IInv, UpdateLastEventTime PROVE IInv'
<1>1. /\ UNCHANGED <<cluster, informers, ppr, cache, queued, task>>
      /\ pc = "sync" /\ pc' = "write"
      /\ pool' = pool \cup UNION {NextEventOf(b, task.times) : b \in Outstanding(task)}
      /\ IF task.requeue # 0 THEN AddAfter(task.requeue) ELSE UNCHANGED alarm
    BY DEF UpdateLastEventTime, Push
<1>2. TypeOK /\ task \in Task /\ task.ppr # NoPpr
    BY <1>1 DEF IInv, TaskTyped, Revisions
<1>3. \A b \in Outstanding(task) : NextEventOf(b, task.times) \subseteq Shards
    BY AggregatorAssumption DEF NextEventOf
<1>4. alarm' \in Nat /\ (task.requeue # 0 => alarm' # 0) /\ (task.requeue = 0 => alarm' = alarm)
    BY <1>1, <1>2, TaskFields DEF AddAfter, TypeOK
<1>5. TypeOK'
    <2>1. pool' \subseteq Shards
        BY <1>1, <1>2, <1>3 DEF TypeOK
    <2> QED BY <1>1, <1>2, <1>4, <2>1, BusyTask DEF TypeOK, cluster, informers
<1>6. TaskTyped'
    BY <1>1 DEF TaskTyped, IInv
<1>7. Revisions'
    BY <1>1 DEF IInv, Revisions, Revision
<1>8. Outstanding(task)' = Outstanding(task)
    BY <1>1
<1>9. \A b \in Outstanding(task) : b.podUid \in NamedPods => ShardOf[b.podUid] \in pool'
    BY <1>1 DEF NextEventOf
<1>10. PodsRead' /\ CountRead' /\ CountStored'
    <2>1. CASE Woken'
        BY <2>1, WokenKeeps
    <2>2. CASE ~Woken'
        <3>1. ~Woken /\ task.requeue = 0 /\ alarm' = alarm
            BY <1>1, <1>4, <2>2 DEF Woken
        <3>2. PodsRead'
            BY <3>1, <1>1 DEF IInv, PodsRead, Handled, Found, informers
        <3>3. CountRead'
            BY <3>1, <1>1, <1>8, <1>9 DEF IInv, CountRead, AllHandled, Handled, Available, NoneLater, Await,
                                          cluster, informers
        <3>4. CountStored'
            BY <1>1 DEF CountStored
        <3> QED BY <3>2, <3>3, <3>4
    <2> QED BY <2>1, <2>2
<1> QED BY <1>1, <1>5, <1>6, <1>7, <1>10, RoutedFrame, DeliveredFrame, TracksFrame
           DEF IInv, cluster, informers

(* Nothing has changed: what was counted is what is stored. *)
LEMMA NothingChangedKeeps ==
    ASSUME IInv, NothingChanged PROVE IInv'
<1>1. /\ UNCHANGED <<cluster, informers, pool, ppr, cache, queued, alarm>>
      /\ pc = "write" /\ ~HasChanged(task) /\ EndReconcile
    BY DEF NothingChanged, queue
<1>2. CountStored'
    <2> SUFFICES ASSUME ~Woken, AllHandled, cache = ppr
                 PROVE  ppr.available = Cardinality(Available) /\ NoneLater /\ Await(ppr.history)
        BY <1>1 DEF CountStored, Woken, AllHandled, Handled, Available, NoneLater, Await,
                    cluster, informers
    <2>1. task.ppr = ppr
        BY <1>1 DEF IInv, PodsRead
    <2>2. task.available = Available /\ NoneLater /\ Await(Outstanding(task))
        BY <1>1 DEF IInv, CountRead
    <2>3. Cardinality(task.available) = task.ppr.available /\ Outstanding(task) = task.ppr.history
        BY <1>1 DEF HasChanged
    <2> QED BY <2>1, <2>2, <2>3
<1> QED BY <1>1, <1>2, EndKeeps DEF IInv, TypeOK, Revisions

(* The count is written, of which the informer has to learn. *)
LEMMA UpdateStatusKeeps ==
    ASSUME IInv, UpdateStatus PROVE IInv'
<1>1. /\ UNCHANGED <<cluster, informers, pool, cache, queued, alarm>>
      /\ pc = "write" /\ ppr.rv = task.ppr.rv /\ EndReconcile
      /\ ppr' \in Updates(task)
    BY DEF UpdateStatus, queue
<1>2. TypeOK /\ task \in Task /\ IsFiniteSet(task.pods)
    BY DEF IInv, TaskTyped
<1>3. PICK h \in Summarize(Outstanding(task)) :
          ppr' = [task.ppr EXCEPT !.rv = @ + 1, !.cell = TRUE, !.total = Cardinality(task.pods),
                                  !.available = Cardinality(task.available),
                                  !.history = h]
    BY <1>1 DEF Updates
<1>4. task.ppr \in Protector /\ task.ppr.rv \in Nat
    BY <1>2 DEF Task, Protector
<1>5. Outstanding(task) \in SUBSET Bucket
    BY <1>4 DEF Outstanding, Protector
<1>6. h \in SUBSET Bucket
    BY <1>5, SummarizeKeeps DEF Keeps
<1>7. Cardinality(task.pods) \in Nat /\ Cardinality(task.available) \in Nat
    <2>1. IsFiniteSet(task.available)
        BY <1>2, TaskFields, FS_Subset, PodProtectorAssumption
    <2> QED BY <1>2, <2>1, FS_CardinalityType
<1>8. ppr' \in Protector /\ ppr'.rv = ppr.rv + 1 /\ ppr'.cell = TRUE
    <2>1. task.ppr.rv + 1 \in Nat
        BY <1>4
    <2>2. ppr' \in Protector
        BY <1>3, <1>4, <1>6, <1>7, <2>1 DEF Protector
    <2>3. ppr'.rv = task.ppr.rv + 1 /\ ppr'.cell = TRUE
        BY <1>3, <1>4 DEF Protector
    <2> QED BY <1>1, <2>2, <2>3
<1>9. cache' # ppr'
    <2>1. cache = ppr \/ cache.rv < ppr.rv
        BY DEF IInv, Revisions, Revision
    <2>2. ppr.rv \in Nat /\ cache.rv \in Nat
        BY <1>2 DEF TypeOK, Protector
    <2> QED BY <1>1, <1>8, <2>1, <2>2
<1>10. CountStored'
    BY <1>9 DEF CountStored
<1>11. Empty(ppr')
    BY <1>8 DEF Empty
<1> QED BY <1>1, <1>8, <1>10, <1>11, EndKeeps

LEMMA ReconcileKeeps ==
    ASSUME IInv, Reconcile PROVE IInv'
<1>1. CASE StartReconcile
    BY <1>1, StartReconcileKeeps
<1>2. ASSUME NEW p \in Pods, FindPod(p) PROVE IInv'
    BY <1>2, FindPodKeeps
<1>3. CASE AggregateStatus
    BY <1>3, AggregateStatusKeeps
<1>4. CASE PodMissing
    BY <1>4, FailKeeps DEF PodMissing
<1>5. CASE ReadSyncTime
    BY <1>5, ReadSyncTimeKeeps
<1>6. CASE UpdateLastEventTime
    BY <1>6, UpdateLastEventTimeKeeps
<1>7. CASE NothingChanged
    BY <1>7, NothingChangedKeeps
<1>8. CASE UpdateStatus
    BY <1>8, UpdateStatusKeeps
<1>9. CASE UpdateFails
    BY <1>9, FailKeeps DEF UpdateFails
<1> QED BY <1>1, <1>2, <1>3, <1>4, <1>5, <1>6, <1>7, <1>8, <1>9 DEF Reconcile

-----------------------------------------------------------------------------
(* At the start the pods are there, counted, and nothing is under way. *)
LEMMA InitIInv ==
    ASSUME Init PROVE IInv
<1> DEFINE first == [Absent EXCEPT !.created = 1, !.ready = 1]
<1>1. /\ first \in PodObject /\ Absent \in PodObject /\ first # Absent
      /\ first.ready = 1 /\ first.deleting = 0 /\ Absent.ready = 0
    <2>1. first.ready = 1 /\ first.deleting = 0 /\ Absent.ready = 0
        BY DEF Absent
    <2>2. first \in PodObject /\ Absent \in PodObject
        BY DEF Absent, PodObject
    <2> HIDE DEF first
    <2>3. first # Absent
        BY <2>1
    <2> QED BY <2>1, <2>2, <2>3
<1> HIDE DEF first
<1>2. obj = [p \in AllPods |-> IF p \in InitPods THEN first ELSE Absent]
    BY DEF Init, first
<1>3. \A p \in Pods : p \in AllPods /\ obj[p] = (IF p \in InitPods THEN first ELSE Absent) /\ ShardOf[p] \in Shards
    BY <1>2, AggregatorAssumption DEF AllPods
<1>4. obj \in [AllPods -> PodObject]
    BY <1>1, <1>2
<1>5. MinReady \in Nat /\ MaxTime \in Nat /\ now = 1 + MinReady /\ now \in 1..MaxTime
    BY AggregatorAssumption DEF Init
<1>6. IsFiniteSet(InitPods) /\ Cardinality(InitPods) \in Nat
    BY AggregatorAssumption, PodProtectorAssumption, FS_Subset, FS_CardinalityType
<1>7. /\ ppr \in Protector /\ cache = ppr /\ ppr.rv = 1 /\ (ppr.cell <=> InitPods # {})
      /\ ppr.available = Cardinality(InitPods) /\ ppr.history = {}
    BY <1>6 DEF Init, Protector
<1> DEFINE nothing == <<>>
<1>8. nothing \in Seq(Event) /\ Len(nothing) = 0
    OBVIOUS
<1>9. /\ watch = [s \in Shards |-> nothing] /\ notices = [s \in Shards |-> nothing]
      /\ stage = [s \in Shards |-> "sync"]
    BY DEF Init
<1> HIDE DEF nothing
<1>10. TypeOK
    <2>1. /\ watch \in [Shards -> Seq(Event)] /\ notices \in [Shards -> Seq(Event)]
          /\ stage \in [Shards -> {"sync", "drain"}]
          /\ \A s \in Shards : stage[s] = "drain" => notices[s] # <<>>
        BY <1>8, <1>9
    <2>2. terminatedAt \in [Pods -> 0..MaxTime]
        BY <1>5 DEF Init
    <2> QED BY <1>4, <1>5, <1>7, <2>1, <2>2, AggregatorAssumption DEF Init, TypeOK
<1>11. TaskTyped
    BY IdleTask DEF Init, TaskTyped
<1>12. EventsRouted
    BY <1>8, <1>9 DEF EventsRouted, Routed
<1>13. Revisions
    BY <1>6, <1>7, FS_EmptySet DEF Init, Revisions, Revision, Empty
<1>14. \A p, o : NoneOf(nothing, p) /\ LastOf(nothing, p, o)
    BY <1>8 DEF NoneOf, LastOf
<1>15. Delivered
    <2>1. \A p \in Pods : watch[ShardOf[p]] = nothing
        BY <1>3, <1>9
    <2>2. lister = obj
        BY DEF Init
    <2> QED BY <1>14, <2>1, <2>2 DEF Delivered
<1>16. Tracks
    <2>1. \A s \in Shards : Untracked(s) = nothing
        BY <1>9 DEF Untracked
    <2>2. \A p \in Pods : p \in index <=> lister[p] # Absent
        BY <1>1, <1>3 DEF Init
    <2> QED BY <1>3, <1>14, <2>1, <2>2 DEF Tracks
<1>17. PodsRead /\ CountRead
    BY DEF Init, PodsRead, CountRead
<1>18. CountStored
    <2>1. \A p \in Pods : /\ IsPodAvailable(lister[p], now) <=> p \in InitPods
                          /\ ~ReadyLater(lister[p], now)
        <3> SUFFICES ASSUME NEW p \in Pods
                     PROVE  /\ IsPodAvailable(obj[p], now) <=> p \in InitPods
                            /\ ~ReadyLater(obj[p], now)
            BY DEF Init
        <3>1. CASE p \in InitPods
            BY <3>1, <1>1, <1>3, <1>5 DEF IsPodAvailable, ReadyLater
        <3>2. CASE p \notin InitPods
            BY <3>2, <1>1, <1>3, <1>5 DEF IsPodAvailable, ReadyLater
        <3> QED BY <3>1, <3>2
    <2>2. Available = InitPods
        BY <2>1, AggregatorAssumption DEF Available
    <2> QED BY <1>7, <2>1, <2>2 DEF CountStored, NoneLater, Await
<1> QED BY <1>10, <1>11, <1>12, <1>13, <1>15, <1>16, <1>17, <1>18 DEF IInv

LEMMA NextIInv ==
    ASSUME IInv, [Next]_vars PROVE IInv'
<1>1. CASE UNCHANGED vars
    <2>1. UNCHANGED <<now, obj, terminatedAt, approved, faults, spin, watch, lister, notices, stage, index,
                      syncTime, unsynced, pool, ppr, cache, queue, queued, alarm, pc, task>>
        BY <1>1 DEF vars, cluster, informers, queue
    <2>2. TypeOK'
        BY <2>1 DEF IInv, TypeOK
    <2> QED BY <2>1, <2>2, TaskFrame, RoutedFrame, RevisionsFrame, DeliveredFrame, TracksFrame,
               PodsReadFrame, CountReadFrame, CountStoredFrame DEF IInv
<1>2. CASE Cell
    BY <1>2, TickKeeps, PodChangeKeeps, ApproveKeeps DEF Cell
<1>3. CASE UpdateTrigger
    BY <1>3, UpdateTriggerKeeps
<1>4. CASE Informers
    BY <1>4, StoreEventKeeps, RelistKeeps, NotifyKeeps, DrainKeeps, DeliverPprKeeps DEF Informers, Handler
<1>5. CASE FireAlarm
    BY <1>5, FireAlarmKeeps
<1>6. CASE Reconcile
    BY <1>6, ReconcileKeeps
<1>7. CASE Restart
    BY <1>7, RestartKeeps
<1> QED BY <1>1, <1>2, <1>3, <1>4, <1>5, <1>6, <1>7 DEF Next

(* Without lag the store is what the apiserver has, and an idle reconciliation wrote it. *)
LEMMA InvCurrentAtRest ==
    ASSUME IInv PROVE CurrentAtRest
<1> SUFFICES ASSUME AtRest
             PROVE  /\ ppr.available = Cardinality(ActuallyAvailable)
                    /\ \A b \in ppr.history : b.podUid \in NamedPods => ShardOf[b.podUid] \in pool
    BY DEF IInv, CurrentAtRest, RestMeansCurrent
<1> DEFINE nothing == <<>>
<1>1. Len(nothing) = 0 /\ \A s \in Shards : watch[s] = nothing /\ notices[s] = nothing
    BY DEF AtRest, NoLag
<1> HIDE DEF nothing
<1>2. \A p \in Pods : ShardOf[p] \in Shards
    BY AggregatorAssumption
<1>3. \A p \in Pods : Handled(p) /\ NoneOf(watch[ShardOf[p]], p)
    BY <1>1, <1>2 DEF Handled, NoneOf
<1>4. \A p \in Pods : lister[p] = obj[p]
    BY <1>3 DEF IInv, Delivered
<1>5. ppr.available = Cardinality(Available) /\ Await(ppr.history)
    BY <1>3 DEF IInv, CountStored, AtRest, Woken, AllHandled
<1>6. Available = ActuallyAvailable
    BY <1>4 DEF Available, ActuallyAvailable
<1> QED BY <1>5, <1>6 DEF Await

(***************************************************************************)
(* No change is forgotten: in every state in which the aggregator has      *)
(* nothing left to do, the count it stored is the number of available pods *)
(* of the cell, and every bucket of a known pod waits for the next event   *)
(* of the shard of the pod, whatever the handlers, the informers, other    *)
(* writers, a relist or a restart did between the reads of tryReconcile    *)
(* and its write.                                                          *)
(***************************************************************************)
THEOREM NoChangeLost == Spec => []CurrentAtRest
<1>1. Init => IInv
    BY InitIInv
<1>2. IInv /\ [Next]_vars => IInv'
    BY NextIInv
<1>3. IInv => CurrentAtRest
    BY InvCurrentAtRest
<1> QED BY <1>1, <1>2, <1>3, PTL DEF Spec

-----------------------------------------------------------------------------
(***************************************************************************)
(* Which buckets are dropped.  The sync time of a shard is never later     *)
(* than a termination that the shard has still to hear of, so a bucket     *)
(* that starts before it started before all of those.  With the status     *)
(* algorithm that is so because events are in the order of the times they  *)
(* tell, with the clock because the clock waits for the events.            *)
(***************************************************************************)
Terminating(e) == ~e.gone /\ e.obj.deleting # 0

(* The events of shard s that have not reached its sync time, in their order. *)
Pending(s) == Untracked(s) \o watch[s]

(***************************************************************************)
(* Events q of a shard whose sync time is sync: at time t none of them     *)
(* tells a later time, and a termination, carried out when done says, is   *)
(* neither before the sync time nor before what earlier events tell.       *)
(***************************************************************************)
InOrder(q, sync, done, t) ==
    \A k \in 1..Len(q) :
        /\ Algorithm = "status" => InterpretStatus(q[k].obj) <= t
        /\ Terminating(q[k]) =>
              /\ q[k].pod \in Pods
              /\ sync <= done[q[k].pod]
              /\ Algorithm = "clock" => done[q[k].pod] = t
              /\ Algorithm = "status" => \A j \in 1..k - 1 : InterpretStatus(q[j].obj) <= done[q[k].pod]

EventsInOrder == \A s \in Shards : InOrder(Pending(s), syncTime[s], terminatedAt, now)

(* Pods tell no time that is still to come; the dummy pod does not terminate. *)
PodsPast ==
    /\ \A p \in AllPods : /\ obj[p].created <= now /\ obj[p].touched <= now
                          /\ Algorithm = "status" => obj[p].deleting <= now
    /\ obj[Trigger].deleting = 0

(* Sync times are past, and do not decrease while a reconciliation uses them. *)
SyncPast ==
    /\ \A s \in Shards : syncTime[s] <= now
    /\ pc # "idle" => \A s \in Shards : task.times[s] <= syncTime[s]

TInv ==
    /\ faults = {}
    /\ EventsInOrder /\ PodsPast /\ SyncPast
    /\ Small(ppr.history)

(* The algorithms and settings under which the events tell the time they are about. *)
TimesTold ==
    \/ Algorithm = "clock" /\ LagFree
    \/ Algorithm = "status" /\ Grace = 0

(* A pair of sequences of events, one after the other. *)
LEMMA Joined ==
    ASSUME NEW u \in Seq(Event), NEW w \in Seq(Event)
    PROVE  /\ u \o w \in Seq(Event) /\ Len(u \o w) = Len(u) + Len(w)
           /\ Len(u) \in Nat /\ Len(w) \in Nat
           /\ \A k \in 1..Len(u) : (u \o w)[k] = u[k]
           /\ \A k \in 1..Len(w) : (u \o w)[Len(u) + k] = w[k]
OBVIOUS

(* A sequence of events and one more. *)
LEMMA Appended ==
    ASSUME NEW q \in Seq(Event), NEW e \in Event
    PROVE  /\ Append(q, e) \in Seq(Event) /\ Len(Append(q, e)) = Len(q) + 1 /\ Append(q, e)[Len(q) + 1] = e
           /\ \A k \in 1..Len(q) : Append(q, e)[k] = q[k]
           /\ Len(q) \in Nat
OBVIOUS

(* Two sequences with the same elements are the same. *)
LEMMA SameSequence ==
    ASSUME NEW a \in Seq(Event), NEW b \in Seq(Event), Len(a) = Len(b), \A k \in 1..Len(a) : a[k] = b[k]
    PROVE  a = b
OBVIOUS

(* An event that is appended to the second is appended to both. *)
LEMMA JoinedAppend ==
    ASSUME NEW u \in Seq(Event), NEW w \in Seq(Event), NEW e \in Event
    PROVE  u \o Append(w, e) = Append(u \o w, e)
<1> DEFINE wa == Append(w, e)
           j  == u \o w
<1>1. /\ wa \in Seq(Event) /\ Len(wa) = Len(w) + 1 /\ wa[Len(w) + 1] = e
      /\ \A k \in 1..Len(w) : wa[k] = w[k]
    OBVIOUS
<1>2. /\ j \in Seq(Event) /\ Len(j) = Len(u) + Len(w) /\ Len(u) \in Nat /\ Len(w) \in Nat
      /\ \A k \in 1..Len(u) : j[k] = u[k]
      /\ \A k \in 1..Len(w) : j[Len(u) + k] = w[k]
    BY Joined
<1> HIDE DEF wa, j
<1> DEFINE a == u \o wa
           b == Append(j, e)
<1>3. /\ a \in Seq(Event) /\ Len(a) = Len(u) + Len(wa)
      /\ \A k \in 1..Len(u) : a[k] = u[k]
      /\ \A k \in 1..Len(wa) : a[Len(u) + k] = wa[k]
    BY <1>1, Joined
<1>4. /\ b \in Seq(Event) /\ Len(b) = Len(j) + 1 /\ b[Len(j) + 1] = e
      /\ \A k \in 1..Len(j) : b[k] = j[k]
    BY <1>2, Appended
<1> HIDE DEF a, b
<1>5. Len(a) = Len(b)
    BY <1>1, <1>2, <1>3, <1>4
<1>6. ASSUME NEW k \in 1..Len(a) PROVE a[k] = b[k]
    <2>1. CASE k <= Len(u)
        <3>1. k \in 1..Len(u) /\ k \in 1..Len(j)
            BY <2>1, <1>2
        <3> QED BY <3>1, <1>2, <1>3, <1>4
    <2>2. CASE k > Len(u) /\ k # Len(j) + 1
        <3>1. /\ k - Len(u) \in 1..Len(w) /\ k - Len(u) \in 1..Len(wa) /\ k \in 1..Len(j)
              /\ Len(u) + (k - Len(u)) = k
            BY <2>2, <1>1, <1>2, <1>3
        <3>2. a[k] = wa[k - Len(u)] /\ wa[k - Len(u)] = w[k - Len(u)]
            BY <3>1, <1>1, <1>3
        <3>3. b[k] = j[k] /\ j[k] = w[k - Len(u)]
            BY <3>1, <1>2, <1>4
        <3> QED BY <3>2, <3>3
    <2>3. CASE k = Len(j) + 1
        <3>1. Len(w) + 1 \in 1..Len(wa) /\ Len(u) + (Len(w) + 1) = k
            BY <2>3, <1>1, <1>2
        <3> QED BY <2>3, <3>1, <1>1, <1>3, <1>4
    <2> QED BY <2>1, <2>2, <2>3, <1>2
<1>7. a = b
    BY <1>3, <1>4, <1>5, <1>6, SameSequence
<1> QED BY <1>7 DEF a, b, wa, j

(* The first event of both is that of the first one. *)
LEMMA JoinedTail ==
    ASSUME NEW u \in Seq(Event), u # <<>>, NEW w \in Seq(Event)
    PROVE  /\ u \o w # <<>> /\ Head(u \o w) = Head(u)
           /\ Tail(u) \o w = Tail(u \o w)
<1> DEFINE t == Tail(u)
           j == u \o w
<1>1. /\ t \in Seq(Event) /\ Len(t) = Len(u) - 1 /\ Len(u) \in Nat /\ Len(u) > 0 /\ Head(u) = u[1]
      /\ \A k \in 1..Len(u) - 1 : t[k] = u[k + 1]
    OBVIOUS
<1>2. /\ j \in Seq(Event) /\ Len(j) = Len(u) + Len(w) /\ Len(w) \in Nat
      /\ \A k \in 1..Len(u) : j[k] = u[k]
      /\ \A k \in 1..Len(w) : j[Len(u) + k] = w[k]
    BY Joined
<1> HIDE DEF t, j
<1>3. Len(j) # 0
    BY <1>1, <1>2
<1>4. j # <<>>
    BY <1>3
<1>5. Head(j) = Head(u)
    <2>1. Head(j) = j[1]
        BY <1>2, <1>4
    <2>2. 1 \in 1..Len(u)
        BY <1>1
    <2> QED BY <2>1, <2>2, <1>1, <1>2
<1> DEFINE a == t \o w
           b == Tail(j)
<1>6. /\ a \in Seq(Event) /\ Len(a) = Len(t) + Len(w)
      /\ \A k \in 1..Len(t) : a[k] = t[k]
      /\ \A k \in 1..Len(w) : a[Len(t) + k] = w[k]
    BY <1>1, Joined
<1>7. /\ b \in Seq(Event) /\ Len(b) = Len(j) - 1
      /\ \A k \in 1..Len(j) - 1 : b[k] = j[k + 1]
    BY <1>2, <1>4
<1> HIDE DEF a, b
<1>8. Len(a) = Len(b)
    BY <1>1, <1>2, <1>6, <1>7
<1>9. ASSUME NEW k \in 1..Len(a) PROVE a[k] = b[k]
    <2>1. k \in 1..Len(j) - 1 /\ b[k] = j[k + 1]
        BY <1>7, <1>8, <1>9
    <2>2. CASE k <= Len(t)
        <3>1. k \in 1..Len(t) /\ k \in 1..Len(u) - 1 /\ k + 1 \in 1..Len(u)
            BY <2>2, <1>1
        <3> QED BY <2>1, <3>1, <1>1, <1>2, <1>6
    <2>3. CASE k > Len(t)
        <3>1. /\ k - Len(t) \in 1..Len(w) /\ Len(t) + (k - Len(t)) = k
              /\ Len(u) + (k - Len(t)) = k + 1
            BY <2>3, <1>1, <1>2, <1>6
        <3> QED BY <2>1, <3>1, <1>2, <1>6
    <2> QED BY <2>2, <2>3, <1>1
<1>10. a = b
    BY <1>6, <1>7, <1>8, <1>9, SameSequence
<1> QED BY <1>4, <1>5, <1>10 DEF a, b, t, j

(* The event that is first in the second may be last in the first. *)
LEMMA JoinedMove ==
    ASSUME NEW u \in Seq(Event), NEW w \in Seq(Event), w # <<>>
    PROVE  Append(u, Head(w)) \o Tail(w) = u \o w
<1> DEFINE t == Tail(w)
           e == Head(w)
           v == Append(u, e)
<1>1. /\ t \in Seq(Event) /\ Len(t) = Len(w) - 1 /\ Len(w) \in Nat /\ Len(w) > 0 /\ e = w[1] /\ e \in Event
      /\ \A k \in 1..Len(w) - 1 : t[k] = w[k + 1]
    OBVIOUS
<1> HIDE DEF t, e
<1>2. /\ v \in Seq(Event) /\ Len(v) = Len(u) + 1 /\ v[Len(u) + 1] = e /\ Len(u) \in Nat
      /\ \A k \in 1..Len(u) : v[k] = u[k]
    BY <1>1
<1> HIDE DEF v
<1> DEFINE a == v \o t
           b == u \o w
<1>3. /\ a \in Seq(Event) /\ Len(a) = Len(v) + Len(t)
      /\ \A k \in 1..Len(v) : a[k] = v[k]
      /\ \A k \in 1..Len(t) : a[Len(v) + k] = t[k]
    BY <1>1, <1>2, Joined
<1>4. /\ b \in Seq(Event) /\ Len(b) = Len(u) + Len(w)
      /\ \A k \in 1..Len(u) : b[k] = u[k]
      /\ \A k \in 1..Len(w) : b[Len(u) + k] = w[k]
    BY Joined
<1> HIDE DEF a, b
<1>5. Len(a) = Len(b)
    BY <1>1, <1>2, <1>3, <1>4
<1>6. ASSUME NEW k \in 1..Len(a) PROVE a[k] = b[k]
    <2>1. CASE k <= Len(u)
        <3>1. k \in 1..Len(u) /\ k \in 1..Len(v)
            BY <2>1, <1>2
        <3> QED BY <3>1, <1>2, <1>3, <1>4
    <2>2. CASE k = Len(u) + 1
        <3>1. k \in 1..Len(v) /\ 1 \in 1..Len(w)
            BY <2>2, <1>1, <1>2
        <3> QED BY <2>2, <3>1, <1>1, <1>2, <1>3, <1>4
    <2>3. CASE k > Len(u) + 1
        <3>1. /\ k - Len(v) \in 1..Len(t) /\ Len(v) + (k - Len(v)) = k
              /\ k - Len(v) \in 1..Len(w) - 1 /\ (k - Len(v)) + 1 \in 1..Len(w)
              /\ Len(u) + ((k - Len(v)) + 1) = k
            BY <2>3, <1>1, <1>2, <1>3
        <3>2. a[k] = t[k - Len(v)] /\ t[k - Len(v)] = w[(k - Len(v)) + 1]
            BY <3>1, <1>1, <1>3
        <3>3. b[k] = w[(k - Len(v)) + 1]
            BY <3>1, <1>4
        <3> QED BY <3>2, <3>3
    <2> QED BY <2>1, <2>2, <2>3, <1>2
<1>7. a = b
    BY <1>3, <1>4, <1>5, <1>6, SameSequence
<1> QED BY <1>7 DEF a, b, v, t, e

-----------------------------------------------------------------------------
(* An event of the present goes behind the others. *)
LEMMA InOrderAppend ==
    ASSUME NEW q \in Seq(Event), NEW e \in Event, NEW sync \in Nat, NEW done, NEW t \in Nat,
           InOrder(q, sync, done, t), sync <= t,
           Algorithm = "status" => InterpretStatus(e.obj) <= t,
           Terminating(e) => e.pod \in Pods /\ done[e.pod] = t
    PROVE  InOrder(Append(q, e), sync, done, t)
<1> DEFINE a == Append(q, e)
<1>1. /\ a \in Seq(Event) /\ Len(a) = Len(q) + 1 /\ a[Len(q) + 1] = e /\ Len(q) \in Nat
      /\ \A k \in 1..Len(q) : a[k] = q[k]
    BY Appended
<1> HIDE DEF a
<1>2. ASSUME NEW k \in 1..Len(a)
      PROVE  /\ Algorithm = "status" => InterpretStatus(a[k].obj) <= t
             /\ Terminating(a[k]) =>
                   /\ a[k].pod \in Pods
                   /\ sync <= done[a[k].pod]
                   /\ Algorithm = "clock" => done[a[k].pod] = t
                   /\ Algorithm = "status" => \A j \in 1..k - 1 : InterpretStatus(a[j].obj) <= done[a[k].pod]
    <2>1. CASE k \in 1..Len(q)
        <3>1. a[k] = q[k] /\ \A j \in 1..k - 1 : a[j] = q[j]
            BY <2>1, <1>1
        <3> QED BY <2>1, <3>1 DEF InOrder
    <2>2. CASE k = Len(q) + 1
        <3>1. a[k] = e /\ \A j \in 1..k - 1 : j \in 1..Len(q) /\ a[j] = q[j]
            BY <2>2, <1>1
        <3>2. Algorithm = "status" => \A j \in 1..k - 1 : InterpretStatus(a[j].obj) <= t
            BY <3>1 DEF InOrder
        <3> QED BY <3>1, <3>2
    <2> QED BY <2>1, <2>2, <1>1
<1>3. InOrder(a, sync, done, t)
    BY <1>2 DEF InOrder
<1> QED BY <1>3 DEF a

(* The first event moves the sync time no further than the terminations behind it. *)
LEMMA InOrderTail ==
    ASSUME NEW q \in Seq(Event), q # <<>>, NEW sync \in Nat, NEW done \in [Pods -> Nat], now \in Nat,
           InOrder(q, sync, done, now), sync <= now, Algorithm \in {"clock", "status"}
    PROVE  /\ InOrder(Tail(q), Max({sync, Interpret(Head(q).obj)}), done, now)
           /\ Max({sync, Interpret(Head(q).obj)}) <= now
           /\ sync <= Max({sync, Interpret(Head(q).obj)})
<1> DEFINE a == Tail(q)
           told == Interpret(Head(q).obj)
           m == Max({sync, told})
<1>1. /\ Len(a) = Len(q) - 1 /\ Len(q) \in Nat /\ Len(q) > 0 /\ Head(q) = q[1] /\ Head(q) \in Event
      /\ \A k \in 1..Len(q) - 1 : a[k] = q[k + 1]
    OBVIOUS
<1>2. told \in Nat
    BY <1>1, InterpretedTime DEF Event
<1>3. told <= now
    <2>1. CASE Algorithm = "clock"
        BY <2>1 DEF Interpret
    <2>2. CASE Algorithm = "status"
        <3>1. InterpretStatus(q[1].obj) <= now
            BY <2>2, <1>1 DEF InOrder
        <3> QED BY <2>2, <3>1, <1>1 DEF Interpret
    <2> QED BY <2>1, <2>2
<1>4. m \in {sync, told} /\ sync <= m /\ told <= m
    <2> HIDE DEF told
    <2>1. \E x \in {sync, told} : \A y \in {sync, told} : x >= y
        BY <1>2
    <2>2. m \in {sync, told} /\ m >= sync /\ m >= told
        BY <2>1 DEF Max
    <2> QED BY <2>2, <1>2
<1> HIDE DEF a, m
<1>5. ASSUME NEW k \in 1..Len(a)
      PROVE  /\ Algorithm = "status" => InterpretStatus(a[k].obj) <= now
             /\ Terminating(a[k]) =>
                   /\ a[k].pod \in Pods
                   /\ m <= done[a[k].pod]
                   /\ Algorithm = "clock" => done[a[k].pod] = now
                   /\ Algorithm = "status" => \A j \in 1..k - 1 : InterpretStatus(a[j].obj) <= done[a[k].pod]
    <2>1. /\ k + 1 \in 1..Len(q) /\ a[k] = q[k + 1] /\ 1 \in 1..(k + 1) - 1
          /\ \A j \in 1..k - 1 : j + 1 \in 1..(k + 1) - 1 /\ a[j] = q[j + 1]
        BY <1>1
    <2>2. Algorithm = "status" => InterpretStatus(a[k].obj) <= now
        BY <2>1 DEF InOrder
    <2>3. ASSUME Terminating(a[k])
          PROVE  /\ a[k].pod \in Pods /\ sync <= done[a[k].pod]
                 /\ Algorithm = "clock" => done[a[k].pod] = now
                 /\ Algorithm = "status" =>
                        \A j \in 1..(k + 1) - 1 : InterpretStatus(q[j].obj) <= done[a[k].pod]
        BY <2>1, <2>3 DEF InOrder
    <2>4. ASSUME Terminating(a[k]) PROVE m <= done[a[k].pod]
        <3>1. CASE Algorithm = "clock"
            BY <3>1, <2>3, <2>4, <1>3, <1>4
        <3>2. CASE Algorithm = "status"
            <4>1. told = InterpretStatus(q[1].obj)
                BY <3>2, <1>1 DEF Interpret
            <4>2. told <= done[a[k].pod]
                BY <3>2, <4>1, <2>1, <2>3, <2>4
            <4> QED BY <4>2, <2>3, <2>4, <1>4
        <3> QED BY <3>1, <3>2
    <2>5. ASSUME Terminating(a[k]), Algorithm = "status", NEW j \in 1..k - 1
          PROVE  InterpretStatus(a[j].obj) <= done[a[k].pod]
        BY <2>1, <2>3, <2>5
    <2> QED BY <2>2, <2>3, <2>4, <2>5
<1>6. InOrder(a, m, done, now)
    BY <1>5 DEF InOrder
<1>7. m <= now /\ sync <= m
    BY <1>2, <1>3, <1>4
<1> QED BY <1>6, <1>7 DEF a, m

(* A termination that is carried out now is not before anything. *)
LEMMA InOrderTerminated ==
    ASSUME NEW q \in Seq(Event), NEW sync \in Nat, NEW done \in [Pods -> Nat], NEW t \in Nat, NEW p \in Pods,
           InOrder(q, sync, done, t), sync <= t
    PROVE  InOrder(q, sync, [done EXCEPT ![p] = t], t)
<1> DEFINE after == [done EXCEPT ![p] = t]
<1>1. \A r \in Pods : after[r] = IF r = p THEN t ELSE done[r]
    OBVIOUS
<1> HIDE DEF after
<1>2. Len(q) \in Nat
    OBVIOUS
<1>3. ASSUME NEW k \in 1..Len(q), Terminating(q[k])
      PROVE  /\ q[k].pod \in Pods
             /\ sync <= after[q[k].pod]
             /\ Algorithm = "clock" => after[q[k].pod] = t
             /\ Algorithm = "status" => \A j \in 1..k - 1 : InterpretStatus(q[j].obj) <= after[q[k].pod]
    <2>1. \A j \in 1..k - 1 : j \in 1..Len(q)
        BY <1>2
    <2>2. Algorithm = "status" => \A j \in 1..k - 1 : InterpretStatus(q[j].obj) <= t
        BY <2>1 DEF InOrder
    <2>3. /\ q[k].pod \in Pods /\ sync <= done[q[k].pod]
          /\ Algorithm = "clock" => done[q[k].pod] = t
          /\ Algorithm = "status" => \A j \in 1..k - 1 : InterpretStatus(q[j].obj) <= done[q[k].pod]
        BY <1>3 DEF InOrder
    <2>4. CASE q[k].pod = p
        BY <2>2, <2>3, <2>4, <1>1
    <2>5. CASE q[k].pod # p
        BY <2>3, <2>5, <1>1
    <2> QED BY <2>4, <2>5
<1>4. InOrder(q, sync, after, t)
    BY <1>3 DEF InOrder
<1> QED BY <1>4 DEF after

-----------------------------------------------------------------------------
LEMMA OrderFrame ==
    ASSUME EventsInOrder, UNCHANGED <<watch, notices, stage, syncTime, terminatedAt, now>> PROVE EventsInOrder'
BY DEF EventsInOrder, Pending, Untracked

LEMMA PodsPastFrame ==
    ASSUME PodsPast, UNCHANGED <<obj, now>> PROVE PodsPast'
BY DEF PodsPast

LEMMA SyncPastFrame ==
    ASSUME SyncPast, UNCHANGED <<syncTime, now>>, pc' = "idle" \/ (pc # "idle" /\ task'.times = task.times)
    PROVE  SyncPast'
BY DEF SyncPast

(* The events on their way are sequences, and none are left without lag. *)
LEMMA PendingTyped ==
    ASSUME IInv, NEW s \in Shards
    PROVE  /\ Untracked(s) \in Seq(Event) /\ watch[s] \in Seq(Event) /\ Pending(s) \in Seq(Event)
           /\ syncTime[s] \in Nat /\ now \in Nat
           /\ NoLag => Len(Pending(s)) = 0
<1>1. /\ watch[s] \in Seq(Event) /\ notices[s] \in Seq(Event) /\ syncTime[s] \in Nat /\ now \in Nat
      /\ stage[s] = "drain" => notices[s] # <<>>
    BY DEF IInv, TypeOK
<1>2. Untracked(s) \in Seq(Event)
    <2>1. CASE stage[s] = "drain"
        <3>1. Tail(notices[s]) \in Seq(Event)
            BY <1>1, <2>1
        <3> QED BY <2>1, <3>1 DEF Untracked
    <2>2. CASE stage[s] # "drain"
        BY <1>1, <2>2 DEF Untracked
    <2> QED BY <2>1, <2>2
<1>3. Pending(s) \in Seq(Event) /\ Len(Pending(s)) = Len(Untracked(s)) + Len(watch[s])
    BY <1>1, <1>2, Joined DEF Pending
<1>4. ASSUME NoLag PROVE Len(Pending(s)) = 0
    <2>1. watch[s] = <<>> /\ notices[s] = <<>>
        BY <1>4 DEF NoLag
    <2>2. Untracked(s) = <<>>
        BY <1>1, <2>1 DEF Untracked
    <2>3. Len(Untracked(s)) = 0 /\ Len(watch[s]) = 0
        BY <2>1, <2>2
    <2> QED BY <1>3, <2>3
<1> QED BY <1>1, <1>2, <1>3, <1>4

LEMMA TickInOrder ==
    ASSUME IInv, TInv, TimesTold, Tick PROVE TInv'
<1>1. /\ UNCHANGED <<obj, terminatedAt, faults, watch, notices, stage, syncTime, ppr, pc, task>>
      /\ now' = now + 1 /\ now \in Nat /\ (LagFree => NoLag)
    BY DEF Tick, informers, IInv, TypeOK
<1>2. ASSUME NEW s \in Shards PROVE InOrder(Pending(s), syncTime[s], terminatedAt, now + 1)
    <2>1. InOrder(Pending(s), syncTime[s], terminatedAt, now)
        BY DEF TInv, EventsInOrder
    <2>2. CASE Algorithm = "clock" /\ LagFree
        <3>1. Len(Pending(s)) = 0
            BY <2>2, <1>1, PendingTyped
        <3> QED BY <3>1 DEF InOrder
    <2>3. CASE Algorithm = "status"
        <3>1. \A k \in 1..Len(Pending(s)) : InterpretStatus(Pending(s)[k].obj) \in Nat
            <4> SUFFICES ASSUME NEW k \in 1..Len(Pending(s))
                         PROVE  InterpretStatus(Pending(s)[k].obj) \in Nat
                OBVIOUS
            <4>1. Pending(s)[k] \in Event
                BY PendingTyped
            <4>2. Pending(s)[k].obj \in PodObject
                BY <4>1 DEF Event
            <4> QED BY <2>3, <4>2, <1>1, InterpretedTime DEF Interpret
        <3> QED BY <2>1, <2>3, <3>1, <1>1 DEF InOrder
    <2> QED BY <2>2, <2>3 DEF TimesTold
<1>3. EventsInOrder'
    <2>1. \A s \in Shards : Pending(s)' = Pending(s)
        BY <1>1 DEF Pending, Untracked
    <2> QED BY <1>1, <1>2, <2>1 DEF EventsInOrder
<1>4. PodsPast'
    <2>1. \A p \in AllPods : obj[p].created \in Nat /\ obj[p].touched \in Nat /\ obj[p].deleting \in Nat
        BY DEF IInv, TypeOK, PodObject
    <2> QED BY <1>1, <2>1 DEF TInv, PodsPast
<1>5. SyncPast'
    <2>1. \A s \in Shards : syncTime[s] \in Nat
        BY DEF IInv, TypeOK
    <2> QED BY <1>1, <2>1 DEF TInv, SyncPast
<1> QED BY <1>1, <1>3, <1>4, <1>5 DEF TInv

(* The event of a change tells a time that is not to come. *)
LEMMA EmitInOrder ==
    ASSUME IInv, TInv, NEW p \in AllPods, NEW o \in PodObject, NEW gone \in BOOLEAN,
           Emit(p, o, gone), UNCHANGED <<now, faults, local>>,
           o.created <= now, o.touched <= now, Algorithm = "status" => o.deleting <= now,
           \/ terminatedAt' = terminatedAt /\ (gone \/ o.deleting = 0)
           \/ p \in Pods /\ terminatedAt' = [terminatedAt EXCEPT ![p] = now]
    PROVE  TInv'
<1> DEFINE e == EventOf(p, o, gone)
           s == ShardOf[p]
<1>1. UNCHANGED <<now, faults, notices, stage, syncTime, ppr, pc, task>>
    BY DEF local
<1>2. /\ watch' = [watch EXCEPT ![s] = Append(watch[s], e)]
      /\ obj' = [obj EXCEPT ![p] = IF gone THEN Absent ELSE o]
    BY DEF Emit
<1>3. e \in Event /\ e.pod = p /\ e.obj = o /\ (Terminating(e) => ~gone /\ o.deleting # 0)
    BY DEF EventOf, Event, Terminating
<1> HIDE DEF e
<1>4. s \in Shards
    BY AggregatorAssumption DEF AllPods
<1> HIDE DEF s
<1>5. /\ watch \in [Shards -> Seq(Event)] /\ obj \in [AllPods -> PodObject] /\ now \in Nat
      /\ terminatedAt \in [Pods -> Nat] /\ syncTime \in [Shards -> Nat]
    BY AggregatorAssumption DEF IInv, TypeOK
<1>6. InterpretStatus(o) <= now \/ Algorithm # "status"
    <2>1. o.created \in Nat /\ o.touched \in Nat /\ o.deleting \in Nat
        BY DEF PodObject
    <2> DEFINE x == IF o.deleting # 0 THEN o.deleting ELSE o.created
    <2>2. x \in Nat /\ (Algorithm = "status" => x <= now)
        BY <2>1
    <2> HIDE DEF x
    <2>3. \E m \in {x, o.touched} : \A z \in {x, o.touched} : m >= z
        BY <2>1, <2>2
    <2>4. Max({x, o.touched}) \in {x, o.touched}
        BY <2>3 DEF Max
    <2>5. InterpretStatus(o) = Max({x, o.touched})
        BY DEF InterpretStatus, x
    <2> QED BY <2>2, <2>4, <2>5
<1>7. ASSUME NEW t \in Shards
      PROVE  InOrder(Pending(t), syncTime[t], terminatedAt', now)
    <2>1. InOrder(Pending(t), syncTime[t], terminatedAt, now) /\ syncTime[t] <= now
        BY DEF TInv, EventsInOrder, SyncPast
    <2>2. Pending(t) \in Seq(Event) /\ syncTime[t] \in Nat
        BY PendingTyped
    <2>3. CASE terminatedAt' = terminatedAt
        BY <2>1, <2>3
    <2>4. CASE p \in Pods /\ terminatedAt' = [terminatedAt EXCEPT ![p] = now]
        <3>1. InOrder(Pending(t), syncTime[t], [terminatedAt EXCEPT ![p] = now], now)
            BY <2>1, <2>2, <2>4, <1>5, InOrderTerminated
        <3> QED BY <2>4, <3>1
    <2> QED BY <2>3, <2>4
<1>8. EventsInOrder'
    <2> SUFFICES ASSUME NEW t \in Shards
                 PROVE  InOrder(Pending(t)', syncTime[t], terminatedAt', now)
        BY <1>1 DEF EventsInOrder
    <2>1. CASE t # s
        <3>1. Pending(t)' = Pending(t)
            BY <2>1, <1>1, <1>2, <1>5 DEF Pending, Untracked
        <3> QED BY <3>1, <1>7
    <2>2. CASE t = s
        <3>1. Pending(t)' = Untracked(t) \o Append(watch[t], e)
            BY <2>2, <1>1, <1>2, <1>4, <1>5 DEF Pending, Untracked
        <3>2. Untracked(t) \in Seq(Event) /\ watch[t] \in Seq(Event) /\ Pending(t) \in Seq(Event) /\ syncTime[t] \in Nat
            BY PendingTyped
        <3>3. Pending(t)' = Append(Pending(t), e)
            BY <3>1, <3>2, <1>3, JoinedAppend DEF Pending
        <3>4. Terminating(e) => e.pod \in Pods /\ terminatedAt'[e.pod] = now
            BY <1>3, <1>5
        <3>5. syncTime[t] <= now
            BY DEF TInv, SyncPast
        <3> QED BY <3>2, <3>3, <3>4, <3>5, <1>3, <1>5, <1>6, <1>7, InOrderAppend
    <2> QED BY <2>1, <2>2
<1>9. PodsPast'
    <2>1. Absent.created = 0 /\ Absent.touched = 0 /\ Absent.deleting = 0
        BY DEF Absent
    <2>2. Trigger \in AllPods /\ (p = Trigger => o.deleting = 0 \/ gone)
        BY AggregatorAssumption DEF AllPods
    <2>3. \A q \in AllPods : obj'[q] = IF q = p THEN (IF gone THEN Absent ELSE o) ELSE obj[q]
        BY <1>2, <1>5
    <2> QED BY <2>1, <2>2, <2>3, <1>1, <1>5 DEF TInv, PodsPast
<1>10. SyncPast'
    BY <1>1 DEF TInv, SyncPast
<1> QED BY <1>1, <1>8, <1>9, <1>10 DEF TInv

LEMMA PodChangeInOrder ==
    ASSUME IInv, TInv, TimesTold,
           NEW p \in Pods, CreatePod(p) \/ BecomeReady(p) \/ Terminate(p) \/ RemovePod(p)
    PROVE  TInv'
<1>1. p \in AllPods /\ obj[p] \in PodObject /\ now \in Nat
    BY DEF IInv, TypeOK, AllPods
<1>2. obj[p].created <= now /\ obj[p].touched <= now /\ (Algorithm = "status" => obj[p].deleting <= now)
    BY <1>1 DEF TInv, PodsPast
<1>3. CASE CreatePod(p)
    <2> DEFINE o == [Absent EXCEPT !.created = now]
    <2>1. o \in PodObject /\ o.created = now /\ o.touched = 0 /\ o.deleting = 0
        BY <1>1 DEF Absent, PodObject
    <2>2. Emit(p, o, FALSE) /\ UNCHANGED <<now, faults, local, terminatedAt>>
        BY <1>3 DEF CreatePod
    <2> HIDE DEF o
    <2>3. o.created <= now /\ o.touched <= now /\ o.deleting <= now
        BY <1>1, <2>1
    <2> QED BY <1>1, <2>1, <2>2, <2>3, EmitInOrder
<1>4. CASE BecomeReady(p)
    <2> DEFINE o == [obj[p] EXCEPT !.ready = now]
    <2>1. o \in PodObject /\ o.created = obj[p].created /\ o.touched = obj[p].touched /\ o.deleting = obj[p].deleting
        BY <1>1 DEF PodObject
    <2>2. Emit(p, o, FALSE) /\ UNCHANGED <<now, faults, local, terminatedAt>> /\ obj[p].deleting = 0
        BY <1>4 DEF BecomeReady
    <2> HIDE DEF o
    <2> QED BY <1>1, <1>2, <2>1, <2>2, EmitInOrder
<1>5. CASE Terminate(p)
    <2> DEFINE o == [obj[p] EXCEPT !.deleting = now + Grace]
    <2>1. now + Grace \in Nat /\ (Algorithm = "status" => now + Grace <= now)
        BY <1>1, AggregatorAssumption DEF TimesTold
    <2>2. /\ o \in PodObject /\ o.created = obj[p].created /\ o.touched = obj[p].touched
          /\ o.deleting = now + Grace
        BY <1>1, <2>1 DEF PodObject
    <2>3. /\ Emit(p, o, FALSE) /\ UNCHANGED <<now, faults, local>>
          /\ terminatedAt' = [terminatedAt EXCEPT ![p] = now]
        BY <1>5 DEF Terminate
    <2> HIDE DEF o
    <2> QED BY <1>1, <1>2, <2>1, <2>2, <2>3, EmitInOrder
<1>6. CASE RemovePod(p)
    <2>1. Emit(p, obj[p], TRUE) /\ UNCHANGED <<now, faults, local, terminatedAt>>
        BY <1>6 DEF RemovePod
    <2> QED BY <1>1, <1>2, <2>1, EmitInOrder
<1> QED BY <1>3, <1>4, <1>5, <1>6

LEMMA UpdateTriggerInOrder ==
    ASSUME IInv, TInv, UpdateTrigger PROVE TInv'
<1>1. Trigger \in AllPods /\ obj[Trigger] \in PodObject /\ now \in Nat
    BY DEF IInv, TypeOK, AllPods
<1>2. obj[Trigger].created <= now /\ obj[Trigger].deleting = 0
    BY <1>1 DEF TInv, PodsPast
<1>3. CASE spinCreate /\ obj[Trigger] = Absent
    <2> DEFINE o == [Absent EXCEPT !.created = now, !.touched = now]
    <2>1. o \in PodObject /\ o.created = now /\ o.touched = now /\ o.deleting = 0
        BY <1>1 DEF Absent, PodObject
    <2>2. Emit(Trigger, o, FALSE) /\ UNCHANGED <<now, faults, local, terminatedAt>>
        BY <1>3 DEF spinCreate
    <2> HIDE DEF o
    <2>3. o.created <= now /\ o.touched <= now /\ o.deleting <= now
        BY <1>1, <2>1
    <2> QED BY <1>1, <2>1, <2>2, <2>3, EmitInOrder
<1>4. CASE spinCreate /\ obj[Trigger] # Absent
    <2>1. UNCHANGED <<now, obj, terminatedAt, faults, watch, notices, stage, syncTime, ppr, pc, task>>
        BY <1>4 DEF spinCreate, local
    <2>2. SyncPast'
        BY <2>1 DEF TInv, SyncPast
    <2> QED BY <2>1, <2>2, OrderFrame, PodsPastFrame DEF TInv
<1>5. CASE spinUpdate
    <2> DEFINE o == [obj[Trigger] EXCEPT !.touched = now]
    <2>1. o \in PodObject /\ o.created = obj[Trigger].created /\ o.touched = now /\ o.deleting = obj[Trigger].deleting
        BY <1>1 DEF PodObject
    <2>2. Emit(Trigger, o, FALSE) /\ UNCHANGED <<now, faults, local, terminatedAt>>
        BY <1>5 DEF spinUpdate
    <2> HIDE DEF o
    <2>3. o.created <= now /\ o.touched <= now /\ o.deleting <= now
        BY <1>1, <1>2, <2>1
    <2> QED BY <1>1, <1>2, <2>1, <2>2, <2>3, EmitInOrder
<1> QED BY <1>3, <1>4, <1>5 DEF UpdateTrigger

(* The webhook leaves no more buckets than CompactThreshold. *)
LEMMA ApproveInOrder ==
    ASSUME IInv, TInv, NEW r \in Reviews, Approve(r) PROVE TInv'
<1>1. UNCHANGED <<now, obj, terminatedAt, faults, watch, notices, stage, syncTime, pc, task>>
    BY DEF Approve, informers
<1>2. PICK h \in Summarize(ppr.history \cup {NewBucket(r, now)}) :
          ppr' = [ppr EXCEPT !.rv = @ + 1, !.cell = TRUE, !.history = h]
    BY DEF Approve
<1>3. ppr \in Protector /\ ppr.history \in SUBSET Bucket /\ now \in Nat
    BY DEF IInv, TypeOK, Protector
<1>4. NewBucket(r, now) \in Bucket
    BY <1>3, PodProtectorAssumption DEF NewBucket, Bucket
<1> DEFINE b == NewBucket(r, now)
           H == ppr.history \cup {b}
<1>5. ASSUME NEW c \in Cells PROVE IsFiniteSet(InCell(H, c))
    <2>1. IsFiniteSet(InCell(ppr.history, c))
        BY DEF TInv, Small
    <2>2. IsFiniteSet(InCell(ppr.history, c) \cup {b})
        BY <2>1, FS_AddElement
    <2>3. InCell(H, c) \subseteq InCell(ppr.history, c) \cup {b}
        BY DEF InCell
    <2> QED BY <2>2, <2>3, FS_Subset
<1>6. Small(h)
    <2>1. H \in SUBSET Bucket
        BY <1>3, <1>4
    <2> HIDE DEF H
    <2>2. h \in Summarize(H)
        BY DEF H
    <2> QED BY <2>1, <2>2, <1>5, SummarizeBounds
<1>7. ppr'.history = h
    BY <1>2, <1>3 DEF Protector
<1>8. SyncPast'
    BY <1>1 DEF TInv, SyncPast
<1> QED BY <1>1, <1>6, <1>7, <1>8, OrderFrame, PodsPastFrame DEF TInv

(* Events move on, in their order. *)
LEMMA StoreEventInOrder ==
    ASSUME IInv, TInv, NEW s \in Shards, StoreEvent(s) PROVE TInv'
<1>1. /\ UNCHANGED <<now, obj, terminatedAt, faults, syncTime, ppr, pc, task>>
      /\ watch[s] # <<>> /\ watch' = [watch EXCEPT ![s] = Tail(watch[s])]
      /\ watch \in [Shards -> Seq(Event)]
    BY DEF StoreEvent, cluster, IInv, TypeOK
<1>2. /\ Untracked(s) \in Seq(Event)
      /\ Untracked(s)' = Append(Untracked(s), Head(watch[s]))
      /\ \A t \in Shards : t # s => Untracked(t)' = Untracked(t)
    BY StoredUntracked
<1>3. ASSUME NEW t \in Shards PROVE Pending(t)' = Pending(t)
    <2>1. CASE t # s
        BY <2>1, <1>1, <1>2 DEF Pending
    <2>2. CASE t = s
        <3>1. Pending(t)' = Append(Untracked(s), Head(watch[s])) \o Tail(watch[s])
            BY <2>2, <1>1, <1>2 DEF Pending
        <3>2. watch[s] \in Seq(Event)
            BY <1>1
        <3> QED BY <2>2, <3>1, <3>2, <1>1, <1>2, JoinedMove DEF Pending
    <2> QED BY <2>1, <2>2
<1>4. EventsInOrder'
    BY <1>1, <1>3 DEF TInv, EventsInOrder
<1>5. SyncPast'
    BY <1>1 DEF TInv, SyncPast
<1> QED BY <1>1, <1>4, <1>5, PodsPastFrame DEF TInv

LEMMA NotifyInOrder ==
    ASSUME IInv, TInv, NEW s \in Shards, NotifyInformerSync(s) PROVE TInv'
<1> DEFINE m == Max({syncTime[s], Interpret(Head(notices[s]).obj)})
<1>1. /\ UNCHANGED <<now, obj, terminatedAt, faults, watch, notices, ppr, pc, task>>
      /\ notices[s] # <<>> /\ stage[s] = "sync"
      /\ syncTime' = [syncTime EXCEPT ![s] = m]
      /\ stage' = [stage EXCEPT ![s] = "drain"]
    BY DEF NotifyInformerSync, cluster
<1>2. /\ notices \in [Shards -> Seq(Event)] /\ notices[s] \in Seq(Event) /\ watch[s] \in Seq(Event)
      /\ stage \in [Shards -> {"sync", "drain"}] /\ syncTime \in [Shards -> Nat] /\ now \in Nat
      /\ terminatedAt \in [Pods -> Nat]
    BY AggregatorAssumption DEF IInv, TypeOK
<1>3. Untracked(s) = notices[s] /\ Untracked(s)' = Tail(notices[s])
    BY <1>1, <1>2 DEF Untracked
<1>4. \A t \in Shards : t # s => Untracked(t)' = Untracked(t)
    BY <1>1, <1>2 DEF Untracked
<1>5. /\ Pending(s) # <<>> /\ Head(Pending(s)) = Head(notices[s])
      /\ Pending(s)' = Tail(Pending(s)) /\ Pending(s) \in Seq(Event)
    BY <1>1, <1>2, <1>3, JoinedTail, PendingTyped DEF Pending
<1>6. InOrder(Pending(s), syncTime[s], terminatedAt, now) /\ syncTime[s] <= now /\ syncTime[s] \in Nat
    BY <1>2 DEF TInv, EventsInOrder, SyncPast
<1>7. InOrder(Tail(Pending(s)), m, terminatedAt, now) /\ m <= now /\ syncTime[s] <= m
    BY <1>2, <1>5, <1>6, InOrderTail, AggregatorAssumption
<1>8. m \in Nat
    <2>1. Head(notices[s]) \in Event
        BY <1>1, <1>2
    <2>2. Head(notices[s]).obj \in PodObject
        BY <2>1 DEF Event
    <2>3. syncTime[s] \in Nat /\ Interpret(Head(notices[s]).obj) \in Nat
        BY <2>2, <1>2, InterpretedTime
    <2> QED BY <2>3, MaxOfTwo
<1> HIDE DEF m
<1>9. EventsInOrder'
    <2> SUFFICES ASSUME NEW t \in Shards PROVE InOrder(Pending(t)', syncTime'[t], terminatedAt, now)
        BY <1>1 DEF EventsInOrder
    <2>1. CASE t = s
        BY <2>1, <1>1, <1>2, <1>5, <1>7
    <2>2. CASE t # s
        <3>1. Pending(t)' = Pending(t) /\ syncTime'[t] = syncTime[t]
            BY <2>2, <1>1, <1>2, <1>4 DEF Pending
        <3> QED BY <3>1 DEF TInv, EventsInOrder
    <2> QED BY <2>1, <2>2
<1>10. SyncPast'
    <2>1. \A t \in Shards : syncTime'[t] = IF t = s THEN m ELSE syncTime[t]
        BY <1>1, <1>2
    <2>2. ASSUME pc # "idle", NEW t \in Shards PROVE task.times[t] <= syncTime'[t]
        <3>1. task.times[t] <= syncTime[t] /\ task.times[t] \in Nat /\ syncTime[t] \in Nat
            BY <2>2, <1>2, TaskFields DEF TInv, SyncPast, IInv, TaskTyped
        <3> QED BY <2>1, <3>1, <1>7, <1>8
    <2> QED BY <1>1, <1>7, <2>1, <2>2 DEF TInv, SyncPast
<1> QED BY <1>1, <1>9, <1>10, PodsPastFrame DEF TInv

LEMMA DrainInOrder ==
    ASSUME IInv, TInv, NEW s \in Shards, DrainAndEnqueue(s) PROVE TInv'
<1>1. /\ UNCHANGED <<now, obj, terminatedAt, faults, watch, syncTime, ppr, pc, task>>
      /\ stage[s] = "drain"
      /\ notices' = [notices EXCEPT ![s] = Tail(notices[s])]
      /\ stage' = [stage EXCEPT ![s] = "sync"]
      /\ notices \in [Shards -> Seq(Event)] /\ stage \in [Shards -> {"sync", "drain"}]
    BY DEF DrainAndEnqueue, cluster, IInv, TypeOK
<1>2. \A t \in Shards : Untracked(t)' = Untracked(t)
    BY <1>1 DEF Untracked
<1>3. EventsInOrder'
    BY <1>1, <1>2 DEF TInv, EventsInOrder, Pending
<1>4. SyncPast'
    BY <1>1 DEF TInv, SyncPast
<1> QED BY <1>1, <1>3, <1>4, PodsPastFrame DEF TInv

-----------------------------------------------------------------------------
(* The aggregator compacts nothing: it drops what is obsolete and keeps the rest. *)
LEMMA UpdateStatusDrops ==
    ASSUME IInv, TInv, UpdateStatus
    PROVE  /\ ppr'.history = {b \in ppr.history : ~Obsolete(b, task.times)}
           /\ Small(ppr'.history)
<1>1. pc = "write" /\ ppr.rv = task.ppr.rv /\ ppr' \in Updates(task)
    BY DEF UpdateStatus
<1>2. PICK h \in Summarize(Outstanding(task)) :
          ppr' = [task.ppr EXCEPT !.rv = @ + 1, !.cell = TRUE, !.total = Cardinality(task.pods),
                                  !.available = Cardinality(task.available),
                                  !.history = h]
    BY <1>1 DEF Updates
<1>3. task.ppr \in Protector /\ ppr \in Protector
    BY TaskFields DEF IInv, TaskTyped, TypeOK
<1>4. task.ppr = ppr
    <2>1. task.ppr = ppr \/ task.ppr.rv < ppr.rv
        BY <1>1 DEF IInv, Revisions, Revision
    <2>2. ppr.rv \in Nat
        BY <1>3 DEF Protector
    <2> QED BY <1>1, <2>1, <2>2
<1>5. ppr'.history = h
    BY <1>2, <1>3 DEF Protector
<1> DEFINE H == Outstanding(task)
<1>6. H = {b \in ppr.history : ~Obsolete(b, task.times)}
    BY <1>4 DEF Outstanding
<1>7. H \in SUBSET Bucket
    BY <1>3, <1>6 DEF Protector
<1> HIDE DEF H
<1>8. ASSUME NEW c \in Cells
      PROVE  IsFiniteSet(InCell(H, c)) /\ Cardinality(InCell(H, c)) <= CompactThreshold
    <2>1. IsFiniteSet(InCell(ppr.history, c)) /\ Cardinality(InCell(ppr.history, c)) <= CompactThreshold
        BY DEF TInv, Small
    <2>2. InCell(H, c) \subseteq InCell(ppr.history, c)
        BY <1>6 DEF InCell
    <2>3. /\ IsFiniteSet(InCell(H, c)) /\ Cardinality(InCell(H, c)) <= Cardinality(InCell(ppr.history, c))
        BY <2>1, <2>2, FS_Subset
    <2>4. Cardinality(InCell(H, c)) \in Nat /\ Cardinality(InCell(ppr.history, c)) \in Nat
        BY <2>1, <2>3, FS_CardinalityType
    <2> QED BY <2>1, <2>3, <2>4, PodProtectorAssumption
<1>9. Small(H)
    BY <1>8 DEF Small
<1>10. h = H
    <2>1. h \in Summarize(H)
        BY DEF H
    <2> QED BY <2>1, <1>7, <1>8, <1>9, SummarizeBounds
<1> QED BY <1>5, <1>6, <1>9, <1>10

-----------------------------------------------------------------------------
(* The steps of a reconciliation use sync times they have read. *)
LEMMA ReconcileInOrder ==
    ASSUME IInv, TInv, Reconcile PROVE TInv'
<1>1. UNCHANGED <<now, obj, terminatedAt, faults, watch, notices, stage, syncTime>>
    BY DEF Reconcile, StartReconcile, FindPod, AggregateStatus, PodMissing, ReadSyncTime, UpdateLastEventTime,
           NothingChanged, UpdateStatus, UpdateFails, cluster, informers
<1>2. task \in Task /\ syncTime \in [Shards -> Nat]
    BY DEF IInv, TaskTyped, TypeOK
<1>3. SyncPast'
    <2>1. CASE StartReconcile
        <3>1. task' = [Idle EXCEPT !.ppr = cache, !.unread = index]
            BY <2>1 DEF StartReconcile
        <3>2. \A s \in Shards : task'.times[s] = 0
            BY <3>1 DEF Idle
        <3> QED BY <3>2, <1>1, <1>2 DEF TInv, SyncPast
    <2>2. ASSUME NEW p \in Pods, FindPod(p) PROVE SyncPast'
        <3>1. pc = "pods" /\ task'.times = task.times
            BY <2>2, <1>2 DEF FindPod, Task
        <3> QED BY <3>1, <1>1, SyncPastFrame DEF TInv
    <2>3. CASE AggregateStatus
        <3>1. pc = "pods" /\ (pc' = "idle" \/ task' = [Aggregation(task) EXCEPT !.shards = Shards])
            BY <2>3 DEF AggregateStatus, EndReconcile
        <3>2. [Aggregation(task) EXCEPT !.shards = Shards].times = task.times
            BY <1>2 DEF Aggregation, Task
        <3> QED BY <3>1, <3>2, <1>1, SyncPastFrame DEF TInv
    <2>4. CASE ReadSyncTime
        <3> DEFINE s == Min(task.shards)
        <3>1. pc = "sync" /\ (pc' = "idle" \/ task' = [task EXCEPT !.shards = @ \ {s}, !.times[s] = syncTime[s]])
            BY <2>4 DEF ReadSyncTime, FailReconcile, EndReconcile
        <3> HIDE DEF s
        <3>2. CASE pc' = "idle"
            BY <3>2, <1>1, SyncPastFrame DEF TInv
        <3>3. CASE task' = [task EXCEPT !.shards = @ \ {s}, !.times[s] = syncTime[s]]
            <4>1. task'.times = [task.times EXCEPT ![s] = syncTime[s]]
                BY <3>3, <1>2 DEF Task
            <4>2. task.times \in [Shards -> Nat]
                BY <1>2, TaskFields
            <4>3. \A t \in Shards : task'.times[t] = IF t = s THEN syncTime[s] ELSE task.times[t]
                BY <4>1, <4>2
            <4> QED BY <3>1, <4>3, <1>1, <1>2 DEF TInv, SyncPast
        <3> QED BY <3>1, <3>2, <3>3
    <2>5. CASE UpdateLastEventTime
        <3>1. pc = "sync" /\ task'.times = task.times
            BY <2>5 DEF UpdateLastEventTime
        <3> QED BY <3>1, <1>1, SyncPastFrame DEF TInv
    <2>6. CASE PodMissing \/ NothingChanged \/ UpdateStatus \/ UpdateFails
        <3>1. pc' = "idle"
            BY <2>6 DEF PodMissing, NothingChanged, UpdateStatus, UpdateFails, FailReconcile, EndReconcile
        <3> QED BY <3>1, <1>1, SyncPastFrame DEF TInv
    <2> QED BY <2>1, <2>2, <2>3, <2>4, <2>5, <2>6 DEF Reconcile
<1>4. Small(ppr'.history)
    <2>1. CASE ppr' = ppr
        BY <2>1 DEF TInv
    <2>2. CASE UpdateStatus
        BY <2>2, UpdateStatusDrops
    <2> QED BY <2>1, <2>2 DEF Reconcile, StartReconcile, FindPod, AggregateStatus, PodMissing, ReadSyncTime,
                              UpdateLastEventTime, NothingChanged, UpdateFails
<1>5. Small(ppr.history)'
    BY <1>4 DEF Small, InCell
<1> QED BY <1>1, <1>3, <1>5, OrderFrame, PodsPastFrame DEF TInv

LEMMA InitTInv ==
    ASSUME Init, Faults = {} PROVE TInv
<1> DEFINE first == [Absent EXCEPT !.created = 1, !.ready = 1]
<1>1. /\ first.created = 1 /\ first.touched = 0 /\ first.deleting = 0
      /\ Absent.created = 0 /\ Absent.touched = 0 /\ Absent.deleting = 0
    BY DEF Absent
<1> HIDE DEF first
<1>2. \A p \in AllPods : obj[p] = IF p \in InitPods THEN first ELSE Absent
    BY DEF Init, first
<1>3. Trigger \in AllPods /\ MinReady \in Nat /\ now = 1 + MinReady
    BY AggregatorAssumption DEF Init, AllPods
<1>4. PodsPast
    BY <1>1, <1>2, <1>3 DEF PodsPast
<1>5. SyncPast
    BY <1>3 DEF Init, SyncPast
<1>6. EventsInOrder
    <2>1. NoLag
        BY DEF Init, NoLag
    <2> QED BY <2>1, InitIInv, PendingTyped DEF EventsInOrder, InOrder
<1>7. Small(ppr.history)
    <2>1. ppr.history = {}
        BY DEF Init
    <2>2. \A c \in Cells : InCell(ppr.history, c) = {}
        BY <2>1 DEF InCell
    <2> QED BY <2>2, FS_EmptySet, PodProtectorAssumption DEF Small
<1> QED BY <1>4, <1>5, <1>6, <1>7 DEF Init, TInv

LEMMA NextTInv ==
    ASSUME IInv, TInv, TimesTold, [Next]_vars PROVE TInv'
<1>1. CASE UNCHANGED <<now, obj, terminatedAt, faults, watch, notices, stage, syncTime, ppr, pc, task>>
    <2>1. SyncPast'
        BY <1>1 DEF TInv, SyncPast
    <2> QED BY <1>1, <2>1, OrderFrame, PodsPastFrame DEF TInv
<1>2. CASE UNCHANGED vars \/ DeliverPpr \/ FireAlarm
    BY <1>1, <1>2 DEF vars, cluster, informers, DeliverPpr, FireAlarm
<1>3. CASE Cell
    BY <1>3, TickInOrder, PodChangeInOrder, ApproveInOrder DEF Cell
<1>4. CASE UpdateTrigger
    BY <1>4, UpdateTriggerInOrder
<1>5. ASSUME NEW s \in Shards, StoreEvent(s) \/ Relist(s) \/ Handler(s) PROVE TInv'
    <2>1. ~Relist(s)
        BY DEF Relist, TInv
    <2> QED BY <1>5, <2>1, StoreEventInOrder, NotifyInOrder, DrainInOrder DEF Handler
<1>6. CASE Reconcile
    BY <1>6, ReconcileInOrder
<1>7. ~Restart
    BY DEF Restart, TInv
<1> QED BY <1>2, <1>3, <1>4, <1>5, <1>6, <1>7 DEF Next, Informers

(***************************************************************************)
(* A step of the reconciliation that drops the bucket of a known pod has   *)
(* seen all terminations of the shard of the pod up to the time of the     *)
(* bucket.                                                                 *)
(***************************************************************************)
LEMMA StepDropsPassed ==
    ASSUME IInv, TInv, [Next]_vars PROVE DropsPassed
<1> SUFFICES ASSUME pc = "write", ppr' # ppr, approved' = approved,
                    NEW b \in ppr.history \ ppr'.history, b.podUid \in NamedPods,
                    NEW e \in Unseen(ShardOf[b.podUid]), ~e.gone /\ e.obj.deleting # 0
             PROVE  terminatedAt[e.pod] > b.startTime
    BY DEF DropsPassed
<1>1. UpdateStatus
    BY DEF Next, vars, Cell, UpdateTrigger, Informers, Handler, Reconcile, Tick, CreatePod, BecomeReady, Approve,
           Terminate, RemovePod, spinCreate, spinUpdate, local, StoreEvent, Relist, Restart, NotifyInformerSync,
           DrainAndEnqueue, DeliverPpr, FireAlarm, StartReconcile, FindPod, AggregateStatus, PodMissing,
           ReadSyncTime, UpdateLastEventTime, NothingChanged, UpdateFails
<1> DEFINE s == ShardOf[b.podUid]
<1>2. s \in Shards /\ b.podUid # NoUid
    BY AggregatorAssumption, PodProtectorAssumption
<1>3. Obsolete(b, task.times)
    BY <1>1, UpdateStatusDrops
<1>4. b.startTime < task.times[s]
    BY <1>2, <1>3 DEF Obsolete, LastEventTime
<1>5. e \in Unseen(s)
    OBVIOUS
<1> HIDE DEF s
<1>6. /\ b.startTime \in Nat /\ task.times[s] \in Nat /\ syncTime[s] \in Nat
      /\ terminatedAt \in [Pods -> Nat] /\ task.times[s] <= syncTime[s]
    <2>1. b.startTime \in Nat
        BY DEF IInv, TypeOK, Protector, Bucket
    <2>2. task.times[s] \in Nat
        BY <1>2, TaskFields DEF IInv, TaskTyped
    <2>3. syncTime[s] \in Nat /\ terminatedAt \in [Pods -> Nat]
        BY <1>2, AggregatorAssumption DEF IInv, TypeOK
    <2> QED BY <2>1, <2>2, <2>3, <1>2 DEF TInv, SyncPast
<1>7. PICK k \in 1..Len(Pending(s)) : Pending(s)[k] = e
    <2> DEFINE u == Untracked(s)
               w == watch[s]
    <2>1. u \in Seq(Event) /\ w \in Seq(Event)
        BY <1>2, PendingTyped
    <2>2. e \in Range(w) \cup Range(u)
        BY <1>5 DEF Unseen, Untracked
    <2> HIDE DEF u, w
    <2>3. Pending(s) = u \o w
        BY DEF Pending, u, w
    <2>4. /\ Len(u \o w) = Len(u) + Len(w)
          /\ Len(u) \in Nat /\ Len(w) \in Nat
          /\ \A k \in 1..Len(u) : (u \o w)[k] = u[k]
          /\ \A k \in 1..Len(w) : (u \o w)[Len(u) + k] = w[k]
        BY <2>1, Joined
    <2>5. CASE e \in Range(u)
        <3>1. PICK k \in 1..Len(u) : u[k] = e
            BY <2>1, <2>5 DEF Range
        <3>2. k \in 1..Len(u \o w) /\ (u \o w)[k] = e
            BY <3>1, <2>4
        <3> QED BY <3>2, <2>3
    <2>6. CASE e \in Range(w)
        <3>1. PICK k \in 1..Len(w) : w[k] = e
            BY <2>1, <2>6 DEF Range
        <3>2. Len(u) + k \in 1..Len(u \o w) /\ (u \o w)[Len(u) + k] = e
            BY <3>1, <2>4
        <3> QED BY <3>2, <2>3
    <2> QED BY <2>2, <2>5, <2>6
<1>8. e.pod \in Pods /\ syncTime[s] <= terminatedAt[e.pod]
    BY <1>2, <1>7 DEF TInv, EventsInOrder, InOrder, Terminating
<1> QED BY <1>4, <1>6, <1>8

(***************************************************************************)
(* The documentation of the pools says that an event allows clearing the   *)
(* admission history entries older than it.  Without faults, with the      *)
(* clock if events arrive before it advances and with the status if there  *)
(* is no grace period, a bucket of a known pod is dropped only when all    *)
(* terminations of its shard up to its time have been handled.  Without    *)
(* these settings the times of the events need not be in their order.      *)
(***************************************************************************)
THEOREM DropsOnlyPassed ==
    ASSUME Faults = {}, TimesTold
    PROVE  Spec => [][DropsPassed]_vars
<1>1. Init => IInv /\ TInv
    BY InitIInv, InitTInv
<1>2. IInv /\ TInv /\ [Next]_vars => IInv' /\ TInv'
    BY NextIInv, NextTInv
<1>3. IInv /\ TInv /\ [Next]_vars => [DropsPassed]_vars
    BY StepDropsPassed
<1> QED BY <1>1, <1>2, <1>3, PTL DEF Spec
=============================================================================
