------------------------------ MODULE SetIndex ------------------------------
(***************************************************************************)
(* The index of the label sets of pods (util/labelindex): Sets, one for    *)
(* every namespace (Namespaced), behind a reader-writer lock (Locked).     *)
(* Informer handlers track and untrack sets; reconciliations query, and    *)
(* hold the read lock until their iteration ends.                          *)
(***************************************************************************)
EXTENDS Canonical, FiniteSetsExt

CONSTANTS Namespaces, Names,
          LabelMaps,        \* the label sets that are tracked
          RawSelectors,     \* the selectors that are asked for
          Writers, Readers  \* goroutines

VARIABLES
    index,     \* index[ns] = [known, kv, key], for the namespaces that were tracked in
    wanted,    \* wanted[<<ns, n>>]: the labels last tracked under the name
    writer,    \* writer[w]: <<>>, or <<op>> that waits for the lock
    reader,    \* reader[r]: <<>>, or <<query>> that holds the read lock
    answer,    \* answer[r]: [got, due] of the last query that ended, or NoAnswer
    panicked

vars == <<index, wanted, writer, reader, answer, panicked>>

NoAnswer == [got |-> {}, due |-> {}]
EmptyMap == [x \in {} |-> {}]
NewSets  == [known |-> EmptyMap, kv |-> EmptyMap, key |-> EmptyMap]

With(f, x, v) == [y \in DOMAIN f \cup {x} |-> IF y = x THEN v ELSE f[y]]
Without(f, x) == [y \in DOMAIN f \ {x} |-> f[y]]

Init ==
    /\ index = EmptyMap
    /\ wanted = EmptyMap
    /\ writer = [w \in Writers |-> <<>>]
    /\ reader = [r \in Readers |-> <<>>]
    /\ answer = [r \in Readers |-> NoAnswer]
    /\ panicked = FALSE

-----------------------------------------------------------------------------
(* MultiMap: an absent key stands for the empty set, and an empty set is dropped. *)
At(mm, k) == IF k \in DOMAIN mm THEN mm[k] ELSE {}

Inserted(mm, keys, v) ==
    [k \in DOMAIN mm \cup keys |-> IF k \in keys THEN At(mm, k) \cup {v} ELSE mm[k]]

Removed(mm, keys, v) ==
    [k \in {k \in DOMAIN mm : k \notin keys \/ mm[k] # {v}} |-> IF k \in keys THEN mm[k] \ {v} ELSE mm[k]]

-----------------------------------------------------------------------------
(* Sets.doUntrack and Sets.doTrack: for each pair of the set, in both indices. *)
KeysOf(set) == {p.key : p \in Range(set)}

DoUntrack(s, n) ==
    IF n \notin DOMAIN s.known THEN s
    ELSE [known |-> Without(s.known, n),
          kv    |-> Removed(s.kv, Range(s.known[n]), n),
          key   |-> Removed(s.key, KeysOf(s.known[n]), n)]

DoTrack(s, n, m) ==
    [known |-> With(s.known, n, CreateSet(m)),
     kv    |-> Inserted(s.kv, Range(CreateSet(m)), n),
     key   |-> Inserted(s.key, KeysOf(CreateSet(m)), n)]

(* The assertions of doUntrack: a set that is known is in both indices. *)
Consistent(s, n) ==
    n \in DOMAIN s.known =>
        \A p \in Range(s.known[n]) : n \in At(s.kv, p) /\ n \in At(s.key, p.key)

SetsOf(ns) == IF ns \in DOMAIN index THEN index[ns] ELSE NewSets

(* Namespaced.Track creates the index of a namespace, which is never dropped. *)
Track(op) ==
    /\ index' = With(index, op.ns, DoTrack(DoUntrack(SetsOf(op.ns), op.name), op.name, op.labels))
    /\ wanted' = With(wanted, <<op.ns, op.name>>, op.labels)
    /\ panicked' = (panicked \/ ~Consistent(SetsOf(op.ns), op.name))

Untrack(op) ==
    /\ index' = IF op.ns \in DOMAIN index
                THEN [index EXCEPT ![op.ns] = DoUntrack(@, op.name)] ELSE index
    /\ wanted' = Without(wanted, <<op.ns, op.name>>)
    /\ panicked' = (panicked \/ ~Consistent(SetsOf(op.ns), op.name))

-----------------------------------------------------------------------------
(***************************************************************************)
(* Sets.Query: the index with the fewest names, the first of them, among   *)
(* that of all names, those of the keys that must exist and those of the   *)
(* values of a key.  The last may name a set more than once.               *)
(***************************************************************************)
IndexAll(s)             == [cardinality |-> Cardinality(DOMAIN s.known), names |-> DOMAIN s.known]
IndexKeyExist(s, reqmt) == [cardinality |-> Cardinality(At(s.key, reqmt.key)), names |-> At(s.key, reqmt.key)]

FirstValueOnly(s, reqmt) ==   \* mutant: only the first value is looked up
    LET found == IF reqmt.values = <<>> THEN {}
                 ELSE At(s.kv, [key |-> reqmt.key, value |-> reqmt.values[1]])
    IN  [cardinality |-> Cardinality(found), names |-> found]

IndexKeyValues(s, reqmt) ==
    LET found == [i \in DOMAIN reqmt.values |-> At(s.kv, [key |-> reqmt.key, value |-> reqmt.values[i]])]
    IN  [cardinality |-> SumFunction([i \in DOMAIN found |-> Cardinality(found[i])]),
         names |-> UNION Range(found)]

(* replaceBetterIndex keeps the earlier one of two that are equal. *)
Best(all) ==
    all[Min({i \in DOMAIN all : \A j \in DOMAIN all : all[i].cardinality <= all[j].cardinality})]

BestIndex(s, selector) ==
    Best(<<IndexAll(s)>> \o
         [i \in DOMAIN selector.keyExist |-> IndexKeyExist(s, selector.keyExist[i])] \o
         [i \in DOMAIN selector.keyIn |-> IndexKeyValues(s, selector.keyIn[i])])

(* What the query is due to return: the names whose labels are selected. *)
Due(ns, raw) == {n \in Names : <<ns, n>> \in DOMAIN wanted /\ Selects(raw, wanted[<<ns, n>>])}

-----------------------------------------------------------------------------
(* Locked.  A writer that waits keeps new readers out, as sync.RWMutex does. *)
Request(w) ==
    /\ writer[w] = <<>>
    /\ \E ns \in Namespaces, n \in Names :
          \/ \E m \in LabelMaps :
                writer' = [writer EXCEPT ![w] = <<[op |-> "track", ns |-> ns, name |-> n, labels |-> m]>>]
          \/ writer' = [writer EXCEPT ![w] = <<[op |-> "untrack", ns |-> ns, name |-> n]>>]
    /\ UNCHANGED <<index, wanted, reader, answer, panicked>>

NotReading == \A r \in Readers : reader[r] = <<>>

Write(w) ==
    /\ writer[w] # <<>> /\ NotReading
    /\ IF writer[w][1].op = "track" THEN Track(writer[w][1]) ELSE Untrack(writer[w][1])
    /\ writer' = [writer EXCEPT ![w] = <<>>]
    /\ UNCHANGED <<reader, answer>>

(***************************************************************************)
(* Locked.Query: RLock, and the query.  The lock is released at once after *)
(* an error (a selector that is not valid), and by the iterator otherwise. *)
(***************************************************************************)
Query(r, ns, raw) ==
    /\ reader[r] = <<>>
    /\ \A w \in Writers : writer[w] = <<>>
    /\ reader' = IF ns \in DOMAIN index /\ ~IsValid(raw) THEN reader
                 ELSE [reader EXCEPT ![r] =
                        <<[ns |-> ns, selector |-> CreateSelector(raw), due |-> Due(ns, raw), got |-> {},
                           left |-> IF ns \in DOMAIN index
                                    THEN BestIndex(index[ns], CreateSelector(raw)).names ELSE {}]>>]
    /\ UNCHANGED <<index, wanted, writer, answer, panicked>>

(***************************************************************************)
(* The iteration over a map yields names in any order; one that was found  *)
(* must still be known, and is filtered by the selector.                   *)
(***************************************************************************)
Yield(r) ==
    /\ reader[r] # <<>>
    /\ LET q == reader[r][1]
           known == index[q.ns].known
       IN  \E n \in q.left :
              /\ panicked' = (panicked \/ n \notin DOMAIN known)
              /\ reader' = [reader EXCEPT ![r] =
                    <<[q EXCEPT !.left = q.left \ {n},
                                !.got = IF n \in DOMAIN known /\ Matches(q.selector, known[n])
                                        THEN q.got \cup {n} ELSE q.got]>>]
    /\ UNCHANGED <<index, wanted, writer, answer>>

(* The iteration is exhausted: the deferred RUnlock. *)
RUnlock(r) ==
    /\ reader[r] # <<>> /\ reader[r][1].left = {}
    /\ answer' = [answer EXCEPT ![r] = [got |-> reader[r][1].got, due |-> reader[r][1].due]]
    /\ reader' = [reader EXCEPT ![r] = <<>>]
    /\ UNCHANGED <<index, wanted, writer, panicked>>

Next ==
    \/ \E w \in Writers : Request(w) \/ Write(w)
    \/ \E r \in Readers : Yield(r) \/ RUnlock(r) \/ \E ns \in Namespaces, raw \in RawSelectors : Query(r, ns, raw)

Spec == Init /\ [][Next]_vars

(* A goroutine that iterates or waits for the lock is scheduled. *)
Fairness ==
    /\ \A w \in Writers : WF_vars(Write(w))
    /\ \A r \in Readers : WF_vars(Yield(r) \/ RUnlock(r))

-----------------------------------------------------------------------------
(***************************************************************************)
(* A query returns exactly the sets its selector selects, of those tracked *)
(* when it took the lock, whichever index it chose and whatever writers    *)
(* have asked for while it was iterating.                                  *)
(***************************************************************************)
AnswersAreSnapshots == \A r \in Readers : answer[r].got = answer[r].due

(* Neither assertion about the indices fails, nor does a name vanish during an iteration. *)
NoPanic == ~panicked

(***************************************************************************)
(* The two indices hold the names of exactly the sets that are known, and  *)
(* no entry is left behind for a pair that no set has.                     *)
(***************************************************************************)
IndicesAgree ==
    \A ns \in DOMAIN index :
        LET s == index[ns]
            pairs == UNION {Range(s.known[n]) : n \in DOMAIN s.known}
        IN  /\ DOMAIN s.kv = pairs
            /\ \A p \in pairs : s.kv[p] = {n \in DOMAIN s.known : p \in Range(s.known[n])}
            /\ DOMAIN s.key = {p.key : p \in pairs}

(***************************************************************************)
(* An informer handler that waits for the lock gets it: readers release it *)
(* and do not overtake for ever.                                           *)
(***************************************************************************)
WritersEnter == \A w \in Writers : writer[w] # <<>> ~> writer[w] = <<>>
=============================================================================
