-------------------------------- MODULE Iter --------------------------------
(***************************************************************************)
(* The push iterators of util/iter and the consumers that may interrupt    *)
(* them.  An iterator is the sequence of the items it would push; an item  *)
(* carries the position at which the iterator goes on when its receiver    *)
(* answers Break: 0 if the iterator ends and answers Break itself.         *)
(***************************************************************************)
EXTENDS Integers, Sequences, SequencesExt

CONSTANTS Iterators,    \* the iterators that are consumed
          TrueValues    \* the values that are true, a failure, or Some

VARIABLES
    iterator,   \* the iterator in use
    consumer,   \* what consumes it: Any, All, TryForEach or FirstSome
    pos,        \* the next item, 0 after a Break, Len + 1 after the last one
    result      \* what the consumer has computed: a list of at most one value, or a Boolean

vars == <<iterator, consumer, pos, result>>

Item(v, j) == [value |-> v, jump |-> j]
Values(it) == [i \in DOMAIN it |-> it[i].value]

-----------------------------------------------------------------------------
(* FromSlice; so do Range, Repeat, Zip and the iterators over maps and sets. *)
FromSlice(s) == [i \in DOMAIN s |-> Item(s[i], 0)]

(* The receiver behind a filter is not listened to. *)
Filter(it, keep) ==
    LET kept == SelectSeq(Values(it), LAMBDA v : v \in keep)
    IN  [i \in DOMAIN kept |-> Item(kept[i], i + 1)]

(* Filter by a set of the values that were seen. *)
FirstOccurrences(s) ==
    FoldLeft(LAMBDA seen, v : IF v \in Range(seen) THEN seen ELSE Append(seen, v), <<>>, s)

Deduplicate(it) ==
    LET kept == FirstOccurrences(Values(it))
    IN  [i \in DOMAIN kept |-> Item(kept[i], i + 1)]

Map(it, f) == [i \in DOMAIN it |-> Item(f[it[i].value], it[i].jump)]

Shifted(it, by) == [i \in DOMAIN it |-> Item(it[i].value, IF it[i].jump = 0 THEN 0 ELSE it[i].jump + by)]

Chain(a, b) == a \o Shifted(b, Len(a))

(* The position of the first item of the i-th of a list of iterators. *)
StartOf(its, i) == 1 + FoldLeft(LAMBDA n, it : n + Len(it), 0, SubSeq(its, 1, i - 1))

(* A Break of the inner iterator is the answer to the item of the outer one. *)
FlatMap(it, f) ==
    LET inner      == [i \in DOMAIN it |-> f[it[i].value]]
        outward(i) == IF it[i].jump = 0 THEN 0 ELSE StartOf(inner, it[i].jump)
    IN  FlattenSeq([i \in DOMAIN it |->
            [k \in DOMAIN inner[i] |->
                Item(inner[i][k].value,
                     IF inner[i][k].jump = 0 THEN outward(i)
                                             ELSE StartOf(inner, i) + inner[i][k].jump - 1)]])

-----------------------------------------------------------------------------
Init ==
    /\ iterator \in Iterators
    /\ consumer \in {"Any", "All", "TryForEach", "FirstSome"}
    /\ pos = 1
    /\ result = IF consumer \in {"Any", "All"} THEN FALSE ELSE <<>>

IsTrue(v) == v \in TrueValues

(* Any, and All by way of the negated values. *)
AnswerOf(v) ==
    IF consumer = "All" THEN ~IsTrue(v) ELSE IsTrue(v)

LastFlag(v) ==   \* mutant: the flag is assigned for every value
    result' = IF consumer \in {"Any", "All"} THEN AnswerOf(v) ELSE IF IsTrue(v) THEN <<v>> ELSE <<>>

(***************************************************************************)
(* The assignments of the receivers: found is only ever set, the error of  *)
(* TryForEach and the result of FirstSome are assigned for every value.    *)
(***************************************************************************)
Receive(v) ==
    result' = IF consumer \in {"Any", "All"} THEN result \/ AnswerOf(v)
              ELSE IF IsTrue(v) THEN <<v>> ELSE <<>>

Push ==
    /\ pos \in DOMAIN iterator
    /\ Receive(iterator[pos].value)
    /\ pos' = IF AnswerOf(iterator[pos].value) THEN iterator[pos].jump ELSE pos + 1
    /\ UNCHANGED <<iterator, consumer>>

Next == Push

Spec == Init /\ [][Next]_vars

-----------------------------------------------------------------------------
Done == pos \notin DOMAIN iterator

(***************************************************************************)
(* Any and All are exact over every iterator, also when a filter keeps on  *)
(* pushing after Break.                                                    *)
(***************************************************************************)
FlagsExact ==
    Done => /\ consumer = "Any" => (result <=> \E v \in Range(Values(iterator)) : IsTrue(v))
            /\ consumer = "All" => (~result <=> \A v \in Range(Values(iterator)) : IsTrue(v))

(* An iterator that has no filter ends when its receiver answers Break. *)
EndsOnBreak(it) == \A i \in DOMAIN it : it[i].jump = 0

Least(S) == CHOOSE i \in S : \A j \in S : i <= j

(***************************************************************************)
(* A Yield "determines whether the iterator should be interrupted"         *)
(* (iter.go): TryForEach returns the first error and FirstSome the first   *)
(* value that is there, of an iterator that can be interrupted.            *)
(***************************************************************************)
FirstReturned ==
    Done /\ consumer \in {"TryForEach", "FirstSome"} /\ EndsOnBreak(iterator) =>
        LET found == {i \in DOMAIN iterator : IsTrue(iterator[i].value)}
        IN  result = IF found = {} THEN <<>> ELSE <<iterator[Least(found)].value>>
=============================================================================
