------------------------------- MODULE Labels -------------------------------
(***************************************************************************)
(* The words of util/labelindex/matchable and settrie, by which selectors  *)
(* are found.                                                              *)
(***************************************************************************)
EXTENDS Canonical

(***************************************************************************)
(* The letters of words: that a key exists, or that it has a value.  The   *)
(* order of two values of one key holds in both directions.                *)
(***************************************************************************)
Letter(k, exists, v) == [key |-> k, exists |-> exists, value |-> v]

Less(x, y) ==
    IF x.key # y.key THEN x.key < y.key
    ELSE IF x.exists # y.exists THEN ~x.exists
    ELSE x.value # y.value

(***************************************************************************)
(* NewWord sorts with sort.Slice, which for as few letters as these is an  *)
(* insertion sort.                                                         *)
(***************************************************************************)
RECURSIVE InsertLetter(_, _)
InsertLetter(sorted, x) ==
    IF sorted = <<>> \/ ~Less(x, Last(sorted)) THEN Append(sorted, x)
    ELSE Append(InsertLetter(Front(sorted), x), Last(sorted))

RECURSIVE NewWord(_)
NewWord(letters) ==
    IF letters = <<>> THEN <<>> ELSE InsertLetter(NewWord(Front(letters)), Last(letters))

(* The word of a label set: for every pair, that the key exists and its value. *)
ForSet(set) ==
    NewWord(FlattenSeq([i \in DOMAIN set |->
        <<Letter(set[i].key, TRUE, 0), Letter(set[i].key, FALSE, set[i].value)>>]))

(* The words of a selector, one for every choice of the values of its keyIn. *)
RECURSIVE WordsOf(_, _)
WordsOf(keyIn, base) ==
    IF keyIn = <<>> THEN <<NewWord(base)>>
    ELSE FlattenSeq([i \in DOMAIN Head(keyIn).values |->
            WordsOf(Tail(keyIn), Append(base, Letter(Head(keyIn).key, FALSE, Head(keyIn).values[i])))])

WordsForSelector(selector) ==
    WordsOf(selector.keyIn,
            [i \in DOMAIN selector.keyExist |-> Letter(selector.keyExist[i].key, TRUE, 0)])
=============================================================================
