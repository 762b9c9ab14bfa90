---------------------------- MODULE SelectorIndex ----------------------------
(***************************************************************************)
(* The index of label selectors (util/labelindex/selectors.go) over a trie *)
(* of words (util/labelindex/settrie): selectors are tracked and untracked *)
(* by name, and a query asks which of them select a label set.             *)
(*                                                                         *)
(* A node of the trie is the path that leads to it.                        *)
(***************************************************************************)
EXTENDS Labels

CONSTANTS Names,          \* names of selectors
          RawSelectors,   \* the raw selectors that are tracked
          Keys, Values    \* those of the label sets that are asked for

VARIABLES
    wanted,    \* wanted[n]: the raw selector last tracked as n without an error
    known,     \* knownSelectors: known[n], for the names that are tracked
    nodes,     \* the paths of the trie
    data,      \* data[p]: the names stored at path p
    outcome    \* of the last call: "ok", "error" or "panic"

vars == <<wanted, known, nodes, data, outcome>>

NoNames   == [n \in {} |-> <<>>]
LabelSets == UNION {[d -> Values] : d \in SUBSET Keys}

Init ==
    /\ wanted = NoNames
    /\ known = NoNames
    /\ nodes = {<<>>}
    /\ data = [p \in {<<>>} |-> {}]
    /\ outcome = "ok"

-----------------------------------------------------------------------------
(***************************************************************************)
(* The trie: [nodes, data, clean], where clean says that every insertion   *)
(* was of a name that was not there, and every removal of one that was.    *)
(***************************************************************************)
Trie == [nodes |-> nodes, data |-> data, clean |-> TRUE]

DataAt(t, p) == IF p \in t.nodes THEN t.data[p] ELSE {}

Path(word) == {SubSeq(word, 1, i) : i \in 0..Len(word)}

Insert(t, word, name) ==
    LET all == t.nodes \cup Path(word)
    IN  [nodes |-> all,
         data  |-> [p \in all |-> IF p = word THEN DataAt(t, p) \cup {name} ELSE DataAt(t, p)],
         clean |-> t.clean /\ name \notin DataAt(t, word)]

Children(t, p) == {q \in t.nodes : Len(q) = Len(p) + 1 /\ IsPrefix(p, q)}

(* Nodes of a path without children and data are removed, the last one first. *)
RECURSIVE Prune(_, _)
Prune(t, p) ==
    IF p = <<>> \/ t.data[p] # {} \/ Children(t, p) # {} THEN t
    ELSE Prune([t EXCEPT !.nodes = @ \ {p}, !.data = [q \in t.nodes \ {p} |-> t.data[q]]], Front(p))

RemoveWord(t, word, name) ==
    LET all  == t.nodes \cup Path(word)
        left == [p \in all |-> IF p = word THEN DataAt(t, p) \ {name} ELSE DataAt(t, p)]
    IN  Prune([nodes |-> all, data |-> left, clean |-> t.clean /\ name \in DataAt(t, word)], word)

WithEqualTails(t, p, word) == DataAt(t, p)   \* mutant: only the root is looked at

(* subsetsInNode: the names of the words below p whose tails are subsets of word. *)
RECURSIVE Subsets(_, _, _)
Subsets(t, p, word) ==
    DataAt(t, p) \cup
    UNION {Subsets(t, Append(p, word[i]), SubSeq(word, i + 1, Len(word))) :
              i \in {i \in DOMAIN word : Append(p, word[i]) \in t.nodes}}

-----------------------------------------------------------------------------
(* doTrackSelector and doUntrackSelector, on the trie. *)
Added(t, n, selector) ==
    FoldLeft(LAMBDA u, w : Insert(u, w, n), t, WordsForSelector(selector))

Withdrawn(t, n, selector) ==
    FoldLeft(LAMBDA u, w : RemoveWord(u, w, n), t, WordsForSelector(selector))

Untracked(n) == IF n \in DOMAIN known THEN Withdrawn(Trie, n, known[n]) ELSE Trie

With(f, n, v)  == [x \in DOMAIN f \cup {n} |-> IF x = n THEN v ELSE f[x]]
Without(f, n)  == [x \in DOMAIN f \ {n} |-> f[x]]

Result(t) == nodes' = t.nodes /\ data' = t.data

(* The former selector is untracked even if the new one is not valid. *)
Track(n, raw) ==
    /\ outcome # "panic"
    /\ IF IsValid(raw)
       THEN /\ known' = With(known, n, CreateSelector(raw))
            /\ wanted' = With(wanted, n, raw)
            /\ LET t == Added(Untracked(n), n, CreateSelector(raw))
               IN  Result(t) /\ outcome' = IF t.clean THEN "ok" ELSE "panic"
       ELSE /\ known' = Without(known, n)
            /\ Result(Untracked(n))
            /\ outcome' = IF Untracked(n).clean THEN "error" ELSE "panic"
            /\ UNCHANGED wanted

Untrack(n) ==
    /\ outcome # "panic"
    /\ known' = Without(known, n)
    /\ wanted' = Without(wanted, n)
    /\ Result(Untracked(n))
    /\ outcome' = IF Untracked(n).clean THEN "ok" ELSE "panic"

(* The candidates of the trie are filtered by the selectors themselves. *)
Query(m) ==
    {n \in Subsets(Trie, <<>>, ForSet(CreateSet(m))) : Matches(known[n], CreateSet(m))}

Next == \E n \in Names : Untrack(n) \/ \E raw \in RawSelectors : Track(n, raw)

Spec == Init /\ [][Next]_vars

-----------------------------------------------------------------------------
(***************************************************************************)
(* "Returns all tracked items consistent with the query" (interface.go):   *)
(* for every label set, the names of the selectors that select it, after   *)
(* any sequence of calls that has left words of several names in the trie. *)
(***************************************************************************)
QueryExact ==
    \A m \in LabelSets : Query(m) = {n \in DOMAIN wanted : Selects(wanted[n], m)}

(***************************************************************************)
(* The trie does not grow with what was tracked once: every node leads to  *)
(* the data of a selector that is tracked.                                 *)
(***************************************************************************)
NoGarbage ==
    \A p \in nodes : p = <<>> \/ \E q \in nodes : IsPrefix(p, q) /\ data[q] # {}

(***************************************************************************)
(* "inconsistent index contains untracked name" and "inconsistent index    *)
(* does not contain tracked name" (selectors.go) are not reached.          *)
(***************************************************************************)
NoPanic == outcome # "panic"
=============================================================================
