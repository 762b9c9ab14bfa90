----------------------------- MODULE Canonical -----------------------------
(***************************************************************************)
(* Label sets and label selectors in the canonical form of                 *)
(* util/labelindex/canonical.  Keys and values are numbers, which have an  *)
(* order as strings have.                                                  *)
(*                                                                         *)
(* A raw selector is the sequence of its requirements, those of            *)
(* matchLabels first: [key, op, values], where op is one of the four       *)
(* operators of the API or anything else.                                  *)
(***************************************************************************)
EXTENDS Integers, Sequences, SequencesExt, FiniteSets

Operators == {"In", "NotIn", "Exists", "DoesNotExist"}

RawReqmt  == [key : Int, op : STRING, values : Seq(Int)]
RawLabels(m) == IsFiniteSet(DOMAIN m) /\ DOMAIN m \subseteq Int

(* utilsort.ByKey, a stable sort, of the elements of s at the positions I: *)
(* the r-th is the one that r of them do not come after.                   *)
NotAfter(s, j, i) == s[j].key < s[i].key \/ (s[j].key = s[i].key /\ j <= i)

ByKey(s, I) ==
    [r \in 1..Cardinality(I) |-> s[CHOOSE i \in I : Cardinality({j \in I : NotAfter(s, j, i)}) = r]]

ReqmtsOf(raw, op) == ByKey(raw, {i \in DOMAIN raw : raw[i].op = op})

(* CreateSelector fails on an operator it does not know. *)
IsValid(raw) == \A i \in DOMAIN raw : raw[i].op \in Operators

CreateSelector(raw) ==
    [keyIn |-> ReqmtsOf(raw, "In"), keyExist |-> ReqmtsOf(raw, "Exists"),
     keyNotIn |-> ReqmtsOf(raw, "NotIn"), keyNotExist |-> ReqmtsOf(raw, "DoesNotExist")]

(* CreateSet: the pairs of a map from keys to values, by key. *)
CreateSet(m) == ByKey([k \in DOMAIN m |-> [key |-> k, value |-> m[k]]], DOMAIN m)

-----------------------------------------------------------------------------
(***************************************************************************)
(* LeftZip: two sequences sorted by key are walked together.  For every    *)
(* element on the left the head of the right slice moves on past the keys  *)
(* that are smaller; the element there is paired with it as <<r>> if it    *)
(* has the same key.                                                       *)
(***************************************************************************)
LeftZip(left, right) ==
    LET head[i \in 0..Len(left)] ==
            IF i = 0 THEN 1
            ELSE Min({j \in head[i - 1]..Len(right) + 1 : j \in DOMAIN right => ~(right[j].key < left[i].key)})
    IN  [i \in 1..Len(left) |->
            [left  |-> left[i],
             right |-> IF head[i] \in DOMAIN right /\ right[head[i]].key = left[i].key
                       THEN <<right[head[i]]>> ELSE <<>>]]

HasValue(values, pair) == \E i \in DOMAIN values : values[i] = pair.value

(* Selector.Matches. *)
Matches(selector, set) ==
    /\ \A x \in Range(LeftZip(selector.keyIn, set)) : x.right # <<>> /\ HasValue(x.left.values, x.right[1])
    /\ \A x \in Range(LeftZip(selector.keyNotIn, set)) : x.right = <<>> \/ ~HasValue(x.left.values, x.right[1])
    /\ \A x \in Range(LeftZip(selector.keyExist, set)) : x.right # <<>>
    /\ \A x \in Range(LeftZip(selector.keyNotExist, set)) : x.right = <<>>

(* What the API says of a requirement and a map of labels. *)
Satisfies(m, r) ==
    CASE r.op = "In"           -> r.key \in DOMAIN m /\ m[r.key] \in Range(r.values)
      [] r.op = "NotIn"        -> ~(r.key \in DOMAIN m /\ m[r.key] \in Range(r.values))
      [] r.op = "Exists"       -> r.key \in DOMAIN m
      [] r.op = "DoesNotExist" -> r.key \notin DOMAIN m
      [] OTHER                 -> FALSE

Selects(raw, m) == \A i \in DOMAIN raw : Satisfies(m, raw[i])
=============================================================================
