------------------------------ MODULE MCParts ------------------------------
(***************************************************************************)
(* Small instances of the parts that surround the three controllers, for   *)
(* the safety properties of all of them: the ones that Parts composes, the *)
(* replicas of Leadership, and in the same way the index of selectors.     *)
(* One part is chosen at the beginning and keeps its own variables.        *)
(***************************************************************************)
EXTENDS Leadership, Parts, SequencesExt, FiniteSetsExt, TLC

VARIABLES tracked, known, nodes, data, outcome   \* of the index of selectors

selectorVars == <<tracked, known, nodes, data, outcome>>

(* Two emissions of one value and one of another under a pair of tags, and one under others. *)
MCTagsOf  == [e1 |-> "ta", e2 |-> "ta", e3 |-> "ta", e4 |-> "tb"]
MCValueOf == [e1 |-> "pod1", e2 |-> "pod1", e3 |-> "pod2", e4 |-> "pod1"]

(* Deletions of pods that match one or both PodProtectors, of which b has  *)
(* a minimum ready time, and all that can go wrong.                        *)
MCRequest(kind, broken, terminating, ready, forced, labels) ==
    [kind |-> kind, broken |-> broken, terminating |-> terminating, ready |-> ready,
     forced |-> forced, labels |-> labels]

MCRequests ==
    {MCRequest("delete", "no", FALSE, t, FALSE, {"b"}) : t \in 0..2}
    \cup {MCRequest("delete", "no", FALSE, 2, TRUE, {"a"}), MCRequest("delete", "no", FALSE, 2, FALSE, {"a", "b"}),
          MCRequest("delete", "body", FALSE, 2, FALSE, {"a"}), MCRequest("evict", "no", FALSE, 2, FALSE, {"a"}),
          MCRequest("evict", "client", FALSE, 2, FALSE, {"a"}), MCRequest("evict", "missing", FALSE, 2, FALSE, {"a"}),
          MCRequest("delete", "object", FALSE, 2, FALSE, {"a"}), MCRequest("delete", "no", TRUE, 2, FALSE, {"a"}),
          MCRequest("other", "no", FALSE, 0, FALSE, {}), MCRequest("none", "no", FALSE, 0, FALSE, {})}

MCQuota    == [p \in {"a", "b"} |-> 1]
MCMinReady == [a |-> 0, b |-> 2]

-----------------------------------------------------------------------------
(* Executables of three components that request up to two others in any    *)
(* way, and ones in which the repeated declarations of up to two of the    *)
(* components add a request.                                               *)
MCDeclarations ==
    [ComponentNames -> [deps : SeqOf(ComponentNames, 2), merge : {<<>>}]]
    \cup {d \in [ComponentNames -> [deps : SeqOf(ComponentNames, 1), merge : SeqOf(ComponentNames, 1)]] :
              \E c \in ComponentNames : d[c].merge = <<>>}

(* Up to two requests of main; other lists differ in the names only. *)
MCMainLists == {<<>>, <<"a">>, <<"a", "a">>, <<"a", "b">>}

-----------------------------------------------------------------------------
MCReqmt(k, op, vs) == [key |-> k, op |-> op, values |-> vs]

(* Selectors of up to two requirements on two keys with two values, none repeated for a key. *)
MCReqmts ==
    {MCReqmt(k, op, vs) : k \in 1..2, op \in {"In", "NotIn"}, vs \in {<<1>>, <<1, 2>>}}
    \cup {MCReqmt(k, op, <<>>) : k \in 1..2, op \in {"Exists", "DoesNotExist"}}

MCSelectors ==
    LET few == {r \in MCReqmts : r.values # <<1>> \/ r.key = 1}
    IN  {<<>>} \cup {<<r>> : r \in MCReqmts} \cup
        {s \in few \X few : s[1].key < s[2].key} \cup
        {s \in few \X few : s[1].key = s[2].key /\ s[1].op = "Exists" /\ s[2].op # "Exists"}

SelectorIndex == INSTANCE SelectorIndex WITH
    Names <- {"m", "n"}, RawSelectors <- MCSelectors, Keys <- {1, 2}, Values <- {1, 2}, wanted <- tracked

(* Label sets and selectors that make every kind of index the best one. *)
MCLabels == {1 :> 1, (1 :> 2 @@ 2 :> 1)}

MCQueries ==
    {<<>>, <<MCReqmt(2, "Exists", <<>>)>>, <<MCReqmt(1, "In", <<1, 2>>)>>,
     <<MCReqmt(1, "In", <<2>>), MCReqmt(2, "DoesNotExist", <<>>)>>,
     <<MCReqmt(2, "NotIn", <<1>>)>>, <<MCReqmt(1, "Near", <<>>)>>}

-----------------------------------------------------------------------------
(* Slices of up to three values, of which 2 and 3 are failures, and what   *)
(* the operators of the package make of them, without and with a filter.   *)
Make == INSTANCE Iter WITH Iterators <- {}

MCSlices == {Make!FromSlice(s) : s \in BoundedSeq(1..3, 3)}
MCShort  == {Make!FromSlice(s) : s \in BoundedSeq(1..3, 2)}
MCInner  == [v \in 1..3 |-> Make!FromSlice([i \in 1..v |-> i])]

MCPlain ==
    MCSlices \cup {Make!Chain(x, y) : x, y \in MCShort} \cup {Make!FlatMap(x, MCInner) : x \in MCShort}
    \cup {Make!Map(x, [v \in 1..3 |-> 4 - v]) : x \in MCShort}
    \cup {Make!Chain(Make!Chain(x, y), Make!FlatMap(x, MCInner)) : x, y \in MCShort}

(* As the label index returns them. *)
MCFiltered ==
    {Make!Filter(x, {1, 3}) : x \in MCSlices} \cup {Make!Deduplicate(x) : x \in MCSlices}
    \cup {Make!Chain(Make!Deduplicate(x), y) : x, y \in MCShort}
    \cup {Make!FlatMap(Make!Deduplicate(x), MCInner) : x \in MCShort}

MCIterators == MCPlain \cup MCFiltered

-----------------------------------------------------------------------------
(* The variables that a part does not need have no value while it runs. *)
NoSelectors == tracked = Nil /\ known = Nil /\ nodes = Nil /\ data = Nil /\ outcome = Nil

MCInit ==
    /\ Init
    /\ \/ PartsInit /\ NoSelectors
       \/ part = "leadership" /\ NoPart /\ NoSelectors
       \/ part = "selectors" /\ SelectorIndex!Init /\ NoPart

MCNext ==
    \/ PartsNext /\ UNCHANGED <<vars, selectorVars>>
    \/ part = "leadership" /\ Next /\ UNCHANGED <<partsVars, selectorVars>>
    \/ part = "selectors" /\ SelectorIndex!Next /\ UNCHANGED <<vars, partsVars>>

MCSpec == MCInit /\ [][MCNext]_<<vars, partsVars, selectorVars>>

-----------------------------------------------------------------------------
(***************************************************************************)
(* labelindex/selectors.go: after any calls of Track and Untrack the index *)
(* returns for every label set the selectors that select it, no node of    *)
(* the trie is left behind, and no call has panicked.                      *)
(***************************************************************************)
SelectorsIndexed ==
    part = "selectors" => SelectorIndex!QueryExact /\ SelectorIndex!NoGarbage /\ SelectorIndex!NoPanic
=============================================================================
