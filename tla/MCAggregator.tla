--------------------------- MODULE MCAggregator ---------------------------
(***************************************************************************)
(* Small instances of Aggregator: pods p1 and p2, one review of each, and  *)
(* the dummy pod d of the update trigger, in the same shard or in another. *)
(***************************************************************************)
EXTENDS Aggregator

CONSTANTS p1, p2, d, a

MCCellOf == [p \in Pods |-> a]
MCPodOf  == [r \in Reviews |-> r]

MCOneShard  == [p \in Pods \cup {d} |-> 0]
MCTwoShards == [p \in Pods \cup {d} |-> IF p = d THEN 1 ELSE 0]
=============================================================================
