---------------------------- MODULE MCAdmission ----------------------------
(***************************************************************************)
(* Small instances of Admission: pods p1, p2 in cell a and p3 in cell b;   *)
(* reviews r1 and r2 are about the same pod, r3 and r4 about one each.     *)
(***************************************************************************)
EXTENDS Admission, TLC

CONSTANTS p1, p2, p3, r1, r2, r3, r4, a, b, i1, i2

(* All pods in one cell, so that buckets are compacted. *)
MCOneCell == [p \in Pods |-> a]

MCCellOf == [p \in Pods |-> IF p = p3 THEN b ELSE a]

MCPodOf ==
    [r \in Reviews |-> CASE r \in {r1, r2} -> p1
                         [] r = r3         -> p2
                         [] OTHER          -> p3]

Symmetry == Permutations(Replicas)
=============================================================================
