---------------------------- MODULE MCRetryBatch ----------------------------
(* Small instances of RetryBatch: a few calls of Submit for one key. *)
EXTENDS RetryBatch, TLC

CONSTANTS s1, s2, s3

Symmetry == Permutations(Submitters)
=============================================================================
