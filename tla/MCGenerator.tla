---------------------------- MODULE MCGenerator ----------------------------
(***************************************************************************)
(* Small instances of Generator.  Of 2 replicas 25%, rounded up, may be    *)
(* unavailable, so that MinAvailable is 1; of 0 it is 0.                   *)
(***************************************************************************)
EXTENDS Generator

CONSTANTS own, old

MCQuarter == [percent |-> TRUE, value |-> 25]
=============================================================================
