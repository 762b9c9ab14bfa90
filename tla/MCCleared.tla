----------------------------- MODULE MCCleared -----------------------------
(***************************************************************************)
(* Instances of Aggregator for the buckets it drops: the status algorithm  *)
(* with one shard, under its fairness, and the clock algorithm with pod    *)
(* and trigger in different shards, for safety only.  The clock algorithm  *)
(* takes the time of the handler for that of the event, so it is looked at *)
(* where events arrive before the clock advances.                          *)
(***************************************************************************)
EXTENDS MCAggregator

VARIABLE algorithm

ByClock == INSTANCE Aggregator WITH
    Algorithm <- "clock", LagFree <- TRUE, Shards <- {0, 1}, ShardOf <- MCTwoShards, MinReady <- 0, MaxTime <- 2

MCInit ==
    \/ algorithm = "status" /\ Init
    \/ algorithm = "clock" /\ ByClock!Init

MCNext ==
    /\ UNCHANGED algorithm
    /\ \/ algorithm = "status" /\ Next
       \/ algorithm = "clock" /\ ByClock!Next

MCFairSpec ==
    /\ MCInit
    /\ [][MCNext]_<<algorithm, vars>>
    /\ algorithm = "status" => Fairness

-----------------------------------------------------------------------------
(* Whichever algorithm is chosen and however pods are sharded, a bucket is *)
(* dropped only when all events of its own shard up to its time were seen  *)
(* (updateLastEventTime).                                                  *)
DroppedWhenPassed ==
    [][IF algorithm = "clock" THEN ByClock!DropsPassed ELSE DropsPassed]_<<algorithm, vars>>

(* Every bucket is dropped in the end (nextEventPool, tryReconcile).       *)
BucketsDropped == algorithm = "status" => BucketsCleared

(* The stored count is correct again and again, also for pods that become  *)
(* available minReadySeconds later (aggregateStatus and its requeue).      *)
CountFollows == algorithm = "status" => CountConverges
=============================================================================
