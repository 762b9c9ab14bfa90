-------------------------- MODULE DisruptionQuota --------------------------
(***************************************************************************)
(* The quota arithmetic of the webhook, package                            *)
(* webhook/handler/disruptionquota.  A State is the quota that is left     *)
(* while the reviews of one batch are admitted one after the other; it is  *)
(* computed once from the summary of the PodProtector and then charged by  *)
(* every admitted review.  The module has operators only; QuotaBatch runs  *)
(* the loop of AdmitBatch over them, Admission uses them inside the        *)
(* webhook.                                                                *)
(***************************************************************************)
EXTENDS Integers

(* healthcriterion.Type: what a review asks its pod to be counted as. *)
Criteria == {"Scheduled", "Running", "Ready", "Available"}

(* disruptionquota.Result. *)
Results == {"Ok", "AlreadyUnhealthy", "Retry", "Denied"}

LagNotAdded(agg, lag, minAvailable, maxConcurrentLag) ==   \* mutant: Retry ignores the lag
    [healthy   |-> agg,
     Reject    |-> minAvailable,
     Retry     |-> minAvailable,
     Remaining |-> IF maxConcurrentLag = 0 THEN {} ELSE {maxConcurrentLag - lag}]

(***************************************************************************)
(* agg[k] is the number of pods aggregated as healthy under criterion k,   *)
(* lag the number of admissions in the history that the aggregator has not *)
(* confirmed yet (AggregatedAvailable - EstimatedAvailable).  Remaining is *)
(* an optional integer: the empty set when MaxConcurrentLag is 0, which    *)
(* means unrestricted, and a singleton otherwise.  It is negative when the *)
(* limit is below the lag.                                                 *)
(***************************************************************************)
MakeState(agg, lag, minAvailable, maxConcurrentLag) ==
    [healthy   |-> agg,
     Reject    |-> minAvailable,
     Retry     |-> minAvailable + lag,
     Remaining |-> IF maxConcurrentLag = 0 THEN {} ELSE {maxConcurrentLag - lag}]

ShouldDisrupt(result) == result \in {"Ok", "AlreadyUnhealthy"}

(***************************************************************************)
(* A pod that does not contribute to the criterion is free to go; one that *)
(* does is denied when the aggregated count is at the minimum already, and *)
(* told to retry when only unconfirmed admissions stand in the way.        *)
(***************************************************************************)
getResultForCriterion(current, isContributor, state) ==
    CASE ~isContributor                               -> "AlreadyUnhealthy"
      [] isContributor /\ current <= state.Reject     -> "Denied"
      [] isContributor /\ current > state.Reject
                       /\ current <= state.Retry      -> "Retry"
      [] OTHER                                        -> "Ok"

(***************************************************************************)
(* pod.criterion is the criterion the review is judged by, pod.is the set  *)
(* of criteria the pod satisfies.  The limit on unconfirmed admissions is  *)
(* tested for equality with zero, and before anything else.                *)
(***************************************************************************)
getResult(state, pod) ==
    IF state.Remaining = {0}
    THEN "Retry"
    ELSE getResultForCriterion(state.healthy[pod.criterion],
                               pod.criterion \in pod.is, state)

LimitNotCharged(state, pod) ==   \* mutant: Remaining is not decremented
    [state EXCEPT !.healthy   = [k \in Criteria |->
                                    IF k \in pod.is THEN @[k] - 1 ELSE @[k]]]

(* An admitted pod is deducted from every count it contributes to. *)
disruptState(state, pod) ==
    [state EXCEPT !.healthy   = [k \in Criteria |->
                                    IF k \in pod.is THEN @[k] - 1 ELSE @[k]],
                  !.Remaining = {n - 1 : n \in @}]

(* The state after AdmitBatchItem; the result it returns is getResult. *)
AdmitBatchItem(state, pod) ==
    IF ShouldDisrupt(getResult(state, pod)) THEN disruptState(state, pod) ELSE state
=============================================================================
