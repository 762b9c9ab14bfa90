---------------------------- MODULE QuotaBatch ----------------------------
(***************************************************************************)
(* AdmitBatch of webhook/handler/disruptionquota/quota.go: the reviews of  *)
(* one batch are judged one by one, the latest first, against a quota that *)
(* every admitted review charges.  The initial states enumerate the        *)
(* summaries, the limits and the batches; one step judges one review.      *)
(***************************************************************************)
EXTENDS DisruptionQuota, Sequences, FiniteSets

CONSTANTS MaxCount,     \* bound on the aggregated counts, the minimum and the lag
          MaxBatch,     \* bound on the number of reviews in a batch
          LagLimits     \* values of MaxConcurrentLag, 0 for unrestricted

VARIABLES input,        \* the summary, the limits and the batch
          state,        \* disruptionquota.State
          todo,         \* number of reviews not judged yet: the prefix of the batch
          results       \* results[i]: the result of the i-th review once judged

vars == <<input, state, todo, results>>

(***************************************************************************)
(* A pod that is available is ready, and one that is ready was scheduled   *)
(* and is running; a batch may mix criteria.                               *)
(***************************************************************************)
PodStatuses ==
    [criterion : {"Scheduled", "Available"},
     is : {{"Scheduled"}, {"Scheduled", "Running", "Ready"}, Criteria}]

(* The counts of a summary: every available pod is ready, running and scheduled. *)
Aggregations ==
    {[k \in Criteria |-> IF k = "Available" THEN a ELSE s] :
        a \in 0..MaxCount, s \in 0..MaxCount}

Inputs ==
    [agg      : {g \in Aggregations : g["Available"] <= g["Scheduled"]},
     lag      : 0..MaxCount,
     min      : 0..MaxCount,
     maxLag   : LagLimits,
     batch    : UNION {[1..n -> PodStatuses] : n \in 1..MaxBatch}]

Init ==
    /\ input \in Inputs
    /\ state = MakeState(input.agg, input.lag, input.min, input.maxLag)
    /\ todo = Len(input.batch)
    /\ results = [i \in 1..Len(input.batch) |-> "Ok"]

EarliestFirst ==   \* mutant: the loop runs from the first review to the last
    LET n == Len(input.batch) + 1 - todo
    IN  /\ todo > 0
        /\ results' = [results EXCEPT ![n] = getResult(state, input.batch[n])]
        /\ state' = AdmitBatchItem(state, input.batch[n])
        /\ todo' = todo - 1
        /\ UNCHANGED input

(* One round of the loop of AdmitBatch, from the last review to the first. *)
AdmitNext ==
    /\ todo > 0
    /\ results' = [results EXCEPT ![todo] = getResult(state, input.batch[todo])]
    /\ state' = AdmitBatchItem(state, input.batch[todo])
    /\ todo' = todo - 1
    /\ UNCHANGED input

(* The batch is judged and its results returned. *)
Returned == todo = 0 /\ UNCHANGED vars

Next == AdmitNext \/ Returned

Spec == Init /\ [][Next]_vars

-----------------------------------------------------------------------------
(* The reviews judged so far that were admitted. *)
Admitted == {i \in todo + 1 .. Len(input.batch) : ShouldDisrupt(results[i])}

(* The admitted reviews whose pod counted under criterion k. *)
Charged(k) == {i \in Admitted : k \in input.batch[i].is}

TypeOK ==
    /\ input \in Inputs
    /\ todo \in 0..Len(input.batch)
    /\ state.healthy \in [Criteria -> Int]
    /\ Cardinality(state.Remaining) <= 1
    /\ results \in [1..Len(input.batch) -> Results]

(***************************************************************************)
(* AdmitBatch never spends quota it does not have: in a batch whose        *)
(* reviews all ask for the same criterion, the pods that were admitted and *)
(* counted leave the minimum standing on top of the unconfirmed lag,       *)
(* unless none of them could be admitted in the first place.               *)
(***************************************************************************)
NeverOverdrawn ==
    \A k \in Criteria :
        (\A i \in 1..Len(input.batch) : input.batch[i].criterion = k) =>
            \/ Charged(k) = {}
            \/ input.agg[k] - Cardinality(Charged(k)) - input.lag >= input.min

(***************************************************************************)
(* Quota is not wasted: a refused review of a batch that is fully judged   *)
(* could not have been admitted with the quota that is left either, so the *)
(* one pass from the latest review to the earliest needs no second pass.   *)
(***************************************************************************)
RefusalsJustified ==
    todo = 0 => \A i \in 1..Len(input.batch) :
        ~ShouldDisrupt(results[i]) => ~ShouldDisrupt(getResult(state, input.batch[i]))

(***************************************************************************)
(* The latest reviews go first: a review is never refused while an earlier *)
(* one with the same status and criterion is admitted ("earlier ones have  *)
(* a higher chance of timeout", quota.go).                                 *)
(***************************************************************************)
LatestFirst ==
    \A i, j \in todo + 1 .. Len(input.batch) :
        i < j /\ input.batch[i] = input.batch[j] /\ ShouldDisrupt(results[i])
            => ShouldDisrupt(results[j])

(***************************************************************************)
(* A refusal says "denied" (HTTP 429) only when the aggregated pods        *)
(* themselves are at the minimum, counting what this batch took, and       *)
(* "retry" (HTTP 409) only when the unconfirmed lag, or the limit on it,   *)
(* is what stands in the way (docs/design.md, Webhook).                    *)
(***************************************************************************)
RefusalsExplained ==
    \A i \in todo + 1 .. Len(input.batch) :
        LET k     == input.batch[i].criterion
            taken == Cardinality({j \in Charged(k) : j > i})
        IN  /\ results[i] = "Denied" => input.agg[k] - taken <= input.min
            /\ results[i] = "Retry"  => \/ input.maxLag # 0
                                        \/ /\ input.lag > 0
                                           /\ input.agg[k] - taken > input.min

(***************************************************************************)
(* A batch never takes the unconfirmed admissions from at most             *)
(* MaxConcurrentLag to more than it, reviews of unhealthy pods included.   *)
(***************************************************************************)
LagLimitKept ==
    input.maxLag # 0 /\ input.lag <= input.maxLag
        => input.lag + Cardinality(Admitted) <= input.maxLag

(***************************************************************************)
(* AdmitBatch admits what the quota allows.  It leaves the minimum         *)
(* standing on top of the unconfirmed lag and stays within                 *)
(* MaxConcurrentLag, and a review it has refused could not be admitted     *)
(* with what is left either.                                               *)
(***************************************************************************)
AdmittedExactly == TypeOK /\ NeverOverdrawn /\ LagLimitKept /\ RefusalsJustified

(***************************************************************************)
(* AdmitBatch never refuses a review while an earlier one like it is       *)
(* admitted; a refusal is final only if the pods themselves are at the     *)
(* minimum, and asks for a retry only if the lag or its limit stands in    *)
(* the way.                                                                *)
(***************************************************************************)
RefusedRightly == LatestFirst /\ RefusalsExplained
=============================================================================
