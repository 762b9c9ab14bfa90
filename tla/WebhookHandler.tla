--------------------------- MODULE WebhookHandler ---------------------------
(***************************************************************************)
(* The way of a deletion or eviction review through the webhook            *)
(* (webhook/server, webhook/handler): it is interpreted, waved through or  *)
(* put to every PodProtector that matches the pod, one after the other,    *)
(* and answered.  What the pool and its adapter decide for one             *)
(* PodProtector is the subject of RetryBatch and Admission; here a         *)
(* PodProtector has a number of disruptions left.  The informer stores a   *)
(* PodProtector before it indexes it, and drops it in the same order.      *)
(***************************************************************************)
EXTENDS Integers, FiniteSets

CONSTANTS Reviews,     \* review requests, each of a pod of its own
          Pprs,        \* PodProtectors
          Requests,    \* what a review may look like: a set of Request
          Quota,       \* Quota[p]: the disruptions PodProtector p admits
          MinReady,    \* MinReady[p]: spec.minReadySeconds
          DryRun       \* --webhook-dry-run

Request ==
    [kind        : {"delete", "evict", "other", "none"},
     broken      : {"no", "body", "object", "client", "missing"},   \* what cannot be had
     terminating : BOOLEAN,
     ready       : {0, 1, 2},      \* 0, or for how long the pod has been ready
     forced      : BOOLEAN,        \* whether the pod has the force-delete annotation
     labels      : SUBSET Pprs]    \* the PodProtectors whose selectors match the pod

VARIABLES
    synced,     \* informerHasSynced
    stored,     \* the PodProtectors in the store of the informer
    indexed,    \* the PodProtectors in the selector index
    left,       \* left[p]: disruptions that p still admits
    buckets,    \* <<p, r>>: p has a bucket for the pod of r
    review,     \* review[r]: phase, and the request and the local variables of its handler
    steady      \* steady[r]: the PodProtectors stored and indexed ever since r arrived

vars == <<synced, stored, indexed, left, buckets, review, steady>>

New == [phase |-> "new", request |-> [kind |-> "none"], todo |-> {}, agreed |-> {}, current |-> {}, answer |-> "none"]

Init ==
    /\ synced = FALSE
    /\ stored = {} /\ indexed = {}
    /\ left = Quota
    /\ buckets = {}
    /\ review = [r \in Reviews |-> New]
    /\ steady = [r \in Reviews |-> {}]

informer == <<synced, stored, indexed>>

-----------------------------------------------------------------------------
(* The informer. *)
Sync == ~synced /\ synced' = TRUE /\ UNCHANGED <<stored, indexed, left, buckets, review, steady>>

Store(p) ==
    /\ p \notin stored /\ p \notin indexed
    /\ stored' = stored \cup {p}
    /\ UNCHANGED <<synced, indexed, left, buckets, review, steady>>

Discard(p) ==
    /\ p \in stored /\ p \in indexed
    /\ stored' = stored \ {p}
    /\ steady' = [r \in Reviews |-> steady[r] \ {p}]
    /\ UNCHANGED <<synced, indexed, left, buckets, review>>

Index(p) ==
    /\ (p \in stored) # (p \in indexed)
    /\ indexed' = IF p \in stored THEN indexed \cup {p} ELSE indexed \ {p}
    /\ UNCHANGED <<synced, stored, left, buckets, review, steady>>

-----------------------------------------------------------------------------
(* The server's answers: "allowed", "rejected", "error" (500), "bad" (400) or "aborted". *)
Answered(r, answer) ==
    review' = [review EXCEPT ![r].phase = "answered", ![r].answer = answer]

(***************************************************************************)
(* The end of the server's handler: what Handle returns counts unless the  *)
(* flag, or Handle for the sake of the pod, prefers a dry run.             *)
(***************************************************************************)
Respond(r, req, outcome, preferDryRun) ==
    review' = [review EXCEPT ![r].phase = "answered", ![r].request = req,
                 ![r].answer = IF DryRun \/ preferDryRun THEN "allowed" ELSE outcome]

(* interpretRequest: the pod, nothing, an error, or an error for a missing pod. *)
Interpretation(req) ==
    CASE req.kind \in {"other", "none"}                     -> "nothing"
      [] req.kind = "delete" /\ req.broken = "object"       -> "error"
      [] req.kind = "evict" /\ req.broken = "missing"       -> "notFound"
      [] req.kind = "evict" /\ req.broken \in {"client", "object"} -> "error"
      [] OTHER                                              -> "pod"

(* Handle, as far as the query; HttpRequestComplete needs a request. *)
Handle(r, req) ==
    /\ review[r].phase = "new"
    /\ IF req.broken = "body"
       THEN review' = [review EXCEPT ![r].phase = "answered", ![r].request = req, ![r].answer = "bad"]
       ELSE IF Interpretation(req) = "error" THEN Respond(r, req, "error", FALSE)
       ELSE IF Interpretation(req) = "notFound" THEN Respond(r, req, "rejected", FALSE)
       ELSE IF req.kind = "none"
       THEN review' = [review EXCEPT ![r].phase = "answered", ![r].request = req, ![r].answer = "aborted"]
       ELSE IF Interpretation(req) = "nothing" THEN Respond(r, req, "rejected", FALSE)
       ELSE IF req.terminating \/ req.ready = 0 THEN Respond(r, req, "allowed", req.forced)
       ELSE IF ~synced THEN Respond(r, req, "error", FALSE)
       ELSE review' = [review EXCEPT ![r].phase = "next", ![r].request = req,
                                     ![r].todo = indexed \cap req.labels]
    /\ steady' = [steady EXCEPT ![r] = stored \cap indexed]
    /\ UNCHANGED <<informer, left, buckets>>

OneSuffices(r) ==   \* mutant: the first PodProtector that agrees decides
    /\ review[r].phase = "next"
    /\ review[r].todo = {} \/ review[r].agreed # {}
    /\ Respond(r, review[r].request, "allowed", review[r].request.forced)
    /\ UNCHANGED <<informer, left, buckets, steady>>

AdmitAll(r) ==
    /\ review[r].phase = "next" /\ review[r].todo = {}
    /\ Respond(r, review[r].request, "allowed", review[r].request.forced)
    /\ UNCHANGED <<informer, left, buckets, steady>>

AskedAgain(r, p) ==   \* mutant: a PodProtector that waves the pod through is not ticked off
    /\ review[r].phase = "next" /\ p \in review[r].todo
    /\ IF p \notin stored THEN Answered(r, "aborted")
       ELSE IF review[r].request.ready < MinReady[p] THEN UNCHANGED review
       ELSE review' = [review EXCEPT ![r].phase = "submitted", ![r].current = {p}]
    /\ UNCHANGED <<informer, left, buckets, steady>>

(***************************************************************************)
(* determineRejection, as far as the pool.  For a PodProtector that is not *)
(* in the store, the message is made from an error that is nil, and the    *)
(* panic aborts the request.                                               *)
(***************************************************************************)
GetPpr(r, p) ==
    /\ review[r].phase = "next" /\ p \in review[r].todo
    /\ IF p \notin stored THEN Answered(r, "aborted")
       ELSE IF review[r].request.ready < MinReady[p]
       THEN review' = [review EXCEPT ![r].todo = @ \ {p}, ![r].agreed = @ \cup {p}]
       ELSE review' = [review EXCEPT ![r].phase = "submitted", ![r].current = {p}]
    /\ UNCHANGED <<informer, left, buckets, steady>>

Continue(r, p) ==
    review' = [review EXCEPT ![r].phase = "next", ![r].todo = @ \ {p}, ![r].agreed = @ \cup {p}, ![r].current = {}]

(* The results of Submit. *)
NewDisruption(r, p) ==
    /\ review[r].phase = "submitted" /\ review[r].current = {p}
    /\ left[p] > 0
    /\ left' = [left EXCEPT ![p] = @ - 1]
    /\ buckets' = buckets \cup {<<p, r>>}
    /\ Continue(r, p)
    /\ UNCHANGED <<informer, steady>>

(* NoPpr, AlreadyUnhealthy, AlreadyHasBucket *)
Waved(r, p) ==
    /\ review[r].phase = "submitted" /\ review[r].current = {p}
    /\ Continue(r, p)
    /\ UNCHANGED <<informer, left, buckets, steady>>

(* Rejected, NeedRetry *)
Reject(r, p) ==
    /\ review[r].phase = "submitted" /\ review[r].current = {p}
    /\ Respond(r, review[r].request, "rejected", review[r].request.forced)
    /\ UNCHANGED <<informer, left, buckets, steady>>

(* Submit fails, with the bucket written or not. *)
SubmitFails(r, p) ==
    /\ review[r].phase = "submitted" /\ review[r].current = {p}
    /\ Respond(r, review[r].request, "error", review[r].request.forced)
    /\ \/ UNCHANGED <<left, buckets>>
       \/ /\ left[p] > 0
          /\ left' = [left EXCEPT ![p] = @ - 1]
          /\ buckets' = buckets \cup {<<p, r>>}
    /\ UNCHANGED <<informer, steady>>

Next ==
    \/ Sync
    \/ \E p \in Pprs : Store(p) \/ Discard(p) \/ Index(p)
    \/ \E r \in Reviews :
          \/ \E req \in Requests : Handle(r, req)
          \/ AdmitAll(r)
          \/ \E p \in Pprs : \/ GetPpr(r, p) \/ NewDisruption(r, p) \/ Waved(r, p)
                             \/ Reject(r, p) \/ SubmitFails(r, p)

Spec == Init /\ [][Next]_vars

(* The goroutine of a request goes on, and the pool answers (ReviewAnswered of Admission). *)
Fairness ==
    \A r \in Reviews : WF_vars(AdmitAll(r) \/ \E p \in Pprs :
        GetPpr(r, p) \/ NewDisruption(r, p) \/ Waved(r, p) \/ Reject(r, p) \/ SubmitFails(r, p))

-----------------------------------------------------------------------------
Judged(r) ==
    /\ review[r].phase = "answered"
    /\ Interpretation(review[r].request) = "pod" /\ review[r].request.broken # "body"
    /\ ~review[r].request.terminating /\ review[r].request.ready > 0

(***************************************************************************)
(* The deletion of a ready pod is allowed in earnest only if every         *)
(* PodProtector that matches it, and was there the whole time, agreed:     *)
(* "short circuit when any of them fails" (handler.go).                    *)
(***************************************************************************)
AllowedByAll ==
    \A r \in Reviews :
        Judged(r) /\ review[r].answer = "allowed" /\ ~DryRun /\ ~review[r].request.forced =>
            steady[r] \cap review[r].request.labels \subseteq review[r].agreed

(***************************************************************************)
(* A review that is rejected holds no disruption, if one PodProtector      *)
(* matches its pod.  The handler does not roll back, and relies on "there  *)
(* are no pods matching multiple PodProtectors in practice" (handler.go).  *)
(***************************************************************************)
RejectedHoldsNothing ==
    \A r \in Reviews :
        review[r].answer = "rejected" /\ Cardinality(review[r].request.labels) <= 1 =>
            \A p \in Pprs : <<p, r>> \notin buckets

(***************************************************************************)
(* What the handler answers is backed by what the PodProtectors decided: a *)
(* review that is allowed was agreed to by all of them that were there all *)
(* along and match the pod; a pod that at most one of them matches and     *)
(* whose deletion is rejected has no bucket.                               *)
(***************************************************************************)
AnswersBacked == AllowedByAll /\ RejectedHoldsNothing

(* Every review that has arrived is answered, whatever the informer does meanwhile. *)
EveryReviewAnswered ==
    \A r \in Reviews : review[r].phase # "new" ~> review[r].phase = "answered"
=============================================================================
