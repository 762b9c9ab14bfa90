------------------------------ MODULE BatchPool ------------------------------
(***************************************************************************)
(* What the retry-batch pool promises its callers (Pool and Adapter in     *)
(* util/retrybatch/pool.go), for one key and without a word on handles,    *)
(* reference counters, goroutines or channels:                             *)
(*                                                                         *)
(*   - calls are executed in batches, and no two executions of the key     *)
(*     overlap;                                                            *)
(*   - all calls of an execution share its outcome, or all are retried;    *)
(*   - a call is answered once, and never executed after it is answered;   *)
(*   - "canceled" is only answered to a canceled call, "closed" only when  *)
(*     the pool is closed, and neither to a call in an execution.          *)
(***************************************************************************)
CONSTANTS Submitters

VARIABLES call,       \* call[s]: "idle", "open", or the answer of the call of s
          running,    \* the calls of the execution under way
          canceled,   \* the calls whose context is canceled
          closed      \* the pool is closed

vars == <<call, running, canceled, closed>>

Answers == {"ok", "error", "canceled", "closed"}

Init ==
    /\ call = [s \in Submitters |-> "idle"]
    /\ running = {}
    /\ canceled = {}
    /\ closed = FALSE

Open == {s \in Submitters : call[s] = "open"}

Answer(calls, v) ==
    call' = [s \in Submitters |-> IF s \in calls THEN v ELSE call[s]]

Submit(s) ==
    /\ call[s] = "idle"
    /\ call' = [call EXCEPT ![s] = "open"]
    /\ UNCHANGED <<running, canceled, closed>>

Begin ==
    /\ running = {}
    /\ running' # {} /\ running' \subseteq Open
    /\ UNCHANGED <<call, canceled, closed>>

End ==
    /\ running # {}
    /\ \E v \in {"ok", "error"} : Answer(running, v)
    /\ running' = {}
    /\ UNCHANGED <<canceled, closed>>

Retry ==
    /\ running # {}
    /\ running' = {}
    /\ UNCHANGED <<call, canceled, closed>>

AnswerCanceled(s) ==
    /\ s \in (Open \cap canceled) \ running
    /\ Answer({s}, "canceled")
    /\ UNCHANGED <<running, canceled, closed>>

AnswerClosed ==
    /\ closed
    /\ \E calls \in SUBSET (Open \ running) : calls # {} /\ Answer(calls, "closed")
    /\ UNCHANGED <<running, canceled, closed>>

Cancel(s) ==
    /\ canceled' = canceled \cup {s}
    /\ UNCHANGED <<call, running, closed>>

Close ==
    /\ closed' = TRUE
    /\ UNCHANGED <<call, running, canceled>>

Next ==
    \/ \E s \in Submitters : Submit(s) \/ AnswerCanceled(s) \/ Cancel(s)
    \/ Begin \/ End \/ Retry \/ AnswerClosed \/ Close

Spec == Init /\ [][Next]_vars
=============================================================================
