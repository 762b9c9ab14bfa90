----------------------------- MODULE RetryBatch -----------------------------
(***************************************************************************)
(* The retry-batch pool of util/retrybatch, for one key: concurrent calls  *)
(* of Submit find or create the handle of the key, hold a reference to it  *)
(* (fusedrc), and pass their request over its unbuffered channel to the    *)
(* batch goroutine of the handle, which the creator of the handle starts   *)
(* and which fuses the counter and ends when it is idle.                   *)
(*                                                                         *)
(* Every call creates at most one handle, so a handle is named after the   *)
(* call that creates it.  Timers are nondeterministic: a timer may always  *)
(* have expired.                                                           *)
(***************************************************************************)
EXTENDS Integers, FiniteSets

CONSTANTS Submitters,   \* the calls of Submit
          NoHandle,     \* no entry in the map of handles
          MaxSpins      \* acquisitions of a fused handle that are counted

fusedInitValue == -1073741824   \* -2^30

ASSUME RetryBatchAssumption ==
    /\ IsFiniteSet(Submitters)
    /\ NoHandle \notin Submitters
    /\ MaxSpins \in Nat
    /\ fusedInitValue + MaxSpins < -1

Handles == Submitters

VARIABLES
    entry,      \* the handle stored in the map under the key
    rc,         \* rc[h]: the reference counter of handle h
    gor,        \* gor[h]: where the batch goroutine of h is
    batch,      \* batch[h]: the requests in its batch
    unchecked,  \* unchecked[h]: those not yet checked for cancellation
    outcome,    \* outcome[h]: the answer being dispatched
    pc,         \* pc[s]: where call s is
    at,         \* at[s]: the handle it has loaded
    reply,      \* reply[s]: the content of its result channel
    canceled,   \* the calls whose context is canceled
    closed      \* the context of the pool is canceled

goroutine == <<gor, batch, unchecked, outcome>>
vars == <<entry, rc, goroutine, pc, at, reply, canceled, closed>>

Steps == {"idle", "load", "acquire", "start", "send", "wait", "release", "returned", "panic"}

(***************************************************************************)
(* "none" before it is started; "idle" at the top of the loop of           *)
(* batchGoroutine, "select" once it found no request there; "batch" in the *)
(* loop of processBatch; "drain" and "execute" in executeBatch; "reply"    *)
(* while answers are sent; "fused" with the deferred cleanup to do.        *)
(***************************************************************************)
Places == {"none", "idle", "select", "batch", "drain", "execute", "reply", "fused", "done"}

Outcomes == {"ok", "error", "canceled", "closed"}

Init ==
    /\ entry = NoHandle
    /\ rc = [h \in Handles |-> 0]
    /\ gor = [h \in Handles |-> "none"]
    /\ batch = [h \in Handles |-> {}]
    /\ unchecked = [h \in Handles |-> {}]
    /\ outcome = [h \in Handles |-> "ok"]
    /\ pc = [s \in Submitters |-> "idle"]
    /\ at = [s \in Submitters |-> NoHandle]
    /\ reply = [s \in Submitters |-> {}]
    /\ canceled = {}
    /\ closed = FALSE

-----------------------------------------------------------------------------
(* Submit and acquireLazyHandle. *)
Call(s) ==
    /\ pc[s] = "idle"
    /\ pc' = [pc EXCEPT ![s] = "load"]
    /\ UNCHANGED <<entry, rc, goroutine, at, reply, canceled, closed>>

LoadOrCompute(s) ==
    /\ pc[s] = "load"
    /\ entry' = IF entry = NoHandle THEN s ELSE entry
    /\ at' = [at EXCEPT ![s] = entry']
    /\ pc' = [pc EXCEPT ![s] = "acquire"]
    /\ UNCHANGED <<rc, goroutine, reply, canceled, closed>>

AcquireBlindly(s) ==   \* mutant: the result of Acquire is ignored
    /\ pc[s] = "acquire"
    /\ rc' = [rc EXCEPT ![at[s]] = @ + 1]
    /\ pc' = [pc EXCEPT ![s] = IF at[s] = s THEN "start" ELSE "send"]
    /\ UNCHANGED <<entry, goroutine, at, reply, canceled, closed>>

(***************************************************************************)
(* Counter.Acquire increments the counter whether it is fused or not; the  *)
(* increments of a fused counter are counted up to MaxSpins.               *)
(***************************************************************************)
Acquire(s) ==
    LET h        == at[s]
        newValue == rc[h] + 1
    IN  /\ pc[s] = "acquire"
        /\ rc' = [rc EXCEPT ![h] = IF newValue < fusedInitValue + MaxSpins \/ newValue >= 0
                                   THEN newValue ELSE @]
        /\ pc' = [pc EXCEPT ![s] = CASE newValue > 0 /\ h = s -> "start"
                                     [] newValue > 0 /\ h # s -> "send"
                                     [] newValue = 0          -> "panic"
                                     [] newValue < 0          -> "load"]
        /\ UNCHANGED <<entry, goroutine, at, reply, canceled, closed>>

(* The call that created the handle starts its batch goroutine. *)
StartGoroutine(s) ==
    /\ pc[s] = "start"
    /\ gor' = [gor EXCEPT ![at[s]] = "idle"]
    /\ pc' = [pc EXCEPT ![s] = "send"]
    /\ UNCHANGED <<entry, rc, batch, unchecked, outcome, at, reply, canceled, closed>>

ReceiveResult(s) ==
    /\ pc[s] = "wait"
    /\ reply[s] # {}
    /\ pc' = [pc EXCEPT ![s] = "release"]
    /\ UNCHANGED <<entry, rc, goroutine, at, reply, canceled, closed>>

Release(s) ==
    LET newValue == rc[at[s]] - 1
    IN  /\ pc[s] = "release"
        /\ rc' = [rc EXCEPT ![at[s]] = newValue]
        /\ pc' = [pc EXCEPT ![s] = IF newValue < 0 THEN "panic" ELSE "returned"]
        /\ UNCHANGED <<entry, goroutine, at, reply, canceled, closed>>

-----------------------------------------------------------------------------
(***************************************************************************)
(* The channel is unbuffered: a request passes when the call sends and the *)
(* goroutine receives, at the top of its loop, or while it gathers a batch.*)
(***************************************************************************)
Receive(h, s) ==
    /\ pc[s] = "send" /\ at[s] = h
    /\ gor[h] \in {"idle", "select", "batch"}
    /\ pc' = [pc EXCEPT ![s] = "wait"]
    /\ batch' = [batch EXCEPT ![h] = @ \cup {s}]
    /\ gor' = [gor EXCEPT ![h] = "batch"]
    /\ UNCHANGED <<entry, rc, unchecked, outcome, at, reply, canceled, closed>>

(* The first select of the loop takes its default branch. *)
NoRequest(h) ==
    /\ gor[h] = "idle"
    /\ \A s \in Submitters : ~(pc[s] = "send" /\ at[s] = h)
    /\ gor' = [gor EXCEPT ![h] = "select"]
    /\ UNCHANGED <<entry, rc, batch, unchecked, outcome, pc, at, reply, canceled, closed>>

FuseAnyway(h) ==   \* mutant: the counter is fused whatever its value
    /\ gor[h] = "select"
    /\ rc' = [rc EXCEPT ![h] = fusedInitValue]
    /\ gor' = [gor EXCEPT ![h] = "fused"]
    /\ UNCHANGED <<entry, batch, unchecked, outcome, pc, at, reply, canceled, closed>>

CleanupFirst(h) ==   \* mutant: the handle is deleted although fusing may fail
    /\ gor[h] = "select"
    /\ entry' = NoHandle
    /\ IF rc[h] = 0
       THEN /\ rc' = [rc EXCEPT ![h] = fusedInitValue]
            /\ gor' = [gor EXCEPT ![h] = "fused"]
       ELSE /\ gor' = [gor EXCEPT ![h] = "idle"]
            /\ UNCHANGED rc
    /\ UNCHANGED <<batch, unchecked, outcome, pc, at, reply, canceled, closed>>

(* The idle timer expires, or the pool is closed: Counter.Fuse. *)
Fuse(h) ==
    /\ gor[h] = "select"
    /\ IF rc[h] = 0
       THEN /\ rc' = [rc EXCEPT ![h] = fusedInitValue]
            /\ gor' = [gor EXCEPT ![h] = "fused"]
       ELSE /\ gor' = [gor EXCEPT ![h] = "idle"]
            /\ UNCHANGED rc
    /\ UNCHANGED <<entry, batch, unchecked, outcome, pc, at, reply, canceled, closed>>

(* The deferred cleanup deletes whatever is stored under the key. *)
Cleanup(h) ==
    /\ gor[h] = "fused"
    /\ entry' = NoHandle
    /\ gor' = [gor EXCEPT ![h] = "done"]
    /\ UNCHANGED <<rc, batch, unchecked, outcome, pc, at, reply, canceled, closed>>

-----------------------------------------------------------------------------
(* processBatch: the pool is closed while the batch waits. *)
PoolCanceled(h) ==
    /\ gor[h] = "batch"
    /\ closed
    /\ outcome' = [outcome EXCEPT ![h] = "closed"]
    /\ gor' = [gor EXCEPT ![h] = "reply"]
    /\ UNCHANGED <<entry, rc, batch, unchecked, pc, at, reply, canceled, closed>>

(* nextExecute fires: the batch is first checked for canceled requests. *)
StartCheckCanceled(h) ==
    /\ gor[h] = "batch"
    /\ unchecked' = [unchecked EXCEPT ![h] = batch[h]]
    /\ gor' = [gor EXCEPT ![h] = "drain"]
    /\ UNCHANGED <<entry, rc, batch, outcome, pc, at, reply, canceled, closed>>

DrainForgets(h, s) ==   \* mutant: a canceled request is dropped without an answer
    /\ gor[h] = "drain"
    /\ s \in unchecked[h]
    /\ unchecked' = [unchecked EXCEPT ![h] = @ \ {s}]
    /\ batch' = [batch EXCEPT ![h] = IF s \in canceled THEN @ \ {s} ELSE @]
    /\ UNCHANGED <<entry, rc, gor, outcome, pc, at, reply, canceled, closed>>

DrainKeeps(h, s) ==   \* mutant: a canceled request is answered and kept
    /\ gor[h] = "drain"
    /\ s \in unchecked[h]
    /\ unchecked' = [unchecked EXCEPT ![h] = @ \ {s}]
    /\ reply' = [reply EXCEPT ![s] = IF s \in canceled THEN {"canceled"} ELSE @]
    /\ UNCHANGED <<entry, rc, gor, batch, outcome, pc, at, canceled, closed>>

(* DrainSliceUnordered visits each request once; a canceled one is answered. *)
CheckCanceled(h, s) ==
    /\ gor[h] = "drain"
    /\ s \in unchecked[h]
    /\ unchecked' = [unchecked EXCEPT ![h] = @ \ {s}]
    /\ IF s \in canceled
       THEN /\ reply' = [reply EXCEPT ![s] = {"canceled"}]
            /\ batch' = [batch EXCEPT ![h] = @ \ {s}]
       ELSE UNCHANGED <<reply, batch>>
    /\ UNCHANGED <<entry, rc, gor, outcome, pc, at, canceled, closed>>

(* Everything has expired, or the rest is executed. *)
FinishCheckCanceled(h) ==
    /\ gor[h] = "drain"
    /\ unchecked[h] = {}
    /\ gor' = [gor EXCEPT ![h] = IF batch[h] = {} THEN "idle" ELSE "execute"]
    /\ UNCHANGED <<entry, rc, batch, unchecked, outcome, pc, at, reply, canceled, closed>>

(* The adapter returns success or an error for the whole batch ... *)
Execute(h) ==
    /\ gor[h] = "execute"
    /\ \E v \in {"ok", "error"} : outcome' = [outcome EXCEPT ![h] = v]
    /\ gor' = [gor EXCEPT ![h] = "reply"]
    /\ UNCHANGED <<entry, rc, batch, unchecked, pc, at, reply, canceled, closed>>

RetryForgets(h) ==   \* mutant: the batch is cleared before the retry
    /\ gor[h] = "execute"
    /\ gor' = [gor EXCEPT ![h] = "idle"]
    /\ batch' = [batch EXCEPT ![h] = {}]
    /\ UNCHANGED <<entry, rc, unchecked, outcome, pc, at, reply, canceled, closed>>

(* ... or wants it to be retried after a delay, in which it may grow. *)
NeedRetry(h) ==
    /\ gor[h] = "execute"
    /\ gor' = [gor EXCEPT ![h] = "batch"]
    /\ UNCHANGED <<entry, rc, batch, unchecked, outcome, pc, at, reply, canceled, closed>>

DispatchResult(h, s) ==
    /\ gor[h] = "reply"
    /\ s \in batch[h]
    /\ batch' = [batch EXCEPT ![h] = @ \ {s}]
    /\ reply' = [reply EXCEPT ![s] = {outcome[h]}]
    /\ UNCHANGED <<entry, rc, gor, unchecked, outcome, pc, at, canceled, closed>>

FinishDispatchResult(h) ==
    /\ gor[h] = "reply"
    /\ batch[h] = {}
    /\ gor' = [gor EXCEPT ![h] = "idle"]
    /\ UNCHANGED <<entry, rc, batch, unchecked, outcome, pc, at, reply, canceled, closed>>

-----------------------------------------------------------------------------
(* The context of a call is canceled, at its deadline at the latest. *)
Cancel(s) ==
    /\ pc[s] \notin {"idle", "returned"}
    /\ s \notin canceled
    /\ canceled' = canceled \cup {s}
    /\ UNCHANGED <<entry, rc, goroutine, pc, at, reply, closed>>

Close ==
    /\ ~closed
    /\ closed' = TRUE
    /\ UNCHANGED <<entry, rc, goroutine, pc, at, reply, canceled>>

(* All calls have returned and all goroutines have ended. *)
Quiescent ==
    /\ \A s \in Submitters : pc[s] = "returned"
    /\ \A h \in Handles : gor[h] \in {"none", "done"}
    /\ UNCHANGED vars

Submit(s) ==
    LoadOrCompute(s) \/ Acquire(s) \/ StartGoroutine(s) \/ ReceiveResult(s) \/ Release(s)

batchGoroutine(h) ==
    \/ \E s \in Submitters : Receive(h, s) \/ CheckCanceled(h, s) \/ DispatchResult(h, s)
    \/ NoRequest(h) \/ Fuse(h) \/ Cleanup(h)
    \/ PoolCanceled(h) \/ StartCheckCanceled(h) \/ FinishCheckCanceled(h)
    \/ Execute(h) \/ NeedRetry(h) \/ FinishDispatchResult(h)

Next ==
    \/ \E s \in Submitters : Call(s) \/ Submit(s) \/ Cancel(s)
    \/ \E h \in Handles : batchGoroutine(h)
    \/ Close
    \/ Quiescent

Spec == Init /\ [][Next]_vars

(***************************************************************************)
(* The scheduler runs every goroutine that can run, timers expire, and     *)
(* every call has a deadline (an admission review has a timeout).  Nothing *)
(* is assumed of the outcome of an execution: it may want retries forever. *)
(***************************************************************************)
Fairness ==
    /\ \A s \in Submitters : WF_vars(Submit(s)) /\ WF_vars(Cancel(s))
    /\ \A h \in Handles : WF_vars(batchGoroutine(h))

-----------------------------------------------------------------------------
Live == {h \in Handles : gor[h] \notin {"none", "done"}}

Holders(h) == {s \in Submitters : at[s] = h /\ pc[s] \in {"start", "send", "wait", "release"}}

TypeOK ==
    /\ entry \in Handles \cup {NoHandle}
    /\ rc \in [Handles -> Int]
    /\ gor \in [Handles -> Places]
    /\ batch \in [Handles -> SUBSET Submitters]
    /\ unchecked \in [Handles -> SUBSET Submitters]
    /\ outcome \in [Handles -> Outcomes]
    /\ pc \in [Submitters -> Steps]
    /\ at \in [Submitters -> Handles \cup {NoHandle}]
    /\ reply \in [Submitters -> SUBSET Outcomes]
    /\ canceled \in SUBSET Submitters
    /\ closed \in BOOLEAN
    /\ \A h \in Handles : unchecked[h] \subseteq batch[h]

(***************************************************************************)
(* The key has one batch goroutine at a time, so its executions never      *)
(* overlap: a new handle appears only after the goroutine of the old one   *)
(* has deleted it as its last step, and is not deleted by that goroutine.  *)
(***************************************************************************)
OneGoroutine == \A g, h \in Live : g = h

(***************************************************************************)
(* A call that has acquired a handle is served: the goroutine of the       *)
(* handle neither ends nor fuses before the call has returned, and if it   *)
(* is not started yet, then the creator of the handle will start it.       *)
(***************************************************************************)
HandleServed ==
    \A s \in Submitters : pc[s] \in {"send", "wait"} =>
        \/ gor[at[s]] \notin {"none", "fused", "done"}
        \/ gor[at[s]] = "none" /\ at[at[s]] = at[s] /\ pc[at[s]] \in {"acquire", "start"}

(* The creator of a handle acquires it at once, though others may do so first. *)
CreatorAcquires ==
    \A s \in Submitters : pc[s] = "acquire" /\ at[s] = s => rc[s] >= 0

(* Acquire and Release are balanced, and none of their panics is reached. *)
NeverPanics == \A s \in Submitters : pc[s] # "panic"

(***************************************************************************)
(* No request is lost or answered twice: while a call waits, it is in the  *)
(* batch of its handle or its answer is in the channel, never both, and it *)
(* is in no batch otherwise.                                               *)
(***************************************************************************)
RepliedOnce ==
    /\ \A s \in Submitters : pc[s] = "wait" => (s \in batch[at[s]] <=> reply[s] = {})
    /\ \A h \in Handles : \A s \in batch[h] : pc[s] = "wait" /\ at[s] = h

(* Every call of Submit returns, even if executions want retries forever. *)
SubmitReturns ==
    \A s \in Submitters : pc[s] = "load" ~> pc[s] = "returned"

-----------------------------------------------------------------------------
(* The abstract state of a call: it is decided once its batch has an outcome. *)
CallState(s) ==
    IF reply[s] # {} THEN CHOOSE v \in reply[s] : TRUE
    ELSE IF pc[s] = "wait" /\ gor[at[s]] = "reply" THEN outcome[at[s]]
    ELSE IF pc[s] = "idle" THEN "idle" ELSE "open"

AbstractCall == [s \in Submitters |-> CallState(s)]

AbstractRunning == UNION {batch[h] : h \in {h \in Handles : gor[h] = "execute"}}

Abstract == INSTANCE BatchPool WITH call <- AbstractCall, running <- AbstractRunning

(* The pool keeps the promises of BatchPool. *)
Refines == Abstract!Spec
=============================================================================
