--------------------------- MODULE UniqueCounter ---------------------------
(***************************************************************************)
(* The metrics that count distinct values (util/o11y/metrics/unique):      *)
(* handlers emit values under tags, and a goroutine of the registry        *)
(* reports the number of values of each window and begins another one.     *)
(* The sketch is modelled by the emissions it has taken in, its estimate   *)
(* by the number of their values, which is exact for small numbers.        *)
(***************************************************************************)
EXTENDS Naturals, FiniteSets, FiniteSetsExt

CONSTANTS Tags, Emissions,
          TagsOf, ValueOf,   \* the tags and the value of an emission
          MaxWindows         \* bound on the number of windows

VARIABLES
    emission,   \* emission[e]: "new", "loaded" or "observed"
    counters,   \* counters[t]: the emissions in the sketch, for the tags in its domain
    gauge,      \* gauge[t]: the value last set
    reports,    \* reports[e]: how many reports have counted e
    flusher,    \* "init", "flushing", "waiting", "last" or "ended"
    visited,    \* the tags that the flush under way has visited
    due,        \* the tags that it has to visit: those there when it began
    window,     \* how many windows have passed
    ctxDone

vars == <<emission, counters, gauge, reports, flusher, visited, due, window, ctxDone>>

Init ==
    /\ emission = [e \in Emissions |-> "new"]
    /\ counters = [t \in {} |-> {}]
    /\ gauge = [t \in Tags |-> 0]
    /\ reports = [e \in Emissions |-> 0]
    /\ flusher = "init" /\ visited = {} /\ due = {} /\ window = 0
    /\ ctxDone = FALSE

-----------------------------------------------------------------------------
(* Emit: the counter of the tags is loaded, or stored ... *)
LoadOrCompute(e) ==
    /\ emission[e] = "new"
    /\ emission' = [emission EXCEPT ![e] = "loaded"]
    /\ counters' = [t \in DOMAIN counters \cup {TagsOf[e]} |-> IF t \in DOMAIN counters THEN counters[t] ELSE {}]
    /\ UNCHANGED <<gauge, reports, flusher, visited, due, window, ctxDone>>

(* ... and observes the value. *)
Observe(e) ==
    /\ emission[e] = "loaded"
    /\ emission' = [emission EXCEPT ![e] = "observed"]
    /\ counters' = [counters EXCEPT ![TagsOf[e]] = @ \cup {e}]
    /\ UNCHANGED <<gauge, reports, flusher, visited, due, window, ctxDone>>

-----------------------------------------------------------------------------
BeginFlush(next) == flusher' = next /\ visited' = {} /\ due' = DOMAIN counters

(* The registry starts: UntilWithContext flushes at once. *)
Start ==
    /\ flusher = "init"
    /\ BeginFlush(IF ctxDone THEN "last" ELSE "flushing")
    /\ UNCHANGED <<emission, counters, gauge, reports, window, ctxDone>>

Estimate(s) == Cardinality({ValueOf[e] : e \in s})

ResetForgotten(t) ==   \* mutant: the sketch is not replaced
    /\ flusher \in {"flushing", "last"} /\ t \in DOMAIN counters \ visited
    /\ gauge' = [gauge EXCEPT ![t] = Estimate(counters[t])]
    /\ reports' = [e \in Emissions |-> IF e \in counters[t] THEN reports[e] + 1 ELSE reports[e]]
    /\ visited' = visited \cup {t}
    /\ UNCHANGED <<emission, counters, flusher, due, window, ctxDone>>

(* Flush, one counter: reportAndReset under its lock. *)
ReportAndReset(t) ==
    /\ flusher \in {"flushing", "last"} /\ t \in DOMAIN counters \ visited
    /\ gauge' = [gauge EXCEPT ![t] = Estimate(counters[t])]
    /\ reports' = [e \in Emissions |-> IF e \in counters[t] THEN reports[e] + 1 ELSE reports[e]]
    /\ counters' = [counters EXCEPT ![t] = {}]
    /\ visited' = visited \cup {t}
    /\ UNCHANGED <<emission, flusher, due, window, ctxDone>>

(* The iteration may or may not come to a counter that was stored meanwhile. *)
EndFlush ==
    /\ flusher \in {"flushing", "last"} /\ due \subseteq visited
    /\ flusher' = IF flusher = "last" THEN "ended" ELSE "waiting"
    /\ UNCHANGED <<emission, counters, gauge, reports, visited, due, window, ctxDone>>

FlushOnce ==   \* mutant: the flush is not repeated
    /\ flusher = "waiting" /\ ctxDone
    /\ BeginFlush("last")
    /\ UNCHANGED <<emission, counters, gauge, reports, window, ctxDone>>

(* The window is over, or the context is done: then there is one more flush. *)
NextFlush ==
    /\ flusher = "waiting"
    /\ \/ ctxDone /\ BeginFlush("last") /\ UNCHANGED window
       \/ ~ctxDone /\ BeginFlush("flushing") /\ window' = Min({window + 1, MaxWindows})
    /\ UNCHANGED <<emission, counters, gauge, reports, ctxDone>>

Stop ==
    /\ ~ctxDone /\ ctxDone' = TRUE
    /\ UNCHANGED <<emission, counters, gauge, reports, flusher, visited, due, window>>

Flush == EndFlush \/ \E t \in Tags : ReportAndReset(t)

Next ==
    \/ \E e \in Emissions : LoadOrCompute(e) \/ Observe(e)
    \/ Start \/ Flush \/ NextFlush \/ Stop

Spec == Init /\ [][Next]_vars

(* The goroutine of the registry runs, and windows end. *)
Fairness == WF_vars(Start \/ Flush \/ NextFlush)

-----------------------------------------------------------------------------
(* Each emission is counted in one window and no other: observe and        *)
(* reportAndReset share a lock, and a flush visits no counter twice.       *)
CountedOnce ==
    \A e \in Emissions :
        reports[e] + (IF TagsOf[e] \in DOMAIN counters /\ e \in counters[TagsOf[e]] THEN 1 ELSE 0)
            = IF emission[e] = "observed" THEN 1 ELSE 0

(* What a running process has observed is reported, also when a flush was  *)
(* under way and had visited the counter already.                          *)
EventuallyReported ==
    \A e \in Emissions : emission[e] = "observed" ~> (reports[e] = 1 \/ ctxDone)
=============================================================================
