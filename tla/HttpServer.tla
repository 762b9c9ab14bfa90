---------------------------- MODULE HttpServer -----------------------------
(***************************************************************************)
(* The servers of a component that DeclareServer makes (util/http): HTTP   *)
(* and HTTPS listen in goroutines of their own, and are shut down one      *)
(* after the other when the component is joined.  The package net/http is  *)
(* external: a server that is shut down accepts nothing more, also when    *)
(* its goroutine only begins to listen afterwards, and Shutdown returns    *)
(* when its handlers have, or when the timeout of the joins has passed.    *)
(***************************************************************************)
EXTENDS Naturals, Sequences, SequencesExt

CONSTANTS Requests,   \* the requests that clients may send
          Expires     \* whether the timeout of the joins may pass

VARIABLES
    main,       \* "init", "started", "failed", "joining", "joined" or "timedOut"
    joins,      \* the servers that are still to be shut down
    ctxDone,    \* whether the context of Start is cancelled
    expired,    \* whether the context of Join has expired
    server,     \* server[s]: "disabled", "new", "spawned", "listening", "error" or "closed"
    inherits,   \* inherits[s]: requests inherit the context of Start (BaseContext)
    shutdown,   \* shutdown[s]: Shutdown was called
    request     \* request[r] = [st, server]

vars == <<main, joins, ctxDone, expired, server, inherits, shutdown, request>>

Servers == <<"http", "https">>   \* in the order in which they are shut down
Names == Range(Servers)

(* Join passes over a server that the flags have not enabled. *)
Enabled(s) == IF server[s] = "disabled" THEN <<>> ELSE <<s>>

Init ==
    /\ server \in [Names -> {"disabled", "new"}]
    /\ main = "init" /\ joins = Enabled(Servers[1]) \o Enabled(Servers[2])
    /\ ctxDone = FALSE /\ expired = FALSE
    /\ inherits = [s \in Names |-> FALSE]
    /\ shutdown = [s \in Names |-> FALSE]
    /\ request = [r \in Requests |-> [st |-> "none", server |-> Head(Servers)]]

-----------------------------------------------------------------------------
(* The own lifecycle of the component starts first; if it fails, no server does. *)
Start ==
    /\ main = "init"
    /\ \/ main' = "failed" /\ UNCHANGED server
       \/ main' = "started" /\ server' = [s \in Names |-> IF server[s] = "new" THEN "spawned" ELSE server[s]]
    /\ UNCHANGED <<joins, ctxDone, expired, inherits, shutdown, request>>

(* The goroutine of a server; that the address is taken is only logged. *)
ListenAndServe(s) ==
    /\ server[s] = "spawned"
    /\ inherits' = [inherits EXCEPT ![s] = TRUE]
    /\ server' \in {[server EXCEPT ![s] = IF shutdown[s] THEN "closed" ELSE st] : st \in {"listening", "error"}}
    /\ UNCHANGED <<main, joins, ctxDone, expired, shutdown, request>>

-----------------------------------------------------------------------------
Accept(s, r) ==
    /\ server[s] = "listening" /\ request[r].st = "none"
    /\ request' = [request EXCEPT ![r] = [st |-> "handling", server |-> s]]
    /\ UNCHANGED <<main, joins, ctxDone, expired, server, inherits, shutdown>>

(* A handler returns: at any time, or because its context is done. *)
Reply(r) ==
    /\ request[r].st = "handling"
    /\ request' = [request EXCEPT ![r].st = "answered"]
    /\ UNCHANGED <<main, joins, ctxDone, expired, server, inherits, shutdown>>

Interrupted(r) == ctxDone /\ inherits[request[r].server] /\ Reply(r)

-----------------------------------------------------------------------------
Stop ==
    /\ main \in {"started", "failed"} /\ ~ctxDone
    /\ ctxDone' = TRUE
    /\ main' = IF main = "started" THEN "joining" ELSE main
    /\ UNCHANGED <<joins, expired, server, inherits, shutdown, request>>

Expire ==
    /\ Expires /\ main = "joining" /\ ~expired
    /\ expired' = TRUE
    /\ UNCHANGED <<main, joins, ctxDone, server, inherits, shutdown, request>>

(* server.Shutdown begins: the listener is closed. *)
Shutdown ==
    /\ main = "joining" /\ joins # <<>> /\ ~shutdown[Head(joins)]
    /\ shutdown' = [shutdown EXCEPT ![Head(joins)] = TRUE]
    /\ server' = [server EXCEPT ![Head(joins)] = IF @ = "listening" THEN "closed" ELSE @]
    /\ UNCHANGED <<main, joins, ctxDone, expired, inherits, request>>

Handling(s) == \E r \in Requests : request[r] = [st |-> "handling", server |-> s]

FirstOnly ==   \* mutant: the HTTPS server is not shut down
    /\ main = "joining" /\ joins # <<>> /\ shutdown[Head(joins)]
    /\ \/ ~Handling(Head(joins)) /\ joins' = <<>> /\ UNCHANGED main
       \/ expired /\ main' = "timedOut" /\ UNCHANGED joins
    /\ UNCHANGED <<ctxDone, expired, server, inherits, shutdown, request>>

(* It returns; an error ends the join with the other servers still open. *)
ShutdownReturns ==
    /\ main = "joining" /\ joins # <<>> /\ shutdown[Head(joins)]
    /\ \/ ~Handling(Head(joins)) /\ joins' = Tail(joins) /\ UNCHANGED main
       \/ expired /\ main' = "timedOut" /\ UNCHANGED joins
    /\ UNCHANGED <<ctxDone, expired, server, inherits, shutdown, request>>

JoinReturns ==
    /\ main = "joining" /\ joins = <<>>
    /\ main' = "joined"
    /\ UNCHANGED <<joins, ctxDone, expired, server, inherits, shutdown, request>>

Join == Shutdown \/ ShutdownReturns \/ JoinReturns

Next ==
    \/ Start \/ Stop \/ Expire \/ Join
    \/ \E s \in Names : ListenAndServe(s) \/ \E r \in Requests : Accept(s, r)
    \/ \E r \in Requests : Reply(r)

Spec == Init /\ [][Next]_vars

(* Goroutines run, and a handler whose context is done returns; a handler  *)
(* that waits for the retries of a batch need not return otherwise.        *)
Fairness ==
    /\ WF_vars(Join)
    /\ \A s \in Names : WF_vars(ListenAndServe(s))
    /\ \A r \in Requests : WF_vars(Interrupted(r))

-----------------------------------------------------------------------------
(* Once Join has returned without an error no handler runs, and none will: *)
(* also not that of a server whose goroutine has not begun to listen yet   *)
(* when it was shut down.                                                  *)
JoinedMeansQuiet ==
    main = "joined" =>
        /\ \A r \in Requests : request[r].st # "handling"
        /\ \A s \in Names : server[s] # "listening"

(* Join does not need its timeout: a handler that waits is interrupted by  *)
(* the context it inherits, and Shutdown of the first server does not wait *)
(* for what keeps the second one busy for ever.                            *)
JoinNeedsNoTimeout == main = "joining" ~> main = "joined"
=============================================================================
