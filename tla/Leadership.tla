----------------------------- MODULE Leadership -----------------------------
(***************************************************************************)
(* The replicas of a controller and their lease: the elector and the       *)
(* informers (util/kube), the worker (util/worker) and the joins of        *)
(* util/cmd, which end a worker before the elector gives up the lease. The *)
(* process exits without waiting for the release. client-go's elector and  *)
(* the API server that holds the lease are external.                       *)
(***************************************************************************)
EXTENDS Naturals, FiniteSets

CONSTANTS Replicas, Nobody,
          MaxRestarts,   \* bound on how often a process is started again
          LosesLease     \* whether a leader may fail to renew its lease

(* The identity of a process is never the empty holder of a released lease. *)
ASSUME LeadershipAssumption ==
    /\ MaxRestarts \in Nat
    /\ \A r \in Replicas, n \in 0..MaxRestarts : Nobody # <<r, n>>

VARIABLES
    lease,      \* the identity that holds the lease, or Nobody
    run,        \* run[r]: how often the process was started, part of its identity
    proc,       \* proc[r]: "up", "stopping", "workerJoined", "joined", "exited" or "crashed"
    elector,    \* elector[r]: what the goroutine elector.Run does
    elected,    \* elected[r]: electedCh is closed
    leading,    \* leading[r]: the context of the leader: "none", "open" or "closed"
    informers,  \* informers[r]: "await", "started" or "quit"
    workers     \* workers[r]: "await", "prereqs", "idle", "busy", "exited" or "quit"

vars == <<lease, run, proc, elector, elected, leading, informers, workers>>

Identity(r) == <<r, run[r]>>   \* the host name and an UUID

Init ==
    /\ lease = Nobody
    /\ run = [r \in Replicas |-> 0]
    /\ proc = [r \in Replicas |-> "up"]
    /\ elector = [r \in Replicas |-> "acquiring"]
    /\ elected = [r \in Replicas |-> FALSE] /\ leading = [r \in Replicas |-> "none"]
    /\ informers = [r \in Replicas |-> "await"] /\ workers = [r \in Replicas |-> "await"]

Alive(r) == proc[r] \notin {"exited", "crashed"}
CtxDone(r) == proc[r] # "up"
(* The context that Await returns, which the executors work with. *)
WorkCtxDone(r) == CtxDone(r) \/ leading[r] = "closed"

-----------------------------------------------------------------------------
(* elector.Run: acquire, the callbacks, renew, release. *)
Acquire(r) ==
    /\ Alive(r) /\ elector[r] = "acquiring" /\ lease = Nobody
    /\ lease' = Identity(r)
    /\ elector' = [elector EXCEPT ![r] = "renewing"]
    /\ leading' = [leading EXCEPT ![r] = "open"]
    /\ UNCHANGED <<run, proc, elected, informers, workers>>

(* OnStartedLeading, a goroutine of its own. *)
OnStartedLeading(r) ==
    /\ Alive(r) /\ leading[r] # "none" /\ ~elected[r]
    /\ elected' = [elected EXCEPT ![r] = TRUE]
    /\ UNCHANGED <<lease, run, proc, elector, leading, informers, workers>>

(* The lease was not renewed for RenewDeadline. *)
RenewFails(r) ==
    /\ LosesLease
    /\ Alive(r) /\ elector[r] = "renewing"
    /\ elector' = [elector EXCEPT ![r] = "releasing"]
    /\ UNCHANGED <<lease, run, proc, elected, leading, informers, workers>>

(* ReleaseOnCancel: the lease is given up before the context of the leader *)
(* is cancelled; the update may fail.                                      *)
Release(r) ==
    /\ Alive(r) /\ elector[r] = "releasing"
    /\ lease' \in {lease, IF lease = Identity(r) THEN Nobody ELSE lease}
    /\ elector' = [elector EXCEPT ![r] = "stopping"]
    /\ UNCHANGED <<run, proc, elected, leading, informers, workers>>

(* OnStoppedLeading closes the shutdown notifier. *)
OnStoppedLeading(r) ==
    /\ Alive(r) /\ elector[r] = "stopping"
    /\ elector' = [elector EXCEPT ![r] = "stopped"]
    /\ leading' = [leading EXCEPT ![r] = IF @ = "open" THEN "closed" ELSE @]
    /\ proc' = [proc EXCEPT ![r] = IF @ = "up" THEN "stopping" ELSE @]
    /\ UNCHANGED <<lease, run, elected, informers, workers>>

(* LeaseDuration passes without a renewal: longer than RenewDeadline. *)
Expire ==
    /\ lease # Nobody
    /\ \A r \in Replicas : Alive(r) /\ lease = Identity(r) => elector[r] \in {"stopping", "stopped"}
    /\ lease' = Nobody
    /\ UNCHANGED <<run, proc, elector, elected, leading, informers, workers>>

-----------------------------------------------------------------------------
AwaitForgotten(r) == Alive(r)   \* mutant: nobody waits for the lease

(* Elector.Await returns the context of the leader. *)
Await(r) == Alive(r) /\ elected[r]

(* The informer factory starts once the lease is held. *)
StartInformers(r) ==
    /\ informers[r] = "await"
    /\ \/ Await(r) /\ informers' = [informers EXCEPT ![r] = "started"]
       \/ Alive(r) /\ CtxDone(r) /\ informers' = [informers EXCEPT ![r] = "quit"]
    /\ UNCHANGED <<lease, run, proc, elector, elected, leading, workers>>

(* The goroutine `start` of the worker: the lease, then the caches. *)
BeforeStart(r) ==
    /\ workers[r] = "await"
    /\ \/ Await(r) /\ workers' = [workers EXCEPT ![r] = "prereqs"]
       \/ Alive(r) /\ CtxDone(r) /\ workers' = [workers EXCEPT ![r] = "quit"]
    /\ UNCHANGED <<lease, run, proc, elector, elected, leading, informers>>

WaitPrereqs(r) ==
    /\ Alive(r) /\ workers[r] = "prereqs"
    /\ \/ informers[r] = "started" /\ workers' = [workers EXCEPT ![r] = "idle"]
       \/ WorkCtxDone(r) /\ workers' = [workers EXCEPT ![r] = "quit"]
    /\ UNCHANGED <<lease, run, proc, elector, elected, leading, informers>>

(* An executor starts a write; with a context that is done it cannot. *)
Work(r) ==
    /\ Alive(r) /\ workers[r] = "idle" /\ ~WorkCtxDone(r)
    /\ workers' = [workers EXCEPT ![r] = "busy"]
    /\ UNCHANGED <<lease, run, proc, elector, elected, leading, informers>>

Finish(r) ==
    /\ Alive(r) /\ workers[r] = "busy"
    /\ workers' = [workers EXCEPT ![r] = "idle"]
    /\ UNCHANGED <<lease, run, proc, elector, elected, leading, informers>>

WorkersStay(r) ==   \* mutant: the queue is not shut down
    FALSE /\ UNCHANGED vars

(* The queue is shut down and drained. *)
WorkersExit(r) ==
    /\ Alive(r) /\ workers[r] = "idle" /\ WorkCtxDone(r)
    /\ workers' = [workers EXCEPT ![r] = "exited"]
    /\ UNCHANGED <<lease, run, proc, elector, elected, leading, informers>>

-----------------------------------------------------------------------------
(* The main goroutine. *)
Signal(r) ==
    /\ proc[r] = "up"
    /\ proc' = [proc EXCEPT ![r] = "stopping"]
    /\ UNCHANGED <<lease, run, elector, elected, leading, informers, workers>>

JoinsNobody(r) ==   \* mutant: the elector is joined before the worker has ended
    /\ proc[r] = "stopping"
    /\ proc' = [proc EXCEPT ![r] = "workerJoined"]
    /\ UNCHANGED <<lease, run, elector, elected, leading, informers, workers>>

(* completion.Wait() *)
JoinWorker(r) ==
    /\ proc[r] = "stopping" /\ workers[r] \notin {"idle", "busy"}
    /\ proc' = [proc EXCEPT ![r] = "workerJoined"]
    /\ UNCHANGED <<lease, run, elector, elected, leading, informers, workers>>

(* Join cancels the context of elector.Run, and does not wait for it. *)
JoinElector(r) ==
    /\ proc[r] = "workerJoined"
    /\ proc' = [proc EXCEPT ![r] = "joined"]
    /\ elector' = [elector EXCEPT ![r] = IF @ = "renewing" THEN "releasing"
                                         ELSE IF @ = "acquiring" THEN "stopping" ELSE @]
    /\ UNCHANGED <<lease, run, elected, leading, informers, workers>>

Exit(r) ==
    /\ proc[r] = "joined"
    /\ proc' = [proc EXCEPT ![r] = "exited"]
    /\ UNCHANGED <<lease, run, elector, elected, leading, informers, workers>>

Crash(r) ==
    /\ Alive(r)
    /\ proc' = [proc EXCEPT ![r] = "crashed"]
    /\ UNCHANGED <<lease, run, elector, elected, leading, informers, workers>>

Restart(r) ==
    /\ ~Alive(r) /\ run[r] < MaxRestarts
    /\ run' = [run EXCEPT ![r] = @ + 1]
    /\ proc' = [proc EXCEPT ![r] = "up"]
    /\ elector' = [elector EXCEPT ![r] = "acquiring"]
    /\ elected' = [elected EXCEPT ![r] = FALSE] /\ leading' = [leading EXCEPT ![r] = "none"]
    /\ informers' = [informers EXCEPT ![r] = "await"] /\ workers' = [workers EXCEPT ![r] = "await"]
    /\ UNCHANGED lease

Elector(r) == Acquire(r) \/ OnStartedLeading(r) \/ Release(r) \/ OnStoppedLeading(r)
Starting(r) == StartInformers(r) \/ BeforeStart(r) \/ WaitPrereqs(r)
Working(r) == Finish(r) \/ WorkersExit(r)
Joining(r) == JoinWorker(r) \/ JoinElector(r) \/ Exit(r)

Next ==
    \/ \E r \in Replicas : Elector(r) \/ RenewFails(r) \/ Starting(r) \/ Work(r) \/ Working(r)
                             \/ Joining(r) \/ Signal(r) \/ Crash(r) \/ Restart(r)
    \/ Expire

Spec == Init /\ [][Next]_vars

(* Goroutines run, executors return and a lease that is not renewed expires. *)
Fairness ==
    /\ WF_vars(Expire)
    /\ \A r \in Replicas :
          /\ WF_vars(Acquire(r) \/ Release(r) \/ OnStoppedLeading(r))
          /\ WF_vars(OnStartedLeading(r))
          /\ WF_vars(StartInformers(r))
          /\ WF_vars(BeforeStart(r) \/ WaitPrereqs(r) \/ Working(r))
          /\ WF_vars(Joining(r))

-----------------------------------------------------------------------------
(* At no time do two replicas have a write under way: through signals,     *)
(* crashes and restarts, and although the worker's goroutines may start    *)
(* while the process stops, the next leader begins after the last has      *)
(* ended (the joins run in reverse order, elector last).                   *)
OneReplicaWrites ==
    \A q, r \in Replicas : q # r /\ Alive(q) /\ Alive(r) =>
        ~(workers[q] = "busy" /\ workers[r] = "busy")

(* A write begins only while the lease names the process that makes it:    *)
(* Await's context "cancels when the acquired leader lease is lost".       *)
WorksUnderLease ==
    [][\A r \in Replicas : workers[r] = "idle" /\ workers'[r] = "busy" => lease = Identity(r)]_vars

(* A process that stays up is not waiting for ever: some replica gets the  *)
(* lease, starts its informers and then its workers (Await, Started and    *)
(* the prerequisites of the worker do not wait for each other).            *)
SomebodyWorks ==
    \A r \in Replicas : proc[r] = "up" ~>
        (proc[r] # "up" \/ \E q \in Replicas : Alive(q) /\ workers[q] \in {"idle", "busy"})

(* The joins of a process end (tryRun). *)
StopEnds == \A r \in Replicas : proc[r] = "stopping" ~> ~Alive(r)
=============================================================================
