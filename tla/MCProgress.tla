----------------------------- MODULE MCProgress -----------------------------
(***************************************************************************)
(* Small instances of the parts that must get on, for their liveness under *)
(* the fairness that each part states.  The parts share no state: one is   *)
(* chosen at the beginning and takes all the steps, the others stay where  *)
(* they begin.  A part keeps the variables of its module under their own   *)
(* names where no two parts have the same.                                 *)
(***************************************************************************)
EXTENDS Integers, Sequences, FiniteSets, TLC

CONSTANTS Replicas, Nobody,   \* processes, and no holder of the lease
          Nil                 \* what is not set

VARIABLES
    part,
    entry, rc, gor, batch, unchecked, outcome, pc, at, reply, canceled, closed,
    source, ppr, rev, changes, erased, meddled, sourceWatch, pprWatch, sourceCache, pprCache, queued, reconciler, task,
    version, notified, handled, queue, dirty, processing, waiting, shuttingDown, worker, starter, synced, ctxDone, joined,
    lease, run, proc, elector, elected, leading, informers, workers,
    main, joins, startDone, expired, server, inherits, shutdown, request,
    fields, declared, provided, obsCtor, obs, monitor, sampled, monitorDone, phase,
    emission, counters, gauge, reports, flusher, visited, due, window, registryDone,
    hasSynced, stored, indexed, left, buckets, review, steady,
    now, store, lists, offered, sources, update, running, informer, posted,
    index, wanted, writer, reader, answer, panicked

poolVars == <<entry, rc, gor, batch, unchecked, outcome, pc, at, reply, canceled, closed>>
generatorVars == <<source, ppr, rev, changes, erased, meddled, sourceWatch, pprWatch, sourceCache,
                   pprCache, queued, reconciler, task>>
workerVars == <<version, notified, handled, queue, dirty, processing, waiting, shuttingDown, worker,
                starter, synced, ctxDone, joined>>
leadershipVars == <<lease, run, proc, elector, elected, leading, informers, workers>>
httpVars == <<main, joins, startDone, expired, server, inherits, shutdown, request>>
observersVars == <<fields, declared, provided, obsCtor, obs, monitor, sampled, monitorDone, phase>>
uniqueVars == <<emission, counters, gauge, reports, flusher, visited, due, window, registryDone>>
webhookVars == <<hasSynced, stored, indexed, left, buckets, review, steady>>
sourcesVars == <<now, store, lists, offered, sources, update, running, informer, posted>>
setsVars == <<index, wanted, writer, reader, answer, panicked>>

-----------------------------------------------------------------------------
RetryBatch == INSTANCE RetryBatch WITH Submitters <- {"s1", "s2"}, NoHandle <- "none", MaxSpins <- 1

Generator == INSTANCE Generator WITH
    Own <- "own", Leftovers <- {}, Replicas <- {0, 2}, MaxUnavailable <- [percent |-> TRUE, value |-> 25],
    ProtectNonZero <- TRUE, PprLag <- FALSE, MaxChanges <- 2,
    Changes <- {"create", "erase", "relabel", "scale", "delete", "release", "annotate", "addcell", "fail", "crash"},
    pc <- reconciler

Worker == INSTANCE Worker WITH
    Items <- {"i1"}, Workers <- {"w1"}, NoItem <- "none", MaxVersion <- 2, ConflictBackoff <- TRUE

Leadership == INSTANCE Leadership WITH MaxRestarts <- 1, LosesLease <- TRUE

HttpServer == INSTANCE HttpServer WITH Requests <- {"q1", "q2"}, Expires <- FALSE, ctxDone <- startDone

Observers == INSTANCE Observers WITH Impls <- {"logging", "metrics"}, ctxDone <- monitorDone

UniqueCounter == INSTANCE UniqueCounter WITH
    Tags <- {"ta", "tb"}, Emissions <- {"e1", "e2"}, TagsOf <- [e1 |-> "ta", e2 |-> "tb"],
    ValueOf <- [e1 |-> "pod1", e2 |-> "pod2"], MaxWindows <- 1, ctxDone <- registryDone

WebhookHandler == INSTANCE WebhookHandler WITH
    Reviews <- {"r1"}, Pprs <- {"a", "b"}, Quota <- [a |-> 1, b |-> 1], MinReady <- [a |-> 0, b |-> 2], DryRun <- FALSE,
    Requests <- {[kind |-> "delete", broken |-> "no", terminating |-> FALSE, ready |-> 1, forced |-> FALSE,
                  labels |-> {"a", "b"}]},
    synced <- hasSynced

SourceInformer == INSTANCE SourceInformer WITH Sources <- {"s1", "s2"}, Ident <- TRUE, MaxTime <- 2, MaxLists <- 2

SetIndex == INSTANCE SetIndex WITH
    Namespaces <- {"a"}, Names <- {"m"}, LabelMaps <- {1 :> 1}, Writers <- {"w1"}, Readers <- {"r1", "r2"},
    RawSelectors <- {<<>>, <<[key |-> 1, op |-> "Exists", values |-> <<>>]>>, <<[key |-> 1, op |-> "Near", values |-> <<>>]>>}

-----------------------------------------------------------------------------
Parts == {"retrybatch", "generator", "worker", "leadership", "http", "observers", "unique", "webhook", "sources", "sets"}

(* A part that was not chosen is at rest: no step of it is fair.  Most are *)
(* so initially, the others when their process has ended.                  *)
WorkerEnded ==
    /\ version = [i \in {"i1"} |-> 1] /\ notified = version /\ handled = version
    /\ queue = <<>> /\ dirty = {} /\ processing = {} /\ waiting = {} /\ shuttingDown = TRUE
    /\ worker = [w \in {"w1"} |-> [st |-> "exited", item |-> "none", read |-> 0]]
    /\ starter = "watch" /\ synced = TRUE /\ ctxDone = TRUE /\ joined = TRUE

LeadershipEnded ==
    /\ lease = Nobody /\ run = [r \in Replicas |-> 0] /\ proc = [r \in Replicas |-> "exited"]
    /\ elector = [r \in Replicas |-> "stopped"] /\ elected = [r \in Replicas |-> TRUE]
    /\ leading = [r \in Replicas |-> "closed"] /\ informers = [r \in Replicas |-> "started"]
    /\ workers = [r \in Replicas |-> "exited"]

UniqueEnded ==
    /\ emission = [e \in {"e1", "e2"} |-> "new"] /\ counters = [t \in {} |-> {}] /\ gauge = [t \in {"ta", "tb"} |-> 0]
    /\ reports = [e \in {"e1", "e2"} |-> 0] /\ flusher = "ended" /\ visited = {} /\ due = {} /\ window = 0
    /\ registryDone = TRUE

MCInit ==
    /\ part \in Parts
    /\ RetryBatch!Init /\ WebhookHandler!Init /\ SourceInformer!Init /\ SetIndex!Init
    /\ IF part = "worker" THEN Worker!Init ELSE WorkerEnded
    /\ IF part = "leadership" THEN Leadership!Init ELSE LeadershipEnded
    /\ IF part = "unique" THEN UniqueCounter!Init ELSE UniqueEnded
    /\ Generator!Init /\ (part # "generator" => source.uid = 0)
    /\ HttpServer!Init /\ (part # "http" => \A s \in DOMAIN server : server[s] = "new")
    /\ Observers!Init /\ (part # "observers" => \A i \in DOMAIN fields : fields[i] = {})

A1 == <<part, poolVars, generatorVars, workerVars, leadershipVars>>
A2 == <<httpVars, observersVars, uniqueVars>>
A3 == <<webhookVars, sourcesVars, setsVars>>

MCNext ==
    \/ part = "retrybatch" /\ RetryBatch!Next /\ UNCHANGED <<part, generatorVars, workerVars, leadershipVars, A2, A3>>
    \/ part = "generator" /\ Generator!Next /\ UNCHANGED <<part, poolVars, workerVars, leadershipVars, A2, A3>>
    \/ part = "worker" /\ Worker!Next /\ UNCHANGED <<part, poolVars, generatorVars, leadershipVars, A2, A3>>
    \/ part = "leadership" /\ Leadership!Next /\ UNCHANGED <<part, poolVars, generatorVars, workerVars, A2, A3>>
    \/ part = "http" /\ HttpServer!Next /\ UNCHANGED <<A1, observersVars, uniqueVars, A3>>
    \/ part = "observers" /\ Observers!Next /\ UNCHANGED <<A1, httpVars, uniqueVars, A3>>
    \/ part = "unique" /\ UniqueCounter!Next /\ UNCHANGED <<A1, httpVars, observersVars, A3>>
    \/ part = "webhook" /\ WebhookHandler!Next /\ UNCHANGED <<A1, A2, sourcesVars, setsVars>>
    \/ part = "sources" /\ SourceInformer!Next /\ UNCHANGED <<A1, A2, webhookVars, setsVars>>
    \/ part = "sets" /\ SetIndex!Next /\ UNCHANGED <<A1, A2, webhookVars, sourcesVars>>

MCSpec == MCInit /\ [][MCNext]_<<A1, A2, A3>>

(* Each part is scheduled as its module says. *)
MCFairSpec ==
    /\ MCSpec
    /\ RetryBatch!Fairness /\ Generator!Fairness /\ Worker!Fairness /\ Leadership!Fairness /\ HttpServer!Fairness
    /\ Observers!Fairness /\ UniqueCounter!Fairness /\ WebhookHandler!Fairness /\ SourceInformer!Fairness
    /\ SetIndex!Fairness

-----------------------------------------------------------------------------
(* Every call of Submit returns, however often the goroutine of its handle *)
(* becomes idle while the call is on its way to it (retrybatch/pool.go).   *)
SubmitReturns == part = "retrybatch" => RetryBatch!SubmitReturns

(* Every review that has arrived is answered, whatever the informer does   *)
(* meanwhile (webhook/handler).                                            *)
EveryReviewAnswered == part = "webhook" => WebhookHandler!EveryReviewAnswered

(* A deployment that is marked for deletion and need not be protected any  *)
(* more loses its finalizer (generator/controller.go).                     *)
SourceReleased == part = "generator" => Generator!SourceReleased

(***************************************************************************)
(* Every change of an object is handled, unless the process stops, and     *)
(* although executions fail (util/worker), and there is somebody to handle *)
(* it: some replica gets the lease, starts its informers and its workers,  *)
(* and what these wait for is not each other (leaderelection.go,           *)
(* informers.go).                                                          *)
(***************************************************************************)
EveryChangeHandled ==
    /\ part = "worker" => Worker!EveryChangeHandled
    /\ part = "leadership" => Leadership!SomebodyWorks

(***************************************************************************)
(* A process that is told to stop ends: the workers drain the queue and    *)
(* exit (util/worker), the joins of a controller end (util/cmd), and the   *)
(* join of the HTTP servers does not need its timeout, since handlers      *)
(* inherit the context of Start (util/http).                               *)
(***************************************************************************)
StopEnds ==
    /\ part = "worker" => Worker!JoinReturns
    /\ part = "leadership" => Leadership!StopEnds
    /\ part = "http" => HttpServer!JoinNeedsNoTimeout

(***************************************************************************)
(* What a running process has observed is reported, also if a flush under  *)
(* way had visited the counter already (metrics/unique); every provided    *)
(* monitor takes samples, although each of those that are joined blocks    *)
(* until the context is done (o11y/component.go).                          *)
(***************************************************************************)
EventuallyReported ==
    /\ part = "unique" => UniqueCounter!EventuallyReported
    /\ part = "observers" => Observers!EveryMonitorSamples

(***************************************************************************)
(* What the watches deliver is answered in the end: Query and Get agree    *)
(* with the sources in the map, whatever lists were sent                   *)
(* (multi_informer.go), and a handler that waits for the lock of the index *)
(* gets it (labelindex/locked.go).                                         *)
(***************************************************************************)
AnswersFollow ==
    /\ part = "sources" => SourceInformer!AnswersFollow
    /\ part = "sets" => SetIndex!WritersEnter
=============================================================================
