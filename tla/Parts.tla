------------------------------- MODULE Parts -------------------------------
(***************************************************************************)
(* The parts that surround the three controllers, side by side: the worker *)
(* queue, the quota of a batch, the way of a review through the webhook,   *)
(* the informers of a changing list of sources, unique metrics, the HTTP   *)
(* servers, joined observers, multiplexed interfaces, the component        *)
(* framework, the iterators, the monitor of the generator and the index of *)
(* label sets.  They share no state, so one of them is chosen at the       *)
(* beginning and only that one takes steps: each reaches exactly the       *)
(* states it reaches alone, while the variables of the others have no      *)
(* value.                                                                  *)
(***************************************************************************)
EXTENDS Integers, Sequences, FiniteSets

CONSTANTS Items, Workers, NoItem, MaxVersion, ConflictBackoff,          \* Worker
          MaxCount, MaxBatch, LagLimits,                                \* QuotaBatch
          Reviews, Pprs, Forms, Limits, MinReady, DryRun,               \* WebhookHandler
          Sources, Ident, MaxTime, MaxLists,                            \* SourceInformer
          Tags, Emissions, TagsOf, ValueOf, MaxWindows,                 \* UniqueCounter
          Calls, Expires,                                               \* HttpServer
          Impls, None,                                                  \* Observers, Mux
          ComponentNames, Main, Declarations, MainLists, MaxStack,      \* Components
          Iterators, TrueValues,                                        \* Iter
          Amounts, ProportionPpmUnits, MaxEvents,                       \* Monitor
          Namespaces, Pods, LabelMaps, RawSelectors, Writers, Readers,  \* SetIndex
          Nil                                                           \* what is not set

VARIABLES
    part,                                     \* the part that was chosen
    synced, ctxDone, phase,                   \* of the parts that have variables of these names
    version, notified, handled, queue, dirty, processing, waiting, shuttingDown, worker, starter, joined,
    input, state, todo, results,
    stored, indexed, left, buckets, review, steady,
    now, store, lists, offered, sources, update, running, informer, posted,
    emission, counters, gauge, reports, flusher, visited, due, window,
    main, joins, expired, server, inherits, shutdown, request,
    fields, declared, provided, obsCtor, obs, monitor, sampled,
    order, args, asked, requested, selection,
    declarations, stack, componentMap, entered, path, sorted, fromMain, status,
    iterator, consumer, pos, result,
    ppr, events, delta, owed, total,
    index, wanted, writer, reader, answer, panicked

Handler == INSTANCE WebhookHandler WITH Quota <- Limits, Requests <- Forms
Worker  == INSTANCE Worker
Quota   == INSTANCE QuotaBatch
Inf     == INSTANCE SourceInformer
Unique  == INSTANCE UniqueCounter
Http    == INSTANCE HttpServer WITH Requests <- Calls
Obs     == INSTANCE Observers
Mux     == INSTANCE Mux
Iter    == INSTANCE Iter
Mon     == INSTANCE Monitor WITH Names <- Pprs, status <- total
Sets    == INSTANCE SetIndex WITH Names <- Pods
Comp    == INSTANCE Components WITH Names <- ComponentNames, declared <- declarations, visited <- entered

(***************************************************************************)
(* Counts, limits and bounds are natural numbers; a review is of the       *)
(* declared form and PodProtectors are finitely many; None and Nil are no  *)
(* implementation, no function and no observer.                            *)
(***************************************************************************)
ASSUME PartsAssumption ==
    /\ MaxCount \in Nat /\ MaxBatch \in Nat /\ LagLimits \subseteq Nat
    /\ IsFiniteSet(Pprs) /\ Forms \subseteq Handler!Request
    /\ MaxTime \in Nat /\ MaxLists \in Nat
    /\ None \notin Impls
    /\ Nil \notin Seq(Impls) /\ Nil \notin [Obs!Fields -> Seq(Impls) \cup {Nil}]

(***************************************************************************)
(* Components are finitely many and Main is none of them; what they and    *)
(* the executable request are lists of components, the stack has room for  *)
(* a call for each of them, and Nil is no entry of the map.                *)
(***************************************************************************)
ASSUME ComponentsAssumption ==
    /\ IsFiniteSet(ComponentNames) /\ Main \notin ComponentNames
    /\ Declarations \subseteq [ComponentNames -> [deps : Seq(ComponentNames), merge : Seq(ComponentNames)]]
    /\ MainLists \subseteq Seq(ComponentNames)
    /\ MaxStack \in Nat /\ MaxStack > Cardinality(ComponentNames) + 1
    /\ Nil \notin Comp!Entries

(* An iterator is a sequence of the items that it pushes. *)
ASSUME IteratorsAssumption == \A it \in Iterators : Len(it) \in Nat /\ DOMAIN it = 1..Len(it)

(* Replicas are counted by natural numbers, and a proportion of 1 is some units. *)
ASSUME MonitorAssumption == Amounts \subseteq Nat /\ ProportionPpmUnits \in Nat \ {0}

(* The labels of a pod are finitely many, and a selector is a list of requirements. *)
ASSUME LabelsAssumption ==
    /\ \A m \in LabelMaps : Sets!RawLabels(m)
    /\ RawSelectors \subseteq Seq(Sets!RawReqmt)

-----------------------------------------------------------------------------
workerVars    == <<version, notified, handled, queue, dirty, processing, waiting, shuttingDown, worker, starter, joined>>
quotaVars     == <<input, state, todo, results>>
webhookVars   == <<stored, indexed, left, buckets, review, steady>>
sourcesVars   == <<now, store, lists, offered, sources, update, running, informer, posted>>
uniqueVars    == <<emission, counters, gauge, reports, flusher, visited, due, window>>
httpVars      == <<main, joins, expired, server, inherits, shutdown, request>>
observersVars == <<fields, declared, provided, obsCtor, obs, monitor, sampled>>
muxVars       == <<order, args, asked, requested, selection>>
compVars      == <<declarations, stack, componentMap, entered, path, sorted, fromMain, status>>
iterVars      == <<iterator, consumer, pos, result>>
monitorVars   == <<ppr, events, delta, owed, total>>
setsVars      == <<index, wanted, writer, reader, answer, panicked>>

group1    == <<workerVars, quotaVars, webhookVars, sourcesVars>>
group2    == <<uniqueVars, httpVars, observersVars, muxVars>>
group3    == <<compVars, iterVars, monitorVars, setsVars>>
partsVars == <<part, synced, ctxDone, phase, group1, group2, group3>>

NoWorker ==
    /\ version = Nil /\ notified = Nil /\ handled = Nil /\ queue = Nil /\ dirty = Nil /\ processing = Nil
    /\ waiting = Nil /\ shuttingDown = Nil /\ worker = Nil /\ starter = Nil /\ joined = Nil
NoQuota == input = Nil /\ state = Nil /\ todo = Nil /\ results = Nil
NoWebhook == stored = Nil /\ indexed = Nil /\ left = Nil /\ buckets = Nil /\ review = Nil /\ steady = Nil
NoSources ==
    /\ now = Nil /\ store = Nil /\ lists = Nil /\ offered = Nil /\ sources = Nil /\ update = Nil
    /\ running = Nil /\ informer = Nil /\ posted = Nil
NoUnique ==
    /\ emission = Nil /\ counters = Nil /\ gauge = Nil /\ reports = Nil /\ flusher = Nil /\ visited = Nil
    /\ due = Nil /\ window = Nil
NoHttp ==
    /\ main = Nil /\ joins = Nil /\ expired = Nil /\ server = Nil /\ inherits = Nil /\ shutdown = Nil /\ request = Nil
NoObservers ==
    /\ fields = Nil /\ declared = Nil /\ provided = Nil /\ obsCtor = Nil /\ obs = Nil /\ monitor = Nil /\ sampled = Nil
NoMux == order = Nil /\ args = Nil /\ asked = Nil /\ requested = Nil /\ selection = Nil
NoComp ==
    /\ declarations = Nil /\ stack = Nil /\ componentMap = Nil /\ entered = Nil /\ path = Nil /\ sorted = Nil
    /\ fromMain = Nil /\ status = Nil
NoIter == iterator = Nil /\ consumer = Nil /\ pos = Nil /\ result = Nil
NoMonitor == ppr = Nil /\ events = Nil /\ delta = Nil /\ owed = Nil /\ total = Nil
NoSets == index = Nil /\ wanted = Nil /\ writer = Nil /\ reader = Nil /\ answer = Nil /\ panicked = Nil

No1 == NoWorker /\ NoQuota /\ NoWebhook /\ NoSources
No2 == NoUnique /\ NoHttp /\ NoObservers /\ NoMux
No3 == NoComp /\ NoIter /\ NoMonitor /\ NoSets
NoShared == synced = Nil /\ ctxDone = Nil /\ phase = Nil
NoPart == No1 /\ No2 /\ No3 /\ NoShared

PartsInit ==
    \/ part = "worker" /\ Worker!Init /\ NoQuota /\ NoWebhook /\ NoSources /\ No2 /\ No3 /\ phase = Nil
    \/ part = "quota" /\ Quota!Init /\ NoWorker /\ NoWebhook /\ NoSources /\ No2 /\ No3 /\ NoShared
    \/ part = "webhook" /\ Handler!Init /\ NoWorker /\ NoQuota /\ NoSources /\ No2 /\ No3 /\ ctxDone = Nil /\ phase = Nil
    \/ part = "sources" /\ Inf!Init /\ NoWorker /\ NoQuota /\ NoWebhook /\ No2 /\ No3 /\ NoShared
    \/ part = "unique" /\ Unique!Init /\ No1 /\ NoHttp /\ NoObservers /\ NoMux /\ No3 /\ synced = Nil /\ phase = Nil
    \/ part = "http" /\ Http!Init /\ No1 /\ NoUnique /\ NoObservers /\ NoMux /\ No3 /\ synced = Nil /\ phase = Nil
    \/ part = "observers" /\ Obs!Init /\ No1 /\ NoUnique /\ NoHttp /\ NoMux /\ No3 /\ synced = Nil
    \/ part = "mux" /\ Mux!Init /\ No1 /\ NoUnique /\ NoHttp /\ NoObservers /\ No3 /\ synced = Nil /\ ctxDone = Nil
    \/ part = "components" /\ Comp!Init /\ No1 /\ No2 /\ NoIter /\ NoMonitor /\ NoSets /\ synced = Nil
    \/ part = "iter" /\ Iter!Init /\ No1 /\ No2 /\ NoComp /\ NoMonitor /\ NoSets /\ NoShared
    \/ part = "monitor" /\ Mon!Init /\ No1 /\ No2 /\ NoComp /\ NoIter /\ NoSets /\ NoShared
    \/ part = "sets" /\ Sets!Init /\ No1 /\ No2 /\ NoComp /\ NoIter /\ NoMonitor /\ NoShared

PartsNext ==
    \/ part = "worker" /\ Worker!Next /\ UNCHANGED <<part, phase, quotaVars, webhookVars, sourcesVars, group2, group3>>
    \/ part = "quota" /\ Quota!Next
       /\ UNCHANGED <<part, synced, ctxDone, phase, workerVars, webhookVars, sourcesVars, group2, group3>>
    \/ part = "webhook" /\ Handler!Next
       /\ UNCHANGED <<part, ctxDone, phase, workerVars, quotaVars, sourcesVars, group2, group3>>
    \/ part = "sources" /\ Inf!Next
       /\ UNCHANGED <<part, synced, ctxDone, phase, workerVars, quotaVars, webhookVars, group2, group3>>
    \/ part = "unique" /\ Unique!Next
       /\ UNCHANGED <<part, synced, phase, group1, httpVars, observersVars, muxVars, group3>>
    \/ part = "http" /\ Http!Next /\ UNCHANGED <<part, synced, phase, group1, uniqueVars, observersVars, muxVars, group3>>
    \/ part = "observers" /\ Obs!Next /\ UNCHANGED <<part, synced, group1, uniqueVars, httpVars, muxVars, group3>>
    \/ part = "mux" /\ Mux!Next
       /\ UNCHANGED <<part, synced, ctxDone, group1, uniqueVars, httpVars, observersVars, group3>>
    \/ part = "components" /\ Comp!Next /\ UNCHANGED <<part, synced, group1, group2, iterVars, monitorVars, setsVars>>
    \/ part = "iter" /\ Iter!Next
       /\ UNCHANGED <<part, synced, ctxDone, phase, group1, group2, compVars, monitorVars, setsVars>>
    \/ part = "monitor" /\ Mon!Next
       /\ UNCHANGED <<part, synced, ctxDone, phase, group1, group2, compVars, iterVars, setsVars>>
    \/ part = "sets" /\ Sets!Next
       /\ UNCHANGED <<part, synced, ctxDone, phase, group1, group2, compVars, iterVars, monitorVars>>

PartsSpec == PartsInit /\ [][PartsNext]_partsVars

-----------------------------------------------------------------------------
(***************************************************************************)
(* util/worker: until the queue is shut down, a change whose handler has   *)
(* enqueued the key is handled or will be read by an execution to come,    *)
(* and no key is executed by two workers at a time.                        *)
(***************************************************************************)
NothingForgotten == part = "worker" => Worker!NothingForgotten /\ Worker!OneWorkerPerItem

(***************************************************************************)
(* disruptionquota: AdmitBatch admits what the quota allows.  It leaves    *)
(* the minimum standing on top of the unconfirmed lag and stays within     *)
(* MaxConcurrentLag, and a review it has refused could not be admitted     *)
(* with what is left either.                                               *)
(***************************************************************************)
AdmittedExactly == part = "quota" => Quota!AdmittedExactly

(***************************************************************************)
(* disruptionquota: a review is never refused while an earlier one like it *)
(* is admitted; a refusal is final only if the pods themselves are at the  *)
(* minimum, and asks for a retry only if the lag or its limit stands in    *)
(* the way.                                                                *)
(***************************************************************************)
RefusedRightly == part = "quota" => Quota!RefusedRightly

(***************************************************************************)
(* webhook/handler: a review that is allowed was agreed to by every        *)
(* PodProtector that was there all along and matches the pod; a pod that   *)
(* at most one PodProtector matches and whose deletion is rejected has no  *)
(* bucket.                                                                 *)
(***************************************************************************)
AnswersBacked == part = "webhook" => Handler!AnswersBacked

(***************************************************************************)
(* multi_informer.go: the informers that run are those of the map, except  *)
(* while a list is being applied, and a list that still names a source     *)
(* does not restart its informer.                                          *)
(***************************************************************************)
SourcesRunOn == [][part = "sources" => Inf!SourcesRunOn]_<<part, sourcesVars>>

(***************************************************************************)
(* What was joined has ended: when Join of the servers (util/http) has     *)
(* returned without an error no handler runs, and none will; when a joined *)
(* monitor (util/o11y) has returned, none of its parts runs on.            *)
(***************************************************************************)
JoinedMeansQuiet ==
    /\ part = "http" => Http!JoinedMeansQuiet
    /\ part = "observers" => Obs!ReturnedMeansEnded

(***************************************************************************)
(* component/mux.go, o11y/component.go: in whatever order an interface and *)
(* its implementations are declared, exactly the selected implementation   *)
(* is kept; in whatever order observers are provided and requested, every  *)
(* function of the observer calls each implementation that sets it once.   *)
(***************************************************************************)
OrderIrrelevant ==
    /\ part = "mux" => Mux!OneSelected
    /\ part = "observers" => Obs!AllProvided

(***************************************************************************)
(* util/component: the requesters that are counted for a component are     *)
(* those that count it as a dependency, merged declarations included;      *)
(* ResolveList panics only for requests that form a cycle; and             *)
(* TrimNonRequested keeps a component exactly if something that is kept,   *)
(* or the executable, still requests it.                                   *)
(***************************************************************************)
RequestsResolved ==
    part = "components" => Comp!CountsAgree /\ Comp!PanicMeansCycle /\ Comp!EnabledExactly

(***************************************************************************)
(* util/cmd: a component is initialised after all it depends on, and       *)
(* joined after all that depend on it.                                     *)
(***************************************************************************)
LifetimesNested ==
    part = "components" => Comp!DepsInitialized /\ Comp!JoinedAfterDependents

(***************************************************************************)
(* iter/iter.go: Any and All are exact over every iterator, also behind a  *)
(* filter; TryForEach returns the first error and FirstSome the first      *)
(* value of an iterator that has no filter.                                *)
(***************************************************************************)
ConsumersExact == part = "iter" => Iter!FlagsExact /\ Iter!FirstReturned

(***************************************************************************)
(* What is exported is what happened: each emission of a unique metric is  *)
(* counted in one window and no other (metrics/unique); once the handler   *)
(* has caught up, the status of generator/monitor is the sum over the      *)
(* PodProtectors that exist, and always one that some PodProtectors have.  *)
(***************************************************************************)
ExportedExactly ==
    /\ part = "unique" => Unique!CountedOnce
    /\ part = "monitor" => Mon!StatusIsSum /\ Mon!AlwaysMeaningful

(***************************************************************************)
(* labelindex/sets.go, locked.go: a query returns the sets that its        *)
(* selector selects of those tracked when it took the lock, the indices by *)
(* key and by value hold exactly the sets that are known, and no assertion *)
(* fails during a call or an iteration.                                    *)
(***************************************************************************)
AnswersAreSnapshots ==
    part = "sets" => Sets!AnswersAreSnapshots /\ Sets!IndicesAgree /\ Sets!NoPanic
=============================================================================
