----------------------------- MODULE Generator -----------------------------
(***************************************************************************)
(* The generator (generator/generator, generator/resource) and one         *)
(* deployment: the PodProtectors whose labels name the deployment, the     *)
(* finalizers of both, the informer caches the generator decides from and  *)
(* every call of a reconciliation, which may fail or be the last one       *)
(* before a crash.                                                         *)
(*                                                                         *)
(* The apiserver of the core cluster is external: an update is refused     *)
(* unless it is based on the stored revision, a deletion only marks an     *)
(* object that has finalizers, and an object marked for deletion is gone   *)
(* with its last finalizer.  The cells of a status are abstracted to       *)
(* whether the cell to be removed is among them.                           *)
(***************************************************************************)
EXTENDS Integers, Sequences, FiniteSets

CONSTANTS Own,             \* the PodProtector a deployment requires, deployment-<name>
          Leftovers,       \* other PodProtectors with the labels of the deployment
          Replicas,        \* the replica counts a deployment may have
          MaxUnavailable,  \* rollingUpdate.maxUnavailable, a number or a percentage
          ProtectNonZero,  \* --deployment-plugin-protect-non-zero
          PprLag,          \* whether a reconciliation may start before the cache of
                           \* PodProtectors has caught up
          Changes,         \* the changes and faults that may happen
          MaxChanges       \* bound on their number

Kinds == {"create", "relabel", "scale", "delete", "release", "erase",
          "annotate", "addcell", "pprdelete", "fail", "crash"}

ASSUME GeneratorAssumption ==
    /\ Own \notin Leftovers /\ IsFiniteSet(Leftovers)
    /\ Replicas \subseteq Nat /\ Replicas # {}
    /\ MaxUnavailable \in [percent : BOOLEAN, value : Nat]
    /\ ProtectNonZero \in BOOLEAN /\ PprLag \in BOOLEAN
    /\ Changes \subseteq Kinds
    /\ MaxChanges \in Nat

VARIABLES
    source,             \* the deployment, as stored
    ppr,                \* ppr[n]: the PodProtector n, as stored
    rev,                \* the last resource version given
    changes,            \* how many changes and faults have happened
    erased,             \* whether a deployment has disappeared without being released
    meddled,            \* whether somebody else has deleted a PodProtector
    sourceWatch,        \* versions of the deployment on their way to the informer
    pprWatch,           \* versions of PodProtectors on their way to the informer
    sourceCache, pprCache,   \* what the informers have delivered
    queued,             \* whether the work queue holds the deployment
    pc, task            \* the reconciliation under way and its local variables

stored   == <<source, ppr, rev>>
watches  == <<sourceWatch, pprWatch>>
caches   == <<sourceCache, pprCache>>
history  == <<changes, erased, meddled>>
vars     == <<stored, history, watches, caches, queued, pc, task>>

Names == {Own} \cup Leftovers

Source    == [uid : Nat, rv : Nat, fin : BOOLEAN, held : BOOLEAN, terminating : BOOLEAN,
              matches : BOOLEAN, replicas : Nat]
NoSource  == [uid |-> 0, rv |-> 0, fin |-> FALSE, held |-> FALSE, terminating |-> FALSE,
              matches |-> FALSE, replicas |-> 0]
Protector == [owner : Nat, rv : Nat, fin : BOOLEAN, terminating : BOOLEAN, spec : Nat,
              removal : BOOLEAN, cell : BOOLEAN]
NoPpr     == [owner |-> 0, rv |-> 0, fin |-> FALSE, terminating |-> FALSE, spec |-> 0,
              removal |-> FALSE, cell |-> FALSE]
Idle      == [source |-> NoSource, cached |-> [n \in Names |-> NoPpr], todo |-> {}, name |-> Own,
              current |-> NoPpr, hasChange |-> FALSE, needsRemoval |-> FALSE]

-----------------------------------------------------------------------------
(***************************************************************************)
(* The deployment plugin.  Its percentage is rounded up.                   *)
(***************************************************************************)
ResolvedMaxUnavailable(replicas) ==
    IF MaxUnavailable.percent THEN (MaxUnavailable.value * replicas + 99) \div 100
                              ELSE MaxUnavailable.value

Spec_MinAvailable(o) ==
    LET required == o.replicas - ResolvedMaxUnavailable(o.replicas)
    IN  IF required < 0 THEN 0 ELSE required

GetRequiredProtectors(o) ==
    IF /\ o # NoSource
       /\ o.terminating => ProtectNonZero /\ o.replicas > 0
       /\ o.matches
    THEN {Own} ELSE {}

GeneratePodProtector(o) ==
    [NoPpr EXCEPT !.owner = o.uid, !.fin = TRUE, !.spec = Spec_MinAvailable(o)]

-----------------------------------------------------------------------------
(* What the apiserver stores for an update of a deployment, of a PodProtector. *)
PutSource(o) ==
    /\ rev' = rev + 1
    /\ source' = IF o.terminating /\ ~o.fin /\ ~o.held THEN NoSource ELSE [o EXCEPT !.rv = rev + 1]
    /\ sourceWatch' = Append(sourceWatch, source')

PutPpr(n, o) ==
    /\ rev' = rev + 1
    /\ ppr' = [ppr EXCEPT ![n] = IF o.terminating /\ ~o.fin THEN NoPpr
                                                            ELSE [o EXCEPT !.rv = rev + 1]]
    /\ pprWatch' = Append(pprWatch, [name |-> n, ppr |-> ppr'[n]])

Init ==
    /\ \E o \in {NoSource} \cup
              {[NoSource EXCEPT !.uid = 1, !.rv = 1, !.fin = TRUE, !.matches = TRUE, !.replicas = r] :
                  r \in Replicas} :
          /\ source = o
          /\ ppr = [n \in Names |-> IF o = NoSource THEN NoPpr
                                    ELSE [GeneratePodProtector(o) EXCEPT !.rv = 1]]
    /\ rev = 1
    /\ changes = 0
    /\ erased = FALSE /\ meddled = FALSE
    /\ sourceWatch = <<>> /\ pprWatch = <<>>
    /\ sourceCache = source /\ pprCache = ppr
    /\ queued = (source # NoSource)
    /\ pc = "idle" /\ task = Idle

-----------------------------------------------------------------------------
(***************************************************************************)
(* The users, the other controllers and the faults.                        *)
(***************************************************************************)
Change(kind) ==
    /\ kind \in Changes /\ changes < MaxChanges
    /\ changes' = changes + 1

ChangeSource(kind, o) ==
    /\ Change(kind)
    /\ PutSource(o)
    /\ UNCHANGED <<ppr, pprWatch, erased, meddled, caches, queued, pc, task>>

CreateSource(r, held) ==
    /\ source = NoSource
    /\ ChangeSource("create", [NoSource EXCEPT !.uid = rev, !.held = held, !.matches = TRUE, !.replicas = r])

RelabelSource ==
    /\ source # NoSource
    /\ ChangeSource("relabel", [source EXCEPT !.matches = ~@])

ScaleSource(r) ==
    /\ source # NoSource /\ source.replicas # r
    /\ ChangeSource("scale", [source EXCEPT !.replicas = r])

DeleteSource ==
    /\ source # NoSource /\ ~source.terminating
    /\ ChangeSource("delete", [source EXCEPT !.terminating = TRUE])

(* Another controller is done with a deployment and removes its finalizer. *)
ReleaseSource ==
    /\ source.held /\ source.terminating
    /\ ChangeSource("release", [source EXCEPT !.held = FALSE])

(* "If the source object simply disappeared" (docs/design.md). *)
EraseSource ==
    /\ source # NoSource
    /\ Change("erase")
    /\ erased' = TRUE
    /\ source' = NoSource
    /\ rev' = rev + 1
    /\ sourceWatch' = Append(sourceWatch, NoSource)
    /\ UNCHANGED <<ppr, pprWatch, meddled, caches, queued, pc, task>>

ChangePpr(n, o) ==
    /\ ppr[n] # NoPpr
    /\ PutPpr(n, o)
    /\ UNCHANGED <<source, sourceWatch, erased, caches, queued, pc, task>>

(* An operator asks for the removal of a cell; the aggregator writes the cell. *)
AnnotatePpr(n) ==
    /\ Change("annotate")
    /\ ChangePpr(n, [ppr[n] EXCEPT !.removal = TRUE])
    /\ UNCHANGED meddled

AddCell(n) ==
    /\ Change("addcell") /\ ~ppr[n].cell
    /\ ChangePpr(n, [ppr[n] EXCEPT !.cell = TRUE])
    /\ UNCHANGED meddled

DeletePpr(n) ==
    /\ Change("pprdelete") /\ ~ppr[n].terminating
    /\ ChangePpr(n, [ppr[n] EXCEPT !.terminating = TRUE])
    /\ meddled' = TRUE

(* The garbage collector deletes what is owned by a deployment that is gone. *)
CollectPpr(n) ==
    /\ ppr[n].owner # source.uid /\ ~ppr[n].terminating
    /\ ChangePpr(n, [ppr[n] EXCEPT !.terminating = TRUE])
    /\ UNCHANGED <<changes, meddled>>

(***************************************************************************)
(* The process is replaced: its informers list, and the handler sees the   *)
(* deployment if there is one.                                             *)
(***************************************************************************)
Crash ==
    /\ Change("crash")
    /\ sourceWatch' = <<>> /\ pprWatch' = <<>>
    /\ sourceCache' = source /\ pprCache' = ppr
    /\ queued' = (source # NoSource)
    /\ pc' = "idle" /\ task' = Idle
    /\ UNCHANGED <<stored, erased, meddled>>

-----------------------------------------------------------------------------
(* The informers.  Only the one of the deployments has a handler. *)
DeliverSource ==
    /\ sourceWatch # <<>>
    /\ sourceCache' = Head(sourceWatch)
    /\ sourceWatch' = Tail(sourceWatch)
    /\ queued' = TRUE
    /\ UNCHANGED <<stored, history, pprWatch, pprCache, pc, task>>

DeliverPpr ==
    /\ pprWatch # <<>>
    /\ pprCache' = [pprCache EXCEPT ![Head(pprWatch).name] = Head(pprWatch).ppr]
    /\ pprWatch' = Tail(pprWatch)
    /\ UNCHANGED <<stored, history, sourceWatch, sourceCache, queued, pc, task>>

-----------------------------------------------------------------------------
(* The reconciliation ends: well, or with an error that puts the item back. *)
End(again) ==
    /\ pc' = "idle" /\ task' = Idle
    /\ queued' = (queued \/ again)

ErrorForgotten ==   \* mutant: an error is not tried again
    End(FALSE) /\ UNCHANGED <<stored, history, watches, caches>>

EndWithError == End(TRUE) /\ UNCHANGED <<stored, history, watches, caches>>

(* The reconciliation goes on at label l with local variables t. *)
Go(l, t) == pc' = l /\ task' = t /\ UNCHANGED queued

NextName == [task EXCEPT !.todo = @ \ {task.name}]

(* ReconcileItem: the deployment, its requirements and its PodProtectors. *)
StartReconcile ==
    /\ queued /\ pc = "idle"
    /\ ~PprLag => pprWatch = <<>>
    /\ queued' = FALSE
    /\ pc' = "pick"
    /\ task' = [Idle EXCEPT !.source = sourceCache, !.cached = pprCache, !.needsRemoval = TRUE,
                     !.todo = GetRequiredProtectors(sourceCache)
                                \cup {n \in Names : pprCache[n] # NoPpr}]
    /\ UNCHANGED <<stored, history, watches, caches>>

(* tryReconcile: what is to be done about n; the required PodProtectors come first. *)
TryReconcile(n) ==
    LET t == [task EXCEPT !.name = n, !.current = task.cached[n], !.hasChange = FALSE]
    IN  /\ pc = "pick" /\ n \in task.todo
        /\ n \in GetRequiredProtectors(task.source) \/ task.todo \cap GetRequiredProtectors(task.source) = {}
        /\ CASE task.source = NoSource -> Go("pick", [task EXCEPT !.todo = @ \ {n}])
             [] task.source # NoSource /\ n \in GetRequiredProtectors(task.source) -> Go("ensure", t)
             [] OTHER -> Go("unfinalize", t)
        /\ UNCHANGED <<stored, history, watches, caches>>

FinalizerNotKept(t) == t   \* mutant: the flag of ReconcileItem is not cleared

(* The finalizer of the deployment is not to be removed at the end. *)
KeepFinalizer(t) == [t EXCEPT !.needsRemoval = FALSE]

EnsureSourceFinalizer ==
    LET next == IF task.current = NoPpr THEN "create" ELSE "cells"
        kept == KeepFinalizer(task)
        o    == [task.source EXCEPT !.fin = TRUE]
    IN  /\ pc = "ensure"
        /\ \/ task.source.fin /\ Go(next, kept) /\ UNCHANGED <<stored, history, watches, caches>>
           \/ /\ ~task.source.fin /\ task.source.terminating /\ task.current = NoPpr
              /\ Go("pick", KeepFinalizer(NextName))
              /\ UNCHANGED <<stored, history, watches, caches>>
           \/ ~task.source.fin /\ task.source.terminating /\ task.current # NoPpr /\ EndWithError
           \/ /\ ~task.source.fin /\ ~task.source.terminating /\ source.rv = task.source.rv
              /\ PutSource(o)
              /\ Go(next, [kept EXCEPT !.source = [o EXCEPT !.rv = rev + 1]])
              /\ UNCHANGED <<ppr, pprWatch, history, caches>>
           \/ /\ ~task.source.fin /\ ~task.source.terminating /\ source.rv # task.source.rv
              /\ EndWithError

CreateProtector ==
    /\ pc = "create"
    /\ \/ /\ ppr[task.name] = NoPpr
          /\ PutPpr(task.name, GeneratePodProtector(task.source))
          /\ Go("pick", NextName)
          /\ UNCHANGED <<source, sourceWatch, history, caches>>
       \/ ppr[task.name] # NoPpr /\ EndWithError

(* Whether the PodProtector is stored in the revision the generator has. *)
Based == ppr[task.name] # NoPpr /\ ppr[task.name].rv = task.current.rv

TryRemoveCells ==
    LET cleared == [task.current EXCEPT !.cell = FALSE]
    IN  /\ pc = "cells"
        /\ \/ /\ ~task.current.removal
              /\ Go("sync", task)
              /\ UNCHANGED <<stored, history, watches, caches>>
           \/ /\ task.current.removal /\ ~task.current.cell
              /\ Go("sync", [task EXCEPT !.hasChange = TRUE, !.current.removal = FALSE])
              /\ UNCHANGED <<stored, history, watches, caches>>
           \/ /\ task.current.removal /\ task.current.cell /\ Based
              /\ PutPpr(task.name, cleared)
              /\ Go("sync", [task EXCEPT !.hasChange = TRUE,
                                !.current = [cleared EXCEPT !.removal = FALSE, !.rv = rev + 1]])
              /\ UNCHANGED <<source, sourceWatch, history, caches>>
           \/ task.current.removal /\ task.current.cell /\ ~Based /\ EndWithError

SyncProtector ==
    LET expected == Spec_MinAvailable(task.source)
        differs  == task.hasChange \/ task.current.spec # expected
    IN  /\ pc = "sync"
        /\ \/ ~differs /\ Go("pick", NextName) /\ UNCHANGED <<stored, history, watches, caches>>
           \/ /\ differs /\ Based
              /\ PutPpr(task.name, [task.current EXCEPT !.spec = expected])
              /\ Go("pick", NextName)
              /\ UNCHANGED <<source, sourceWatch, history, caches>>
           \/ differs /\ ~Based /\ EndWithError

UnfinalizeForgotten ==   \* mutant: the PodProtector is deleted with its finalizer
    /\ pc = "unfinalize"
    /\ Go("delete", task)
    /\ UNCHANGED <<stored, history, watches, caches>>

(* deleteProtector: first the finalizer ... *)
UnfinalizeProtector ==
    LET o == [task.current EXCEPT !.fin = FALSE]
    IN  /\ pc = "unfinalize"
        /\ \/ ~task.current.fin /\ Go("delete", task) /\ UNCHANGED <<stored, history, watches, caches>>
           \/ /\ task.current.fin /\ Based
              /\ PutPpr(task.name, o)
              /\ Go("delete", [task EXCEPT !.current = [o EXCEPT !.rv = rev + 1]])
              /\ UNCHANGED <<source, sourceWatch, history, caches>>
           \/ task.current.fin /\ ~Based /\ EndWithError

(* ... then the object, by its name and in whatever revision it is. *)
DeleteProtector ==
    /\ pc = "delete"
    /\ \/ task.current.terminating /\ Go("pick", NextName) /\ UNCHANGED <<stored, history, watches, caches>>
       \/ /\ ~task.current.terminating /\ ppr[task.name] # NoPpr
          /\ PutPpr(task.name, [ppr[task.name] EXCEPT !.terminating = TRUE])
          /\ Go("pick", NextName)
          /\ UNCHANGED <<source, sourceWatch, history, caches>>
       \/ ~task.current.terminating /\ ppr[task.name] = NoPpr /\ EndWithError

ReleaseForgotten ==   \* mutant: the finalizer of the deployment stays
    /\ pc = "pick" /\ task.todo = {}
    /\ End(FALSE)
    /\ UNCHANGED <<stored, history, watches, caches>>

RemoveSourceFinalizer ==
    LET needed == task.needsRemoval /\ task.source.fin
    IN  /\ pc = "pick" /\ task.todo = {}
        /\ \/ ~needed /\ End(FALSE) /\ UNCHANGED <<stored, history, watches, caches>>
           \/ /\ needed /\ source.rv = task.source.rv
              /\ PutSource([task.source EXCEPT !.fin = FALSE])
              /\ End(FALSE)
              /\ UNCHANGED <<ppr, pprWatch, history, caches>>
           \/ needed /\ source.rv # task.source.rv /\ EndWithError

(* A call fails for a reason of its own. *)
CallFails ==
    /\ pc # "idle"
    /\ Change("fail")
    /\ End(TRUE)
    /\ UNCHANGED <<stored, erased, meddled, watches, caches>>

-----------------------------------------------------------------------------
World ==
    \/ \E r \in Replicas : ScaleSource(r) \/ \E held \in BOOLEAN : CreateSource(r, held)
    \/ RelabelSource \/ DeleteSource \/ ReleaseSource \/ EraseSource
    \/ \E n \in Names : AnnotatePpr(n) \/ AddCell(n) \/ DeletePpr(n) \/ CollectPpr(n)
    \/ Crash \/ CallFails

Informers == DeliverSource \/ DeliverPpr

Reconcile ==
    \/ StartReconcile
    \/ \E n \in Names : TryReconcile(n)
    \/ EnsureSourceFinalizer
    \/ CreateProtector
    \/ TryRemoveCells
    \/ SyncProtector
    \/ UnfinalizeProtector
    \/ DeleteProtector
    \/ RemoveSourceFinalizer

Next == World \/ Informers \/ Reconcile

Spec == Init /\ [][Next]_vars

(* The informers deliver and the worker goes on. *)
Fairness ==
    WF_vars(DeliverSource) /\ WF_vars(DeliverPpr) /\ WF_vars(Reconcile)

-----------------------------------------------------------------------------
TypeOK ==
    /\ source \in Source
    /\ ppr \in [Names -> Protector]
    /\ rev \in Nat
    /\ changes \in 0..MaxChanges
    /\ erased \in BOOLEAN /\ meddled \in BOOLEAN
    /\ sourceWatch \in Seq(Source)
    /\ pprWatch \in Seq([name : Names, ppr : Protector])
    /\ sourceCache \in Source
    /\ pprCache \in [Names -> Protector]
    /\ queued \in BOOLEAN
    /\ pc \in {"idle", "pick", "ensure", "create", "cells", "sync", "unfinalize", "delete"}
    /\ task \in [source : Source, cached : [Names -> Protector], todo : SUBSET Names, name : Names,
                 current : Protector, hasChange : BOOLEAN, needsRemoval : BOOLEAN]
    /\ pc = "idle" <=> task = Idle

(***************************************************************************)
(* "We can remove the source finalizer as long as the PodProtector is      *)
(* marked for deletion" (controller.go): a deployment that goes away in    *)
(* the normal way leaves no PodProtector behind that is not marked, which  *)
(* nobody would ever remove.  Every interleaving of the calls, failures    *)
(* and crashes of reconciliations has to keep the two finalizers in order. *)
(***************************************************************************)
NoOrphan ==
    ~erased =>
        \A n \in Names :
            ppr[n] # NoPpr /\ ~ppr[n].terminating /\ ppr[n].fin => source.fin

(***************************************************************************)
(* A finalizer is never left behind: a PodProtector that is marked for     *)
(* deletion and kept by the generator has a deployment, whose events make  *)
(* the generator come back to it.                                          *)
(***************************************************************************)
KeptHasSource ==
    ~erased => \A n \in Names : ppr[n].fin => source # NoSource

(* Nothing is under way that would start a reconciliation. *)
AtRest == sourceWatch = <<>> /\ pprWatch = <<>> /\ ~queued /\ pc = "idle"

(***************************************************************************)
(* "When a workload object updates, generator reconciles all PodProtectors *)
(* generated from this object ... and creates or updates required          *)
(* protections and deletes those that are no longer required based on the  *)
(* new requirements as specified by the object" (docs/design.md): when the *)
(* generator has nothing left to do, this is so, if nobody else erases     *)
(* deployments or deletes PodProtectors.                                   *)
(***************************************************************************)
RestMeansProtected ==
    AtRest /\ source # NoSource /\ ~meddled /\ ~erased =>
        /\ source.terminating
           \/ \A n \in GetRequiredProtectors(source) :
                 ppr[n] # NoPpr /\ ppr[n].spec = Spec_MinAvailable(source) /\ source.fin
        /\ \A n \in Names \ GetRequiredProtectors(source) : ppr[n] = NoPpr \/ ppr[n].terminating

(* Every state has the declared types, and when the generator has nothing  *)
(* left to do, the PodProtectors are those the deployment requires,        *)
(* whatever failed before (tryReconcile and its retries).                  *)
ProtectedAtRest == TypeOK /\ RestMeansProtected

(***************************************************************************)
(* The generator does not stand in the way: a deployment that is marked    *)
(* for deletion and need not be protected any more loses its finalizer.    *)
(***************************************************************************)
SourceReleased ==
    (source.terminating /\ source.fin)
        ~> (~source.fin \/ GetRequiredProtectors(source) # {})
=============================================================================
