-------------------------- MODULE GeneratorProofs --------------------------
(***************************************************************************)
(* Proofs about Generator, for any number of PodProtectors, changes and    *)
(* faults, if a reconciliation starts only when the cache of PodProtectors *)
(* has caught up (~PprLag; run `orphan` shows what happens otherwise):     *)
(* no PodProtector is orphaned, no finalizer is left behind, and when the  *)
(* generator has nothing left to do the deployment is protected.           *)
(*                                                                         *)
(* The argument: the finalizer of the deployment is removed only in the    *)
(* version that the reconciliation was started with, when nothing newer is *)
(* on its way (RemovalFresh) and every PodProtector is gone (Progress).    *)
(* From then on no version that is still to be seen both has the finalizer *)
(* and requires a PodProtector (SeenOwned), so a stale version never leads *)
(* to a new one.  For the state at rest, what a reconciliation has dealt   *)
(* with stays as it should be while the deployment is the one it was       *)
(* started with (Dealt), and otherwise another one will follow.            *)
(***************************************************************************)
EXTENDS Generator, TLAPS

Required(o) == GetRequiredProtectors(o)

(* The versions of the deployment that the generator has or will see. *)
Seen == {sourceCache, task.source} \cup {sourceWatch[k] : k \in DOMAIN sourceWatch}

Task == [source : Source, cached : [Names -> Protector], todo : SUBSET Names, name : Names,
         current : Protector, hasChange : BOOLEAN, needsRemoval : BOOLEAN]

Typed ==
    /\ source \in Source /\ ppr \in [Names -> Protector] /\ rev \in Nat
    /\ changes \in 0..MaxChanges /\ erased \in BOOLEAN /\ meddled \in BOOLEAN
    /\ sourceWatch \in Seq(Source) /\ pprWatch \in Seq([name : Names, ppr : Protector])
    /\ sourceCache \in Source /\ pprCache \in [Names -> Protector]
    /\ queued \in BOOLEAN
    /\ pc \in {"idle", "pick", "ensure", "create", "cells", "sync", "unfinalize", "delete"}
    /\ task \in Task

(* A reconciliation under way has local variables unlike those of none. *)
Busy ==
    /\ pc = "idle" => task = Idle
    /\ pc # "idle" => task.needsRemoval \/ task.source # NoSource

-----------------------------------------------------------------------------
(* Revisions: a version has one, not after the last, and the stored version is the last one under way. *)
Revisions ==
    /\ \A o \in Seen \cup {source} : o.rv <= rev /\ (o # NoSource => o.rv > 0)
    /\ sourceWatch = <<>> => sourceCache = source
    /\ sourceWatch # <<>> => sourceWatch[Len(sourceWatch)] = source
    /\ source # NoSource /\ sourceWatch # <<>> =>
          /\ sourceCache.rv # source.rv
          /\ \A k \in 1..Len(sourceWatch) - 1 : sourceWatch[k].rv # source.rv

(* The last version of a PodProtector under way is the stored one. *)
PprsDelivered ==
    \A n \in Names :
        /\ (\A k \in DOMAIN pprWatch : pprWatch[k].name # n) => pprCache[n] = ppr[n]
        /\ \A k \in DOMAIN pprWatch :
              pprWatch[k].name = n /\ (\A j \in DOMAIN pprWatch : j > k => pprWatch[j].name # n)
                  => pprWatch[k].ppr = ppr[n]

(* An object that is marked for deletion and has no finalizer is gone. *)
MarkedKept == \A n \in Names : ppr[n].terminating => ppr[n].fin

(* A PodProtector has a deployment that carries the finalizer of the generator. *)
Owned ==
    ~erased => \A n \in Names : ppr[n] # NoPpr => source.fin /\ ppr[n].owner = source.uid

(* So has a version with that finalizer from which a PodProtector would be made. *)
SeenOwned ==
    ~erased => \A o \in Seen : o.fin /\ Required(o) # {} => source.fin /\ o.uid = source.uid

(***************************************************************************)
(* An update that is not refused meets the version it was made from, and a *)
(* removal meets the version the generator has seen last.                  *)
(***************************************************************************)
RemovalFresh ==
    pc # "idle" /\ task.source # NoSource /\ task.source.rv = source.rv =>
        /\ task.source = source
        /\ task.needsRemoval => sourceWatch = <<>> /\ sourceCache = source

(* So does an update of a PodProtector, but for its cells. *)
Alike(a, b) ==
    a.owner = b.owner /\ a.fin = b.fin /\ a.terminating = b.terminating /\ a.spec = b.spec

PprRevisions ==
    /\ task.current.rv <= rev
    /\ \A n \in Names : ppr[n].rv <= rev /\ task.cached[n].rv <= rev
    /\ pc # "idle" => \A n \in Names :
          ppr[n] # NoPpr /\ ppr[n].rv = task.cached[n].rv => Alike(task.cached[n], ppr[n])
    /\ pc \in {"cells", "sync", "unfinalize"} /\ Based => Alike(task.current, ppr[task.name])

(* Where the reconciliation is, and what it has found and done. *)
Located ==
    /\ pc \in {"ensure", "create", "cells", "sync"} => task.name \in Required(task.source)
    /\ pc \in {"unfinalize", "delete"} => task.name \notin Required(task.source)
    /\ pc \notin {"idle", "pick"} => task.source # NoSource /\ task.name \in task.todo
    /\ pc \in {"ensure", "unfinalize"} => task.current = task.cached[task.name]
    /\ \A n \in Names : task.cached[n].terminating => task.cached[n].fin

Ensured ==
    pc \in {"create", "cells", "sync"} =>
        /\ ~task.needsRemoval
        /\ ~erased => source.fin /\ task.source.uid = source.uid

Progress ==
    pc # "idle" =>
        /\ \A n \in task.todo : ppr[n].fin => task.cached[n].fin
        /\ pc = "delete" => /\ ~ppr[task.name].fin
                            /\ task.current.terminating => ppr[task.name] = NoPpr
        /\ task.needsRemoval /\ task.source # NoSource =>
              /\ Required(task.source) \subseteq task.todo
              /\ \A n \in Names \ task.todo : ppr[n] = NoPpr

SafeInv ==
    /\ Typed /\ Busy /\ Revisions /\ PprsDelivered /\ MarkedKept /\ Owned
    /\ SeenOwned /\ RemovalFresh /\ PprRevisions /\ Located /\ Ensured /\ Progress

-----------------------------------------------------------------------------
(* Nobody else has deleted a PodProtector or erased a deployment. *)
Calm == ~meddled /\ ~erased

(* Then a PodProtector that is marked for deletion is gone at once. *)
NoneMarked ==
    Calm => /\ \A n \in Names : ~ppr[n].terminating /\ ~task.cached[n].terminating
            /\ pc = "delete" => ~task.current.terminating

(* What the reconciliation has not dealt with is as it was found. *)
AsFound(n) == (ppr[n] = NoPpr <=> task.cached[n] = NoPpr) /\ ppr[n].spec = task.cached[n].spec

Found ==
    Calm /\ pc # "idle" =>
        /\ \A n \in task.todo : (pc = "delete" /\ n = task.name) \/ AsFound(n)
        /\ pc = "create" => task.cached[task.name] = NoPpr
        /\ pc \in {"cells", "sync"} =>
              task.cached[task.name] # NoPpr /\ task.current.spec = task.cached[task.name].spec

(* Unless another reconciliation will follow, it has seen the deployment as it is ... *)
Last == sourceWatch = <<>> /\ ~queued

Current == pc # "idle" /\ Last => task.source = source

(* ... and what it has dealt with is as the deployment requires. *)
AsRequired(n) ==
    IF n \in Required(source)
    THEN source.terminating \/ (ppr[n] # NoPpr /\ ppr[n].spec = Spec_MinAvailable(source) /\ source.fin)
    ELSE ppr[n] = NoPpr

Dealt ==
    Calm /\ Last /\ source # NoSource =>
        \A n \in Names : n \in task.todo \/ AsRequired(n)

RestInv == SafeInv /\ NoneMarked /\ Found /\ Current /\ Dealt

-----------------------------------------------------------------------------
(* The values the locals and the objects are made of. *)
LEMMA Constants ==
    /\ NoSource \in Source /\ NoPpr \in Protector /\ Own \in Names
    /\ Idle \in Task /\ Idle.source = NoSource /\ ~Idle.needsRemoval /\ Idle.todo = {}
    /\ \A n \in Names : Idle.cached[n] = NoPpr
<1>1. NoSource \in Source /\ NoPpr \in Protector /\ Own \in Names
  BY DEF NoSource, Source, NoPpr, Protector, Names
<1> QED
  BY <1>1 DEF Idle, Task

LEMMA MinAvailableNat == ASSUME NEW o \in Source PROVE Spec_MinAvailable(o) \in Nat
<1>1. o.replicas \in Nat /\ MaxUnavailable.value \in Nat
  BY GeneratorAssumption DEF Source
<1>2. MaxUnavailable.value * o.replicas \in Nat
  BY <1>1
<1>3. ResolvedMaxUnavailable(o.replicas) \in Int
  BY <1>1, <1>2 DEF ResolvedMaxUnavailable
<1> QED
  BY <1>1, <1>3 DEF Spec_MinAvailable

LEMMA GeneratedType ==
    ASSUME NEW o \in Source
    PROVE  /\ GeneratePodProtector(o) \in Protector
           /\ GeneratePodProtector(o).owner = o.uid
           /\ GeneratePodProtector(o).spec = Spec_MinAvailable(o)
           /\ ~GeneratePodProtector(o).terminating
  BY MinAvailableNat DEF GeneratePodProtector, NoPpr, Protector, Source

LEMMA RequiredNames == ASSUME NEW o \in Source PROVE Required(o) \subseteq Names
  BY DEF Required, GetRequiredProtectors, Names

(* What the apiserver makes of an update. *)
LEMMA PutSourceEffect ==
    ASSUME Typed, NEW o \in Source, PutSource(o)
    PROVE  /\ rev' = rev + 1 /\ rev' \in Nat
           /\ source' \in Source /\ sourceWatch' \in Seq(Source)
           /\ sourceWatch' = Append(sourceWatch, source')
           /\ \/ source' = NoSource /\ ~o.fin
              \/ source' = [o EXCEPT !.rv = rev + 1]
<1>1. source' = (IF o.terminating /\ ~o.fin /\ ~o.held THEN NoSource ELSE [o EXCEPT !.rv = rev + 1])
  BY DEF PutSource
<1>0. rev + 1 \in Nat
  BY DEF Typed
<1>2. [o EXCEPT !.rv = rev + 1] \in Source
  BY <1>0 DEF Source
<1>3. source' \in Source
  BY <1>1, <1>2, Constants
<1> QED
  BY <1>1, <1>3 DEF PutSource, Typed

LEMMA PutPprEffect ==
    ASSUME Typed, NEW n \in Names, NEW o \in Protector, PutPpr(n, o)
    PROVE  /\ rev' = rev + 1 /\ rev' \in Nat
           /\ ppr' \in [Names -> Protector]
           /\ pprWatch' \in Seq([name : Names, ppr : Protector])
           /\ pprWatch' = Append(pprWatch, [name |-> n, ppr |-> ppr'[n]])
           /\ \A m \in Names : m # n => ppr'[m] = ppr[m]
           /\ \/ ppr'[n] = NoPpr /\ o.terminating /\ ~o.fin
              \/ ppr'[n] = [o EXCEPT !.rv = rev + 1] /\ ~(o.terminating /\ ~o.fin)
<1> DEFINE new == IF o.terminating /\ ~o.fin THEN NoPpr ELSE [o EXCEPT !.rv = rev + 1]
<1>1. ppr' = [ppr EXCEPT ![n] = new]
  BY DEF PutPpr
<1>0. rev + 1 \in Nat
  BY DEF Typed
<1>2. [o EXCEPT !.rv = rev + 1] \in Protector
  BY <1>0 DEF Protector
<1>3. new \in Protector
  BY <1>2, Constants
<1>4. ppr' \in [Names -> Protector] /\ ppr'[n] = new /\ \A m \in Names : m # n => ppr'[m] = ppr[m]
  BY <1>1, <1>3 DEF Typed
<1>5. pprWatch' = Append(pprWatch, [name |-> n, ppr |-> ppr'[n]])
  BY DEF PutPpr
<1>6. [name |-> n, ppr |-> ppr'[n]] \in [name : Names, ppr : Protector]
  BY <1>4
<1>7. pprWatch' \in Seq([name : Names, ppr : Protector])
  BY <1>5, <1>6 DEF Typed
<1>8. rev' = rev + 1 /\ rev' \in Nat
  BY DEF PutPpr, Typed
<1> QED
  BY <1>4, <1>5, <1>7, <1>8

-----------------------------------------------------------------------------
(***************************************************************************)
(* The steps of the world, by what they do: a deployment is changed or     *)
(* created, a PodProtector is changed.  The generator meets no others.     *)
(***************************************************************************)
SourceChanged ==
    \E o \in Source :
        /\ PutSource(o)
        /\ \/ source # NoSource /\ o.fin = source.fin /\ o.uid = source.uid
           \/ source = NoSource /\ ~o.fin
        /\ UNCHANGED <<ppr, pprWatch, erased, meddled, caches, queued, pc, task>>

PprChanged ==
    \E n \in Names, o \in Protector :
        /\ ppr[n] # NoPpr /\ PutPpr(n, o)
        /\ o.fin = ppr[n].fin /\ o.owner = ppr[n].owner /\ o.spec = ppr[n].spec
        /\ o.terminating => ppr[n].terminating \/ meddled' \/ ppr[n].owner # source.uid
        /\ ppr[n].terminating => o.terminating
        /\ meddled => meddled'
        /\ meddled' \in BOOLEAN
        /\ UNCHANGED <<source, sourceWatch, erased, caches, queued, pc, task>>

(* The call fails, conflicts, or is not worth an attempt: the deployment is queued again. *)
Failed ==
    /\ pc' = "idle" /\ task' = Idle /\ queued'
    /\ UNCHANGED <<stored, erased, meddled, watches, caches>>

LEMMA WorldSteps ==
    ASSUME Typed, World
    PROVE  /\ changes' \in 0..MaxChanges
           /\ SourceChanged \/ EraseSource \/ PprChanged \/ Crash \/ Failed
<1>0. \A kind : Change(kind) => changes' \in 0..MaxChanges
  BY GeneratorAssumption DEF Change, Typed
<1>1. ASSUME NEW r \in Replicas, ScaleSource(r) PROVE changes' \in 0..MaxChanges /\ SourceChanged
  <2>1. [source EXCEPT !.replicas = r] \in Source
    BY GeneratorAssumption DEF Typed, Source
  <2> QED
    BY <1>0, <1>1, <2>1 DEF ScaleSource, ChangeSource, SourceChanged, Source
<1>2. ASSUME NEW r \in Replicas, NEW held \in BOOLEAN, CreateSource(r, held)
      PROVE  changes' \in 0..MaxChanges /\ SourceChanged
  <2> DEFINE o == [NoSource EXCEPT !.uid = rev, !.held = held, !.matches = TRUE, !.replicas = r]
  <2>1. o \in Source /\ ~o.fin
    BY GeneratorAssumption DEF Typed, Source, NoSource
  <2>2. source = NoSource /\ ChangeSource("create", o)
    BY <1>2 DEF CreateSource
  <2> HIDE DEF o
  <2> QED
    BY <1>0, <2>1, <2>2 DEF ChangeSource, SourceChanged
<1>3. CASE RelabelSource
  <2>1. [source EXCEPT !.matches = ~@] \in Source
    BY DEF Typed, Source
  <2> QED
    BY <1>0, <1>3, <2>1 DEF RelabelSource, ChangeSource, SourceChanged, Source
<1>4. CASE DeleteSource
  <2>1. [source EXCEPT !.terminating = TRUE] \in Source
    BY DEF Typed, Source
  <2> QED
    BY <1>0, <1>4, <2>1 DEF DeleteSource, ChangeSource, SourceChanged, Source
<1>5. CASE ReleaseSource
  <2>1. [source EXCEPT !.held = FALSE] \in Source
    BY DEF Typed, Source
  <2>2. source # NoSource
    BY <1>5 DEF ReleaseSource, NoSource
  <2> QED
    BY <1>0, <1>5, <2>1, <2>2 DEF ReleaseSource, ChangeSource, SourceChanged, Source
<1>6. CASE EraseSource
  BY <1>0, <1>6 DEF EraseSource
<1>7. ASSUME NEW n \in Names, AnnotatePpr(n) \/ AddCell(n) \/ DeletePpr(n) \/ CollectPpr(n)
      PROVE  changes' \in 0..MaxChanges /\ PprChanged
  <2>0. changes' \in 0..MaxChanges
    BY <1>0, <1>7 DEF AnnotatePpr, AddCell, DeletePpr, CollectPpr, Typed
  <2>1. ppr[n] \in Protector
    BY DEF Typed
  <2>2. CASE AnnotatePpr(n) \/ AddCell(n)
    <3>1. PICK o \in {[ppr[n] EXCEPT !.removal = TRUE], [ppr[n] EXCEPT !.cell = TRUE]} : ChangePpr(n, o)
      BY <2>2 DEF AnnotatePpr, AddCell
    <3>2. /\ o \in Protector /\ o.fin = ppr[n].fin /\ o.owner = ppr[n].owner /\ o.spec = ppr[n].spec
          /\ o.terminating = ppr[n].terminating
      BY <2>1 DEF Protector
    <3>3. meddled' = meddled /\ meddled \in BOOLEAN
      BY <2>2 DEF AnnotatePpr, AddCell, Typed
    <3> QED
      BY <2>0, <3>1, <3>2, <3>3 DEF ChangePpr, PprChanged
  <2>3. CASE DeletePpr(n) \/ CollectPpr(n)
    <3> DEFINE o == [ppr[n] EXCEPT !.terminating = TRUE]
    <3>1. o \in Protector /\ o.fin = ppr[n].fin /\ o.owner = ppr[n].owner /\ o.spec = ppr[n].spec /\ o.terminating
      BY <2>1 DEF Protector
    <3>2. ChangePpr(n, o)
      BY <2>3 DEF DeletePpr, CollectPpr
    <3>3. (meddled' \/ ppr[n].owner # source.uid) /\ (meddled => meddled') /\ meddled' \in BOOLEAN
      BY <2>3 DEF DeletePpr, CollectPpr, Typed
    <3> HIDE DEF o
    <3> QED
      BY <2>0, <3>1, <3>2, <3>3 DEF ChangePpr, PprChanged
  <2> QED
    BY <1>7, <2>2, <2>3
<1>8. CASE Crash
  BY <1>0, <1>8 DEF Crash
<1>9. CASE CallFails
  <2>1. changes' \in 0..MaxChanges
    BY <1>0, <1>9 DEF CallFails
  <2>2. Failed
    BY <1>9 DEF CallFails, End, Failed
  <2> QED
    BY <2>1, <2>2
<1> QED
  BY <1>1, <1>2, <1>3, <1>4, <1>5, <1>6, <1>7, <1>8, <1>9 DEF World

-----------------------------------------------------------------------------
(***************************************************************************)
(* What is on its way to the informers.                                    *)
(***************************************************************************)
LEMMA AppendFacts ==
    ASSUME NEW S, NEW s \in Seq(S), NEW e \in S
    PROVE  /\ DOMAIN Append(s, e) = 1..Len(s) + 1 /\ Len(Append(s, e)) = Len(s) + 1
           /\ DOMAIN s = 1..Len(s) /\ Len(s) \in Nat
           /\ \A k \in 1..Len(s) : Append(s, e)[k] = s[k]
           /\ Append(s, e)[Len(s) + 1] = e
           /\ Append(s, e) # <<>>
  OBVIOUS

LEMMA TailFacts ==
    ASSUME NEW S, NEW s \in Seq(S), s # <<>>
    PROVE  /\ Tail(s) \in Seq(S) /\ Len(Tail(s)) = Len(s) - 1 /\ Head(s) = s[1] /\ Head(s) \in S
           /\ DOMAIN s = 1..Len(s) /\ DOMAIN Tail(s) = 1..Len(s) - 1
           /\ Len(s) \in Nat /\ Len(s) > 0
           /\ \A k \in 1..Len(s) - 1 : Tail(s)[k] = s[k + 1]
           /\ Tail(s) = <<>> <=> Len(s) = 1
<1>1. Len(s) \in Nat /\ Len(s) > 0 /\ DOMAIN s = 1..Len(s)
  OBVIOUS
<1>2. Tail(s) \in Seq(S) /\ Len(Tail(s)) = Len(s) - 1 /\ Head(s) = s[1] /\ Head(s) \in S
  BY <1>1
<1>3. DOMAIN Tail(s) = 1..Len(s) - 1 /\ \A k \in 1..Len(s) - 1 : Tail(s)[k] = s[k + 1]
  BY <1>1, <1>2
<1>4. Tail(s) = <<>> <=> Len(Tail(s)) = 0
  <2>1. ASSUME NEW t \in Seq(S) PROVE t = <<>> <=> Len(t) = 0
    OBVIOUS
  <2> QED
    BY <1>2, <2>1
<1> QED
  BY <1>1, <1>2, <1>3, <1>4

(* A version of the deployment is stored and sent. *)
Published ==
    /\ rev' = rev + 1 /\ sourceCache' = sourceCache
    /\ source' \in Source /\ sourceWatch' = Append(sourceWatch, source')
    /\ source' = NoSource \/ source'.rv = rev + 1

LEMMA SeenKept ==
    ASSUME UNCHANGED <<sourceWatch, sourceCache>>
    PROVE  Seen' \subseteq Seen \cup {task.source'}
  BY DEF Seen

LEMMA SeenPublished ==
    ASSUME Typed, Published
    PROVE  Seen' \subseteq Seen \cup {source', task.source'} /\ sourceWatch' # <<>>
<1>1. sourceWatch \in Seq(Source) /\ source' \in Source
  BY DEF Typed, Published
<1>2. \A k \in DOMAIN sourceWatch' :
         sourceWatch'[k] = source' \/ \E j \in DOMAIN sourceWatch : sourceWatch'[k] = sourceWatch[j]
  BY <1>1, AppendFacts DEF Published
<1>3. sourceWatch' # <<>>
  BY <1>1, AppendFacts DEF Published
<1> QED
  BY <1>2, <1>3 DEF Seen, Published

LEMMA SeenDelivered ==
    ASSUME Typed, DeliverSource
    PROVE  Seen' \subseteq Seen
<1>1. sourceWatch \in Seq(Source) /\ sourceWatch # <<>>
  BY DEF Typed, DeliverSource
<1>2. \A k \in DOMAIN Tail(sourceWatch) : \E j \in DOMAIN sourceWatch : Tail(sourceWatch)[k] = sourceWatch[j]
  BY <1>1, TailFacts
<1>3. Head(sourceWatch) = sourceWatch[1] /\ 1 \in DOMAIN sourceWatch
  BY <1>1, TailFacts
<1> QED
  BY <1>2, <1>3 DEF Seen, DeliverSource

(* The revisions and the last version under way, by what happens to the deployment. *)
LEMMA SeenTyped == ASSUME Typed PROVE Seen \subseteq Source
  BY DEF Typed, Seen, Task

LEMMA RevisionsKept ==
    ASSUME Typed, Revisions, UNCHANGED <<source, sourceWatch, sourceCache>>,
           rev' \in Nat, rev' >= rev, task.source' \in Seen \cup {NoSource}
    PROVE  Revisions'
<1>1. Seen' \subseteq Seen \cup {NoSource}
  BY SeenKept
<1>2. NoSource.rv <= rev
  BY DEF NoSource, Typed
<1>3. ASSUME NEW o \in Seen \cup {source} \cup {NoSource} PROVE o.rv <= rev' /\ (o # NoSource => o.rv > 0)
  <2>1. o \in Source
    BY SeenTyped, Constants DEF Typed
  <2>2. o.rv \in Nat /\ rev \in Nat
    BY <2>1 DEF Source, Typed
  <2> QED
    BY <1>2, <2>2 DEF Revisions
<1>4. \A o \in Seen' \cup {source'} : o.rv <= rev' /\ (o # NoSource => o.rv > 0)
  BY <1>1, <1>3
<1> QED
  BY <1>4 DEF Revisions

LEMMA RevisionsPublished ==
    ASSUME Typed, Revisions, Published, task.source' \in Seen \cup {NoSource, source'}
    PROVE  Revisions'
<1>1. Seen' \subseteq Seen \cup {NoSource, source'}
  BY SeenPublished
<1>2. rev \in Nat /\ rev' = rev + 1 /\ sourceWatch \in Seq(Source) /\ source' \in Source /\ NoSource.rv = 0
  BY DEF Typed, Published, NoSource
<1>3. ASSUME NEW o \in Seen \cup {NoSource, source'} PROVE o.rv <= rev' /\ (o # NoSource => o.rv > 0)
  <2>1. o \in Source
    BY <1>2, SeenTyped, Constants DEF Typed
  <2>2. o.rv \in Nat
    BY <2>1 DEF Source
  <2>3. CASE o \in Seen
    BY <1>2, <2>2, <2>3 DEF Revisions
  <2> QED
    BY <1>2, <2>2, <2>3 DEF Published
<1>4. \A o \in Seen' \cup {source'} : o.rv <= rev' /\ (o # NoSource => o.rv > 0)
  BY <1>1, <1>3
<1>5. sourceWatch' # <<>> /\ sourceWatch'[Len(sourceWatch')] = source'
  BY <1>2, AppendFacts DEF Published
<1>6. ASSUME source' # NoSource, NEW o \in Seen PROVE o.rv # source'.rv
  <2>1. o.rv \in Nat
    BY SeenTyped DEF Source
  <2> QED
    BY <1>2, <1>6, <2>1 DEF Revisions, Published
<1>7. sourceCache' \in Seen /\ \A k \in 1..Len(sourceWatch') - 1 : sourceWatch'[k] \in Seen
  <2>1. \A k \in 1..Len(sourceWatch') - 1 : k \in DOMAIN sourceWatch /\ sourceWatch'[k] = sourceWatch[k]
    BY <1>2, AppendFacts DEF Published
  <2> QED
    BY <2>1 DEF Seen, Published
<1> QED
  BY <1>4, <1>5, <1>6, <1>7 DEF Revisions

LEMMA RevisionsDelivered ==
    ASSUME Typed, Revisions, DeliverSource
    PROVE  Revisions'
<1>1. sourceWatch \in Seq(Source) /\ sourceWatch # <<>> /\ sourceWatch' = Tail(sourceWatch)
      /\ sourceCache' = Head(sourceWatch) /\ source' = source /\ rev' = rev
  BY DEF Typed, DeliverSource, stored
<1>2. \A o \in Seen' \cup {source'} : o.rv <= rev' /\ (o # NoSource => o.rv > 0)
  BY <1>1, SeenDelivered DEF Revisions
<1>3. sourceWatch[Len(sourceWatch)] = source
  BY <1>1 DEF Revisions
<1>4. sourceWatch' = <<>> => sourceCache' = source'
  BY <1>1, <1>3, TailFacts
<1>5. sourceWatch' # <<>> => sourceWatch'[Len(sourceWatch')] = source'
  BY <1>1, <1>3, TailFacts
<1>6. ASSUME source' # NoSource, sourceWatch' # <<>>
      PROVE  /\ sourceCache'.rv # source'.rv
             /\ \A k \in 1..Len(sourceWatch') - 1 : sourceWatch'[k].rv # source'.rv
  <2>1. \A k \in 1..Len(sourceWatch) - 1 : sourceWatch[k].rv # source.rv
    BY <1>1, <1>6 DEF Revisions
  <2>2. 1 \in 1..Len(sourceWatch) - 1
    BY <1>1, <1>6, TailFacts
  <2>3. \A k \in 1..Len(sourceWatch') - 1 :
           k + 1 \in 1..Len(sourceWatch) - 1 /\ sourceWatch'[k] = sourceWatch[k + 1]
    BY <1>1, TailFacts
  <2> QED
    BY <1>1, <2>1, <2>2, <2>3, TailFacts
<1> QED
  BY <1>2, <1>4, <1>5, <1>6 DEF Revisions

(* The last version of every PodProtector under way. *)
LEMMA PprsKept ==
    ASSUME PprsDelivered, UNCHANGED <<ppr, pprWatch, pprCache>>
    PROVE  PprsDelivered'
  BY DEF PprsDelivered

LEMMA PprsPut ==
    ASSUME Typed, PprsDelivered, NEW n \in Names, NEW o \in Protector, PutPpr(n, o),
           UNCHANGED pprCache
    PROVE  PprsDelivered'
<1> DEFINE w == pprWatch  v == pprWatch'  e == [name |-> n, ppr |-> ppr'[n]]
<1>1. /\ pprWatch \in Seq([name : Names, ppr : Protector]) /\ e \in [name : Names, ppr : Protector]
      /\ pprWatch' = Append(pprWatch, e)
      /\ \A m \in Names : m # n => ppr'[m] = ppr[m]
  BY PutPprEffect DEF Typed
<1>2. /\ DOMAIN v = 1..Len(w) + 1 /\ DOMAIN w = 1..Len(w) /\ Len(w) \in Nat
      /\ \A k \in 1..Len(w) : v[k] = w[k]
      /\ v[Len(w) + 1] = e
  BY <1>1, AppendFacts
<1>3. e.name = n /\ e.ppr = ppr'[n]
  OBVIOUS
<1> HIDE DEF e
<1>4. ASSUME NEW m \in Names, m # n
      PROVE  /\ (\A k \in DOMAIN v : v[k].name # m) => pprCache[m] = ppr'[m]
             /\ \A k \in DOMAIN v : v[k].name = m /\ (\A j \in DOMAIN v : j > k => v[j].name # m)
                    => v[k].ppr = ppr'[m]
  <2>1. (\A k \in DOMAIN w : w[k].name # m) => pprCache[m] = ppr[m]
    BY DEF PprsDelivered
  <2>2. \A k \in DOMAIN w : w[k].name = m /\ (\A j \in DOMAIN w : j > k => w[j].name # m)
                    => w[k].ppr = ppr[m]
    BY DEF PprsDelivered
  <2> QED
    BY <1>1, <1>2, <1>3, <1>4, <2>1, <2>2
<1>5. /\ (\A k \in DOMAIN v : v[k].name # n) => pprCache[n] = ppr'[n]
      /\ \A k \in DOMAIN v : v[k].name = n /\ (\A j \in DOMAIN v : j > k => v[j].name # n)
                    => v[k].ppr = ppr'[n]
  BY <1>2, <1>3
<1> QED
  BY <1>4, <1>5 DEF PprsDelivered

LEMMA PprsDeliver ==
    ASSUME Typed, PprsDelivered, DeliverPpr
    PROVE  PprsDelivered' /\ pprCache' \in [Names -> Protector]
           /\ pprWatch' \in Seq([name : Names, ppr : Protector])
<1> DEFINE w == pprWatch  v == pprWatch'
<1>1. /\ w \in Seq([name : Names, ppr : Protector]) /\ w # <<>> /\ v = Tail(w) /\ ppr' = ppr
      /\ pprCache \in [Names -> Protector]
      /\ pprCache' = [pprCache EXCEPT ![Head(w).name] = Head(w).ppr]
  BY DEF Typed, DeliverPpr, stored
<1>2. /\ DOMAIN v = 1..Len(w) - 1 /\ DOMAIN w = 1..Len(w) /\ Len(w) \in Nat /\ Len(w) > 0
      /\ \A k \in 1..Len(w) - 1 : v[k] = w[k + 1]
      /\ Head(w) = w[1] /\ v \in Seq([name : Names, ppr : Protector])
      /\ Head(w) \in [name : Names, ppr : Protector]
  BY <1>1, TailFacts
<1>3. w[1].name \in Names /\ w[1].ppr \in Protector
  BY <1>2
<1>4. pprCache' \in [Names -> Protector] /\ pprCache'[w[1].name] = w[1].ppr
      /\ \A m \in Names : m # w[1].name => pprCache'[m] = pprCache[m]
  BY <1>1, <1>2, <1>3
<1>5. ASSUME NEW m \in Names, \A k \in DOMAIN v : v[k].name # m
      PROVE  pprCache'[m] = ppr[m]
  <2>1. \A k \in DOMAIN w : k > 1 => w[k].name # m
    <3> SUFFICES ASSUME NEW k \in DOMAIN w, k > 1 PROVE w[k].name # m
      OBVIOUS
    <3>1. k - 1 \in DOMAIN v /\ v[k - 1] = w[k]
      BY <1>2
    <3> QED
      BY <1>5, <3>1
  <2>2. CASE w[1].name = m
    BY <1>2, <1>4, <2>1, <2>2 DEF PprsDelivered
  <2>3. CASE w[1].name # m
    <3>1. \A k \in DOMAIN w : w[k].name # m
      BY <1>2, <2>1, <2>3
    <3> QED
      BY <1>4, <2>3, <3>1 DEF PprsDelivered
  <2> QED
    BY <2>2, <2>3
<1>6. ASSUME NEW m \in Names, NEW k \in DOMAIN v, v[k].name = m,
             \A j \in DOMAIN v : j > k => v[j].name # m
      PROVE  v[k].ppr = ppr[m]
  <2>1. k + 1 \in DOMAIN w /\ v[k] = w[k + 1]
    BY <1>2
  <2>2. ASSUME NEW j \in DOMAIN w, j > k + 1 PROVE w[j].name # m
    <3>1. j - 1 \in DOMAIN v /\ v[j - 1] = w[j] /\ j - 1 > k
      BY <1>2, <2>2
    <3> QED
      BY <1>6, <3>1
  <2> QED
    BY <1>6, <2>1, <2>2 DEF PprsDelivered
<1> QED
  BY <1>1, <1>2, <1>4, <1>5, <1>6 DEF PprsDelivered

-----------------------------------------------------------------------------
(***************************************************************************)
(* The invariants of the stored objects and of the versions under way, by  *)
(* what is stored.                                                         *)
(***************************************************************************)
StoreInv == Revisions /\ PprsDelivered /\ MarkedKept /\ Owned /\ SeenOwned

LEMMA NoSourceFacts ==
    /\ ~NoSource.fin /\ NoSource.rv = 0 /\ ~NoSource.terminating /\ Required(NoSource) = {}
    /\ NoPpr.rv = 0 /\ ~NoPpr.fin /\ ~NoPpr.terminating
  BY DEF NoSource, NoPpr, Required, GetRequiredProtectors

LEMMA StoreKept ==
    ASSUME Typed, StoreInv, UNCHANGED <<stored, erased, watches, caches>>,
           task.source' \in Seen \cup {NoSource}
    PROVE  StoreInv'
<1>1. source' = source /\ ppr' = ppr /\ rev' = rev /\ sourceWatch' = sourceWatch /\ pprWatch' = pprWatch
      /\ sourceCache' = sourceCache /\ pprCache' = pprCache /\ erased' = erased
  BY DEF stored, watches, caches
<1>2. Revisions' /\ PprsDelivered'
  BY <1>1, RevisionsKept, PprsKept DEF StoreInv, Typed
<1>3. MarkedKept' /\ Owned'
  BY <1>1 DEF StoreInv, MarkedKept, Owned
<1>4. SeenOwned'
  BY <1>1, SeenKept, NoSourceFacts DEF StoreInv, SeenOwned
<1> QED
  BY <1>2, <1>3, <1>4 DEF StoreInv

(* A deployment is stored that is still the owner of everything. *)
LEMMA StorePublished ==
    ASSUME Typed, StoreInv, Published, UNCHANGED <<ppr, pprWatch, pprCache>>,
           task.source' \in Seen \cup {NoSource, source'},
           ~erased' => ~erased,
           ~erased' => \A n \in Names : ppr[n] # NoPpr => source'.fin /\ ppr[n].owner = source'.uid,
           ~erased' => \A o \in Seen : o.fin /\ Required(o) # {} => source'.fin /\ o.uid = source'.uid
    PROVE  StoreInv'
<1>1. Revisions' /\ PprsDelivered'
  BY RevisionsPublished, PprsKept DEF StoreInv
<1>2. MarkedKept' /\ Owned'
  BY DEF StoreInv, MarkedKept, Owned
<1>3. SeenOwned'
  BY SeenPublished, NoSourceFacts DEF SeenOwned
<1> QED
  BY <1>1, <1>2, <1>3 DEF StoreInv

(* A PodProtector is stored that has the deployment as its owner. *)
LEMMA StorePut ==
    ASSUME Typed, StoreInv, NEW n \in Names, NEW o \in Protector, PutPpr(n, o),
           UNCHANGED <<source, sourceWatch, sourceCache, pprCache, erased>>,
           task.source' = task.source,
           ~erased => source.fin /\ o.owner = source.uid
    PROVE  StoreInv'
<1>1. Revisions'
  <2>1. rev' = rev + 1 /\ rev' \in Nat /\ rev \in Nat
    BY PutPprEffect DEF Typed
  <2>2. task.source' \in Seen
    BY DEF Seen
  <2> QED
    BY <2>1, <2>2, RevisionsKept DEF StoreInv
<1>2. PprsDelivered'
  BY PprsPut DEF StoreInv
<1>3. ppr'[n] = NoPpr \/ (ppr'[n].owner = o.owner /\ ppr'[n].fin = o.fin /\ ppr'[n].terminating = o.terminating
                          /\ ~(o.terminating /\ ~o.fin))
  <2>1. ppr'[n] = NoPpr \/ (ppr'[n] = [o EXCEPT !.rv = rev + 1] /\ ~(o.terminating /\ ~o.fin))
    BY PutPprEffect
  <2>2. ASSUME NEW x, x = [o EXCEPT !.rv = rev + 1]
        PROVE  x.owner = o.owner /\ x.fin = o.fin /\ x.terminating = o.terminating
    BY <2>2 DEF Protector
  <2> QED
    BY <2>1, <2>2
<1>4. \A m \in Names : m # n => ppr'[m] = ppr[m]
  BY PutPprEffect
<1>5. MarkedKept'
  BY <1>3, <1>4, NoSourceFacts DEF StoreInv, MarkedKept
<1>6. Owned'
  BY <1>3, <1>4 DEF StoreInv, Owned
<1>7. SeenOwned'
  BY SeenKept DEF StoreInv, SeenOwned, Seen
<1> QED
  BY <1>1, <1>2, <1>5, <1>6, <1>7 DEF StoreInv

(* Without a reconciliation under way there is little to say. *)
LEMMA WhenIdle ==
    ASSUME pc' = "idle", task' = Idle, rev' \in Nat,
           \A n \in Names : ppr'[n].rv <= rev' /\ (Calm' => ~ppr'[n].terminating)
    PROVE  /\ Busy' /\ RemovalFresh' /\ PprRevisions' /\ Located' /\ Ensured' /\ Progress'
           /\ NoneMarked' /\ Found' /\ Current'
<1>1. /\ Idle.source = NoSource /\ Idle.todo = {} /\ Idle.current = NoPpr
      /\ \A n \in Names : Idle.cached[n] = NoPpr
  BY DEF Idle
<1>2. Busy' /\ RemovalFresh' /\ Ensured' /\ Progress' /\ Found' /\ Current'
  BY DEF Busy, RemovalFresh, Ensured, Progress, Found, Current
<1>3. PprRevisions'
  BY <1>1, NoSourceFacts DEF PprRevisions
<1>4. Located'
  BY <1>1, NoSourceFacts DEF Located
<1>5. NoneMarked'
  BY <1>1, NoSourceFacts DEF NoneMarked
<1> QED
  BY <1>2, <1>3, <1>4, <1>5

-----------------------------------------------------------------------------
(* The steps of the world. *)
LEMMA FailedStep == ASSUME RestInv, Failed, changes' \in 0..MaxChanges PROVE RestInv'
<1>0. Typed /\ StoreInv
  BY DEF RestInv, SafeInv, StoreInv
<1>1. pc' = "idle" /\ task' = Idle /\ queued' = TRUE /\ source' = source /\ ppr' = ppr /\ rev' = rev
      /\ erased' = erased /\ meddled' = meddled /\ UNCHANGED <<sourceWatch, pprWatch, sourceCache, pprCache>>
  <2>1. queued' /\ pc' = "idle" /\ task' = Idle
    BY DEF Failed
  <2>2. source' = source /\ ppr' = ppr /\ rev' = rev /\ erased' = erased /\ meddled' = meddled
        /\ UNCHANGED <<sourceWatch, pprWatch, sourceCache, pprCache>>
    BY DEF Failed, stored, watches, caches
  <2> QED
    BY <2>1, <2>2
<1>2. Typed'
  BY <1>0, <1>1, Constants DEF Typed
<1>3. StoreInv'
  BY <1>0, <1>1, StoreKept, Constants DEF Failed
<1>4. \A n \in Names : ppr'[n].rv <= rev' /\ (Calm' => ~ppr'[n].terminating)
  BY <1>1 DEF RestInv, SafeInv, PprRevisions, NoneMarked, Calm
<1>5. Dealt'
  BY <1>1 DEF Dealt, Last
<1> QED
  BY <1>0, <1>1, <1>2, <1>3, <1>4, <1>5, WhenIdle DEF RestInv, SafeInv, StoreInv, Typed

LEMMA CrashStep == ASSUME RestInv, Crash, changes' \in 0..MaxChanges PROVE RestInv'
<1>0. Typed /\ StoreInv
  BY DEF RestInv, SafeInv, StoreInv
<1>1. pc' = "idle" /\ task' = Idle /\ queued' = (source # NoSource) /\ source' = source /\ ppr' = ppr /\ rev' = rev
      /\ erased' = erased /\ meddled' = meddled /\ sourceWatch' = <<>> /\ pprWatch' = <<>>
      /\ sourceCache' = source /\ pprCache' = ppr
  BY DEF Crash, stored
<1>2. Typed'
  BY <1>0, <1>1, Constants DEF Typed
<1>3. Seen' \subseteq {source, NoSource}
  BY <1>1, Constants DEF Seen
<1>4. Revisions'
  <2>1. source.rv <= rev /\ (source # NoSource => source.rv > 0) /\ 0 <= rev
    BY <1>0 DEF StoreInv, Revisions, Typed
  <2>2. \A o \in Seen' \cup {source'} : o.rv <= rev' /\ (o # NoSource => o.rv > 0)
    BY <1>1, <1>3, <2>1, NoSourceFacts
  <2> QED
    BY <1>1, <2>2 DEF Revisions
<1>5. PprsDelivered' /\ MarkedKept' /\ Owned'
  BY <1>0, <1>1 DEF StoreInv, PprsDelivered, MarkedKept, Owned
<1>6. SeenOwned'
  BY <1>1, <1>3, NoSourceFacts DEF SeenOwned
<1>7. \A n \in Names : ppr'[n].rv <= rev' /\ (Calm' => ~ppr'[n].terminating)
  BY <1>1 DEF RestInv, SafeInv, PprRevisions, NoneMarked, Calm
<1>8. Dealt'
  BY <1>1 DEF Dealt, Last
<1> QED
  BY <1>0, <1>1, <1>2, <1>4, <1>5, <1>6, <1>7, <1>8, WhenIdle DEF RestInv, SafeInv, StoreInv, Typed

(* The deployment is another one now: the reconciliation under way goes on as before. *)
LEMMA AnotherSource ==
    ASSUME RestInv, Published, UNCHANGED <<ppr, pprWatch, pprCache, pc, task, queued>>, StoreInv',
           changes' \in 0..MaxChanges, erased' \in BOOLEAN, meddled' \in BOOLEAN,
           Calm' => Calm,
           ~erased' => ~erased /\ (source.fin => source'.fin /\ source'.uid = source.uid)
    PROVE  RestInv'
<1>0. Typed /\ StoreInv /\ rev \in Nat /\ rev' = rev + 1 /\ sourceWatch \in Seq(Source) /\ task \in Task
  BY DEF RestInv, SafeInv, StoreInv, Published, Typed
<1>1. sourceWatch' # <<>>
  BY <1>0, SeenPublished
<1>2. Typed'
  <2>1. source' \in Source /\ rev' \in Nat /\ sourceWatch' \in Seq(Source) /\ sourceCache' \in Source
    BY <1>0 DEF Published, Typed
  <2> QED
    BY <1>0, <2>1 DEF Typed
<1>3. Busy' /\ Located' /\ Progress'
  BY DEF RestInv, SafeInv, Busy, Located, Progress
<1>4. RemovalFresh'
  <2>1. SUFFICES ASSUME task.source # NoSource, task.source.rv = source'.rv PROVE FALSE
    BY DEF RemovalFresh
  <2>2. task.source \in Seen /\ task.source \in Source
    BY <1>0, SeenTyped DEF Seen
  <2>3. task.source.rv \in Nat /\ task.source.rv > 0 /\ task.source.rv <= rev
    BY <1>0, <2>1, <2>2 DEF StoreInv, Revisions, Source
  <2> QED
    BY <1>0, <2>1, <2>3, NoSourceFacts DEF Published
<1>5. PprRevisions'
  <2>1. /\ task.current.rv \in Nat
        /\ \A n \in Names : ppr[n].rv \in Nat /\ task.cached[n].rv \in Nat
    BY <1>0 DEF Typed, Task, Protector
  <2>2. Based' = Based
    BY DEF Based
  <2>3. /\ task'.current.rv <= rev'
        /\ \A n \in Names : ppr'[n].rv <= rev' /\ task'.cached[n].rv <= rev'
    BY <1>0, <2>1 DEF RestInv, SafeInv, PprRevisions
  <2> QED
    BY <2>2, <2>3 DEF RestInv, SafeInv, PprRevisions
<1>6. Ensured'
  BY DEF RestInv, SafeInv, Ensured
<1>7. NoneMarked' /\ Found'
  BY DEF RestInv, NoneMarked, Found, AsFound
<1>8. Current' /\ Dealt'
  BY <1>1 DEF Current, Dealt, Last
<1> QED
  BY <1>2, <1>3, <1>4, <1>5, <1>6, <1>7, <1>8 DEF RestInv, SafeInv, StoreInv

LEMMA SourceChangedStep ==
    ASSUME RestInv, SourceChanged, changes' \in 0..MaxChanges
    PROVE  RestInv'
<1>0. Typed /\ StoreInv
  BY DEF RestInv, SafeInv, StoreInv
<1>1. PICK o \in Source :
        /\ PutSource(o)
        /\ \/ source # NoSource /\ o.fin = source.fin /\ o.uid = source.uid
           \/ source = NoSource /\ ~o.fin
        /\ UNCHANGED <<ppr, pprWatch, erased, meddled, caches, queued, pc, task>>
  BY DEF SourceChanged
<1>2. /\ rev' = rev + 1 /\ source' \in Source /\ sourceWatch' = Append(sourceWatch, source')
      /\ (source' = NoSource /\ ~o.fin) \/ source' = [o EXCEPT !.rv = rev + 1]
  BY <1>0, <1>1, PutSourceEffect
<1>3. \/ source' = NoSource /\ ~o.fin
      \/ source'.rv = rev + 1 /\ source'.fin = o.fin /\ source'.uid = o.uid
  <2>1. ASSUME NEW x, x = [o EXCEPT !.rv = rev + 1] PROVE x.rv = rev + 1 /\ x.fin = o.fin /\ x.uid = o.uid
    BY <2>1 DEF Source
  <2> QED
    BY <1>2, <2>1
<1>4. /\ UNCHANGED <<ppr, pprWatch, pprCache, pc, task, queued>> /\ sourceCache' = sourceCache
      /\ erased' = erased /\ meddled' = meddled
  BY <1>1 DEF caches
<1>5. Published
  BY <1>2, <1>3, <1>4 DEF Published
<1>6. source.fin => source'.fin /\ source'.uid = source.uid
  BY <1>1, <1>3, NoSourceFacts
<1>7. StoreInv'
  <2>1. task.source' \in Seen
    BY <1>4 DEF Seen
  <2>2. ~erased' => \A n \in Names : ppr[n] # NoPpr => source'.fin /\ ppr[n].owner = source'.uid
    BY <1>0, <1>4, <1>6 DEF StoreInv, Owned
  <2>3. ~erased' => \A v \in Seen : v.fin /\ Required(v) # {} => source'.fin /\ v.uid = source'.uid
    BY <1>0, <1>4, <1>6 DEF StoreInv, SeenOwned
  <2> QED
    BY <1>0, <1>4, <1>5, <2>1, <2>2, <2>3, StorePublished
<1>8. erased' \in BOOLEAN /\ meddled' \in BOOLEAN /\ (Calm' => Calm)
  BY <1>0, <1>4 DEF Typed, Calm
<1> QED
  BY <1>4, <1>5, <1>6, <1>7, <1>8, AnotherSource

LEMMA EraseStep ==
    ASSUME RestInv, EraseSource, changes' \in 0..MaxChanges
    PROVE  RestInv'
<1>0. Typed /\ StoreInv
  BY DEF RestInv, SafeInv, StoreInv
<1>1. /\ UNCHANGED <<ppr, pprWatch, pprCache, pc, task, queued>> /\ sourceCache' = sourceCache
      /\ erased' = TRUE /\ meddled' = meddled /\ rev' = rev + 1
      /\ source' = NoSource /\ sourceWatch' = Append(sourceWatch, source')
  BY DEF EraseSource, caches
<1>2. Published
  BY <1>1, Constants DEF Published
<1>3. task.source' \in Seen
  BY <1>1 DEF Seen
<1>4. StoreInv'
  BY <1>0, <1>1, <1>2, <1>3, StorePublished
<1>5. erased' \in BOOLEAN /\ meddled' \in BOOLEAN /\ (Calm' => Calm)
  BY <1>0, <1>1 DEF Typed, Calm
<1> QED
  BY <1>1, <1>2, <1>4, <1>5, AnotherSource

(* What is stored for a PodProtector, field by field. *)
LEMMA PutPprFields ==
    ASSUME Typed, NEW n \in Names, NEW o \in Protector, PutPpr(n, o)
    PROVE  \/ ppr'[n] = NoPpr /\ o.terminating /\ ~o.fin
           \/ /\ ppr'[n].rv = rev + 1 /\ ppr'[n] # NoPpr /\ Alike(ppr'[n], o)
              /\ ~(o.terminating /\ ~o.fin)
<1>1. \/ ppr'[n] = NoPpr /\ o.terminating /\ ~o.fin
      \/ ppr'[n] = [o EXCEPT !.rv = rev + 1] /\ ~(o.terminating /\ ~o.fin)
  BY PutPprEffect
<1>2. ASSUME NEW x, x = [o EXCEPT !.rv = rev + 1] PROVE x.rv = rev + 1 /\ Alike(x, o)
  BY <1>2 DEF Protector, Alike
<1>3. rev + 1 # NoPpr.rv
  BY NoSourceFacts DEF Typed
<1> QED
  BY <1>1, <1>2, <1>3

(* The revisions after a PodProtector is stored. *)
LEMMA PutPprRevisions ==
    ASSUME Typed, PprRevisions, NEW n \in Names, NEW o \in Protector, PutPpr(n, o)
    PROVE  /\ rev < rev' /\ rev' \in Nat /\ task.current.rv <= rev'
           /\ \A m \in Names : ppr'[m].rv <= rev' /\ task.cached[m].rv <= rev'
           /\ \A m \in Names : pc # "idle" /\ ppr'[m] # NoPpr /\ ppr'[m].rv = task.cached[m].rv
                                  => Alike(task.cached[m], ppr'[m])
           /\ ppr'[n] # NoPpr => ppr'[n].rv # task.current.rv
<1>1. rev \in Nat /\ rev' = rev + 1 /\ task.current.rv \in Nat
      /\ \A m \in Names : ppr[m].rv \in Nat /\ task.cached[m].rv \in Nat
  BY PutPprEffect DEF Typed, Task, Protector
<1>2. \A m \in Names : m # n => ppr'[m] = ppr[m]
  BY PutPprEffect
<1>3. ppr'[n] = NoPpr \/ ppr'[n].rv = rev + 1
  BY PutPprFields
<1>4. NoPpr.rv = 0
  BY NoSourceFacts
<1> QED
  BY <1>1, <1>2, <1>3, <1>4 DEF PprRevisions

LEMMA PprChangedStep ==
    ASSUME RestInv, PprChanged, changes' \in 0..MaxChanges
    PROVE  RestInv'
<1>0. Typed /\ StoreInv /\ PprRevisions
  BY DEF RestInv, SafeInv, StoreInv
<1>1. PICK n \in Names, o \in Protector :
        /\ ppr[n] # NoPpr /\ PutPpr(n, o)
        /\ o.fin = ppr[n].fin /\ o.owner = ppr[n].owner /\ o.spec = ppr[n].spec
        /\ o.terminating => ppr[n].terminating \/ meddled' \/ ppr[n].owner # source.uid
        /\ ppr[n].terminating => o.terminating
        /\ meddled => meddled'
        /\ meddled' \in BOOLEAN
        /\ UNCHANGED <<source, sourceWatch, erased, caches, queued, pc, task>>
  BY DEF PprChanged
<1>2. UNCHANGED <<source, sourceWatch, sourceCache, pprCache, erased, queued, pc, task>>
  BY <1>1 DEF caches
<1>3. ~erased => source.fin /\ ppr[n].owner = source.uid
  BY <1>0, <1>1 DEF StoreInv, Owned
<1>4. StoreInv'
  BY <1>0, <1>1, <1>2, <1>3, StorePut
<1>5. \A m \in Names : m # n => ppr'[m] = ppr[m]
  BY <1>0, <1>1, PutPprEffect
<1>6. \/ ppr'[n] = NoPpr /\ o.terminating /\ ~o.fin
      \/ ppr'[n].rv = rev + 1 /\ ppr'[n] # NoPpr /\ Alike(ppr'[n], o) /\ ~(o.terminating /\ ~o.fin)
  BY <1>0, <1>1, PutPprFields
<1>7. ppr'[n].fin => ppr[n].fin
  BY <1>1, <1>6, NoSourceFacts DEF Alike
<1>8. Calm' => Calm /\ ppr'[n] # NoPpr /\ ~ppr'[n].terminating /\ ppr'[n].spec = ppr[n].spec
  <2>1. SUFFICES ASSUME Calm'
                 PROVE  Calm /\ ppr'[n] # NoPpr /\ ~ppr'[n].terminating /\ ppr'[n].spec = ppr[n].spec
    OBVIOUS
  <2>2. Calm /\ ~meddled'
    BY <1>1, <1>2, <2>1 DEF Calm
  <2>3. ~o.terminating
    BY <1>1, <1>3, <2>2 DEF RestInv, NoneMarked, Calm
  <2> QED
    BY <1>1, <1>6, <2>2, <2>3 DEF Alike
<1>9. Typed'
  <2>1. rev' \in Nat /\ ppr' \in [Names -> Protector] /\ pprWatch' \in Seq([name : Names, ppr : Protector])
    BY <1>0, <1>1, PutPprEffect
  <2> QED
    BY <1>0, <1>1, <1>2, <2>1 DEF Typed
<1>10. Busy' /\ RemovalFresh' /\ Located' /\ Ensured' /\ Current'
  BY <1>2 DEF RestInv, SafeInv, Busy, RemovalFresh, Located, Ensured, Current, Last
<1>11. PprRevisions'
  <2>1. /\ task'.current.rv <= rev'
        /\ \A m \in Names : ppr'[m].rv <= rev' /\ task'.cached[m].rv <= rev'
        /\ pc' # "idle" => \A m \in Names : ppr'[m] # NoPpr /\ ppr'[m].rv = task'.cached[m].rv
                                 => Alike(task'.cached[m], ppr'[m])
    BY <1>0, <1>1, <1>2, PutPprRevisions
  <2>2. ASSUME pc \in {"cells", "sync", "unfinalize"}, Based' PROVE Alike(task.current, ppr'[task.name])
    <3>1. CASE task.name = n
      BY <1>0, <1>1, <1>2, <2>2, <3>1, PutPprRevisions DEF Based
    <3>2. CASE task.name # n
      <4>1. task.name \in Names
        BY <1>0 DEF Typed, Task
      <4>2. ppr'[task.name] = ppr[task.name]
        BY <1>5, <3>2, <4>1
      <4>3. Based
        BY <1>2, <2>2, <4>2 DEF Based
      <4> QED
        BY <1>0, <2>2, <4>2, <4>3 DEF PprRevisions
    <3> QED
      BY <3>1, <3>2
  <2> QED
    BY <1>2, <2>1, <2>2 DEF PprRevisions
<1>12. Progress'
  <2>1. \A m \in Names : ppr'[m].fin => ppr[m].fin
    BY <1>5, <1>7
  <2>2. task.todo \subseteq Names /\ task.name \in Names
    BY <1>0 DEF Typed, Task
  <2>3. \A m \in Names : ppr[m] = NoPpr => ppr'[m] = NoPpr
    BY <1>1, <1>5
  <2> QED
    BY <1>2, <2>1, <2>2, <2>3 DEF RestInv, SafeInv, Progress
<1>13. NoneMarked'
  BY <1>2, <1>5, <1>8 DEF RestInv, NoneMarked
<1>14. \A m \in Names : Calm' => Calm /\ (ppr'[m] = NoPpr <=> ppr[m] = NoPpr) /\ ppr'[m].spec = ppr[m].spec
  BY <1>1, <1>5, <1>8
<1>15. Found'
  <2>1. task.todo \subseteq Names
    BY <1>0 DEF Typed, Task
  <2> QED
    BY <1>2, <1>14, <2>1 DEF RestInv, Found, AsFound
<1>16. Dealt'
  BY <1>2, <1>14 DEF RestInv, Dealt, AsRequired, Last
<1> QED
  BY <1>4, <1>9, <1>10, <1>11, <1>12, <1>13, <1>15, <1>16 DEF RestInv, SafeInv, StoreInv

-----------------------------------------------------------------------------
(* The informers. *)
LEMMA DeliverSourceStep == ASSUME RestInv, DeliverSource PROVE RestInv'
<1>0. Typed /\ StoreInv
  BY DEF RestInv, SafeInv, StoreInv
<1>1. /\ UNCHANGED <<source, ppr, rev, changes, erased, meddled, pprWatch, pprCache, pc, task>>
      /\ sourceWatch # <<>> /\ sourceCache' = Head(sourceWatch) /\ sourceWatch' = Tail(sourceWatch)
      /\ queued' = TRUE
  BY DEF DeliverSource, stored, history
<1>2. Typed'
  <2>1. sourceCache' \in Source /\ sourceWatch' \in Seq(Source)
    BY <1>0, <1>1, TailFacts DEF Typed
  <2> QED
    BY <1>0, <1>1, <2>1 DEF Typed
<1>3. StoreInv'
  <2>1. Revisions' /\ PprsDelivered'
    BY <1>0, <1>1, RevisionsDelivered, PprsKept DEF StoreInv
  <2>2. MarkedKept' /\ Owned'
    BY <1>0, <1>1 DEF StoreInv, MarkedKept, Owned
  <2>3. SeenOwned'
    BY <1>0, <1>1, SeenDelivered DEF StoreInv, SeenOwned
  <2> QED
    BY <2>1, <2>2, <2>3 DEF StoreInv
<1>4. RemovalFresh'
  BY <1>1 DEF RestInv, SafeInv, RemovalFresh
<1>5. Busy' /\ Located' /\ Ensured' /\ Progress' /\ NoneMarked' /\ Found' /\ PprRevisions'
  <2>1. Based' = Based /\ Calm' = Calm
    BY <1>1 DEF Based, Calm
  <2> QED
    BY <1>1, <2>1 DEF RestInv, SafeInv, Busy, Located, Ensured, Progress, NoneMarked, Found, AsFound, PprRevisions
<1>6. Current' /\ Dealt'
  BY <1>1 DEF Current, Dealt, Last
<1> QED
  BY <1>2, <1>3, <1>4, <1>5, <1>6 DEF RestInv, SafeInv, StoreInv

LEMMA DeliverPprStep == ASSUME RestInv, DeliverPpr PROVE RestInv'
<1>0. Typed /\ StoreInv
  BY DEF RestInv, SafeInv, StoreInv
<1>1. UNCHANGED <<source, ppr, rev, changes, erased, meddled, sourceWatch, sourceCache, queued, pc, task>>
  BY DEF DeliverPpr, stored, history
<1>2. PprsDelivered' /\ pprCache' \in [Names -> Protector] /\ pprWatch' \in Seq([name : Names, ppr : Protector])
  BY <1>0, PprsDeliver DEF StoreInv
<1>3. Typed'
  BY <1>0, <1>1, <1>2 DEF Typed
<1>4. Seen' = Seen /\ Based' = Based /\ Calm' = Calm /\ Last' = Last
  BY <1>1 DEF Seen, Based, Calm, Last
<1>5. Revisions' /\ MarkedKept' /\ Owned' /\ SeenOwned'
  BY <1>0, <1>1, <1>4 DEF StoreInv, Revisions, MarkedKept, Owned, SeenOwned
<1>6. Busy' /\ RemovalFresh' /\ PprRevisions' /\ Located' /\ Ensured' /\ Progress'
  BY <1>1, <1>4 DEF RestInv, SafeInv, Busy, RemovalFresh, PprRevisions, Located, Ensured, Progress
<1>7. NoneMarked' /\ Found' /\ Current' /\ Dealt'
  BY <1>1, <1>4 DEF RestInv, NoneMarked, Found, AsFound, Current, Dealt, AsRequired
<1> QED
  BY <1>2, <1>3, <1>5, <1>6, <1>7 DEF RestInv, SafeInv

-----------------------------------------------------------------------------
(* A reconciliation starts from caches of which that of the PodProtectors is current. *)
LEMMA StartStep == ASSUME RestInv, StartReconcile, ~PprLag PROVE RestInv'
<1>0. Typed /\ StoreInv
  BY DEF RestInv, SafeInv, StoreInv
<1> DEFINE todo == Required(sourceCache) \cup {n \in Names : pprCache[n] # NoPpr}
<1>1. /\ UNCHANGED <<source, ppr, rev, changes, erased, meddled, sourceWatch, pprWatch, sourceCache, pprCache>>
      /\ pprWatch = <<>> /\ queued' = FALSE /\ pc' = "pick"
  BY DEF StartReconcile, stored, history, watches, caches
<1>2. task' = [Idle EXCEPT !.source = sourceCache, !.cached = pprCache, !.needsRemoval = TRUE, !.todo = todo]
  BY DEF StartReconcile, Required
<1>3. pprCache = ppr
  <2>1. \A n \in Names : pprCache[n] = ppr[n]
    BY <1>0, <1>1 DEF StoreInv, PprsDelivered
  <2> QED
    BY <1>0, <2>1 DEF Typed
<1>4. todo \subseteq Names
  BY <1>0, RequiredNames DEF Typed
<1> HIDE DEF todo
<1>5. /\ task' \in Task /\ task'.source = sourceCache /\ task'.cached = ppr /\ task'.needsRemoval
      /\ task'.todo = todo /\ task'.current = NoPpr
  <2>1. sourceCache \in Source /\ pprCache \in [Names -> Protector] /\ TRUE \in BOOLEAN
    BY <1>0 DEF Typed
  <2>2. task' \in Task
    BY <1>2, <1>4, <2>1, Constants DEF Task
  <2> QED
    BY <1>2, <1>3, <2>2 DEF Idle
<1>6. Typed'
  BY <1>0, <1>1, <1>5 DEF Typed
<1>7. StoreInv'
  <2>1. task.source' \in Seen
    BY <1>5 DEF Seen
  <2> QED
    BY <1>0, <1>1, <2>1, StoreKept DEF stored, watches, caches
<1>8. Busy' /\ Ensured'
  BY <1>1, <1>5 DEF Busy, Ensured
<1>9. RemovalFresh'
  <2>1. SUFFICES ASSUME sourceCache # NoSource, sourceCache.rv = source.rv
                 PROVE  sourceCache = source /\ sourceWatch = <<>>
    BY <1>1, <1>5 DEF RemovalFresh
  <2>2. sourceCache \in Seen /\ sourceCache.rv \in Nat
    BY <1>0 DEF Seen, Typed, Source
  <2>3. source # NoSource
    BY <1>0, <2>1, <2>2, NoSourceFacts DEF StoreInv, Revisions
  <2> QED
    BY <1>0, <2>1, <2>3 DEF StoreInv, Revisions
<1>10. PprRevisions'
  <2>1. rev' \in Nat /\ \A n \in Names : ppr'[n].rv <= rev'
    BY <1>1, <1>6 DEF RestInv, SafeInv, PprRevisions, Typed
  <2> QED
    BY <1>1, <1>5, <2>1, NoSourceFacts DEF PprRevisions, Alike
<1>11. Located'
  BY <1>0, <1>1, <1>5 DEF Located, StoreInv, MarkedKept
<1>12. Progress'
  BY <1>1, <1>3, <1>5 DEF Progress, todo
<1>13. NoneMarked' /\ Found'
  BY <1>1, <1>5 DEF RestInv, NoneMarked, Found, AsFound, Calm
<1>14. Current'
  BY <1>0, <1>1, <1>5 DEF Current, Last, StoreInv, Revisions
<1>15. Dealt'
  <2>1. SUFFICES ASSUME Last', NEW n \in Names, n \notin todo PROVE AsRequired(n)'
    BY <1>5 DEF Dealt
  <2>2. sourceCache = source
    BY <1>0, <1>1, <2>1 DEF Last, StoreInv, Revisions
  <2> QED
    BY <1>1, <1>3, <2>1, <2>2 DEF AsRequired, todo
<1> QED
  BY <1>6, <1>7, <1>8, <1>9, <1>10, <1>11, <1>12, <1>13, <1>14, <1>15 DEF RestInv, SafeInv, StoreInv

(***************************************************************************)
(* A step of a reconciliation that stores nothing: what it does not touch. *)
(***************************************************************************)
LEMMA Moved ==
    ASSUME RestInv, UNCHANGED <<stored, history, watches, caches, queued>>, pc # "idle",
           pc' \in {"pick", "ensure", "create", "cells", "sync", "unfinalize", "delete"},
           task' \in Task, task.source' = task.source, task.cached' = task.cached,
           task.needsRemoval' => task.needsRemoval,
           task.needsRemoval' \/ task.source # NoSource
    PROVE  /\ UNCHANGED <<source, ppr, rev, sourceWatch, queued>>
           /\ Typed' /\ StoreInv' /\ Busy' /\ RemovalFresh' /\ Current'
           /\ Calm' = Calm /\ Last' = Last /\ erased' = erased
<1>0. Typed /\ StoreInv
  BY DEF RestInv, SafeInv, StoreInv
<1>1. UNCHANGED <<source, ppr, rev, changes, erased, meddled, sourceWatch, pprWatch, sourceCache, pprCache, queued>>
  BY DEF stored, history, watches, caches
<1>2. Typed'
  BY <1>0, <1>1 DEF Typed
<1>3. StoreInv'
  <2>1. task.source' \in Seen
    BY DEF Seen
  <2> QED
    BY <1>0, <1>1, <2>1, StoreKept DEF stored, watches, caches
<1>4. Busy' /\ RemovalFresh'
  BY <1>1 DEF RestInv, SafeInv, Busy, RemovalFresh
<1>5. Calm' = Calm /\ Last' = Last
  BY <1>1 DEF Calm, Last
<1>6. Current'
  BY <1>1, <1>5 DEF RestInv, Current
<1> QED
  BY <1>1, <1>2, <1>3, <1>4, <1>5, <1>6

(* The next PodProtector: what was dealt with leaves the list. *)
LEMMA NextNameFields ==
    ASSUME task \in Task
    PROVE  /\ NextName \in Task /\ NextName.source = task.source /\ NextName.cached = task.cached
           /\ NextName.todo = task.todo \ {task.name} /\ NextName.current = task.current
           /\ NextName.needsRemoval = task.needsRemoval
  BY DEF NextName, Task

LEMMA KeepFields ==
    ASSUME NEW t \in Task
    PROVE  /\ KeepFinalizer(t) \in Task /\ KeepFinalizer(t).source = t.source
           /\ KeepFinalizer(t).cached = t.cached /\ KeepFinalizer(t).todo = t.todo
           /\ KeepFinalizer(t).name = t.name /\ KeepFinalizer(t).current = t.current
           /\ ~KeepFinalizer(t).needsRemoval
  BY DEF KeepFinalizer, Task

(* Back to the list of names without the name that was dealt with. *)
LEMMA ToPick ==
    ASSUME RestInv, UNCHANGED <<stored, history, watches, caches, queued>>, pc # "idle",
           pc' = "pick", task' \in Task, task.source' = task.source, task.cached' = task.cached,
           task.current' = task.current, NEW n \in Names, task.todo' = task.todo \ {n},
           task.needsRemoval' => task.needsRemoval,
           task.needsRemoval' \/ task.source # NoSource,
           task.needsRemoval' /\ task.source # NoSource => n \notin Required(task.source) /\ ppr[n] = NoPpr,
           pc = "delete" => n = task.name,
           Calm /\ Last /\ source # NoSource => AsRequired(n)
    PROVE  RestInv'
<1>0. /\ UNCHANGED <<source, ppr, rev, sourceWatch, queued>>
      /\ Typed' /\ StoreInv' /\ Busy' /\ RemovalFresh' /\ Current'
      /\ Calm' = Calm /\ Last' = Last /\ erased' = erased
  BY Moved
<1>1. PprRevisions'
  BY <1>0 DEF RestInv, SafeInv, PprRevisions
<1>2. Located' /\ Ensured'
  BY DEF RestInv, SafeInv, Located, Ensured
<1>3. Progress'
  BY <1>0 DEF RestInv, SafeInv, Progress
<1>4. NoneMarked' /\ Found'
  BY <1>0 DEF RestInv, NoneMarked, Found, AsFound
<1>5. Dealt'
  <2>1. \A m \in Names : AsRequired(m)' = AsRequired(m)
    BY <1>0 DEF AsRequired
  <2> QED
    BY <1>0, <2>1 DEF RestInv, Dealt
<1> QED
  BY <1>0, <1>1, <1>2, <1>3, <1>4, <1>5 DEF RestInv, SafeInv, StoreInv

(* On with the PodProtector at hand: the list stays as it is. *)
LEMMA ToLabel ==
    ASSUME RestInv, UNCHANGED <<stored, history, watches, caches, queued>>, pc # "idle", pc # "delete",
           pc' \in {"ensure", "create", "cells", "sync", "unfinalize", "delete"},
           task' \in Task, task.source' = task.source, task.cached' = task.cached,
           task.todo' = task.todo,
           task.needsRemoval' => task.needsRemoval, task.source # NoSource,
           Located', Ensured', Found',
           task'.current.rv <= rev,
           pc' \in {"cells", "sync", "unfinalize"} /\ Based' => Alike(task'.current, ppr[task'.name]),
           pc' = "delete" => /\ ~ppr[task'.name].fin /\ ~task'.current.terminating
    PROVE  RestInv'
<1>0. /\ UNCHANGED <<source, ppr, rev, sourceWatch, queued>>
      /\ Typed' /\ StoreInv' /\ Busy' /\ RemovalFresh' /\ Current'
      /\ Calm' = Calm /\ Last' = Last /\ erased' = erased
  BY Moved
<1>1. PprRevisions'
  BY <1>0 DEF RestInv, SafeInv, PprRevisions
<1>2. Progress'
  BY <1>0 DEF RestInv, SafeInv, Progress
<1>3. NoneMarked'
  BY <1>0 DEF RestInv, NoneMarked
<1>4. Dealt'
  <2>1. \A m \in Names : AsRequired(m)' = AsRequired(m)
    BY <1>0 DEF AsRequired
  <2> QED
    BY <1>0, <2>1 DEF RestInv, Dealt
<1> QED
  BY <1>0, <1>1, <1>2, <1>3, <1>4 DEF RestInv, SafeInv, StoreInv

LEMMA ErrorStep == ASSUME RestInv, EndWithError PROVE RestInv'
<1>1. Failed
  BY DEF EndWithError, End, Failed, history
<1>2. changes' \in 0..MaxChanges
  BY DEF EndWithError, history, RestInv, SafeInv, Typed
<1> QED
  BY <1>1, <1>2, FailedStep

(***************************************************************************)
(* The reconciliation stores the PodProtector at hand: what it does not    *)
(* touch, and how it goes on.                                              *)
(***************************************************************************)
LEMMA Written ==
    ASSUME RestInv, NEW o \in Protector, PutPpr(task.name, o), pc # "idle",
           UNCHANGED <<source, sourceWatch, history, caches, queued>>,
           pc' \in {"pick", "sync", "delete"},
           task' \in Task, task.source' = task.source, task.cached' = task.cached,
           task.needsRemoval' = task.needsRemoval, task.source # NoSource,
           ~erased => source.fin /\ o.owner = source.uid
    PROVE  /\ task.name \in Names /\ \A m \in Names : m # task.name => ppr'[m] = ppr[m]
           /\ Typed' /\ StoreInv' /\ Busy' /\ RemovalFresh' /\ Current'
           /\ Calm' = Calm /\ Last' = Last /\ erased' = erased
           /\ \A m \in Names : m # task.name => AsRequired(m)' = AsRequired(m)
           /\ task.current.rv <= rev' /\ rev' = rev + 1
           /\ \A m \in Names : ppr'[m].rv <= rev' /\ task.cached'[m].rv <= rev'
           /\ \A m \in Names : ppr'[m] # NoPpr /\ ppr'[m].rv = task.cached'[m].rv
                                  => Alike(task.cached'[m], ppr'[m])
<1>0. Typed /\ StoreInv /\ PprRevisions /\ task \in Task /\ task.name \in Names
  BY DEF RestInv, SafeInv, StoreInv, Typed, Task
<1>1. UNCHANGED <<source, sourceWatch, sourceCache, pprCache, changes, erased, meddled, queued>>
  BY DEF history, caches
<1>2. /\ rev' = rev + 1 /\ rev' \in Nat /\ ppr' \in [Names -> Protector]
      /\ pprWatch' \in Seq([name : Names, ppr : Protector])
      /\ \A m \in Names : m # task.name => ppr'[m] = ppr[m]
  BY <1>0, PutPprEffect
<1>3. Typed'
  BY <1>0, <1>1, <1>2 DEF Typed
<1>4. StoreInv'
  BY <1>0, <1>1, StorePut
<1>5. Busy' /\ RemovalFresh'
  BY <1>1 DEF RestInv, SafeInv, Busy, RemovalFresh
<1>6. Calm' = Calm /\ Last' = Last
  BY <1>1 DEF Calm, Last
<1>7. Current'
  BY <1>1, <1>6 DEF RestInv, Current
<1>8. \A m \in Names : m # task.name => AsRequired(m)' = AsRequired(m)
  BY <1>1, <1>2 DEF AsRequired
<1> QED
  BY <1>0, <1>1, <1>2, <1>3, <1>4, <1>5, <1>6, <1>7, <1>8, PutPprRevisions

LEMMA WrittenToPick ==
    ASSUME RestInv, NEW o \in Protector, PutPpr(task.name, o), pc # "idle",
           UNCHANGED <<source, sourceWatch, history, caches, queued>>,
           pc' = "pick", task' = NextName, task.source # NoSource,
           ~erased => source.fin /\ o.owner = source.uid,
           Calm => ~ppr'[task.name].terminating,
           task.needsRemoval => task.name \notin Required(task.source) /\ ppr'[task.name] = NoPpr,
           \A m \in Names : m = task.name /\ Calm /\ Last /\ source # NoSource => AsRequired(m)'
    PROVE  RestInv'
<1>0. /\ task' \in Task /\ task'.source = task.source /\ task'.cached = task.cached
      /\ task'.todo = task.todo \ {task.name} /\ task'.current = task.current
      /\ task'.needsRemoval = task.needsRemoval
  BY NextNameFields DEF RestInv, SafeInv, Typed
<1>1. /\ task.name \in Names /\ \A m \in Names : m # task.name => ppr'[m] = ppr[m]
      /\ Typed' /\ StoreInv' /\ Busy' /\ RemovalFresh' /\ Current'
      /\ Calm' = Calm /\ Last' = Last /\ erased' = erased
      /\ \A m \in Names : m # task.name => AsRequired(m)' = AsRequired(m)
      /\ task.current.rv <= rev' /\ rev' = rev + 1
      /\ \A m \in Names : ppr'[m].rv <= rev' /\ task.cached'[m].rv <= rev'
      /\ \A m \in Names : ppr'[m] # NoPpr /\ ppr'[m].rv = task.cached'[m].rv
                             => Alike(task.cached'[m], ppr'[m])
  BY <1>0, Written
<1>2. task.todo \subseteq Names
  BY DEF RestInv, SafeInv, Typed, Task
<1>3. PprRevisions'
  BY <1>0, <1>1 DEF PprRevisions
<1>4. Located' /\ Ensured'
  BY <1>0 DEF RestInv, SafeInv, Located, Ensured
<1>5. Progress'
  BY <1>0, <1>1, <1>2 DEF RestInv, SafeInv, Progress
<1>6. NoneMarked'
  BY <1>0, <1>1 DEF RestInv, NoneMarked
<1>7. Found'
  BY <1>0, <1>1, <1>2 DEF RestInv, Found, AsFound
<1>8. Dealt'
  BY <1>0, <1>1 DEF RestInv, Dealt
<1> QED
  BY <1>1, <1>3, <1>4, <1>5, <1>6, <1>7, <1>8 DEF RestInv, SafeInv, StoreInv

LEMMA WrittenToLabel ==
    ASSUME RestInv, NEW o \in Protector, PutPpr(task.name, o), pc \notin {"idle", "pick"},
           UNCHANGED <<source, sourceWatch, history, caches, queued>>,
           pc' \in {"sync", "delete"},
           task' \in Task, task.source' = task.source, task.cached' = task.cached,
           task.todo' = task.todo, task.name' = task.name,
           task.needsRemoval' = task.needsRemoval,
           ~erased => source.fin /\ o.owner = source.uid,
           Located', Ensured', Found',
           ppr'[task.name].fin => task.cached[task.name].fin,
           Calm => ~ppr'[task.name].terminating /\ (pc' = "delete" => ~task'.current.terminating),
           task'.current.rv = rev + 1,
           pc' = "sync" /\ ppr'[task.name] # NoPpr => Alike(task'.current, ppr'[task.name]),
           pc' = "delete" => /\ ~ppr'[task.name].fin
                             /\ task'.current.terminating => ppr'[task.name] = NoPpr
    PROVE  RestInv'
<1>0. task.source # NoSource /\ task.name \in task.todo /\ task.todo \subseteq Names /\ rev + 1 <= rev + 1
  BY DEF RestInv, SafeInv, Located, Typed, Task
<1>1. /\ task.name \in Names /\ \A m \in Names : m # task.name => ppr'[m] = ppr[m]
      /\ Typed' /\ StoreInv' /\ Busy' /\ RemovalFresh' /\ Current'
      /\ Calm' = Calm /\ Last' = Last /\ erased' = erased
      /\ \A m \in Names : m # task.name => AsRequired(m)' = AsRequired(m)
      /\ task.current.rv <= rev' /\ rev' = rev + 1
      /\ \A m \in Names : ppr'[m].rv <= rev' /\ task.cached'[m].rv <= rev'
      /\ \A m \in Names : ppr'[m] # NoPpr /\ ppr'[m].rv = task.cached'[m].rv
                             => Alike(task.cached'[m], ppr'[m])
  BY <1>0, Written
<1>2. PprRevisions'
  BY <1>0, <1>1 DEF PprRevisions, Based
<1>3. Progress'
  BY <1>0, <1>1 DEF RestInv, SafeInv, Progress
<1>4. NoneMarked'
  BY <1>0, <1>1 DEF RestInv, NoneMarked
<1>5. Dealt'
  BY <1>0, <1>1 DEF RestInv, Dealt
<1> QED
  BY <1>1, <1>2, <1>3, <1>4, <1>5 DEF RestInv, SafeInv, StoreInv

-----------------------------------------------------------------------------
(* The steps of a reconciliation, one by one. *)
LEMMA TryReconcileStep ==
    ASSUME RestInv, NEW n \in Names, TryReconcile(n)
    PROVE  RestInv'
<1> DEFINE t == [task EXCEPT !.name = n, !.current = task.cached[n], !.hasChange = FALSE]
           u == [task EXCEPT !.todo = @ \ {n}]
<1>0. /\ Typed /\ StoreInv /\ task \in Task /\ pc = "pick" /\ n \in task.todo
      /\ UNCHANGED <<stored, history, watches, caches>>
  BY DEF RestInv, SafeInv, StoreInv, Typed, TryReconcile
<1>1. /\ t \in Task /\ t.source = task.source /\ t.cached = task.cached /\ t.todo = task.todo
      /\ t.name = n /\ t.current = task.cached[n] /\ t.needsRemoval = task.needsRemoval
  BY <1>0 DEF Task
<1>2. /\ u \in Task /\ u.source = task.source /\ u.cached = task.cached /\ u.todo = task.todo \ {n}
      /\ u.current = task.current /\ u.needsRemoval = task.needsRemoval
  BY <1>0 DEF Task
<1>3. \/ task.source = NoSource /\ Go("pick", u)
      \/ task.source # NoSource /\ n \in Required(task.source) /\ Go("ensure", t)
      \/ task.source # NoSource /\ n \notin Required(task.source) /\ Go("unfinalize", t)
  BY DEF TryReconcile, Required
<1> HIDE DEF t, u
<1>4. CASE task.source = NoSource /\ Go("pick", u)
  <2>1. pc' = "pick" /\ task' = u /\ queued' = queued
    BY <1>4 DEF Go
  <2>2. Last => source = NoSource
    BY <1>0, <1>4 DEF RestInv, Current
  <2>3. task.needsRemoval
    BY <1>0, <1>4 DEF RestInv, SafeInv, Busy
  <2> QED
    BY <1>0, <1>2, <1>4, <2>1, <2>2, <2>3, ToPick
<1>5. CASE task.source # NoSource /\ (Go("ensure", t) \/ Go("unfinalize", t))
           /\ (pc' = "ensure" <=> n \in Required(task.source))
  <2>1. pc' \in {"ensure", "unfinalize"} /\ task' = t /\ queued' = queued
    BY <1>5 DEF Go
  <2>2. UNCHANGED <<ppr, rev>>
    BY <1>0 DEF stored
  <2>3. Located'
    BY <1>0, <1>1, <1>5, <2>1 DEF RestInv, SafeInv, Located
  <2>4. Ensured'
    BY <2>1 DEF Ensured
  <2>5. Found'
    <3>1. Calm' = Calm
      BY <1>0 DEF Calm, history
    <3> QED
      BY <1>0, <1>1, <2>1, <2>2, <3>1 DEF RestInv, Found, AsFound
  <2>6. task.cached[n].rv <= rev
    BY DEF RestInv, SafeInv, PprRevisions
  <2>7. Based' => Alike(task'.current, ppr[task'.name])
    BY <1>0, <1>1, <2>1, <2>2 DEF Based, RestInv, SafeInv, PprRevisions
  <2> QED
    BY <1>0, <1>1, <1>5, <2>1, <2>3, <2>4, <2>5, <2>6, <2>7, ToLabel
<1> QED
  BY <1>3, <1>4, <1>5 DEF Go

(* What ensureSourceFinalizer leads to: the PodProtector is created or brought up to date. *)
LEMMA EnsuredFacts ==
    ASSUME RestInv, pc = "ensure"
    PROVE  /\ task \in Task /\ task.source \in Source /\ task.source # NoSource
           /\ task.name \in Names /\ task.name \in task.todo
           /\ task.name \in Required(task.source) /\ task.current = task.cached[task.name]
           /\ task.current.rv <= rev
           /\ Calm => AsFound(task.name)
<1>1. task \in Task /\ task.source \in Source /\ task.name \in Names
  BY DEF RestInv, SafeInv, Typed, Task
<1>2. /\ task.source # NoSource /\ task.name \in task.todo /\ task.name \in Required(task.source)
      /\ task.current = task.cached[task.name]
  BY DEF RestInv, SafeInv, Located
<1>3. task.current.rv <= rev
  BY DEF RestInv, SafeInv, PprRevisions
<1>4. Calm => AsFound(task.name)
  BY <1>2 DEF RestInv, Found
<1> QED
  BY <1>1, <1>2, <1>3, <1>4

LEMMA EnsureStep ==
    ASSUME RestInv, EnsureSourceFinalizer
    PROVE  RestInv'
<1> DEFINE next == IF task.current = NoPpr THEN "create" ELSE "cells"
           kept == KeepFinalizer(task)
           o    == [task.source EXCEPT !.fin = TRUE]
<1>0. /\ Typed /\ StoreInv /\ pc = "ensure"
      /\ task \in Task /\ task.source \in Source /\ task.source # NoSource
      /\ task.name \in Names /\ task.name \in task.todo
      /\ task.name \in Required(task.source) /\ task.current = task.cached[task.name]
      /\ task.current.rv <= rev
      /\ Calm => AsFound(task.name)
  BY EnsuredFacts DEF RestInv, SafeInv, StoreInv, EnsureSourceFinalizer
<1>1. /\ kept \in Task /\ kept.source = task.source /\ kept.cached = task.cached /\ kept.todo = task.todo
      /\ kept.name = task.name /\ kept.current = task.current /\ ~kept.needsRemoval
  BY <1>0, KeepFields
<1>2. next \in {"create", "cells"} /\ (next = "create" <=> task.current = NoPpr)
  OBVIOUS
<1>3. \/ task.source.fin /\ Go(next, kept) /\ UNCHANGED <<stored, history, watches, caches>>
      \/ /\ ~task.source.fin /\ task.source.terminating /\ task.current = NoPpr
         /\ Go("pick", KeepFinalizer(NextName)) /\ UNCHANGED <<stored, history, watches, caches>>
      \/ /\ ~task.source.fin /\ ~task.source.terminating /\ source.rv = task.source.rv
         /\ PutSource(o) /\ Go(next, [kept EXCEPT !.source = [o EXCEPT !.rv = rev + 1]])
         /\ UNCHANGED <<ppr, pprWatch, history, caches>>
      \/ EndWithError
  BY DEF EnsureSourceFinalizer
<1>4. CASE task.source.fin /\ Go(next, kept) /\ UNCHANGED <<stored, history, watches, caches>>
  <2> HIDE DEF next, kept, o
  <2>1. pc' = next /\ task' = kept /\ queued' = queued
    BY <1>4 DEF Go
  <2>2. UNCHANGED <<source, ppr, rev, erased, meddled>>
    BY <1>4 DEF stored, history
  <2>3. Located'
    BY <1>0, <1>1, <1>2, <2>1 DEF RestInv, SafeInv, Located
  <2>4. Ensured'
    <3>1. task.source \in Seen
      BY DEF Seen
    <3>2. ~erased => source.fin /\ task.source.uid = source.uid
      BY <1>0, <1>4, <3>1 DEF StoreInv, SeenOwned
    <3> QED
      BY <1>1, <1>2, <2>1, <2>2, <3>2 DEF Ensured
  <2>5. Found'
    BY <1>0, <1>1, <1>2, <2>1, <2>2 DEF RestInv, Found, AsFound, Calm
  <2>6. Based' => Alike(task'.current, ppr[task'.name])
    BY <1>0, <1>1, <2>1, <2>2 DEF Based, RestInv, SafeInv, PprRevisions
  <2> QED
    BY <1>0, <1>1, <1>2, <1>4, <2>1, <2>3, <2>4, <2>5, <2>6, ToLabel
<1>5. CASE /\ ~task.source.fin /\ task.source.terminating /\ task.current = NoPpr
           /\ Go("pick", KeepFinalizer(NextName)) /\ UNCHANGED <<stored, history, watches, caches>>
  <2> DEFINE t == KeepFinalizer(NextName)
  <2>1. /\ t \in Task /\ t.source = task.source /\ t.cached = task.cached
        /\ t.todo = task.todo \ {task.name} /\ t.current = task.current /\ ~t.needsRemoval
    BY <1>0, NextNameFields, KeepFields
  <2>2. pc' = "pick" /\ task' = t /\ queued' = queued
    BY <1>5 DEF Go
  <2>3. Last => AsRequired(task.name)
    BY <1>0, <1>5 DEF RestInv, Current, AsRequired
  <2> HIDE DEF t
  <2> QED
    BY <1>0, <1>5, <2>1, <2>2, <2>3, ToPick
<1>6. CASE /\ ~task.source.fin /\ ~task.source.terminating /\ source.rv = task.source.rv
           /\ PutSource(o) /\ Go(next, [kept EXCEPT !.source = [o EXCEPT !.rv = rev + 1]])
           /\ UNCHANGED <<ppr, pprWatch, history, caches>>
  <2>1. o \in Source /\ o.fin /\ ~o.terminating /\ o.matches = task.source.matches
        /\ o.replicas = task.source.replicas
    BY <1>0, <1>6 DEF Source
  <2>2. source' = [o EXCEPT !.rv = rev + 1] /\ rev' = rev + 1 /\ source' \in Source
        /\ sourceWatch' = Append(sourceWatch, source') /\ rev' \in Nat /\ sourceWatch' \in Seq(Source)
    <3>1. PutSource(o)
      BY <1>6
    <3> HIDE DEF o
    <3> QED
      BY <1>0, <2>1, <3>1, PutSourceEffect
  <2> HIDE DEF next, kept, o
  <2>3. source'.rv = rev + 1 /\ source'.fin /\ ~source'.terminating /\ source'.matches = task.source.matches
        /\ source'.replicas = task.source.replicas
    BY <2>1, <2>2 DEF Source
  <2>4. source' # NoSource /\ rev \in Nat
    BY <1>0, <2>3, NoSourceFacts DEF Typed
  <2>5. Required(source') = Required(task.source)
    BY <1>0, <1>6, <2>3, <2>4 DEF Required, GetRequiredProtectors
  <2>6. /\ pc' = next /\ queued' = queued /\ task' = [kept EXCEPT !.source = source']
    BY <1>6, <2>2 DEF Go
  <2>7. /\ task' \in Task /\ task'.source = source' /\ task'.cached = task.cached /\ task'.todo = task.todo
        /\ task'.name = task.name /\ task'.current = task.current /\ ~task'.needsRemoval
    BY <1>1, <2>2, <2>6 DEF Task
  <2>8. UNCHANGED <<ppr, pprWatch, sourceCache, pprCache, changes, erased, meddled>>
    BY <1>6 DEF history, caches
  <2>9. Published /\ sourceWatch' # <<>>
    <3>1. Published
      BY <2>2, <2>3, <2>8 DEF Published
    <3> QED
      BY <1>0, <3>1, SeenPublished
  <2>10. task.source = source /\ ~source.fin
    BY <1>0, <1>6 DEF RestInv, SafeInv, RemovalFresh
  <2>11. StoreInv'
    <3>1. ~erased => \A n \in Names : ppr[n] # NoPpr => FALSE
      BY <1>0, <2>10 DEF StoreInv, Owned
    <3>2. ~erased => \A v \in Seen : v.fin /\ Required(v) # {} => FALSE
      BY <1>0, <2>10 DEF StoreInv, SeenOwned
    <3> QED
      BY <1>0, <2>7, <2>8, <2>9, <3>1, <3>2, StorePublished
  <2>12. Typed'
    BY <1>0, <1>2, <2>2, <2>6, <2>7, <2>8 DEF Typed
  <2>13. Busy' /\ RemovalFresh' /\ Ensured'
    BY <1>2, <2>3, <2>4, <2>6, <2>7 DEF Busy, RemovalFresh, Ensured
  <2>14. PprRevisions'
    <3>1. /\ task.current.rv \in Nat
          /\ \A n \in Names : ppr[n].rv \in Nat /\ task.cached[n].rv \in Nat
      BY <1>0 DEF Typed, Task, Protector
    <3>2. /\ task'.current.rv <= rev'
          /\ \A n \in Names : ppr'[n].rv <= rev' /\ task'.cached[n].rv <= rev'
      BY <1>0, <2>2, <2>4, <2>7, <2>8, <3>1 DEF RestInv, SafeInv, PprRevisions
    <3>3. Based' => Alike(task'.current, ppr'[task'.name])
      BY <1>0, <2>7, <2>8 DEF Based, RestInv, SafeInv, PprRevisions
    <3> QED
      BY <1>0, <2>7, <2>8, <3>2, <3>3 DEF RestInv, SafeInv, PprRevisions
  <2>15. Located'
    BY <1>0, <1>2, <2>4, <2>5, <2>6, <2>7 DEF RestInv, SafeInv, Located
  <2>16. Progress'
    BY <1>0, <1>2, <2>6, <2>7, <2>8 DEF RestInv, SafeInv, Progress
  <2>17. NoneMarked' /\ Found'
    BY <1>0, <1>2, <2>6, <2>7, <2>8 DEF RestInv, NoneMarked, Found, AsFound, Calm
  <2>18. Current' /\ Dealt'
    BY <2>9 DEF Current, Dealt, Last
  <2> QED
    BY <2>11, <2>12, <2>13, <2>14, <2>15, <2>16, <2>17, <2>18 DEF RestInv, SafeInv, StoreInv
<1> QED
  BY <1>3, <1>4, <1>5, <1>6, ErrorStep

LEMMA CreateStep ==
    ASSUME RestInv, CreateProtector
    PROVE  RestInv'
<1> DEFINE o == GeneratePodProtector(task.source)
<1>0. /\ Typed /\ pc = "create" /\ task \in Task /\ task.source \in Source /\ task.name \in Names
  BY DEF RestInv, SafeInv, Typed, Task, CreateProtector
<1>1. CASE /\ PutPpr(task.name, o) /\ Go("pick", NextName)
           /\ UNCHANGED <<source, sourceWatch, history, caches>>
  <2>1. /\ o \in Protector /\ o.owner = task.source.uid /\ ~o.terminating
        /\ o.spec = Spec_MinAvailable(task.source)
    BY <1>0, GeneratedType
  <2> HIDE DEF o
  <2>2. pc' = "pick" /\ task' = NextName /\ queued' = queued /\ source' = source
    BY <1>1 DEF Go
  <2>3. /\ ~task.needsRemoval /\ task.source # NoSource /\ task.name \in Required(task.source)
        /\ ~erased => source.fin /\ task.source.uid = source.uid
    BY <1>0 DEF RestInv, SafeInv, Ensured, Located
  <2>4. ppr'[task.name] # NoPpr /\ Alike(ppr'[task.name], o)
    BY <1>0, <1>1, <2>1, PutPprFields
  <2>5. ASSUME Calm, Last PROVE \A m \in Names : m = task.name => AsRequired(m)'
    BY <1>0, <2>1, <2>2, <2>3, <2>4, <2>5 DEF AsRequired, Calm, RestInv, Current, Alike
  <2> QED
    BY <1>0, <1>1, <2>1, <2>2, <2>3, <2>4, <2>5, WrittenToPick DEF Alike
<1> QED
  BY <1>1, ErrorStep DEF CreateProtector

(* What the reconciliation knows of the PodProtector at hand if its update is accepted. *)
LEMMA BasedFacts ==
    ASSUME RestInv, pc \in {"cells", "sync", "unfinalize"}, Based
    PROVE  /\ ppr[task.name] # NoPpr /\ Alike(task.current, ppr[task.name])
           /\ task.name \in Names /\ task.name \in task.todo /\ task.source # NoSource
           /\ task \in Task /\ task.current \in Protector
           /\ ~erased => source.fin /\ task.current.owner = source.uid
           /\ task.current.fin => task.cached[task.name].fin
           /\ Calm => ~task.current.terminating
<1>1. /\ task \in Task /\ task.name \in Names /\ task.current \in Protector
      /\ task.name \in task.todo /\ task.source # NoSource
  BY DEF RestInv, SafeInv, Typed, Task, Located
<1>2. ppr[task.name] # NoPpr /\ Alike(task.current, ppr[task.name])
  BY DEF RestInv, SafeInv, PprRevisions, Based
<1>3. ~erased => source.fin /\ task.current.owner = source.uid
  BY <1>1, <1>2 DEF RestInv, SafeInv, Owned, Alike
<1>4. task.current.fin => task.cached[task.name].fin
  BY <1>1, <1>2 DEF RestInv, SafeInv, Progress, Alike
<1>5. Calm => ~task.current.terminating
  BY <1>1, <1>2 DEF RestInv, NoneMarked, Alike
<1> QED
  BY <1>1, <1>2, <1>3, <1>4, <1>5

LEMMA CellsStep ==
    ASSUME RestInv, TryRemoveCells
    PROVE  RestInv'
<1> DEFINE cleared == [task.current EXCEPT !.cell = FALSE]
           u == [task EXCEPT !.hasChange = TRUE, !.current.removal = FALSE]
           w == [cleared EXCEPT !.removal = FALSE, !.rv = rev + 1]
           t == [task EXCEPT !.hasChange = TRUE, !.current = w]
<1>0. /\ Typed /\ pc = "cells" /\ task \in Task /\ task.current \in Protector /\ rev \in Nat
      /\ task.source # NoSource /\ task.name \in Names
  BY DEF RestInv, SafeInv, Typed, Task, Located, TryRemoveCells
<1>1. \/ Go("sync", task) /\ UNCHANGED <<stored, history, watches, caches>>
      \/ Go("sync", u) /\ UNCHANGED <<stored, history, watches, caches>>
      \/ Based /\ PutPpr(task.name, cleared) /\ Go("sync", t) /\ UNCHANGED <<source, sourceWatch, history, caches>>
      \/ EndWithError
  BY DEF TryRemoveCells
<1>2. /\ u \in Task /\ u.source = task.source /\ u.cached = task.cached /\ u.todo = task.todo
      /\ u.name = task.name /\ u.needsRemoval = task.needsRemoval
      /\ Alike(u.current, task.current) /\ u.current.rv = task.current.rv
  <2>1. /\ [task.current EXCEPT !.removal = FALSE] \in Protector
        /\ Alike([task.current EXCEPT !.removal = FALSE], task.current)
        /\ [task.current EXCEPT !.removal = FALSE].rv = task.current.rv
    BY <1>0 DEF Protector, Alike
  <2>2. u = [task EXCEPT !.hasChange = TRUE, !.current = [task.current EXCEPT !.removal = FALSE]]
    BY <1>0 DEF Task
  <2> HIDE DEF u
  <2> QED
    BY <1>0, <2>1, <2>2 DEF Task
<1>3. /\ cleared \in Protector /\ Alike(cleared, task.current)
      /\ w \in Protector /\ Alike(w, task.current) /\ w.rv = rev + 1
  <2>1. rev + 1 \in Nat
    BY <1>0
  <2> QED
    BY <1>0, <2>1 DEF Protector, Alike
<1> HIDE DEF u, w, cleared
<1>4. /\ t \in Task /\ t.source = task.source /\ t.cached = task.cached /\ t.todo = task.todo
      /\ t.name = task.name /\ t.needsRemoval = task.needsRemoval /\ t.current = w
  BY <1>0, <1>3 DEF Task
<1> HIDE DEF t
<1>5. ASSUME NEW x \in {task, u}, Go("sync", x), UNCHANGED <<stored, history, watches, caches>>
      PROVE  RestInv'
  <2>1. pc' = "sync" /\ task' = x /\ queued' = queued
    BY <1>5 DEF Go
  <2>2. /\ x \in Task /\ x.source = task.source /\ x.cached = task.cached /\ x.todo = task.todo
        /\ x.name = task.name /\ x.needsRemoval = task.needsRemoval
        /\ Alike(x.current, task.current) /\ x.current.rv = task.current.rv
    BY <1>0, <1>2 DEF Alike
  <2>3. UNCHANGED <<source, ppr, rev, erased, meddled>>
    BY <1>5 DEF stored, history
  <2>4. Located'
    BY <1>0, <2>1, <2>2 DEF RestInv, SafeInv, Located
  <2>5. Ensured'
    BY <1>0, <2>1, <2>2, <2>3 DEF RestInv, SafeInv, Ensured
  <2>6. Found'
    BY <1>0, <2>1, <2>2, <2>3 DEF RestInv, Found, AsFound, Calm, Alike
  <2>7. Based' => Alike(task'.current, ppr[task'.name])
    BY <1>0, <2>1, <2>2, <2>3 DEF Based, RestInv, SafeInv, PprRevisions, Alike
  <2>8. task'.current.rv <= rev
    BY <2>1, <2>2 DEF RestInv, SafeInv, PprRevisions
  <2> QED
    BY <1>0, <1>5, <2>1, <2>2, <2>4, <2>5, <2>6, <2>7, <2>8, ToLabel
<1>6. CASE Based /\ PutPpr(task.name, cleared) /\ Go("sync", t) /\ UNCHANGED <<source, sourceWatch, history, caches>>
  <2>1. pc' = "sync" /\ task' = t /\ queued' = queued /\ UNCHANGED <<source, erased, meddled>>
    BY <1>6 DEF Go, history
  <2>2. /\ task.name \in task.todo
        /\ ~erased => source.fin /\ cleared.owner = source.uid
        /\ cleared.fin => task.cached[task.name].fin
        /\ Calm => ~cleared.terminating
        /\ cleared.spec = task.current.spec
    BY <1>0, <1>3, <1>6, BasedFacts DEF Alike
  <2>3. /\ ppr'[task.name] = NoPpr => cleared.terminating /\ ~cleared.fin
        /\ ppr'[task.name] # NoPpr => Alike(ppr'[task.name], cleared)
    BY <1>0, <1>3, <1>6, PutPprFields
  <2>4. \A m \in Names : m # task.name => ppr'[m] = ppr[m]
    BY <1>0, <1>3, <1>6, PutPprEffect
  <2>5. Located'
    BY <1>0, <1>4, <2>1 DEF RestInv, SafeInv, Located
  <2>6. Ensured'
    BY <1>0, <1>4, <2>1 DEF RestInv, SafeInv, Ensured
  <2>7. Found'
    <3>1. w.spec = task.current.spec
      BY <1>3 DEF Alike
    <3>2. ASSUME Calm PROVE ppr'[task.name] # NoPpr /\ ppr'[task.name].spec = task.current.spec
      BY <2>2, <2>3, <3>2 DEF Alike
    <3>3. Calm' = Calm /\ task.todo \subseteq Names
      BY <1>0, <2>1 DEF Calm, Task
    <3> QED
      BY <1>0, <1>4, <2>1, <2>4, <3>1, <3>2, <3>3 DEF RestInv, Found, AsFound
  <2>8. ppr'[task.name].fin => task.cached[task.name].fin
    BY <2>2, <2>3, NoSourceFacts DEF Alike
  <2>9. Calm => ~ppr'[task.name].terminating
    BY <2>2, <2>3, NoSourceFacts DEF Alike
  <2>10. ppr'[task.name] # NoPpr => Alike(task'.current, ppr'[task.name])
    BY <1>3, <1>4, <2>1, <2>3 DEF Alike
  <2> QED
    BY <1>0, <1>3, <1>4, <1>6, <2>1, <2>2, <2>5, <2>6, <2>7, <2>8, <2>9, <2>10, WrittenToLabel
<1> QED
  BY <1>1, <1>5, <1>6, ErrorStep

LEMMA SyncStep ==
    ASSUME RestInv, SyncProtector
    PROVE  RestInv'
<1> DEFINE expected == Spec_MinAvailable(task.source)
           o == [task.current EXCEPT !.spec = expected]
<1>0. /\ Typed /\ pc = "sync" /\ task \in Task /\ task.source \in Source /\ task.name \in Names
      /\ task.current \in Protector /\ task.source # NoSource /\ task.name \in Required(task.source)
      /\ task.name \in task.todo
      /\ ~task.needsRemoval /\ (~erased => source.fin)
      /\ Last => task.source = source
  <2>1. pc = "sync" /\ Typed
    BY DEF RestInv, SafeInv, SyncProtector
  <2>2. task \in Task /\ task.source \in Source /\ task.name \in Names /\ task.current \in Protector
    BY <2>1 DEF Typed, Task
  <2> QED
    BY <2>1, <2>2 DEF RestInv, SafeInv, Located, Ensured, Current
<1>1. \/ /\ task.current.spec = expected /\ Go("pick", NextName)
         /\ UNCHANGED <<stored, history, watches, caches>>
      \/ /\ Based /\ PutPpr(task.name, o) /\ Go("pick", NextName)
         /\ UNCHANGED <<source, sourceWatch, history, caches>>
      \/ EndWithError
  BY DEF SyncProtector
<1>2. expected \in Nat
  BY <1>0, MinAvailableNat
<1> HIDE DEF expected
<1>3. /\ o \in Protector /\ o.spec = expected /\ o.owner = task.current.owner /\ o.fin = task.current.fin
      /\ o.terminating = task.current.terminating
  BY <1>0, <1>2 DEF Protector
<1> HIDE DEF o
<1>4. CASE /\ task.current.spec = expected /\ Go("pick", NextName)
           /\ UNCHANGED <<stored, history, watches, caches>>
  <2>1. pc' = "pick" /\ task' = NextName /\ queued' = queued
    BY <1>4 DEF Go
  <2>2. ASSUME Calm, Last PROVE AsRequired(task.name)
    <3>1. AsFound(task.name) /\ task.cached[task.name] # NoPpr /\ task.current.spec = task.cached[task.name].spec
      BY <1>0, <2>2 DEF RestInv, Found
    <3> QED
      BY <1>0, <1>4, <2>2, <3>1 DEF AsRequired, AsFound, Calm, expected
  <2> QED
    BY <1>0, <1>4, <2>1, <2>2, NextNameFields, ToPick
<1>5. CASE /\ Based /\ PutPpr(task.name, o) /\ Go("pick", NextName)
           /\ UNCHANGED <<source, sourceWatch, history, caches>>
  <2>1. pc' = "pick" /\ task' = NextName /\ queued' = queued /\ source' = source
    BY <1>5 DEF Go
  <2>2. /\ ~erased => source.fin /\ o.owner = source.uid
        /\ Calm => ~o.terminating
    BY <1>0, <1>3, <1>5, BasedFacts
  <2>3. /\ ppr'[task.name] = NoPpr => o.terminating
        /\ ppr'[task.name] # NoPpr => Alike(ppr'[task.name], o)
    BY <1>0, <1>3, <1>5, PutPprFields
  <2>4. Calm => ppr'[task.name] # NoPpr /\ ~ppr'[task.name].terminating
    BY <2>2, <2>3 DEF Alike
  <2>5. ASSUME Calm, Last PROVE \A m \in Names : m = task.name => AsRequired(m)'
    BY <1>0, <1>3, <2>1, <2>3, <2>4, <2>5 DEF AsRequired, Calm, Alike, expected
  <2> QED
    BY <1>0, <1>3, <1>5, <2>1, <2>2, <2>4, <2>5, WrittenToPick
<1> QED
  BY <1>1, <1>4, <1>5, ErrorStep

LEMMA UnfinalizeStep ==
    ASSUME RestInv, UnfinalizeProtector
    PROVE  RestInv'
<1> DEFINE o == [task.current EXCEPT !.fin = FALSE]
           w == [o EXCEPT !.rv = rev + 1]
           t == [task EXCEPT !.current = w]
<1>0. /\ Typed /\ pc = "unfinalize" /\ task \in Task /\ task.current \in Protector /\ rev \in Nat
      /\ task.source # NoSource /\ task.name \in Names /\ task.name \in task.todo
      /\ task.name \notin Required(task.source) /\ task.current = task.cached[task.name]
      /\ task.current.rv <= rev
      /\ task.current.terminating => task.current.fin
  <2>1. pc = "unfinalize" /\ Typed
    BY DEF RestInv, SafeInv, UnfinalizeProtector
  <2>2. task \in Task /\ task.name \in Names /\ task.current \in Protector /\ rev \in Nat
    BY <2>1 DEF Typed, Task
  <2> QED
    BY <2>1, <2>2 DEF RestInv, SafeInv, Located, PprRevisions
<1>1. \/ ~task.current.fin /\ Go("delete", task) /\ UNCHANGED <<stored, history, watches, caches>>
      \/ /\ Based /\ PutPpr(task.name, o) /\ Go("delete", t)
         /\ UNCHANGED <<source, sourceWatch, history, caches>>
      \/ EndWithError
  BY DEF UnfinalizeProtector
<1>2. /\ o \in Protector /\ o.owner = task.current.owner /\ ~o.fin
      /\ o.terminating = task.current.terminating
      /\ w \in Protector /\ w.rv = rev + 1 /\ w.terminating = task.current.terminating
  <2>1. rev + 1 \in Nat
    BY <1>0
  <2> QED
    BY <1>0, <2>1 DEF Protector
<1> HIDE DEF o, w
<1>3. /\ t \in Task /\ t.source = task.source /\ t.cached = task.cached /\ t.todo = task.todo
      /\ t.name = task.name /\ t.needsRemoval = task.needsRemoval /\ t.current = w
  BY <1>0, <1>2 DEF Task
<1> HIDE DEF t
<1>4. CASE ~task.current.fin /\ Go("delete", task) /\ UNCHANGED <<stored, history, watches, caches>>
  <2>1. pc' = "delete" /\ task' = task /\ queued' = queued
    BY <1>4 DEF Go
  <2>2. UNCHANGED <<ppr, rev, erased, meddled>>
    BY <1>4 DEF stored, history
  <2>3. Located'
    BY <1>0, <2>1 DEF RestInv, SafeInv, Located
  <2>4. Ensured' /\ Found'
    BY <1>0, <2>1, <2>2 DEF Ensured, RestInv, Found, AsFound, Calm
  <2>5. ~ppr[task'.name].fin /\ ~task'.current.terminating
    BY <1>0, <1>4, <2>1 DEF RestInv, SafeInv, Progress
  <2> QED
    BY <1>0, <1>4, <2>1, <2>3, <2>4, <2>5, ToLabel
<1>5. CASE /\ Based /\ PutPpr(task.name, o) /\ Go("delete", t)
           /\ UNCHANGED <<source, sourceWatch, history, caches>>
  <2>1. pc' = "delete" /\ task' = t /\ queued' = queued /\ UNCHANGED <<source, erased, meddled>>
    BY <1>5 DEF Go, history
  <2>2. /\ ~erased => source.fin /\ o.owner = source.uid
        /\ Calm => ~o.terminating
    BY <1>0, <1>2, <1>5, BasedFacts
  <2>3. /\ ppr'[task.name] = NoPpr \/ (Alike(ppr'[task.name], o) /\ ~o.terminating)
    BY <1>0, <1>2, <1>5, PutPprFields
  <2>4. \A m \in Names : m # task.name => ppr'[m] = ppr[m]
    BY <1>0, <1>2, <1>5, PutPprEffect
  <2>5. ~ppr'[task.name].fin /\ ~ppr'[task.name].terminating
    BY <1>2, <2>3, NoSourceFacts DEF Alike
  <2>6. Located' /\ Ensured'
    BY <1>0, <1>3, <2>1 DEF RestInv, SafeInv, Located, Ensured
  <2>7. Found'
    <3>1. Calm' = Calm /\ task.todo \subseteq Names
      BY <1>0, <2>1 DEF Calm, Task
    <3> QED
      BY <1>0, <1>3, <2>1, <2>4, <3>1 DEF RestInv, Found, AsFound
  <2> QED
    BY <1>0, <1>2, <1>3, <1>5, <2>1, <2>2, <2>3, <2>5, <2>6, <2>7, WrittenToLabel
<1> QED
  BY <1>1, <1>4, <1>5, ErrorStep

LEMMA DeleteStep ==
    ASSUME RestInv, DeleteProtector
    PROVE  RestInv'
<1>0. /\ Typed /\ pc = "delete" /\ task \in Task /\ task.source # NoSource /\ task.name \in Names
      /\ task.name \notin Required(task.source)
      /\ ~ppr[task.name].fin
      /\ task.current.terminating => ppr[task.name] = NoPpr
      /\ Last => task.source = source
  <2>1. pc = "delete" /\ Typed
    BY DEF RestInv, SafeInv, DeleteProtector
  <2>2. task \in Task /\ task.name \in Names
    BY <2>1 DEF Typed, Task
  <2> QED
    BY <2>1, <2>2 DEF RestInv, SafeInv, Located, Progress, Current
<1> DEFINE o == [ppr[task.name] EXCEPT !.terminating = TRUE]
<1>1. CASE task.current.terminating /\ Go("pick", NextName) /\ UNCHANGED <<stored, history, watches, caches>>
  <2>1. pc' = "pick" /\ task' = NextName /\ queued' = queued
    BY <1>1 DEF Go
  <2>2. Last => AsRequired(task.name)
    BY <1>0, <1>1 DEF AsRequired
  <2> QED
    BY <1>0, <1>1, <2>1, <2>2, NextNameFields, ToPick
<1>2. CASE /\ ppr[task.name] # NoPpr /\ PutPpr(task.name, o) /\ Go("pick", NextName)
           /\ UNCHANGED <<source, sourceWatch, history, caches>>
  <2>1. pc' = "pick" /\ task' = NextName /\ queued' = queued /\ source' = source
    BY <1>2 DEF Go
  <2>2. ppr[task.name] \in Protector
    BY <1>0 DEF Typed
  <2>3. o \in Protector /\ o.terminating /\ ~o.fin /\ o.owner = ppr[task.name].owner
    BY <1>0, <2>2 DEF Protector
  <2>4. PutPpr(task.name, o)
    BY <1>2
  <2> HIDE DEF o
  <2>5. ppr'[task.name] = NoPpr
    BY <1>0, <2>3, <2>4, PutPprFields
  <2>6. ~erased => source.fin /\ o.owner = source.uid
    BY <1>0, <1>2, <2>3 DEF RestInv, SafeInv, Owned
  <2>7. Last => \A m \in Names : m = task.name => AsRequired(m)'
    BY <1>0, <2>1, <2>5 DEF AsRequired
  <2> QED
    BY <1>0, <1>2, <2>1, <2>3, <2>4, <2>5, <2>6, <2>7, WrittenToPick, NoSourceFacts
<1> QED
  BY <1>1, <1>2, ErrorStep DEF DeleteProtector

LEMMA RemoveStep ==
    ASSUME RestInv, RemoveSourceFinalizer
    PROVE  RestInv'
<1> DEFINE needed == task.needsRemoval /\ task.source.fin
           o == [task.source EXCEPT !.fin = FALSE]
<1>0. /\ Typed /\ StoreInv /\ pc = "pick" /\ task.todo = {} /\ task.source \in Source
      /\ rev \in Nat /\ sourceWatch \in Seq(Source)
  BY DEF RestInv, SafeInv, StoreInv, Typed, Task, RemoveSourceFinalizer
<1>1. \/ End(FALSE) /\ UNCHANGED <<stored, history, watches, caches>>
      \/ /\ needed /\ source.rv = task.source.rv /\ PutSource(o) /\ End(FALSE)
         /\ UNCHANGED <<ppr, pprWatch, history, caches>>
      \/ EndWithError
  BY DEF RemoveSourceFinalizer
<1>2. ASSUME End(FALSE) PROVE pc' = "idle" /\ task' = Idle /\ queued' = queued
  <2>1. pc' = "idle" /\ task' = Idle /\ queued' = (queued \/ FALSE) /\ queued \in BOOLEAN
    BY <1>0, <1>2 DEF End, Typed
  <2> QED
    BY <2>1
<1>3. CASE End(FALSE) /\ UNCHANGED <<stored, history, watches, caches>>
  <2>1. UNCHANGED <<source, ppr, rev, changes, erased, meddled, sourceWatch, pprWatch, sourceCache, pprCache>>
    BY <1>3 DEF stored, history, watches, caches
  <2>2. pc' = "idle" /\ task' = Idle /\ queued' = queued
    BY <1>2, <1>3
  <2>3. Typed'
    BY <1>0, <2>1, <2>2, Constants DEF Typed
  <2>4. StoreInv'
    BY <1>0, <1>3, <2>1, <2>2, StoreKept, Constants
  <2>5. Calm' = Calm /\ Last' = Last
    BY <2>1, <2>2 DEF Calm, Last
  <2>6. \A n \in Names : ppr'[n].rv <= rev' /\ (Calm' => ~ppr'[n].terminating)
    BY <2>1, <2>5 DEF RestInv, SafeInv, PprRevisions, NoneMarked
  <2>7. Dealt'
    <3>1. \A n \in Names : AsRequired(n)' = AsRequired(n)
      BY <2>1 DEF AsRequired
    <3> QED
      BY <1>0, <2>1, <2>5, <3>1 DEF RestInv, Dealt
  <2> QED
    BY <1>0, <2>1, <2>2, <2>3, <2>4, <2>6, <2>7, WhenIdle DEF RestInv, SafeInv, StoreInv
<1>4. CASE /\ needed /\ source.rv = task.source.rv /\ PutSource(o) /\ End(FALSE)
           /\ UNCHANGED <<ppr, pprWatch, history, caches>>
  <2>1. UNCHANGED <<ppr, pprWatch, sourceCache, pprCache, changes, erased, meddled>>
    BY <1>4 DEF history, caches
  <2>2. pc' = "idle" /\ task' = Idle /\ queued' = queued
    BY <1>2, <1>4
  <2>3. task.needsRemoval /\ task.source # NoSource
    BY <1>4, NoSourceFacts
  <2>4. task.source = source /\ sourceWatch = <<>> /\ sourceCache = source
    BY <1>0, <1>4, <2>3 DEF RestInv, SafeInv, RemovalFresh
  <2>5. Required(source) = {} /\ \A n \in Names : ppr[n] = NoPpr
    BY <1>0, <2>3, <2>4 DEF RestInv, SafeInv, Progress
  <2>6. o \in Source /\ ~o.fin
    BY <1>0 DEF Source
  <2>7. PutSource(o)
    BY <1>4
  <2> HIDE DEF o
  <2>8. /\ source' \in Source /\ rev' = rev + 1 /\ rev' \in Nat /\ sourceWatch' \in Seq(Source)
        /\ sourceWatch' = Append(sourceWatch, source')
        /\ source' = NoSource \/ source' = [o EXCEPT !.rv = rev + 1]
    BY <1>0, <2>6, <2>7, PutSourceEffect
  <2>9. source' = NoSource \/ source'.rv = rev + 1
    BY <2>6, <2>8 DEF Source
  <2>10. Published
    BY <2>1, <2>8, <2>9 DEF Published
  <2>11. Typed'
    BY <1>0, <2>1, <2>2, <2>8, Constants DEF Typed
  <2>12. StoreInv'
    <3>1. Seen = {source}
      BY <2>4 DEF Seen
    <3>2. task.source' = NoSource
      BY <2>2, Constants
    <3> QED
      BY <1>0, <2>1, <2>5, <2>10, <3>1, <3>2, StorePublished
  <2>13. \A n \in Names : ppr'[n].rv <= rev' /\ (Calm' => ~ppr'[n].terminating)
    BY <2>1, <2>5, <2>8, NoSourceFacts
  <2>14. Dealt'
    BY <1>0, <2>10, SeenPublished DEF Dealt, Last
  <2> QED
    BY <2>2, <2>8, <2>11, <2>12, <2>13, <2>14, WhenIdle DEF RestInv, SafeInv, StoreInv
<1> QED
  BY <1>1, <1>3, <1>4, ErrorStep

-----------------------------------------------------------------------------
LEMMA InitRest == Init => RestInv
<1> SUFFICES ASSUME Init PROVE RestInv
  OBVIOUS
<1>1. /\ rev = 1 /\ changes = 0 /\ erased = FALSE /\ meddled = FALSE /\ sourceWatch = <<>> /\ pprWatch = <<>>
      /\ sourceCache = source /\ pprCache = ppr /\ pc = "idle" /\ task = Idle
  BY DEF Init
<1>2. queued \in BOOLEAN /\ (queued <=> source # NoSource)
  BY DEF Init
<1> DEFINE Start(r) == [NoSource EXCEPT !.uid = 1, !.rv = 1, !.fin = TRUE, !.matches = TRUE, !.replicas = r]
           Made(o) == [n \in Names |-> IF o = NoSource THEN NoPpr ELSE [GeneratePodProtector(o) EXCEPT !.rv = 1]]
<1>3. ppr = Made(source) /\ (source = NoSource \/ \E r \in Replicas : source = Start(r))
  BY DEF Init
<1>4. ASSUME NEW r \in Replicas PROVE Start(r) \in Source /\ Start(r).rv = 1 /\ Start(r).fin
  <2>1. r \in Nat
    BY GeneratorAssumption
  <2> QED
    BY <2>1 DEF NoSource, Source
<1> HIDE DEF Start
<1>5. /\ source \in Source /\ source.rv <= 1
      /\ source # NoSource => source.rv > 0 /\ source.fin
  <2>1. NoSource \in Source /\ NoSource.rv = 0
    BY Constants, NoSourceFacts
  <2> QED
    BY <1>3, <1>4, <2>1
<1> DEFINE g == [GeneratePodProtector(source) EXCEPT !.rv = 1]
<1>6. g \in Protector /\ ~g.terminating /\ g.rv = 1 /\ g.owner = source.uid
  BY <1>5, GeneratedType DEF Protector
<1>7. \A n \in Names : ppr[n] = IF source = NoSource THEN NoPpr ELSE g
  BY <1>3
<1> HIDE DEF g
<1>8. /\ ppr \in [Names -> Protector]
      /\ \A n \in Names : ppr[n].rv <= 1 /\ ~ppr[n].terminating
      /\ \A n \in Names : ppr[n] # NoPpr => source # NoSource /\ ppr[n].owner = source.uid
  <2>1. \A n \in Names : ppr[n] \in Protector
    BY <1>6, <1>7, Constants
  <2>2. ppr \in [Names -> Protector]
    BY <1>3, <2>1
  <2>3. \A n \in Names : ppr[n].rv <= 1 /\ ~ppr[n].terminating
    BY <1>6, <1>7, NoSourceFacts
  <2> QED
    BY <1>6, <1>7, <2>2, <2>3
<1>9. Typed
  <2>1. changes \in 0..MaxChanges /\ rev \in Nat /\ sourceWatch \in Seq(Source)
        /\ pprWatch \in Seq([name : Names, ppr : Protector])
    BY <1>1, GeneratorAssumption
  <2>2. erased \in BOOLEAN /\ meddled \in BOOLEAN /\ queued \in BOOLEAN
    BY <1>1, <1>2
  <2>3. sourceCache \in Source /\ pprCache \in [Names -> Protector] /\ task \in Task /\ pc = "idle"
    BY <1>1, <1>5, <1>8, Constants
  <2> QED
    BY <1>5, <1>8, <2>1, <2>2, <2>3 DEF Typed
<1>10. Seen \subseteq {source, NoSource}
  BY <1>1, Constants DEF Seen
<1>11. Revisions
  <2>1. \A v \in Seen \cup {source} : v.rv <= rev /\ (v # NoSource => v.rv > 0)
    BY <1>1, <1>5, <1>10, NoSourceFacts
  <2> QED
    BY <1>1, <2>1 DEF Revisions
<1>12. PprsDelivered /\ MarkedKept /\ Owned
  BY <1>1, <1>5, <1>8 DEF PprsDelivered, MarkedKept, Owned
<1>13. SeenOwned
  BY <1>10, NoSourceFacts DEF SeenOwned
<1>14. /\ Busy /\ RemovalFresh /\ PprRevisions /\ Located /\ Ensured /\ Progress
       /\ NoneMarked /\ Found /\ Current
  <2>1. /\ Idle.source = NoSource /\ Idle.todo = {} /\ Idle.current = NoPpr
        /\ \A n \in Names : Idle.cached[n] = NoPpr
    BY DEF Idle
  <2>2. Busy /\ RemovalFresh /\ Ensured /\ Progress /\ Found /\ Current
    BY <1>1 DEF Busy, RemovalFresh, Ensured, Progress, Found, Current
  <2>3. PprRevisions /\ Located /\ NoneMarked
    BY <1>1, <1>8, <2>1, NoSourceFacts DEF PprRevisions, Located, NoneMarked
  <2> QED
    BY <2>2, <2>3
<1>15. Dealt
  BY <1>2 DEF Dealt, Last
<1> QED
  BY <1>9, <1>11, <1>12, <1>13, <1>14, <1>15 DEF RestInv, SafeInv

LEMMA StepRest == ASSUME RestInv, [Next]_vars, ~PprLag PROVE RestInv'
<1>1. CASE World
  <2>1. Typed
    BY DEF RestInv, SafeInv
  <2> QED
    BY <1>1, <2>1, WorldSteps, SourceChangedStep, EraseStep, PprChangedStep, CrashStep, FailedStep
<1>2. CASE Informers
  BY <1>2, DeliverSourceStep, DeliverPprStep DEF Informers
<1>3. CASE Reconcile
  BY <1>3, StartStep, TryReconcileStep, EnsureStep, CreateStep, CellsStep, SyncStep,
     UnfinalizeStep, DeleteStep, RemoveStep DEF Reconcile
<1>4. CASE UNCHANGED vars
  <2>1. UNCHANGED <<source, ppr, rev, changes, erased, meddled, sourceWatch, pprWatch, sourceCache, pprCache,
                    queued, pc, task>>
    BY <1>4 DEF vars, stored, history, watches, caches
  <2>2. Seen' = Seen /\ Based' = Based /\ Calm' = Calm /\ Last' = Last
    BY <2>1 DEF Seen, Based, Calm, Last
  <2>3. Typed' /\ Busy' /\ Revisions' /\ PprsDelivered' /\ MarkedKept' /\ Owned' /\ SeenOwned'
    BY <2>1, <2>2 DEF RestInv, SafeInv, Typed, Busy, Revisions, PprsDelivered, MarkedKept, Owned, SeenOwned
  <2>4. RemovalFresh' /\ PprRevisions' /\ Located' /\ Ensured' /\ Progress'
    BY <2>1, <2>2 DEF RestInv, SafeInv, RemovalFresh, PprRevisions, Located, Ensured, Progress
  <2>5. NoneMarked' /\ Found' /\ Current' /\ Dealt'
    BY <2>1, <2>2 DEF RestInv, NoneMarked, Found, AsFound, Current, Dealt, AsRequired
  <2> QED
    BY <2>3, <2>4, <2>5 DEF RestInv, SafeInv
<1> QED
  BY <1>1, <1>2, <1>3, <1>4 DEF Next

(***************************************************************************)
(* The finalizers are in order for every deployment and every number of    *)
(* changes, failed calls and crashes: a deployment that is deleted in the  *)
(* normal way never leaves a PodProtector behind that is not marked        *)
(* (ReconcileItem removes the finalizer of the deployment last, and only   *)
(* in the version it was started with).                                    *)
(***************************************************************************)
THEOREM NeverOrphaned == ~PprLag => (Spec => []NoOrphan)
<1> SUFFICES ASSUME ~PprLag PROVE Spec => []NoOrphan
  OBVIOUS
<1>1. Init => RestInv
  BY InitRest
<1>2. RestInv /\ [Next]_vars => RestInv'
  BY StepRest
<1>3. RestInv => NoOrphan
  BY DEF RestInv, SafeInv, Owned, NoOrphan
<1> QED
  BY <1>1, <1>2, <1>3, PTL DEF Spec

(***************************************************************************)
(* A PodProtector that carries the finalizer of the generator has its      *)
(* deployment, whose events make the generator come back to it             *)
(* (deleteProtector takes the finalizer away before the deployment goes).  *)
(***************************************************************************)
THEOREM NeverStuck == ~PprLag => (Spec => []KeptHasSource)
<1> SUFFICES ASSUME ~PprLag PROVE Spec => []KeptHasSource
  OBVIOUS
<1>1. Init => RestInv
  BY InitRest
<1>2. RestInv /\ [Next]_vars => RestInv'
  BY StepRest
<1>3. RestInv => KeptHasSource
  BY NoSourceFacts DEF RestInv, SafeInv, Owned, KeptHasSource
<1> QED
  BY <1>1, <1>2, <1>3, PTL DEF Spec

(***************************************************************************)
(* Whenever the generator has nothing left to do, the deployment has the   *)
(* PodProtectors it requires, with the minAvailable it requires, and no    *)
(* others (tryReconcile, syncProtector and the retries of the worker).     *)
(***************************************************************************)
THEOREM AlwaysProtectedAtRest == ~PprLag => (Spec => []ProtectedAtRest)
<1> SUFFICES ASSUME ~PprLag PROVE Spec => []ProtectedAtRest
  OBVIOUS
<1>1. Init => RestInv
  BY InitRest
<1>2. RestInv /\ [Next]_vars => RestInv'
  BY StepRest
<1>3. RestInv => ProtectedAtRest
  <2> SUFFICES ASSUME RestInv PROVE ProtectedAtRest
    OBVIOUS
  <2>1. Typed /\ Busy /\ Owned
    BY DEF RestInv, SafeInv
  <2>2. task = Idle => pc = "idle"
    BY <2>1, Constants DEF Busy
  <2>3. TypeOK
    BY <2>1, <2>2 DEF TypeOK, Typed, Busy, Task
  <2>4. RestMeansProtected
    <3> SUFFICES ASSUME AtRest, source # NoSource, ~meddled, ~erased
                 PROVE  /\ source.terminating
                           \/ \A n \in Required(source) :
                                 ppr[n] # NoPpr /\ ppr[n].spec = Spec_MinAvailable(source) /\ source.fin
                        /\ \A n \in Names \ Required(source) : ppr[n] = NoPpr \/ ppr[n].terminating
      BY DEF RestMeansProtected, Required
    <3>1. task.todo = {}
      BY <2>1, Constants DEF AtRest, Busy
    <3>2. \A n \in Names : AsRequired(n)
      BY <3>1 DEF RestInv, Dealt, Calm, Last, AtRest
    <3>3. Required(source) \subseteq Names
      BY <2>1, RequiredNames DEF Typed
    <3> QED
      BY <3>2, <3>3 DEF AsRequired
  <2> QED
    BY <2>3, <2>4 DEF ProtectedAtRest
<1> QED
  BY <1>1, <1>2, <1>3, PTL DEF Spec
=============================================================================
