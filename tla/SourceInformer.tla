--------------------------- MODULE SourceInformer ---------------------------
(***************************************************************************)
(* The informer over a changing list of source clusters                    *)
(* (util/podprotector/multi_informer.go, informer.go,                      *)
(* single_source_provider.go): how the list is replaced, how the informer  *)
(* of a source fills its store, then its selector index, then calls the    *)
(* post handlers, and what HasSynced, Get and Query answer meanwhile.      *)
(*                                                                         *)
(* One PodProtector name is modelled, whose object may exist in every      *)
(* source; an object is its creation time, and 0 means there is none.      *)
(* That a selector matches is left to module SelectorIndex.                *)
(***************************************************************************)
EXTENDS Integers, Sequences, FiniteSets, Functions

CONSTANTS Sources,      \* source names
          Ident,        \* IsSourceIdentifying
          MaxTime,      \* bound on the changes of objects, which number their creations
          MaxLists      \* bound on the lists the provider sends

VARIABLES
    now, store,      \* the number of changes so far; store[s]: the object in source s
    lists, offered,  \* the lists sent so far; the list in the channel, or NoList
    sources,         \* the map: the informer of every source, or NoMap before the first
    update,          \* tryUpdateSourceList under way
    running,         \* the informers that were started and not cancelled
    informer,        \* informer[i]: the state of informer i
    posted           \* the source names of the keys the post handlers were called with

cluster == <<now, store>>
list    == <<lists, offered>>
vars    == <<cluster, list, sources, update, running, informer, posted>>

(* An informer is named by its source and the list it was started for. *)
Ids    == Sources \X (1..MaxLists)
Plain  == "plain"
NoList == {"no list"}
NoMap  == <<>>
Empty  == [s \in {} |-> <<>>]
Fresh  == [first |-> -1, lister |-> 0, notices |-> <<>>, index |-> FALSE]
Done   == [pc |-> "idle", id |-> 0, wanted |-> {}, todo |-> {}, next |-> Empty]

Init ==
    /\ now = 0 /\ store = [s \in Sources |-> 0]
    /\ lists = 0 /\ offered = NoList
    /\ sources = NoMap
    /\ update = Done
    /\ running = {}
    /\ informer = [i \in Ids |-> Fresh]
    /\ posted = {}

-----------------------------------------------------------------------------
(* The sources and the provider of their list. *)
PutObject(s) ==
    /\ now < MaxTime
    /\ now' = now + 1
    /\ store' = [store EXCEPT ![s] = now + 1]
    /\ UNCHANGED <<list, sources, update, running, informer, posted>>

DeleteObject(s) ==
    /\ now < MaxTime /\ store[s] # 0
    /\ now' = now + 1
    /\ store' = [store EXCEPT ![s] = 0]
    /\ UNCHANGED <<list, sources, update, running, informer, posted>>

Send(l) ==
    /\ offered = NoList /\ lists < MaxLists
    /\ offered' = l
    /\ lists' = lists + 1
    /\ UNCHANGED <<cluster, sources, update, running, informer, posted>>

-----------------------------------------------------------------------------
(***************************************************************************)
(* tryUpdateSourceList: informers are started for the sources that have    *)
(* none, the map is swapped, and then those of the other sources are       *)
(* cancelled.  If one cannot be started, those started before it are       *)
(* cancelled and the map stays as it is.                                   *)
(***************************************************************************)
StartedAnew(l) == l   \* mutant: every source of the list gets a new informer

NewSources(l) == l \ DOMAIN sources

ReceiveList ==
    /\ update.pc = "idle" /\ offered # NoList
    /\ update' = [pc |-> "start", id |-> lists, wanted |-> offered, todo |-> NewSources(offered),
                  next |-> [s \in offered \ NewSources(offered) |-> sources[s]]]
    /\ offered' = NoList
    /\ UNCHANGED <<cluster, lists, sources, running, informer, posted>>

StartSourceInformer(s) ==
    /\ update.pc = "start" /\ s \in update.todo
    /\ running' = running \cup {<<s, update.id>>}
    /\ informer' = [informer EXCEPT ![<<s, update.id>>] = Fresh]
    /\ update' = [update EXCEPT !.todo = @ \ {s},
                                !.next = [x \in DOMAIN @ \cup {s} |-> IF x = s THEN <<s, update.id>> ELSE @[x]]]
    /\ UNCHANGED <<cluster, list, sources, posted>>

Uncommitted == Range(update.next) \ Range(sources)

StartFails(s) ==
    /\ update.pc = "start" /\ s \in update.todo
    /\ running' = running \ Uncommitted
    /\ update' = Done
    /\ UNCHANGED <<cluster, list, sources, informer, posted>>

(* The map is swapped; what it does not hold any more is still to be cancelled. *)
SwapSources ==
    /\ update.pc = "start" /\ update.todo = {}
    /\ sources' = update.next
    /\ update' = [Done EXCEPT !.pc = "cancel", !.next = [s \in DOMAIN sources \ update.wanted |-> sources[s]]]
    /\ UNCHANGED <<cluster, list, running, informer, posted>>

CancelRemoved ==
    /\ update.pc = "cancel"
    /\ running' = running \ Range(update.next)
    /\ update' = Done
    /\ UNCHANGED <<cluster, list, sources, informer, posted>>

-----------------------------------------------------------------------------
(***************************************************************************)
(* An informer takes the first list or what has changed since into its     *)
(* store.  A handler that runs behind it is notified of every change.      *)
(***************************************************************************)
TakeObject(i) ==
    LET o == store[i[1]]
    IN  /\ i \in running
        /\ informer[i].first = -1 \/ informer[i].lister # o
        /\ informer' = [informer EXCEPT
              ![i].first = IF @ = -1 THEN o ELSE @, ![i].lister = o,
              ![i].notices = IF @ = <<>> /\ o = 0 /\ informer[i].lister = 0 THEN @ ELSE Append(@, o # 0)]
        /\ UNCHANGED <<cluster, list, sources, update, running, posted>>

UntrackForgotten(i) ==   \* mutant: a deleted object stays in the index
    /\ informer[i].notices # <<>>
    /\ informer' = [informer EXCEPT ![i].notices = Tail(@), ![i].index = @ \/ Head(informer[i].notices)]
    /\ posted' = posted \cup {i[1]}
    /\ UNCHANGED <<cluster, list, sources, update, running>>

(* The handler of SetupPprInformer: Track or Untrack, then the post handlers. *)
HandlePpr(i) ==
    /\ informer[i].notices # <<>>
    /\ informer' = [informer EXCEPT ![i].notices = Tail(@), ![i].index = Head(informer[i].notices)]
    /\ posted' = posted \cup {i[1]}
    /\ UNCHANGED <<cluster, list, sources, update, running>>

-----------------------------------------------------------------------------
(* The answers of the informer. *)
HasSynced == sources # NoMap /\ \A i \in Range(sources) : informer[i].first # -1

Relevant(name) == IF Ident THEN {s \in DOMAIN sources : s = name} ELSE DOMAIN sources

(* The creation time of the object that is returned: the newest there is. *)
Get(name) ==
    LET found == {informer[sources[s]].lister : s \in Relevant(name)} \ {0}
    IN  IF found = {} THEN 0 ELSE CHOOSE c \in found : \A d \in found : d <= c

(* The source names of the keys that are returned. *)
Query ==
    {IF Ident THEN s ELSE Plain : s \in {s \in DOMAIN sources : informer[sources[s]].index}}

-----------------------------------------------------------------------------
Next ==
    \/ \E s \in Sources : PutObject(s) \/ DeleteObject(s)
    \/ \E l \in SUBSET Sources : Send(l)
    \/ ReceiveList
    \/ \E s \in Sources : StartSourceInformer(s) \/ StartFails(s)
    \/ SwapSources
    \/ CancelRemoved
    \/ \E i \in Ids : TakeObject(i) \/ HandlePpr(i)

Spec == Init /\ [][Next]_vars

(* Running informers deliver and their handlers are called. *)
Fairness ==
    /\ \A i \in Ids : WF_vars(TakeObject(i)) /\ WF_vars(HandlePpr(i))
    /\ WF_vars(ReceiveList \/ SwapSources \/ CancelRemoved
                         \/ \E s \in Sources : StartSourceInformer(s))

-----------------------------------------------------------------------------
TypeOK ==
    /\ now \in 0..MaxTime /\ store \in [Sources -> 0..MaxTime]
    /\ lists \in 0..MaxLists
    /\ offered \in (SUBSET Sources) \cup {NoList}
    /\ DOMAIN sources \subseteq Sources
    /\ \A s \in DOMAIN sources : sources[s] \in Ids /\ sources[s][1] = s
    /\ update.pc \in {"idle", "start", "cancel"}
    /\ update.todo \subseteq update.wanted
    /\ running \subseteq Ids
    /\ informer \in [Ids -> [first : -1..MaxTime, lister : 0..MaxTime, notices : Seq(BOOLEAN), index : BOOLEAN]]
    /\ posted \subseteq Sources

(***************************************************************************)
(* No informer is leaked or stopped too early, whatever lists follow each  *)
(* other and whichever informer cannot be started: those of the map run    *)
(* always, and between updates no others do.                               *)
(***************************************************************************)
RunningAreMapped ==
    /\ Range(sources) \subseteq running
    /\ update.pc = "idle" => running = Range(sources)

(***************************************************************************)
(* A source that stays in the list is not interrupted: the new map has the *)
(* informer of the old one, so that Get and Query never lose what they     *)
(* had ("A SourceName -> SourceDesc mapping is considered immutable").     *)
(***************************************************************************)
Kept == \A s \in DOMAIN sources \cap DOMAIN sources' : sources'[s] = sources[s]

(***************************************************************************)
(* In every step: the informers that run are those of the map, except      *)
(* while a list is being applied, and a list that still names a source     *)
(* does not restart its informer.                                          *)
(***************************************************************************)
SourcesRunOn == TypeOK /\ RunningAreMapped /\ Kept

(***************************************************************************)
(* In the end Query and Get agree with the sources in the map: an object   *)
(* that exists is found, and one that is gone is not.                      *)
(***************************************************************************)
AnswersFollow ==
    <>[](sources # NoMap =>
            /\ Query = {IF Ident THEN s ELSE Plain : s \in {s \in DOMAIN sources : store[s] # 0}}
            /\ \A s \in DOMAIN sources : Ident => Get(s) = store[s])
=============================================================================
