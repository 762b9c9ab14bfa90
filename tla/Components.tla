----------------------------- MODULE Components -----------------------------
(***************************************************************************)
(* The component framework (util/component) and the main function of the   *)
(* executables (util/cmd): requests are resolved into one component per    *)
(* name, sorted so that dependencies come first, trimmed to what the flags *)
(* still request, then initialised in order, started concurrently and      *)
(* joined in reverse.                                                      *)
(***************************************************************************)
EXTENDS Naturals, Sequences, FiniteSets, SequencesExt, BagsExt

CONSTANTS Names,        \* names of components
          Main,         \* mainRequester
          Nil,          \* the entry of a component that is being resolved
          Declarations, \* what the components may declare: see `declared`
          MainLists,    \* what an executable may request: sequences of names
          MaxStack      \* nested calls before the stack of the goroutine overflows

VARIABLES
    declared,     \* declared[c] = [deps, merge]: the requests of depsFn and of onMerge
    stack,        \* the calls of resolveRequest in progress, Main at the bottom
    componentMap, \* name -> [requesters, deps], two bags, or Nil
    phase,        \* what tryRun is doing
    visited, path, sorted,   \* toposortComponentList: `path` is its recursion
    fromMain,     \* the components that main still requests, as the flags say
    status,       \* status[c]: how far the lifecycle of the component is
    ctxDone

vars == <<declared, stack, componentMap, phase, visited, path, sorted, fromMain, status, ctxDone>>
sorting   == <<visited, path, sorted>>
lifecycle == <<fromMain, status, ctxDone>>

NoRequests == [c \in {} |-> 0]

Frame(n, todo, isNew) == [name |-> n, todo |-> todo, isNew |-> isNew, deps |-> NoRequests]

(* What componentMap may hold for a component that is resolved. *)
Requested == UNION {[S -> {n \in Nat : n > 0}] : S \in SUBSET (Names \cup {Main})}
Entries   == [requesters : Requested, deps : Requested]

Init ==
    /\ declared \in Declarations
    /\ \E requests \in MainLists : stack = <<Frame(Main, requests, FALSE)>>
    /\ componentMap = [c \in {} |-> Nil]
    /\ phase = "resolve"
    /\ visited = {} /\ path = <<>> /\ sorted = <<>>
    /\ fromMain = Names
    /\ status = [c \in Names |-> "none"]
    /\ ctxDone = FALSE

-----------------------------------------------------------------------------
(* ResolveList and resolveRequest: the first declaration of a name is kept, *)
(* a later one is merged into it and adds the requests of its onMerge.      *)
Caller == stack[Len(stack) - 1]

(* How often x was requested, or has requested. *)
Copies(x, bag) == IF x \in DOMAIN bag THEN bag[x] ELSE 0

(* The next request of the innermost call is looked up. Merges that request *)
(* each other are not noticed here and recur until the stack overflows.     *)
Request ==
    /\ phase = "resolve"
    /\ Last(stack).todo # <<>>
    /\ LET n == Head(Last(stack).todo)
           rest == [stack EXCEPT ![Len(stack)].todo = Tail(@)]
       IN  IF n \notin DOMAIN componentMap
           THEN /\ componentMap' = [c \in DOMAIN componentMap \cup {n} |-> IF c = n THEN Nil ELSE componentMap[c]]
                /\ stack' = Append(rest, Frame(n, declared[n].deps, TRUE))
                /\ UNCHANGED phase
           ELSE IF componentMap[n] = Nil \/ Len(stack) = MaxStack
           THEN phase' = "panic" /\ UNCHANGED <<componentMap, stack>>   \* cyclic dependency detected
           ELSE stack' = Append(rest, Frame(n, declared[n].merge, FALSE)) /\ UNCHANGED <<componentMap, phase>>
    /\ UNCHANGED <<declared, sorting, lifecycle>>

(* The entry of the component whose call returns. *)
Resolved(frame) ==
    IF frame.isNew THEN [requesters |-> BagAdd(NoRequests, Caller.name), deps |-> frame.deps]
    ELSE [componentMap[frame.name] EXCEPT !.requesters = BagAdd(@, Caller.name)]

(* A call returns and its caller counts the request. *)
Return ==
    /\ phase = "resolve" /\ Last(stack).todo = <<>> /\ Len(stack) > 1
    /\ LET n == Last(stack).name
           entries == [componentMap EXCEPT ![n] = Resolved(Last(stack))]
       IN  IF Caller.isNew \/ Caller.name = Main
           THEN /\ stack' = [Front(stack) EXCEPT ![Len(stack) - 1].deps = BagAdd(@, n)]
                /\ componentMap' = entries
           ELSE /\ stack' = Front(stack)
                /\ componentMap' = [entries EXCEPT ![Caller.name].deps = BagAdd(@, n)]
    /\ UNCHANGED <<declared, phase, sorting, lifecycle>>

ResolveDone ==
    /\ phase = "resolve" /\ Len(stack) = 1 /\ Last(stack).todo = <<>>
    /\ phase' = "sort"
    /\ UNCHANGED <<declared, stack, componentMap, sorting, lifecycle>>

-----------------------------------------------------------------------------
(* toposortComponentList: dfs in the arbitrary order of Go maps. *)
DepsOf(c) == DOMAIN componentMap[c].deps
Pending   == DOMAIN componentMap \ ToSet(sorted)

(* dfs(c), for a component that is still pending. *)
Enter(c) ==
    /\ c \in Pending
    /\ IF c \in visited THEN phase' = "panic" /\ UNCHANGED sorting
       ELSE /\ visited' = visited \cup {c}
            /\ path' = Append(path, c)
            /\ UNCHANGED <<phase, sorted>>

Visit ==
    /\ phase = "sort"
    /\ IF path = <<>> THEN \E c \in Pending : Enter(c)
       ELSE \E c \in DepsOf(Last(path)) : Enter(c)
    /\ UNCHANGED <<declared, stack, componentMap, lifecycle>>

(* The loop over the dependencies ends and the component is listed. *)
Leave ==
    /\ phase = "sort" /\ path # <<>>
    /\ DepsOf(Last(path)) \cap Pending = {}
    /\ sorted' = Append(sorted, Last(path)) /\ path' = Front(path)
    /\ UNCHANGED <<declared, stack, componentMap, phase, visited, lifecycle>>

SortDone ==
    /\ phase = "sort" /\ path = <<>> /\ Pending = {}
    /\ phase' = "flags"
    /\ UNCHANGED <<declared, stack, componentMap, sorting, lifecycle>>

-----------------------------------------------------------------------------
(* Parse sets the options; removeDirectDeps then takes back the requests of *)
(* main for the components that are switched off, and those a component no *)
(* longer makes (a mux, of the implementations that were not selected).     *)
Fewer(bag) ==
    {count \in [DOMAIN bag -> UNION {0..bag[x] : x \in DOMAIN bag}] : \A x \in DOMAIN bag : count[x] <= bag[x]}

Less(bag, count) == [x \in {y \in DOMAIN bag : bag[y] > count[y]} |-> bag[x] - count[x]]

(* The entry of c without the requests that are taken back. *)
Reduced(c, on, un) ==
    LET entry == componentMap[c]
    IN  [requesters |-> Less(entry.requesters, [r \in DOMAIN entry.requesters |->
                            IF r # Main THEN un[r][c] ELSE IF c \in on THEN 0 ELSE entry.requesters[r]]),
         deps       |-> Less(entry.deps, un[c])]

Unrequest ==
    /\ phase = "flags"
    /\ \E on \in SUBSET Names, un \in [DOMAIN componentMap -> UNION {Fewer(componentMap[c].deps) : c \in DOMAIN componentMap}] :
        /\ \A c \in DOMAIN componentMap : un[c] \in Fewer(componentMap[c].deps)
        /\ fromMain' = on
        /\ IF \E c \in DOMAIN componentMap : \E d \in DepsOf(c) :
                  un[c][d] > 0 /\ Copies(d, componentMap[c].deps) # Copies(c, componentMap[d].requesters)
           THEN phase' = "panic" /\ UNCHANGED componentMap    \* out-edge and in-edge value are out of sync
           ELSE phase' = "shake" /\ componentMap' = [c \in DOMAIN componentMap |-> Reduced(c, on, un)]
    /\ UNCHANGED <<declared, stack, sorting, status, ctxDone>>

ShakeKeepsEdges(c) ==   \* mutant: a disabled component still counts as a requester
    [d \in DOMAIN componentMap \ {c} |-> componentMap[d]]

(* shakeTreeOnce deletes a component and the requests it made. *)
WithoutComponent(c) ==
    [d \in DOMAIN componentMap \ {c} |->
        [componentMap[d] EXCEPT !.requesters = IF d \in DepsOf(c) THEN BagRemoveAll(@, c) ELSE @]]

Shake(c) ==
    /\ phase = "shake"
    /\ c \in DOMAIN componentMap
    /\ componentMap[c].requesters = NoRequests
    /\ componentMap' = WithoutComponent(c)
    /\ UNCHANGED <<declared, stack, phase, sorting, lifecycle>>

(* No pass changes anything any more. *)
TrimDone ==
    /\ phase = "shake"
    /\ \A c \in DOMAIN componentMap : componentMap[c].requesters # NoRequests
    /\ phase' = "init"
    /\ UNCHANGED <<declared, stack, componentMap, sorting, lifecycle>>

-----------------------------------------------------------------------------
(* tryRun: initComponents, startComponents and the joins. TrimNonRequested  *)
(* has returned, in the order of `sorted`, the components left in the map.  *)
With(s) == {i \in DOMAIN sorted : sorted[i] \in DOMAIN componentMap /\ status[sorted[i]] = s}
Least(S) == CHOOSE i \in S : \A j \in S : i <= j
Greatest(S) == CHOOSE i \in S : \A j \in S : j <= i

InitNext ==
    /\ phase = "init" /\ With("none") # {}
    /\ LET c == sorted[Least(With("none"))]
       IN  \/ status' = [status EXCEPT ![c] = "initialized"] /\ UNCHANGED phase
           \/ phase' = "failed" /\ UNCHANGED status
    /\ UNCHANGED <<declared, stack, componentMap, sorting, fromMain, ctxDone>>

(* From here on a signal, or a lost lease, stops the process. *)
InitDone ==
    /\ phase = "init" /\ With("none") = {}
    /\ phase' = "start"
    /\ UNCHANGED <<declared, stack, componentMap, sorting, lifecycle>>

Start(c) ==
    /\ phase = "start" /\ c \in DOMAIN componentMap /\ status[c] = "initialized"
    /\ \E outcome \in {"started", "startError"} : status' = [status EXCEPT ![c] = outcome]
    /\ UNCHANGED <<declared, stack, componentMap, phase, sorting, fromMain, ctxDone>>

(* wg.Wait returns; an error ends the process without a single join. *)
StartDone ==
    /\ phase = "start" /\ With("initialized") = {}
    /\ phase' = IF With("startError") = {} THEN "run" ELSE "failed"
    /\ UNCHANGED <<declared, stack, componentMap, sorting, lifecycle>>

Stop ==
    /\ phase \in {"start", "run"} /\ ~ctxDone
    /\ ctxDone' = TRUE
    /\ UNCHANGED <<declared, stack, componentMap, phase, sorting, fromMain, status>>

JoinInOrder ==   \* mutant: components are joined in the order of initialisation
    /\ phase = "run" /\ ctxDone /\ With("started") # {}
    /\ LET c == sorted[Least(With("started"))]
       IN  status' = [status EXCEPT ![c] = "joined"] /\ UNCHANGED phase
    /\ UNCHANGED <<declared, stack, componentMap, sorting, fromMain, ctxDone>>

JoinNext ==
    /\ phase = "run" /\ ctxDone /\ With("started") # {}
    /\ LET c == sorted[Greatest(With("started"))]
       IN  \/ status' = [status EXCEPT ![c] = "joined"] /\ UNCHANGED phase
           \/ phase' = "failed" /\ UNCHANGED status
    /\ UNCHANGED <<declared, stack, componentMap, sorting, fromMain, ctxDone>>

JoinDone ==
    /\ phase = "run" /\ ctxDone /\ With("started") = {}
    /\ phase' = "exited"
    /\ UNCHANGED <<declared, stack, componentMap, sorting, lifecycle>>

Next ==
    \/ Request \/ Return \/ ResolveDone
    \/ Visit \/ Leave \/ SortDone
    \/ Unrequest \/ (\E c \in Names : Shake(c)) \/ TrimDone
    \/ InitNext \/ InitDone \/ (\E c \in Names : Start(c)) \/ StartDone
    \/ Stop \/ JoinNext \/ JoinDone

Spec == Init /\ [][Next]_vars

-----------------------------------------------------------------------------
(* The requests of a declaration, made once and, if it is repeated, again. *)
Requests(c) == ToSet(declared[c].deps) \cup ToSet(declared[c].merge)

(* What is reached from the components in S when c leads to edges[c]: what *)
(* is in every set of names that contains S and what its members lead to.  *)
Reach(S, edges) ==
    {n \in Names : \A T \in SUBSET Names :
        S \subseteq T /\ (\A c \in T \cap DOMAIN edges : edges[c] \subseteq T) => n \in T}

(* The two directions of every request agree, through merges, the requests *)
(* taken back and the components removed: the panic "out-edge and in-edge  *)
(* value are out of sync" cannot happen, and no component outlives or      *)
(* precedes the requests that keep it (componentMapEntry).                 *)
CountsAgree ==
    phase \notin {"resolve", "panic"} =>
        \A c, d \in DOMAIN componentMap :
            Copies(d, componentMap[c].deps) = Copies(c, componentMap[d].requesters)

(* A panic of resolveRequest, dfs or removeDirectDeps means that some      *)
(* component really depends on itself: components that are reached twice,  *)
(* as in a diamond or through a merge, are not taken for a recursion.      *)
PanicMeansCycle ==
    phase = "panic" => \E c \in Names : c \in Reach(Requests(c), [d \in Names |-> Requests(d)])

(* TrimNonRequested keeps exactly the components that a request of main    *)
(* which is switched on still reaches: "Components only (transitively)     *)
(* requested by disabled components are also disabled", and no other.      *)
EnabledExactly ==
    phase = "init" =>
        DOMAIN componentMap =
            Reach(fromMain \cap DOMAIN stack[1].deps, [c \in DOMAIN componentMap |-> DepsOf(c)])

(* `init` is called in topological order: whatever an initialised component *)
(* still requests has been initialised before it (initComponents).          *)
DepsInitialized ==
    phase \notin {"resolve", "sort", "panic"} =>
        \A c \in DOMAIN componentMap : status[c] # "none" =>
            \A d \in DepsOf(c) : status[d] # "none"

(* A component is joined only after every component that uses it: a worker *)
(* ends before the elector gives up the lease it works under (tryRun).     *)
JoinedAfterDependents ==
    \A c \in Names : status[c] = "joined" =>
        \A d \in DOMAIN componentMap : c \in DepsOf(d) => status[d] = "joined"
=============================================================================
