-------------------------------- MODULE Mux ---------------------------------
(***************************************************************************)
(* A multiplexed interface (util/component/mux.go): the implementations    *)
(* are declared one after the other, before or after the interface itself  *)
(* is requested; every declaration but the first is merged into the first. *)
(* The flag of the interface then selects one of them.                     *)
(***************************************************************************)
EXTENDS Sequences, SequencesExt

CONSTANTS Impls, None

VARIABLES
    order,       \* the implementations, in the order of their declaration
    args,        \* muxArgs: [impls, described, defaultOption]
    asked,       \* whether some component requested the interface
    requested,   \* the implementations the mux component requests
    selection,   \* muxOptions.selection
    phase

vars == <<order, args, asked, requested, selection, phase>>

Init ==
    /\ order = <<>>
    /\ args = [impls |-> {}, described |-> FALSE, defaultOption |-> None]
    /\ asked = FALSE
    /\ requested = {}
    /\ selection = None
    /\ phase = "declare"

(* DeclareMuxImpl(...)(args, isDefault), required once for each name. *)
DeclareMuxImpl(impl, isDefault) ==
    /\ phase = "declare" /\ impl \notin args.impls
    /\ order' = Append(order, impl)
    /\ args' = [args EXCEPT !.impls = @ \cup {impl}, !.defaultOption = IF isDefault THEN impl ELSE @]
    /\ requested' = requested \cup {impl}
    /\ phase' = IF isDefault /\ args.defaultOption # None THEN "panic" ELSE phase
    /\ UNCHANGED <<asked, selection>>

DescriptionLost ==   \* mutant: a request after the first declaration is not merged
    /\ phase = "declare"
    /\ args' = [args EXCEPT !.described = (@ \/ order = <<>>)]
    /\ asked' = TRUE
    /\ UNCHANGED <<order, requested, selection, phase>>

(* A component requests the interface: ProvideMux(...)(). *)
ProvideMux ==
    /\ phase = "declare"
    /\ args' = [args EXCEPT !.described = TRUE]
    /\ asked' = TRUE
    /\ UNCHANGED <<order, requested, selection, phase>>

(* addFlags: the flag exists only for an interface that is requested. *)
AddFlags ==
    /\ phase = "declare" /\ (order # <<>> \/ args.described)
    /\ IF args.described /\ args.defaultOption = None
       THEN phase' = "panic" /\ UNCHANGED selection
       ELSE /\ selection' = IF args.described THEN args.defaultOption ELSE None
            /\ phase' = "flags"
    /\ UNCHANGED <<order, args, asked, requested>>

(* The user names an implementation; an unknown name ends the process. *)
Set(impl) ==
    /\ phase = "flags" /\ args.described /\ impl \in args.impls
    /\ selection' = impl
    /\ UNCHANGED <<order, args, asked, requested, phase>>

(* unrequestDeps *)
UnrequestDeps ==
    /\ phase = "flags" /\ phase' = "trimmed"
    /\ requested' = IF selection = None THEN requested ELSE requested \ (args.impls \ {selection})
    /\ UNCHANGED <<order, args, asked, selection>>

Next ==
    \/ \E i \in Impls, isDefault \in BOOLEAN : DeclareMuxImpl(i, isDefault)
    \/ ProvideMux \/ AddFlags \/ (\E i \in Impls : Set(i)) \/ UnrequestDeps

Spec == Init /\ [][Next]_vars

-----------------------------------------------------------------------------
(* In whatever order the interface and its implementations are declared, a *)
(* component that requested the interface gets the selected implementation,*)
(* which is still requested, and no other one is (the api and the          *)
(* unrequestDeps of declareApiComp).                                       *)
OneSelected ==
    phase = "trimmed" /\ asked =>
        /\ selection \in Range(order)
        /\ requested = {selection}
=============================================================================
