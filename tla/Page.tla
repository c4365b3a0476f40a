---------------------------------- MODULE Page ----------------------------------
(***************************************************************************)
(* What the pages of the web application share: one of them is open, it    *)
(* asks the broker through lib/api.ts, and any request may be refused or   *)
(* lost, before or after the broker has done it.  Other people use other   *)
(* browsers meanwhile.                                                     *)
(***************************************************************************)
EXTENDS Naturals, FiniteSets

CONSTANTS
    None,
    Paths,      \* the pages that may be open
    MaxFaults,  \* bound: requests that fail for no reason of the page
    MaxOthers,  \* bound: changes made by other people
    Skills,
    Always,     \* the skills that are always allowed
    CategoryOf, \* CategoryOf[s]: the category of skill s
    Wildcard

VARIABLES
    open,       \* the path of the open page, None once it was left
    faults,     \* how many requests have failed
    others      \* how many changes other people have made

ASSUME PageConstants ==
    /\ MaxFaults \in Nat /\ MaxOthers \in Nat
    /\ Wildcard \notin Skills

Permissions == SUBSET (Skills \cup {Wildcard})

pageVars == <<open, faults, others>>

PageTypeOK ==
    /\ open \in Paths \cup {None}
    /\ faults \in 0..MaxFaults /\ others \in 0..MaxOthers

PageInit == open \in Paths /\ faults = 0 /\ others = 0

\* request throws although nothing in the broker's state explains it.
Fault == faults < MaxFaults /\ faults' = faults + 1 /\ UNCHANGED <<open, others>>

Elsewhere == others < MaxOthers /\ others' = others + 1 /\ UNCHANGED <<open, faults>>

\* A link, or router.push.
Leave == open' = None /\ UNCHANGED <<faults, others>>
=============================================================================
