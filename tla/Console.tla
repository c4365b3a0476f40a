--------------------------------- MODULE Console ---------------------------------
(***************************************************************************)
(* The administrator's pages behind the shell, one of which is open.  What *)
(* a page has is gone when it is left, so one page at a time says it all;  *)
(* requests of a page that was left go on.                                 *)
(***************************************************************************)
EXTENDS ListPages, RolePages, SkillPages, PersonPage, ChatPage

AllPaths == Lists \cup RolePaths \cup SkillPaths \cup {"/users/new", "/chat"}

ASSUME NoneIsNoPath == None \notin AllPaths

vars == <<pageVars, listVars, roleVars, skillVars, personVars, chatVars>>

TypeOK ==
    /\ PageTypeOK /\ ListTypeOK /\ RoleTypeOK /\ SkillTypeOK /\ PersonTypeOK /\ ChatTypeOK

Init ==
    PageInit /\ ListInit /\ RoleInit /\ SkillInit /\ PersonInit /\ ChatInit

Next ==
    \/ ListNext /\ UNCHANGED <<roleVars, skillVars, personVars, chatVars>>
    \/ RoleNext /\ UNCHANGED <<listVars, skillVars, personVars, chatVars>>
    \/ SkillNext /\ UNCHANGED <<listVars, roleVars, personVars, chatVars>>
    \/ PersonNext /\ UNCHANGED <<listVars, roleVars, skillVars, chatVars>>
    \/ ChatNext /\ UNCHANGED <<listVars, roleVars, skillVars, personVars>>

\* The timer ticks, the broker answers every read of a list and the browser delivers.
ListsAlone(A) == A /\ UNCHANGED <<roleVars, skillVars, personVars, chatVars>>

Spec ==
    /\ Init /\ [][Next]_vars
    /\ WF_vars(ListsAlone(Poll))
    /\ \A s \in Reads :
         WF_vars(ListsAlone(ServeRead("rows", s))) /\ WF_vars(ListsAlone(ReadAnswered("rows", s)))
=============================================================================
