------------------------------- MODULE RolePages -------------------------------
(***************************************************************************)
(* The pages that edit and create a role (app/roles/[name]/page.tsx,       *)
(* app/roles/new/page.tsx) with their editor of permissions (components/   *)
(* role-permissions-editor.tsx), over the broker's validation of roles     *)
(* (packages/api/src/roles/service.py).                                    *)
(*                                                                         *)
(* One role is edited or created.  The order of permissions is left out.   *)
(***************************************************************************)
EXTENDS Page

VARIABLES
    granted,    \* the permissions of the stored role, None if there is none
    catalogue,  \* the skills that the broker knows
    row,        \* the role as the page loaded or saved it last, or None
    listed,     \* the tools as the page loaded them, or None
    draft,      \* the permissions in the editor, or None
    saving,     \* "no", "sent", "stored", "ok", "refused", "failed"
    sent,       \* the permissions that are being saved
    answer,     \* the permissions that the save is answered with, or None
    picked,     \* history: what the person has chosen or accepted last
    patched     \* history: the role changed between the last save's commit and refresh

savingVars == <<saving, sent, answer, patched>>
roleVars == <<granted, catalogue, row, listed, draft, savingVars, picked>>

RolePaths == {"/roles/name", "/roles/new"}

RoleTypeOK ==
    /\ granted \in Permissions \cup {None} /\ catalogue \subseteq Skills
    /\ row \in Permissions \cup {None} /\ listed \in {None} \cup SUBSET Skills
    /\ draft \in Permissions \cup {None} /\ picked \in Permissions \cup {None}
    /\ saving \in {"no", "sent", "stored", "ok", "refused", "failed"}
    /\ sent \in Permissions \cup {None} /\ (sent = None) = (saving = "no")
    /\ answer \in Permissions \cup {None} /\ (answer = None) = (saving # "ok")
    /\ patched \in BOOLEAN

\* The permissions of a stored role may name what a sync has dropped since.  The
\* role of a link may be gone, and the name of a new one taken.
RoleInit ==
    /\ granted \in IF open \in RolePaths
                   THEN {None, {Wildcard}, Skills} \cup {{s} : s \in Skills} ELSE {None}
    /\ catalogue \in IF open \in RolePaths THEN SUBSET Skills ELSE {{}}
    /\ row = None /\ listed = None
    /\ draft = IF open = "/roles/new" THEN {} ELSE None
    /\ picked = draft
    /\ saving = "no" /\ sent = None /\ answer = None /\ patched = FALSE

-----------------------------------------------------------------------------
\* The requests that are loaded together, in any order; the page shows nothing
\* before it has all, or an error.  The taxonomy never changes.
LoadRole ==
    /\ open = "/roles/name" /\ row = None
    /\ IF granted = None THEN Leave ELSE UNCHANGED pageVars
    /\ row' = granted
    /\ draft' = IF listed = None THEN None ELSE granted
    /\ picked' = draft'
    /\ UNCHANGED <<granted, catalogue, listed, savingVars>>

LoadTools ==
    /\ open \in RolePaths /\ listed = None
    /\ listed' = catalogue
    /\ draft' = IF open = "/roles/name" THEN row ELSE draft
    /\ picked' = draft'
    /\ UNCHANGED <<pageVars, granted, catalogue, row, savingVars>>

\* One of them fails: all that is left to do is to leave.
LoadFails ==
    /\ open \in RolePaths /\ (listed = None \/ (row = None /\ open = "/roles/name"))
    /\ faults < MaxFaults /\ faults' = faults + 1
    /\ open' = None
    /\ UNCHANGED <<others, roleVars>>

-----------------------------------------------------------------------------
\* The editor.  While a role is saved its controls are disabled.

\* Mutant: they are not.
EditableAnyTime == open \in RolePaths /\ draft # None /\ listed # None

Editable == open \in RolePaths /\ draft # None /\ listed # None /\ saving = "no"

Edited(new) ==
    /\ draft' = new /\ picked' = new
    /\ UNCHANGED <<pageVars, granted, catalogue, row, listed, savingVars>>

IsWildcard == Wildcard \in draft

\* Mutant: every skill of the taxonomy is offered.
OfferedByTaxonomy(c) == {s \in Skills \ Always : CategoryOf[s] = c}

Offered(c) == {s \in listed \ Always : CategoryOf[s] = c}
Sections == {c \in {CategoryOf[s] : s \in Skills} : Offered(c) # {}}

SetWildcard ==
    /\ Editable
    /\ Edited(IF IsWildcard THEN {} ELSE {Wildcard})

ToggleSkill ==
    /\ Editable
    /\ \E c \in Sections : \E s \in Offered(c) :
         Edited(IF IsWildcard THEN {s}
                ELSE IF s \in draft THEN draft \ {s} ELSE draft \cup {s})

GrantCategory ==
    /\ Editable /\ ~IsWildcard
    /\ \E c \in Sections :
         /\ ~(Offered(c) \subseteq draft)
         /\ Edited(draft \cup Offered(c))

RevokeCategory ==
    /\ Editable /\ ~IsWildcard
    /\ \E c \in Sections :
         /\ Offered(c) \cap draft # {}
         /\ Edited(draft \ Offered(c))

Dirty == row # None /\ draft # None /\ row # draft

Reset ==
    /\ Editable /\ Dirty
    /\ Edited(row)

-----------------------------------------------------------------------------
\* onSave and onSubmit.
Save ==
    /\ Editable
    /\ open = "/roles/name" => Dirty
    /\ saving' = "sent" /\ sent' = draft /\ patched' = FALSE
    /\ UNCHANGED <<pageVars, granted, catalogue, row, listed, draft, answer, picked>>

\* Each permission but the wildcard has to be in the catalogue.  A new role is
\* refused if there is one of its name, an edited one if there is none.
Known == sent \ {Wildcard} \subseteq catalogue
NameFits == (granted = None) = (row = None)

ServeSave ==
    /\ saving = "sent"
    /\ \/ /\ NameFits /\ Known
          /\ saving' = "stored" /\ granted' = sent
          /\ UNCHANGED pageVars
       \/ /\ NameFits /\ ~Known /\ saving' = "refused"
          /\ UNCHANGED <<granted, pageVars>>
       \/ /\ saving' = "failed"
          /\ IF NameFits THEN Fault ELSE UNCHANGED pageVars
          /\ UNCHANGED granted
    /\ UNCHANGED <<catalogue, row, listed, draft, sent, answer, patched, picked>>

\* After the commit the row is read again, in a new transaction, and that is
\* the answer; a row that is gone by then is an error.
RefreshSave ==
    /\ saving = "stored"
    /\ \/ /\ granted # None
          /\ saving' = "ok" /\ answer' = granted
          /\ UNCHANGED pageVars
       \/ /\ saving' = "failed"
          /\ IF granted = None THEN UNCHANGED pageVars ELSE Fault
          /\ UNCHANGED answer
    /\ UNCHANGED <<granted, catalogue, row, listed, draft, sent, patched, picked>>

\* Mutant: only a success enables the editor again.
StillSaving == IF saving = "ok" THEN "no" ELSE saving

\* finally: the editor and its buttons are enabled again.
Finished == "no"

\* What is answered is shown from now on; a new role ends the page.
SaveAnswered ==
    /\ saving \in {"ok", "refused", "failed"}
    /\ IF saving = "ok" /\ row # None THEN row' = answer /\ draft' = answer
       ELSE UNCHANGED <<row, draft>>
    /\ IF saving = "ok" /\ row = None THEN Leave ELSE UNCHANGED pageVars
    /\ saving' = Finished /\ sent' = None /\ answer' = None
    /\ UNCHANGED <<granted, catalogue, listed, patched, picked>>

\* Close and Cancel, and the link back, which does not wait for a save.
CloseRole ==
    /\ open \in RolePaths
    /\ Leave
    /\ UNCHANGED roleVars

\* Somebody else deletes, creates or patches the role, or syncs the catalogue.
RoleChanges ==
    /\ open \in RolePaths /\ Elsewhere
    /\ \/ granted' \in {None, {}, {Wildcard}} \ {granted} /\ UNCHANGED catalogue
       \/ catalogue' \in (SUBSET Skills) \ {catalogue} /\ UNCHANGED granted
    /\ patched' = (patched \/ (saving = "stored" /\ granted' # granted))
    /\ UNCHANGED <<row, listed, draft, saving, sent, answer, picked>>

RoleNext ==
    \/ LoadRole \/ LoadTools \/ LoadFails
    \/ SetWildcard \/ ToggleSkill \/ GrantCategory \/ RevokeCategory \/ Reset
    \/ Save \/ ServeSave \/ RefreshSave \/ SaveAnswered \/ CloseRole \/ RoleChanges

-----------------------------------------------------------------------------
\* What is in the editor is what the person chose or the page loaded last: the
\* answer to a save replaces it only if somebody else's change of the role came
\* between the save's commit and its refresh, and is then shown as what is
\* stored (roles/[name], onSave; roles/service.py, update_role).
EditsAreKept == draft # picked => patched /\ draft = row

\* The page says that saving validates each entry against the live catalogue.
\* If nobody changed anything since it was loaded, a save is refused only for
\* a permission that the role had before and that the editor does not list.
RefusalsHaveCause ==
    saving = "refused" /\ others = 0 =>
        row # None /\ (sent \cap row) \ (listed \cup {Wildcard}) # {}
=============================================================================
