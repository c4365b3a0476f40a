------------------------------- MODULE SkillPages -------------------------------
(***************************************************************************)
(* The pages that teach the robot a skill (app/skills/new/page.tsx) and    *)
(* that show one (app/skills/[name]/page.tsx).  A draft is whatever recipe *)
(* the broker's language model answers.                                    *)
(***************************************************************************)
EXTENDS Page

CONSTANT Recipes

VARIABLES
    described,  \* something is typed
    drafting,   \* "no", "sent", "failed", or the recipe that is answered
    drafted,    \* the recipe under review, or None
    shipping,   \* "no", "sent", "ok", "failed"
    created,    \* the recipe that the shipped request creates, or None
    recipe,     \* skill page: the skill: "there", "gone"
    skill,      \* skill page: "loading", "shown", "error"
    confirming, \* the dialog is open
    doing       \* the request of "invoke" or "delete": its step

newSkillVars == <<described, drafting, drafted, shipping, created>>
oldSkillVars == <<recipe, skill, confirming, doing>>
skillVars == <<newSkillVars, oldSkillVars>>

SkillPaths == {"/skills/new", "/skills/name"}
Outcomes == {"no", "sent", "ok", "failed"}
What == {"invoke", "delete"}

SkillTypeOK ==
    /\ described \in BOOLEAN /\ drafting \in Recipes \cup {"no", "sent", "failed"}
    /\ drafted \in Recipes \cup {None} /\ created \in Recipes \cup {None}
    /\ shipping \in Outcomes
    /\ recipe \in {"there", "gone"} /\ skill \in {"loading", "shown", "error"}
    /\ confirming \in BOOLEAN /\ doing \in [What -> Outcomes]

SkillInit ==
    /\ described = FALSE /\ drafting = "no" /\ drafted = None
    /\ shipping = "no" /\ created = None
    /\ recipe \in IF open = "/skills/name" THEN {"there", "gone"} ELSE {"gone"}
    /\ skill = "loading" /\ confirming = FALSE
    /\ doing = [w \in What |-> "no"]

-----------------------------------------------------------------------------
\* A new skill: onDraft and onShip.
Describe ==
    /\ open = "/skills/new" /\ drafting = "no" /\ shipping = "no"
    /\ described' = ~described
    /\ UNCHANGED <<pageVars, drafting, drafted, shipping, created, oldSkillVars>>

\* Mutant: the old draft stays on the screen.
DraftAgain ==
    /\ open = "/skills/new" /\ described /\ drafting = "no" /\ shipping = "no"
    /\ drafting' = "sent"
    /\ UNCHANGED <<pageVars, described, drafted, shipping, created, oldSkillVars>>

Draft ==
    /\ open = "/skills/new" /\ described /\ drafting = "no" /\ shipping = "no"
    /\ drafting' = "sent" /\ drafted' = None
    /\ UNCHANGED <<pageVars, described, shipping, created, oldSkillVars>>

ServeDraft ==
    /\ drafting = "sent"
    /\ \/ drafting' \in Recipes /\ UNCHANGED pageVars
       \/ drafting' = "failed" /\ Fault
    /\ UNCHANGED <<described, drafted, shipping, created, oldSkillVars>>

DraftAnswered ==
    /\ drafting \notin {"no", "sent"}
    /\ drafted' = IF drafting \in Recipes THEN drafting ELSE drafted
    /\ drafting' = "no"
    /\ UNCHANGED <<pageVars, described, shipping, created, oldSkillVars>>

Discard ==
    /\ open = "/skills/new" /\ drafted # None /\ shipping = "no"
    /\ drafted' = None
    /\ UNCHANGED <<pageVars, described, drafting, shipping, created, oldSkillVars>>

Ship ==
    /\ open = "/skills/new" /\ drafted # None /\ shipping = "no"
    /\ shipping' = "sent" /\ created' = drafted
    /\ UNCHANGED <<pageVars, described, drafting, drafted, oldSkillVars>>

ServeShip ==
    /\ shipping = "sent"
    /\ \/ shipping' = "ok" /\ UNCHANGED pageVars
       \/ shipping' = "failed" /\ Fault
    /\ UNCHANGED <<described, drafting, drafted, created, oldSkillVars>>

ShipAnswered ==
    /\ shipping \in {"ok", "failed"}
    /\ IF shipping = "ok" THEN Leave ELSE UNCHANGED pageVars
    /\ shipping' = "no" /\ created' = None
    /\ UNCHANGED <<described, drafting, drafted, oldSkillVars>>

-----------------------------------------------------------------------------
\* A skill that there is.
LoadSkill ==
    /\ open = "/skills/name" /\ skill = "loading"
    /\ \/ skill' = (IF recipe = "there" THEN "shown" ELSE "error") /\ UNCHANGED pageVars
       \/ skill' = "error" /\ Fault
    /\ UNCHANGED <<newSkillVars, recipe, confirming, doing>>

Idle(w) == doing[w] = "no"

\* Both buttons are disabled while the page is busy.
NotBusy == \A w \in What : Idle(w)

OpenDialog ==
    /\ open = "/skills/name" /\ skill = "shown" /\ ~confirming /\ NotBusy
    /\ confirming' = TRUE
    /\ UNCHANGED <<pageVars, newSkillVars, recipe, skill, doing>>

\* Cancel is disabled while a deletion is on; Escape is not.
CloseDialog ==
    /\ open = "/skills/name" /\ confirming
    /\ confirming' = FALSE
    /\ UNCHANGED <<pageVars, newSkillVars, recipe, skill, doing>>

\* The dialog covers the button "Invoke now".
Do(w) ==
    /\ open = "/skills/name" /\ skill = "shown"
    /\ IF w = "delete" THEN confirming /\ Idle("delete") ELSE ~confirming /\ NotBusy
    /\ doing' = [doing EXCEPT ![w] = "sent"]
    /\ UNCHANGED <<pageVars, newSkillVars, recipe, skill, confirming>>

ServeDo(w) ==
    /\ doing[w] = "sent"
    /\ \/ /\ recipe = "there"
          /\ recipe' = IF w = "delete" THEN "gone" ELSE recipe
          /\ \/ doing' = [doing EXCEPT ![w] = "ok"] /\ UNCHANGED pageVars
             \/ doing' = [doing EXCEPT ![w] = "failed"] /\ Fault
       \/ /\ doing' = [doing EXCEPT ![w] = "failed"]
          /\ IF recipe = "there" THEN Fault ELSE UNCHANGED pageVars
          /\ UNCHANGED recipe
    /\ UNCHANGED <<newSkillVars, skill, confirming>>

\* After a deletion the page is left, and stays busy until it is.
DoAnswered(w) ==
    /\ doing[w] \in {"ok", "failed"}
    /\ IF w = "delete" /\ doing[w] = "ok" THEN Leave ELSE UNCHANGED pageVars
    /\ doing' = [doing EXCEPT ![w] = "no"]
    /\ UNCHANGED <<newSkillVars, recipe, skill, confirming>>

\* A link; requests go on.
LeaveSkill ==
    /\ open \in SkillPaths /\ ~confirming
    /\ Leave
    /\ UNCHANGED skillVars

SkillDeleted ==
    /\ open = "/skills/name" /\ Elsewhere
    /\ recipe' = "gone"
    /\ UNCHANGED <<newSkillVars, skill, confirming, doing>>

SkillNext ==
    \/ Describe \/ Draft \/ ServeDraft \/ DraftAnswered \/ Discard
    \/ Ship \/ ServeShip \/ ShipAnswered
    \/ LoadSkill \/ OpenDialog \/ CloseDialog \/ LeaveSkill \/ SkillDeleted
    \/ \E w \in What : Do(w) \/ ServeDo(w) \/ DoAnswered(w)

-----------------------------------------------------------------------------
\* The page promises that "you confirm before shipping": while a recipe is
\* being created, it is what the screen shows for review, and no draft is on
\* its way that would replace it.
ShippedIsShown ==
    shipping # "no" => drafted = created /\ drafting = "no"
=============================================================================
