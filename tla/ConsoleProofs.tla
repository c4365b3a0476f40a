------------------------------ MODULE ConsoleProofs ------------------------------
(***************************************************************************)
(* Theorems about the pages of the console, for any number of rows,        *)
(* skills, recipes, pictures and cameras.  Each invariant is about the     *)
(* variables of one page, which the steps of other pages leave alone.      *)
(***************************************************************************)
EXTENDS Console, TLAPS

-----------------------------------------------------------------------------
\* What the steps of a page do to the page that is open: lists and the chat
\* stay, the others stay or leave.  Changes by others are counted.
LEMMA ListsStay ==
    ListNext => open' = open /\ others' \in {others, others + 1}
<1> SUFFICES ASSUME ListNext
             PROVE  open' = open /\ others' \in {others, others + 1}
    OBVIOUS
<1> USE DEF pageVars, Fault, Elsewhere
<1>1. CASE Poll \/ ClickSync \/ RowsChange
    BY <1>1 DEF Poll, ClickSync, RowsChange
<1>2. CASE \E p \in AllParts, s \in Reads : ServeRead(p, s) \/ ReadAnswered(p, s)
    BY <1>2 DEF ServeRead, ReadAnswered
<1>3. CASE \E r \in Rows :
              \/ DeleteUser(r) \/ InvokeRecipe(r) \/ TogglePolicy(r)
              \/ DeletePolicy(r) \/ DeleteRole(r)
    BY <1>3 DEF DeleteUser, InvokeRecipe, TogglePolicy, DeletePolicy, DeleteRole, Click
<1>4. CASE \E o \in DOMAIN ops : ServeOp(o) \/ OpAnswered(o)
    BY <1>4 DEF ServeOp, OpAnswered
<1>5. QED
    BY <1>1, <1>2, <1>3, <1>4 DEF ListNext

LEMMA ChatStays ==
    ChatNext => open' = open /\ others' \in {others, others + 1}
BY DEF ChatNext, Connect, Disconnect, Receive, SendMessage, ServeMessage,
       MessageAnswered, RobotSays, RobotDone, OtherChats, pageVars, Fault, Elsewhere

LEMMA RolesStay == RoleNext => open' \in {open, None}
BY DEF RoleNext, LoadRole, LoadTools, LoadFails, SetWildcard, ToggleSkill,
       GrantCategory, RevokeCategory, Reset, Edited, Save, ServeSave, RefreshSave, SaveAnswered,
       CloseRole, RoleChanges, pageVars, Leave, Fault, Elsewhere

LEMMA SkillsStay ==
    SkillNext => open' \in {open, None} /\ others' \in {others, others + 1}
<1> SUFFICES ASSUME SkillNext
             PROVE  open' \in {open, None} /\ others' \in {others, others + 1}
    OBVIOUS
<1> USE DEF pageVars, Leave, Fault, Elsewhere
<1>1. CASE Describe \/ Draft \/ ServeDraft \/ DraftAnswered \/ Discard
    BY <1>1 DEF Describe, Draft, ServeDraft, DraftAnswered, Discard
<1>2. CASE Ship \/ ServeShip \/ ShipAnswered
    BY <1>2 DEF Ship, ServeShip, ShipAnswered
<1>3. CASE LoadSkill \/ OpenDialog \/ CloseDialog \/ LeaveSkill \/ SkillDeleted
    BY <1>3 DEF LoadSkill, OpenDialog, CloseDialog, LeaveSkill, SkillDeleted
<1>4. CASE \E w \in What : Do(w) \/ ServeDo(w) \/ DoAnswered(w)
    BY <1>4 DEF Do, ServeDo, DoAnswered
<1>5. QED
    BY <1>1, <1>2, <1>3, <1>4 DEF SkillNext

LEMMA PersonStays ==
    PersonNext => open' \in {open, None} /\ others' \in {others, others + 1}
<1> SUFFICES ASSUME PersonNext
             PROVE  open' \in {open, None} /\ others' \in {others, others + 1}
    OBVIOUS
<1> USE DEF pageVars, Leave, Gone, Fault, Elsewhere
<1>1. CASE LoadRoles \/ ChooseRole
    BY <1>1 DEF LoadRoles, ChooseRole
<1>2. CASE \E to \in {"webcam", "upload"} : SwitchMode(to)
    BY <1>2 DEF SwitchMode
<1>3. CASE \E m \in Mounts : CameraGiven(m) \/ CameraDenied(m) \/ Played(m)
    BY <1>3 DEF CameraGiven, CameraDenied, Played
<1>4. CASE Snap \/ PickFile \/ \E p \in Pictures : Encoded(p)
    BY <1>4 DEF Snap, PickFile, Encoded
<1>5. CASE Submit \/ ServeCreate \/ CreateAnswered \/ ServeUpload \/ UploadAnswered
    BY <1>5 DEF Submit, ServeCreate, CreateAnswered, ServeUpload, UploadAnswered
<1>6. CASE LeavePerson \/ PersonChanges
    BY <1>6 DEF LeavePerson, PersonChanges
<1>7. QED
    BY <1>1, <1>2, <1>3, <1>4, <1>5, <1>6 DEF PersonNext

-----------------------------------------------------------------------------
\* The editor of a role.  A save that is on has what the editor shows and the
\* person chose, and nothing is loaded any more; what the save stored is what it
\* is answered with, unless somebody patched the role in between.
EditInv ==
    /\ EditsAreKept
    /\ open = "/roles/new" => row = None
    /\ saving # "no" =>
         /\ sent = draft /\ draft # None /\ listed # None /\ draft = picked
         /\ open = "/roles/name" => row # None
    /\ saving = "stored" /\ ~patched => granted = sent
    /\ saving = "ok" => answer # None /\ (~patched => answer = sent)

LEMMA EditInvInit == Init => EditInv
BY DEF Init, RoleInit, EditInv, EditsAreKept

LEMMA EditInvEdit ==
    ASSUME EditInv, Editable, NEW new, Edited(new)
    PROVE  EditInv'
BY DEF EditInv, EditsAreKept, Editable, Edited, pageVars, savingVars

LEMMA EditInvRole == EditInv /\ RoleNext => EditInv'
<1> SUFFICES ASSUME EditInv, RoleNext PROVE EditInv'
    OBVIOUS
<1> USE DEF EditInv, EditsAreKept, pageVars, savingVars
<1>1. CASE LoadRole
    BY <1>1, NoneIsNoPath DEF LoadRole, Leave, AllPaths, RolePaths
<1>2. CASE LoadTools
    BY <1>2 DEF LoadTools
<1>3. CASE LoadFails
    BY <1>3, NoneIsNoPath DEF LoadFails, roleVars, AllPaths, RolePaths
<1>4. CASE SetWildcard \/ ToggleSkill \/ GrantCategory \/ RevokeCategory \/ Reset
    <2>1. PICK new : Editable /\ Edited(new)
        BY <1>4 DEF SetWildcard, ToggleSkill, GrantCategory, RevokeCategory, Reset
    <2>2. QED
        BY <2>1, EditInvEdit
<1>5. CASE Save
    BY <1>5 DEF Save, Editable, Dirty, RolePaths
<1>6. CASE ServeSave
    BY <1>6 DEF ServeSave, Fault
<1>11. CASE RefreshSave
    BY <1>11 DEF RefreshSave, Fault
<1>7. CASE SaveAnswered
    BY <1>7, NoneIsNoPath DEF SaveAnswered, Finished, Leave, AllPaths, RolePaths
<1>8. CASE CloseRole
    BY <1>8, NoneIsNoPath DEF CloseRole, Leave, roleVars, AllPaths, RolePaths
<1>9. CASE RoleChanges
    BY <1>9 DEF RoleChanges, Elsewhere
<1>10. QED
    BY <1>1, <1>2, <1>3, <1>4, <1>5, <1>6, <1>7, <1>8, <1>9, <1>11 DEF RoleNext

LEMMA EditInvNext == EditInv /\ [Next]_vars => EditInv'
<1> SUFFICES ASSUME EditInv, [Next]_vars PROVE EditInv'
    OBVIOUS
<1> USE DEF EditInv, EditsAreKept, roleVars, pageVars, savingVars
<1>1. CASE RoleNext
    BY <1>1, EditInvRole
<1>2. CASE ListNext /\ UNCHANGED roleVars
    BY <1>2, ListsStay
<1>3. CASE SkillNext /\ UNCHANGED roleVars
    BY <1>3, SkillsStay, NoneIsNoPath DEF AllPaths, RolePaths
<1>4. CASE PersonNext /\ UNCHANGED roleVars
    BY <1>4, PersonStays, NoneIsNoPath DEF AllPaths, RolePaths
<1>5. CASE ChatNext /\ UNCHANGED roleVars
    BY <1>5, ChatStays
<1>6. CASE UNCHANGED vars
    BY <1>6 DEF vars
<1>7. QED
    BY <1>1, <1>2, <1>3, <1>4, <1>5, <1>6 DEF Next

\* What the person has chosen in the editor of a role stays there, for any
\* skills and categories, unless somebody patched the role between a save's
\* commit and its refresh (roles/[name]/page.tsx, onSave; roles/service.py).
THEOREM KeepsEdits == Spec => []EditsAreKept
<1>1. Init => EditInv
    BY EditInvInit
<1>2. EditInv /\ [Next]_vars => EditInv'
    BY EditInvNext
<1>3. EditInv => EditsAreKept
    BY DEF EditInv
<1>4. QED
    BY <1>1, <1>2, <1>3, PTL DEF Spec

-----------------------------------------------------------------------------
\* The draft of a skill.  No recipe is on the screen while one is drafted.
DraftInv ==
    /\ ShippedIsShown
    /\ drafting # "no" => drafted = None /\ shipping = "no"

LEMMA DraftInvSkill == DraftInv /\ SkillNext => DraftInv'
<1> SUFFICES ASSUME DraftInv, SkillNext PROVE DraftInv'
    OBVIOUS
<1> USE DEF DraftInv, ShippedIsShown
<1>1. CASE Describe \/ Draft \/ Discard
    BY <1>1 DEF Describe, Draft, Discard
<1>2. CASE ServeDraft \/ DraftAnswered
    BY <1>2 DEF ServeDraft, DraftAnswered
<1>3. CASE Ship \/ ServeShip \/ ShipAnswered
    BY <1>3 DEF Ship, ServeShip, ShipAnswered
<1>4. CASE UNCHANGED newSkillVars
    BY <1>4 DEF newSkillVars
<1>5. CASE LoadSkill \/ OpenDialog \/ CloseDialog \/ LeaveSkill \/ SkillDeleted
    BY <1>4, <1>5 DEF LoadSkill, OpenDialog, CloseDialog, LeaveSkill, SkillDeleted, skillVars
<1>6. CASE \E w \in What : Do(w) \/ ServeDo(w) \/ DoAnswered(w)
    BY <1>4, <1>6 DEF Do, ServeDo, DoAnswered
<1>7. QED
    BY <1>1, <1>2, <1>3, <1>5, <1>6 DEF SkillNext

\* "You confirm before shipping": the recipe that is being created is the one
\* on the screen, whatever the language model answers and when
\* (skills/new/page.tsx, onDraft and onShip).
THEOREM ShipsWhatIsShown == Spec => []ShippedIsShown
<1>1. Init => DraftInv
    BY DEF Init, SkillInit, DraftInv, ShippedIsShown
<1>2. DraftInv /\ [Next]_vars => DraftInv'
    <2>1. CASE SkillNext
        BY <2>1, DraftInvSkill
    <2>2. CASE UNCHANGED skillVars
        BY <2>2 DEF skillVars, newSkillVars, DraftInv, ShippedIsShown
    <2>3. QED
        BY <2>1, <2>2 DEF Next, vars
<1>3. DraftInv => ShippedIsShown
    BY DEF DraftInv
<1>4. QED
    BY <1>1, <1>2, <1>3, PTL DEF Spec

-----------------------------------------------------------------------------
\* The page that adds a person.  While it is open, no other page has a request
\* on that would leave it.
QuietInv ==
    Here => /\ saving = "no" /\ drafting = "no" /\ shipping = "no"
            /\ \A w \in What : doing[w] = "no"

LEMMA QuietRoles == QuietInv /\ RoleNext => ~Here
BY DEF QuietInv, Here, RoleNext, RolePaths, LoadRole, LoadTools, LoadFails, SetWildcard,
       ToggleSkill, GrantCategory, RevokeCategory, Reset, Editable, Save, ServeSave, RefreshSave,
       SaveAnswered, CloseRole, RoleChanges

LEMMA QuietSkills == QuietInv /\ SkillNext => ~Here
<1> SUFFICES ASSUME QuietInv, SkillNext, Here PROVE FALSE
    OBVIOUS
<1> USE DEF QuietInv, Here, SkillPaths
<1>1. CASE Describe \/ Draft \/ ServeDraft \/ DraftAnswered \/ Discard
    BY <1>1 DEF Describe, Draft, ServeDraft, DraftAnswered, Discard
<1>2. CASE Ship \/ ServeShip \/ ShipAnswered
    BY <1>2 DEF Ship, ServeShip, ShipAnswered
<1>3. CASE LoadSkill \/ OpenDialog \/ CloseDialog \/ LeaveSkill \/ SkillDeleted
    BY <1>3 DEF LoadSkill, OpenDialog, CloseDialog, LeaveSkill, SkillDeleted
<1>4. CASE \E w \in What : Do(w) \/ ServeDo(w) \/ DoAnswered(w)
    BY <1>4 DEF Do, ServeDo, DoAnswered
<1>5. QED
    BY <1>1, <1>2, <1>3, <1>4 DEF SkillNext

LEMMA QuietNext == QuietInv /\ [Next]_vars => QuietInv'
<1> SUFFICES ASSUME QuietInv, [Next]_vars, Here' PROVE QuietInv'
    BY DEF QuietInv
<1> USE NoneIsNoPath DEF AllPaths, Here
<1>1. CASE RoleNext
    BY <1>1, QuietRoles, RolesStay
<1>2. CASE SkillNext
    BY <1>2, QuietSkills, SkillsStay
<1>3. CASE (ListNext \/ PersonNext \/ ChatNext) /\ UNCHANGED <<roleVars, skillVars>>
    <2>1. Here
        BY <1>3, ListsStay, PersonStays, ChatStays
    <2>2. QED
        BY <1>3, <2>1 DEF QuietInv, roleVars, savingVars, skillVars, newSkillVars, oldSkillVars
<1>4. CASE UNCHANGED vars
    BY <1>4 DEF vars, pageVars, roleVars, savingVars, skillVars, newSkillVars, oldSkillVars, QuietInv
<1>5. QED
    BY <1>1, <1>2, <1>3, <1>4 DEF Next

\* A step of another page leaves this one and its variables alone.
LEMMA OthersLeaveAlone ==
    QuietInv /\ [Next]_vars /\ ~PersonNext => UNCHANGED personVars /\ Here' = Here
<1> SUFFICES ASSUME QuietInv, [Next]_vars, ~PersonNext
             PROVE  UNCHANGED personVars /\ Here' = Here
    OBVIOUS
<1> USE NoneIsNoPath DEF AllPaths, Here
<1>1. CASE RoleNext /\ UNCHANGED personVars
    BY <1>1, QuietRoles, RolesStay
<1>2. CASE SkillNext /\ UNCHANGED personVars
    BY <1>2, QuietSkills, SkillsStay
<1>3. CASE (ListNext \/ ChatNext) /\ UNCHANGED personVars
    BY <1>3, ListsStay, ChatStays
<1>4. CASE UNCHANGED vars
    BY <1>4 DEF vars, pageVars
<1>5. QED
    BY <1>1, <1>2, <1>3, <1>4 DEF Next

CameraInv ==
    /\ camera \in [Mounts -> {"none", "asked", "denied", "stopped"} \cup On]
    /\ mount # 0 => Here /\ mode = "webcam"
    /\ \A m \in Mounts : camera[m] \in On => m = mount

LEMMA CameraInvInit == Init => CameraInv
BY DEF Init, PersonInit, CameraInv, On, Mounts

LEMMA UnmountedIsOff ==
    ASSUME CameraInv
    PROVE  /\ Unmounted \in [Mounts -> {"none", "asked", "denied", "stopped"} \cup On]
           /\ \A m \in Mounts : Unmounted[m] \notin On
BY DEF CameraInv, Unmounted, On

LEMMA CameraInvPerson == CameraInv /\ PersonNext => CameraInv'
<1> SUFFICES ASSUME CameraInv, PersonNext PROVE CameraInv'
    OBVIOUS
<1> USE DEF CameraInv, On
<1>1. CASE UNCHANGED <<mode, mount, camera>> /\ open' = open
    BY <1>1 DEF Here
<1>2. CASE Gone
    BY <1>2, UnmountedIsOff DEF Gone
<1>3. ASSUME NEW to \in {"webcam", "upload"}, SwitchMode(to) PROVE CameraInv'
    <2>1. CASE to = "upload"
        BY <1>3, <2>1, UnmountedIsOff DEF SwitchMode
    <2>2. CASE to = "webcam" /\ mode = "webcam"
        BY <1>3, <2>2 DEF SwitchMode, Enabled_, Here, pageVars
    <2>3. CASE to = "webcam" /\ mode # "webcam"
        <3>1. mount = 0 /\ \A m \in Mounts : camera[m] \notin On
            BY <2>3 DEF Mounts
        <3>2. QED
            BY <1>3, <2>3, <3>1 DEF SwitchMode, Enabled_, Here, pageVars, Camera
    <2>4. QED
        BY <2>1, <2>2, <2>3
<1>4. ASSUME NEW m \in Mounts, CameraGiven(m) \/ CameraDenied(m) \/ Played(m)
      PROVE  CameraInv'
    BY <1>4 DEF CameraGiven, CameraDenied, Played, Camera, pageVars, Here
<1>5. CASE LoadRoles \/ ChooseRole \/ Snap \/ PickFile
    BY <1>1, <1>5
    DEF LoadRoles, ChooseRole, Snap, PickFile, faceVars, pageVars, Fault
<1>6. CASE \E p \in Pictures : Encoded(p)
    BY <1>1, <1>6 DEF Encoded, pageVars
<1>7. CASE Submit \/ ServeCreate \/ ServeUpload \/ PersonChanges
    BY <1>1, <1>7
    DEF Submit, ServeCreate, ServeUpload, PersonChanges, faceVars, pageVars, Fault, Elsewhere
<1>8. CASE CreateAnswered \/ UploadAnswered \/ LeavePerson
    BY <1>1, <1>2, <1>8 DEF CreateAnswered, UploadAnswered, LeavePerson, pageVars
<1>9. QED
    BY <1>3, <1>4, <1>5, <1>6, <1>7, <1>8 DEF PersonNext

LEMMA CameraInvHolds == Spec => [](QuietInv /\ CameraInv)
<1>1. Init => QuietInv /\ CameraInv
    BY CameraInvInit DEF Init, RoleInit, SkillInit, QuietInv
<1>2. QuietInv /\ CameraInv /\ [Next]_vars => (QuietInv /\ CameraInv)'
    <2>1. QuietInv /\ CameraInv /\ UNCHANGED personVars /\ Here' = Here => CameraInv'
        BY DEF CameraInv, personVars, faceVars
    <2>2. QED
        BY <2>1, QuietNext, OthersLeaveAlone, CameraInvPerson
<1>3. QED
    BY <1>1, <1>2, PTL DEF Spec

\* The camera is on only while its video or error is on the screen, however
\* often the mode changes and however late the browser answers
\* (face-capture.tsx, the effect of WebcamCapture).
THEOREM TurnsCameraOff == Spec => []CameraOffWhenLeft
<1>1. CameraInv => CameraOffWhenLeft
    BY DEF CameraInv, CameraOffWhenLeft, Mounts
<1>2. QED
    BY <1>1, CameraInvHolds, PTL

-----------------------------------------------------------------------------
\* What is uploaded.  A face is only stored once a submission is over.
SaveInv ==
    /\ SavedAsShown
    /\ saveStep \in {"create", "created", "upload"} => captured = shownAtSave
    /\ faceStored # None => saveStep \in {"uploaded", "failed", "over"}

LEMMA SaveInvPerson == SaveInv /\ PersonNext => SaveInv'
<1> SUFFICES ASSUME SaveInv, PersonNext PROVE SaveInv'
    OBVIOUS
<1> USE DEF SaveInv, SavedAsShown
<1>1. CASE UNCHANGED saveVars
    BY <1>1 DEF saveVars
<1>2. CASE LoadRoles \/ ChooseRole \/ Snap \/ PickFile \/ LeavePerson
    BY <1>1, <1>2 DEF LoadRoles, ChooseRole, Snap, PickFile, LeavePerson
<1>3. CASE \/ \E to \in {"webcam", "upload"} : SwitchMode(to)
           \/ \E m \in Mounts : CameraGiven(m) \/ CameraDenied(m) \/ Played(m)
           \/ \E p \in Pictures : Encoded(p)
    BY <1>1, <1>3 DEF SwitchMode, CameraGiven, CameraDenied, Played, Encoded
<1>4. CASE Submit \/ ServeCreate
    BY <1>4 DEF Submit, ServeCreate, Enabled_
<1>5. CASE CreateAnswered
    BY <1>5 DEF CreateAnswered, Picture
<1>6. CASE ServeUpload \/ UploadAnswered
    BY <1>6 DEF ServeUpload, UploadAnswered
<1>7. CASE PersonChanges
    BY <1>7 DEF PersonChanges
<1>8. QED
    BY <1>2, <1>3, <1>4, <1>5, <1>6, <1>7 DEF PersonNext

\* The face that is stored for a new person is the one that was on the screen
\* when Save was clicked (users/new/page.tsx, onSubmit).
THEOREM SavesWhatIsShown == Spec => []SavedAsShown
<1>1. Init => SaveInv
    BY DEF Init, PersonInit, SaveInv, SavedAsShown
<1>2. SaveInv /\ [Next]_vars => SaveInv'
    <2>1. CASE PersonNext
        BY <2>1, SaveInvPerson
    <2>2. CASE UNCHANGED saveVars
        BY <2>2 DEF saveVars, SaveInv, SavedAsShown
    <2>3. QED
        BY <2>1, <2>2 DEF Next, vars, personVars
<1>3. SaveInv => SavedAsShown
    BY DEF SaveInv
<1>4. QED
    BY <1>1, <1>2, <1>3, PTL DEF Spec

-----------------------------------------------------------------------------
\* A save that is refused.  As long as nobody else has changed anything, the
\* editor holds what its lists offer and what the role had.
ListedOrHad ==
    (IF listed = None THEN {} ELSE listed) \cup (IF row = None THEN {} ELSE row) \cup {Wildcard}

CauseInv ==
    /\ others \in Nat
    /\ RefusalsHaveCause
    /\ others = 0 => /\ listed # None => listed = catalogue
                     /\ draft # None => draft \subseteq ListedOrHad

LEMMA CauseInvEdit ==
    ASSUME CauseInv, Editable, NEW new, Edited(new),
           listed # None => new \subseteq ListedOrHad
    PROVE  CauseInv'
BY DEF CauseInv, RefusalsHaveCause, ListedOrHad, Editable, Edited, pageVars, savingVars

LEMMA CauseInvRole == EditInv /\ CauseInv /\ RoleNext => CauseInv'
<1> SUFFICES ASSUME EditInv, CauseInv, RoleNext PROVE CauseInv'
    OBVIOUS
<1> USE DEF CauseInv, RefusalsHaveCause, ListedOrHad, pageVars, savingVars
<1>1. CASE LoadRole
    BY <1>1 DEF LoadRole, Leave, EditInv
<1>2. CASE LoadTools
    BY <1>2 DEF LoadTools, EditInv
<1>3. CASE LoadFails
    BY <1>3 DEF LoadFails, roleVars
<1>4. CASE SetWildcard \/ ToggleSkill \/ GrantCategory \/ RevokeCategory \/ Reset
    <2>1. Editable /\ (others = 0 => draft \subseteq ListedOrHad)
        BY <1>4 DEF SetWildcard, ToggleSkill, GrantCategory, RevokeCategory, Reset, Editable
    <2>2. \A c : Offered(c) \subseteq listed
        BY DEF Offered
    <2>3. PICK new : Edited(new) /\ (others = 0 => new \subseteq ListedOrHad)
        <3>1. CASE SetWildcard
            BY <2>1, <3>1 DEF SetWildcard
        <3>2. CASE ToggleSkill
            <4>1. PICK s : /\ s \in listed
                           /\ Edited(IF IsWildcard THEN {s}
                                     ELSE IF s \in draft THEN draft \ {s} ELSE draft \cup {s})
                BY <2>2, <3>2 DEF ToggleSkill
            <4>2. QED
                BY <2>1, <4>1 DEF Editable
        <3>3. CASE GrantCategory
            <4>1. PICK c : Edited(draft \cup Offered(c))
                BY <3>3 DEF GrantCategory
            <4>2. Offered(c) \subseteq ListedOrHad
                BY <2>1, <2>2 DEF Editable
            <4>3. QED
                BY <2>1, <4>1, <4>2
        <3>4. CASE RevokeCategory
            <4>1. PICK c : Edited(draft \ Offered(c))
                BY <3>4 DEF RevokeCategory
            <4>2. QED
                BY <2>1, <4>1
        <3>5. CASE Reset
            BY <2>1, <3>5 DEF Reset, Dirty
        <3>6. QED
            BY <1>4, <3>1, <3>2, <3>3, <3>4, <3>5
    <2>4. QED
        BY <2>1, <2>3 DEF Editable, Edited
<1>5. CASE Save
    BY <1>5 DEF Save
<1>6. CASE ServeSave
    <2>1. CASE saving' = "refused"
        <3>1. /\ saving = "sent" /\ ~(sent \ {Wildcard} \subseteq catalogue)
              /\ UNCHANGED <<others, catalogue, row, listed, draft, sent>>
            BY <1>6, <2>1 DEF ServeSave, Known, Fault
        <3>2. /\ sent = draft /\ draft # None /\ listed # None
            BY <3>1 DEF EditInv
        <3>3. ASSUME others = 0
              PROVE  row # None /\ (sent \cap row) \ (listed \cup {Wildcard}) # {}
            <4>1. listed = catalogue /\ draft \subseteq ListedOrHad
                BY <3>2, <3>3
            <4>2. PICK s \in sent : s # Wildcard /\ s \notin catalogue
                BY <3>1
            <4>3. row # None /\ s \in row
                BY <3>2, <4>1, <4>2
            <4>4. QED
                BY <4>1, <4>2, <4>3
        <3>4. QED
            BY <2>1, <3>1, <3>3
    <2>2. CASE saving' # "refused"
        BY <1>6, <2>2 DEF ServeSave, Fault
    <2>3. QED
        BY <2>1, <2>2
<1>11. CASE RefreshSave
    BY <1>11 DEF RefreshSave, Fault
<1>7. CASE SaveAnswered
    BY <1>7 DEF SaveAnswered, Finished, Leave
<1>8. CASE CloseRole
    BY <1>8 DEF CloseRole, Leave, roleVars
<1>9. CASE RoleChanges
    BY <1>9 DEF RoleChanges, Elsewhere
<1>10. QED
    BY <1>1, <1>2, <1>3, <1>4, <1>5, <1>6, <1>7, <1>8, <1>9, <1>11 DEF RoleNext

\* Other pages only count what others change.
LEMMA OthersGrow ==
    ASSUME CauseInv, UNCHANGED roleVars, others' \in {others, others + 1}
    PROVE  CauseInv'
BY DEF CauseInv, RefusalsHaveCause, ListedOrHad, roleVars, savingVars

LEMMA CauseInvNext == EditInv /\ CauseInv /\ [Next]_vars => CauseInv'
<1> SUFFICES ASSUME EditInv, CauseInv, [Next]_vars PROVE CauseInv'
    OBVIOUS
<1>1. CASE RoleNext
    BY <1>1, CauseInvRole
<1>2. CASE ListNext /\ UNCHANGED roleVars
    BY <1>2, OthersGrow, ListsStay
<1>3. CASE SkillNext /\ UNCHANGED roleVars
    BY <1>3, OthersGrow, SkillsStay
<1>4. CASE PersonNext /\ UNCHANGED roleVars
    BY <1>4, OthersGrow, PersonStays
<1>5. CASE ChatNext /\ UNCHANGED roleVars
    BY <1>5, OthersGrow, ChatStays
<1>6. CASE UNCHANGED vars
    BY <1>6, OthersGrow DEF vars, pageVars
<1>7. QED
    BY <1>1, <1>2, <1>3, <1>4, <1>5, <1>6 DEF Next

\* As long as nobody else changes anything, a save is refused only for a
\* permission that the role had before and that the editor cannot show
\* (role-permissions-editor.tsx), for any catalogue, categories and roles.
THEOREM RefusesWithCause == Spec => []RefusalsHaveCause
<1>1. Init => EditInv /\ CauseInv
    BY EditInvInit DEF Init, PageInit, RoleInit, CauseInv, RefusalsHaveCause, ListedOrHad
<1>2. EditInv /\ CauseInv /\ [Next]_vars => (EditInv /\ CauseInv)'
    BY EditInvNext, CauseInvNext
<1>3. CauseInv => RefusalsHaveCause
    BY DEF CauseInv
<1>4. QED
    BY <1>1, <1>2, <1>3, PTL DEF Spec

-----------------------------------------------------------------------------
\* The buttons of a list.  A lone operation is the only one that is on.
ButtonInv ==
    /\ ops \in Seq(Ops)
    /\ \A o \in DOMAIN ops :
         /\ ops[o].step = "over" => ops[o] = Over
         /\ ops[o].what = "sync" => ops[o].row = None
         /\ ops[o].lone /\ Busy(o) => \A p \in DOMAIN ops \ {o} : ~Busy(p)
    /\ ButtonsTellTheTruth

LEMMA OverIsNotLone == Over.step = "over" /\ Over.row = None /\ ~Over.lone
BY DEF Over

\* Start leaves the other operations as they are, but for their being lone.
Started(r, w) ==
    /\ ops' \in Seq(Ops) /\ DOMAIN ops' = DOMAIN ops \cup {Len(ops) + 1}
    /\ Len(ops) + 1 \notin DOMAIN ops
    /\ \A o \in DOMAIN ops :
         /\ ops'[o].row = ops[o].row /\ ops'[o].what = ops[o].what
         /\ ops'[o].step = ops[o].step /\ ops'[o].lone = FALSE
         /\ ops[o] = Over => ops'[o] = Over
    /\ LET new == ops'[Len(ops) + 1]
       IN  /\ new.row = r /\ new.what = w /\ new.step = "sent"
           /\ new.lone = TRUE => \A o \in DOMAIN ops : ~Busy(o)

LEMMA NoLongerLone ==
    ASSUME NEW x \in Ops
    PROVE  LET y == [x EXCEPT !.lone = FALSE]
           IN  /\ y \in Ops /\ y.row = x.row /\ y.what = x.what /\ y.step = x.step
               /\ y.lone = FALSE /\ (x = Over => y = Over)
<1> DEFINE y == [x EXCEPT !.lone = FALSE]
<1>1. y \in Ops
    BY DEF Ops
<1>2. y.row = x.row /\ y.what = x.what /\ y.step = x.step /\ y.lone = FALSE
    BY DEF Ops
<1>3. x = Over => y = Over
    <2> HIDE DEF y
    <2>1. y = [row |-> y.row, what |-> y.what, step |-> y.step, lone |-> y.lone]
        BY <1>1 DEF Ops
    <2>2. QED
        BY <1>2, <2>1 DEF Over
<1>4. QED
    BY <1>1, <1>2, <1>3

LEMMA StartAppends ==
    ASSUME ButtonInv, NEW r \in Rows \cup {None}, NEW w \in {"delete", "on", "off", "invoke", "sync"},
           Start(r, w)
    PROVE  Started(r, w)
<1> DEFINE rest == [o \in DOMAIN ops |-> [ops[o] EXCEPT !.lone = FALSE]]
           alone == \A o \in DOMAIN ops : ~Busy(o)
           new == [row |-> r, what |-> w, step |-> "sent", lone |-> alone]
<1>1. \A o \in DOMAIN ops : ops[o] \in Ops
    BY DEF ButtonInv
<1>2. \A o \in DOMAIN ops :
        /\ rest[o] \in Ops /\ rest[o].row = ops[o].row /\ rest[o].what = ops[o].what
        /\ rest[o].step = ops[o].step /\ rest[o].lone = FALSE
        /\ ops[o] = Over => rest[o] = Over
    BY <1>1, NoLongerLone
<1>3. rest \in Seq(Ops) /\ Len(rest) = Len(ops) /\ DOMAIN rest = DOMAIN ops
    BY <1>2 DEF ButtonInv
<1>4. new \in Ops /\ new.row = r /\ new.what = w /\ new.step = "sent" /\ new.lone = alone
    BY DEF Ops
<1>5. ops' = Append(rest, new)
    BY DEF Start
<1> HIDE DEF rest, new
<1>6. /\ ops' \in Seq(Ops) /\ DOMAIN ops' = DOMAIN ops \cup {Len(ops) + 1}
      /\ Len(ops) + 1 \notin DOMAIN ops
      /\ \A o \in DOMAIN ops : ops'[o] = rest[o]
      /\ ops'[Len(ops) + 1] = new
    BY <1>3, <1>4, <1>5 DEF ButtonInv
<1>7. QED
    BY <1>2, <1>4, <1>6 DEF Started

\* What starts keeps the invariant, whatever row it is about.
LEMMA ButtonInvStarts ==
    ASSUME ButtonInv, NEW r \in Rows \cup {None}, NEW w \in {"delete", "on", "off", "invoke", "sync"},
           Started(r, w), w = "sync" => r = None,
           slot' = IF r = None THEN slot ELSE r
    PROVE  ButtonInv'
<1> DEFINE n == Len(ops) + 1
<1>1. DOMAIN ops' = DOMAIN ops \cup {n} /\ n \notin DOMAIN ops /\ ops' \in Seq(Ops)
    BY DEF Started
<1>2. \A o \in DOMAIN ops :
        /\ ops'[o].row = ops[o].row /\ ops'[o].what = ops[o].what /\ ops'[o].step = ops[o].step
        /\ ops'[o].lone = FALSE /\ (ops[o] = Over => ops'[o] = Over)
    BY DEF Started
<1>3. /\ ops'[n].row = r /\ ops'[n].what = w /\ ops'[n].step = "sent"
      /\ ops'[n].lone = TRUE => \A o \in DOMAIN ops : ops[o] = Over
    BY DEF Started, Busy
<1>4. \A o \in DOMAIN ops : ops[o] # Over => ops'[o] # Over
    BY <1>2, OverIsNotLone DEF ButtonInv
<1>5. ops'[n] # Over
    BY <1>3, OverIsNotLone
<1>6. \A o \in DOMAIN ops' : ops'[o] \in Ops
    BY <1>1
<1>7. \A o \in DOMAIN ops' : /\ ops'[o].step = "over" => ops'[o] = Over
                             /\ ops'[o].what = "sync" => ops'[o].row = None
    BY <1>1, <1>2, <1>3 DEF ButtonInv
<1>8. \A o \in DOMAIN ops' :
        ops'[o].lone /\ ops'[o] # Over => o = n /\ \A p \in DOMAIN ops : ops'[p] = Over
    BY <1>1, <1>2, <1>3, <1>6 DEF Ops
<1>9. ButtonsTellTheTruth'
    <2>1. CASE r = None
        BY <1>1, <1>2, <1>3, <1>4, <1>8, <2>1, ListConstants DEF ButtonsTellTheTruth, Busy, ButtonInv
    <2>2. CASE r # None
        BY <1>1, <1>3, <1>5, <1>8, <2>2 DEF ButtonsTellTheTruth, Busy
    <2>3. QED
        BY <2>1, <2>2
<1>10. QED
    BY <1>1, <1>7, <1>8, <1>9 DEF ButtonInv, Busy

LEMMA ButtonInvClick ==
    ASSUME ButtonInv, NEW path, NEW r \in Rows, NEW w \in {"delete", "on", "off", "invoke"},
           Click(path, r, w)
    PROVE  ButtonInv'
<1>1. Start(r, w) /\ slot' = r
    BY DEF Click
<1>2. Started(r, w) /\ r # None
    BY <1>1, StartAppends, ListConstants
<1>3. QED
    BY <1>1, <1>2, ButtonInvStarts

LEMMA ButtonInvSync == ButtonInv /\ ClickSync => ButtonInv'
<1> SUFFICES ASSUME ButtonInv, ClickSync PROVE ButtonInv'
    OBVIOUS
<1>1. Start(None, "sync") /\ slot' = slot
    BY DEF ClickSync
<1>2. Started(None, "sync")
    BY <1>1, StartAppends
<1>3. QED
    BY <1>1, <1>2, ButtonInvStarts

LEMMA ButtonInvServe ==
    ASSUME ButtonInv, NEW o \in DOMAIN ops, ServeOp(o)
    PROVE  ButtonInv'
<1>1. PICK s \in {"ok", "failed"} : ops' = [ops EXCEPT ![o].step = s] /\ slot' = slot
    BY DEF ServeOp
<1>2. ops[o].step = "sent" /\ \A p \in DOMAIN ops : ops[p] \in Ops
    BY DEF ServeOp, ButtonInv
<1>3. /\ DOMAIN ops' = DOMAIN ops /\ ops' \in Seq(Ops)
      /\ ops'[o].row = ops[o].row /\ ops'[o].what = ops[o].what
      /\ ops'[o].lone = ops[o].lone /\ ops'[o].step # "over"
      /\ \A p \in DOMAIN ops \ {o} : ops'[p] = ops[p]
    BY <1>1, <1>2 DEF Ops, ButtonInv
<1>4. ops[o] # Over /\ ops'[o] # Over
    BY <1>2, <1>3, OverIsNotLone
<1>5. ButtonsTellTheTruth'
    BY <1>1, <1>3, <1>4 DEF ButtonsTellTheTruth, Busy, ButtonInv
<1>6. QED
    BY <1>3, <1>4, <1>5 DEF ButtonInv, Busy

LEMMA ButtonInvAnswered ==
    ASSUME ButtonInv, NEW o \in DOMAIN ops, OpAnswered(o)
    PROVE  ButtonInv'
<1>1. /\ ops' = [ops EXCEPT ![o] = Over] /\ ops[o].step # "over"
      /\ IF ops[o].what = "sync" THEN slot' = slot ELSE slot' = None
    BY DEF OpAnswered, Released
<1>2. Over \in Ops /\ ops[o] # Over
    BY <1>1, OverIsNotLone DEF Over, Ops
<1>3. /\ DOMAIN ops' = DOMAIN ops /\ ops' \in Seq(Ops)
      /\ ops'[o] = Over /\ \A p \in DOMAIN ops \ {o} : ops'[p] = ops[p]
    BY <1>1, <1>2 DEF ButtonInv
<1>4. \A p \in DOMAIN ops : p # o => ~(ops[p].lone /\ ops[p] # Over)
    BY <1>2 DEF ButtonInv, Busy
<1>5. ButtonsTellTheTruth'
    <2>1. ASSUME NEW r \in Rows, slot' = r
          PROVE  \E p \in DOMAIN ops' : ops'[p].row = r /\ ops'[p] # Over
        <3>1. ops[o].row = None /\ slot = r
            BY <1>1, <2>1, ListConstants DEF ButtonInv
        <3>2. QED
            BY <1>3, <2>1, <3>1, ListConstants DEF ButtonInv, ButtonsTellTheTruth, Busy
    <2>2. QED
        BY <1>3, <1>4, <2>1 DEF ButtonsTellTheTruth, Busy
<1>6. QED
    BY <1>3, <1>5, OverIsNotLone DEF ButtonInv, Busy

LEMMA ButtonInvNext == ButtonInv /\ [Next]_vars => ButtonInv'
<1> SUFFICES ASSUME ButtonInv, [Next]_vars PROVE ButtonInv'
    OBVIOUS
<1>1. CASE UNCHANGED <<slot, ops>>
    BY <1>1 DEF ButtonInv, ButtonsTellTheTruth, Busy
<1>2. CASE ListNext
    <2>1. CASE Poll \/ RowsChange \/ \E p \in AllParts, s \in Reads : ServeRead(p, s) \/ ReadAnswered(p, s)
        BY <1>1, <2>1 DEF Poll, RowsChange, ServeRead, ReadAnswered
    <2>2. CASE ClickSync
        BY <2>2, ButtonInvSync
    <2>3. ASSUME NEW r \in Rows,
                 \/ DeleteUser(r) \/ InvokeRecipe(r) \/ TogglePolicy(r)
                 \/ DeletePolicy(r) \/ DeleteRole(r)
          PROVE  ButtonInv'
        BY <2>3, ButtonInvClick DEF DeleteUser, InvokeRecipe, TogglePolicy, DeletePolicy, DeleteRole
    <2>4. CASE \E o \in DOMAIN ops : ServeOp(o) \/ OpAnswered(o)
        BY <2>4, ButtonInvServe, ButtonInvAnswered
    <2>5. QED
        BY <1>2, <2>1, <2>2, <2>3, <2>4 DEF ListNext
<1>3. QED
    BY <1>1, <1>2 DEF Next, vars, listVars

\* A button that says that it waits does, and a request that is alone disables
\* its row (users-list.tsx, deleting; policies/page.tsx, busy), for any rows
\* and any number of operations.
THEOREM ButtonsWait == Spec => []ButtonsTellTheTruth
<1>1. Init => ButtonInv
    BY ListConstants DEF Init, ListInit, ButtonInv, ButtonsTellTheTruth
<1>2. ButtonInv /\ [Next]_vars => ButtonInv'
    BY ButtonInvNext
<1>3. ButtonInv => ButtonsTellTheTruth
    BY DEF ButtonInv
<1>4. QED
    BY <1>1, <1>2, <1>3, PTL DEF Spec

-----------------------------------------------------------------------------
\* The chat.  Each message that was sent has its line, above all that is about
\* it; what is on its way is about a message that was sent.
ChatLine == [kind : Kinds, of : Nat]
Texts(m) == {j \in DOMAIN lines : lines[j].kind \in {"user", "human"} /\ lines[j].of = m}
Said(m) == \E j \in Texts(m) : Texts(m) = {j} /\ \A i \in DOMAIN lines : lines[i].of = m => j <= i

LinesInv ==
    /\ lines \in Seq(ChatLine) /\ message \in Nat
    /\ \A i \in DOMAIN lines : lines[i].of <= message
    /\ \A m \in 1..message : Said(m)

QueueInv ==
    /\ queue \in Seq(ChatLine)
    /\ \A i \in DOMAIN queue : queue[i].of <= message /\ queue[i].kind # "user"
    /\ working \subseteq 0..message
    /\ sending # "no" => message # 0

LEMMA LinesFollow == LinesInv => RepliesFollowMessages
<1> SUFFICES ASSUME LinesInv, NEW i \in DOMAIN lines, lines[i].of # 0
             PROVE  \E j \in Texts(lines[i].of) : Texts(lines[i].of) = {j} /\ j <= i
    BY DEF RepliesFollowMessages, Texts, Other
<1>1. lines[i] \in ChatLine /\ lines[i].of <= message /\ message \in Nat
    BY DEF LinesInv
<1>2. lines[i].of \in 1..message
    BY <1>1 DEF ChatLine
<1>3. QED
    BY <1>2 DEF LinesInv, Said

\* A line that is about a message, or about somebody else's, is added below.
LEMMA LinesInvBelow ==
    ASSUME LinesInv, NEW l \in ChatLine, l.of <= message, l.kind \notin {"user", "human"},
           lines' = Append(lines, l), message' = message
    PROVE  LinesInv'
<1> DEFINE n == Len(lines) + 1
<1>1. /\ lines' \in Seq(ChatLine) /\ DOMAIN lines' = DOMAIN lines \cup {n}
      /\ DOMAIN lines = 1..Len(lines) /\ Len(lines) \in Nat
      /\ lines'[n] = l /\ \A i \in DOMAIN lines : lines'[i] = lines[i]
    BY DEF LinesInv
<1>2. \A i \in DOMAIN lines' : lines'[i].of <= message
    BY <1>1 DEF LinesInv
<1>3. ASSUME NEW m \in 1..message PROVE Said(m)'
    <2>1. Texts(m)' = Texts(m)
        BY <1>1 DEF Texts
    <2>2. PICK j \in Texts(m) : Texts(m) = {j} /\ \A i \in DOMAIN lines : lines[i].of = m => j <= i
        BY DEF LinesInv, Said
    <2>3. j \in DOMAIN lines /\ j <= n
        BY <1>1, <2>2 DEF Texts
    <2>4. \A i \in DOMAIN lines' : lines'[i].of = m => j <= i
        BY <1>1, <2>2, <2>3
    <2>5. QED
        BY <2>1, <2>2, <2>4 DEF Said
<1>4. QED
    BY <1>1, <1>2, <1>3 DEF LinesInv

\* A message is the first line about it.
LEMMA LinesInvSend == LinesInv /\ SendMessage => LinesInv'
<1> SUFFICES ASSUME LinesInv, SendMessage PROVE LinesInv'
    OBVIOUS
<1> DEFINE n == Len(lines) + 1
           l == Says("user", message + 1)
<1>1. lines' = Append(lines, l) /\ message' = message + 1 /\ message \in Nat
    BY DEF SendMessage, LinesInv
<1>2. l \in ChatLine /\ l.kind = "user" /\ l.of = message + 1
    BY <1>1 DEF Says, ChatLine, Kinds
<1> HIDE DEF l
<1>3. /\ lines' \in Seq(ChatLine) /\ DOMAIN lines' = DOMAIN lines \cup {n}
      /\ DOMAIN lines = 1..Len(lines) /\ Len(lines) \in Nat
      /\ lines'[n] = l /\ \A i \in DOMAIN lines : lines'[i] = lines[i]
    BY <1>1, <1>2 DEF LinesInv
<1>4. \A i \in DOMAIN lines : lines[i].of \in Nat /\ lines[i].of <= message
    <2>1. \A i \in DOMAIN lines : lines[i] \in ChatLine
        BY DEF LinesInv
    <2>2. QED
        BY <2>1 DEF LinesInv, ChatLine
<1>5. \A i \in DOMAIN lines' : lines'[i].of <= message + 1
    BY <1>1, <1>2, <1>3, <1>4
<1>6. ASSUME NEW m \in 1..message PROVE Said(m)'
    <2>1. Texts(m)' = Texts(m)
        BY <1>1, <1>2, <1>3 DEF Texts
    <2>2. PICK j \in Texts(m) : Texts(m) = {j} /\ \A i \in DOMAIN lines : lines[i].of = m => j <= i
        BY DEF LinesInv, Said
    <2>3. \A i \in DOMAIN lines' : lines'[i].of = m => j <= i
        BY <1>1, <1>2, <1>3, <2>2
    <2>4. QED
        BY <2>1, <2>2, <2>3 DEF Said
<1>7. ASSUME NEW m, m = message + 1 PROVE Said(m)'
    <2>1. \A i \in DOMAIN lines' : lines'[i].of = m => i = n
        BY <1>1, <1>3, <1>4, <1>7
    <2>2. n \in DOMAIN lines' /\ lines'[n].kind = "user" /\ lines'[n].of = m
        BY <1>2, <1>3, <1>7
    <2>3. Texts(m)' = {n}
        BY <2>1, <2>2 DEF Texts
    <2>4. n \in Nat /\ n <= n
        BY <1>3
    <2>5. QED
        BY <2>1, <2>3, <2>4 DEF Said
<1>8. \A m \in 1..(message + 1) : m \in 1..message \/ m = message + 1
    BY <1>1
<1>9. \A m \in 1..(message + 1) : Said(m)'
    BY <1>6, <1>7, <1>8
<1>10. QED
    BY <1>1, <1>3, <1>5, <1>9 DEF LinesInv

\* A step that leaves the transcript alone, or the chat.
LEMMA LinesInvStays == LinesInv /\ UNCHANGED <<lines, message>> => LinesInv'
<1> SUFFICES ASSUME LinesInv, UNCHANGED <<lines, message>> PROVE LinesInv'
    OBVIOUS
<1>1. \A m : Texts(m)' = Texts(m)
    BY DEF Texts
<1>2. \A m : Said(m) => Said(m)'
    BY <1>1 DEF Said
<1>3. QED
    BY <1>2 DEF LinesInv

LEMMA QueueInvStays ==
    QueueInv /\ UNCHANGED <<queue, message, working, sending>> => QueueInv'
BY DEF QueueInv

LEMMA Published ==
    ASSUME QueueInv, NEW event \in ChatLine, event.of <= message, event.kind # "user", Publish(event)
    PROVE  /\ queue' \in Seq(ChatLine)
           /\ \A i \in DOMAIN queue' : queue'[i].of <= message /\ queue'[i].kind # "user"
BY DEF QueueInv, Publish

LEMMA Arrived ==
    ASSUME LinesInv, QueueInv, NEW m \in 0..message, Arrive(m), UNCHANGED message,
           sending' = "no" \/ message # 0
    PROVE  QueueInv'
<1>1. Says("human", m) \in ChatLine /\ Says("human", m).of = m /\ Says("human", m).kind = "human"
    BY DEF Says, ChatLine, Kinds, LinesInv
<1>2. m <= message
    BY DEF LinesInv
<1>3. QED
    BY <1>1, <1>2, Published DEF Arrive, QueueInv

LEMMA ChatInvNext == LinesInv /\ QueueInv /\ ChatNext => (LinesInv /\ QueueInv)'
<1> SUFFICES ASSUME LinesInv, QueueInv, ChatNext PROVE (LinesInv /\ QueueInv)'
    OBVIOUS
<1>1. UNCHANGED <<lines, message>> => LinesInv'
    BY LinesInvStays
<1>2. CASE Connect \/ Disconnect
    <2>1. CASE Connect
        BY <1>1, <2>1, QueueInvStays DEF Connect
    <2>2. CASE Disconnect
        BY <1>1, <2>2 DEF Disconnect, QueueInv
    <2>3. QED
        BY <1>2, <2>1, <2>2
<1>3. CASE Receive
    <2>1. QueueInv'
        BY <1>3 DEF Receive, QueueInv
    <2>2. /\ Head(queue) \in ChatLine /\ Head(queue).of <= message
          /\ Head(queue).kind # "user" /\ message' = message
        BY <1>3 DEF Receive, QueueInv
    <2>3. LinesInv'
        BY <1>1, <1>3, <2>2, LinesInvBelow DEF Receive, Shown
    <2>4. QED
        BY <2>1, <2>3
<1>4. CASE SendMessage
    <2>1. message' = message + 1 /\ message \in Nat /\ UNCHANGED <<queue, working>>
        BY <1>4 DEF SendMessage, LinesInv
    <2>2. \A i \in DOMAIN queue : queue[i].of \in Nat
        <3>1. \A i \in DOMAIN queue : queue[i] \in ChatLine
            BY DEF QueueInv
        <3>2. QED
            BY <3>1 DEF ChatLine
    <2>3. \A i \in DOMAIN queue : queue[i].of <= message + 1
        BY <2>1, <2>2 DEF QueueInv
    <2>4. QED
        BY <1>4, <2>1, <2>3, LinesInvSend DEF QueueInv
<1>5. CASE ServeMessage
    <2>1. UNCHANGED <<lines, message>> /\ sending = "sent"
        BY <1>5 DEF ServeMessage
    <2>2. message \in 0..message /\ message # 0
        BY <2>1 DEF LinesInv, QueueInv
    <2>3. CASE Arrive(message)
        BY <1>1, <2>1, <2>2, <2>3, Arrived
    <2>4. CASE UNCHANGED <<queue, working>>
        BY <1>1, <2>1, <2>2, <2>4 DEF QueueInv
    <2>5. QED
        BY <1>5, <2>3, <2>4 DEF ServeMessage
<1>6. CASE MessageAnswered
    <2>1. QueueInv' /\ message' = message /\ message \in Nat
        BY <1>6 DEF MessageAnswered, QueueInv, LinesInv
    <2>2. /\ Says("system_error", message) \in ChatLine /\ Says("system_error", message).of <= message
          /\ Says("system_error", message).kind \notin {"user", "human"}
        BY <2>1 DEF Says, ChatLine, Kinds
    <2>3. LinesInv'
        BY <1>1, <1>6, <2>1, <2>2, LinesInvBelow DEF MessageAnswered
    <2>4. QED
        BY <2>1, <2>3
<1>7. CASE RobotSays
    <2>1. PICK m \in working, kind \in Replies : Publish(Says(kind, m))
        BY <1>7 DEF RobotSays
    <2>2. m \in Nat /\ m <= message /\ kind # "user"
        BY NoTextReplies DEF QueueInv, LinesInv
    <2>3. /\ Says(kind, m) \in ChatLine /\ Says(kind, m).of <= message
          /\ Says(kind, m).kind # "user"
        BY <2>2 DEF Says, ChatLine, Kinds
    <2>4. UNCHANGED <<lines, message, sending, working>>
        BY <1>7 DEF RobotSays
    <2>5. QED
        BY <1>1, <2>1, <2>3, <2>4, Published DEF QueueInv
<1>8. CASE RobotDone
    BY <1>1, <1>8 DEF RobotDone, QueueInv
<1>9. CASE OtherChats
    <2>1. Arrive(0) /\ UNCHANGED <<lines, message, sending>> /\ 0 \in 0..message
        BY <1>9 DEF OtherChats, Other, LinesInv
    <2>2. sending' = "no" \/ message # 0
        BY <2>1 DEF QueueInv
    <2>3. QED
        BY <1>1, <2>1, <2>2, Arrived
<1>10. QED
    BY <1>2, <1>3, <1>4, <1>5, <1>6, <1>7, <1>8, <1>9 DEF ChatNext

LEMMA ChatInvHolds == Spec => [](LinesInv /\ QueueInv)
<1>1. Init => LinesInv /\ QueueInv
    BY DEF Init, ChatInit, LinesInv, QueueInv
<1>2. LinesInv /\ QueueInv /\ [Next]_vars => (LinesInv /\ QueueInv)'
    <2>1. LinesInv /\ QueueInv /\ UNCHANGED chatVars => (LinesInv /\ QueueInv)'
        BY LinesInvStays, QueueInvStays DEF chatVars
    <2>2. QED
        BY <2>1, ChatInvNext DEF Next, vars
<1>3. QED
    BY <1>1, <1>2, PTL DEF Spec

\* The transcript has what the person said above all that is about it, for
\* any number of messages and events and however often the stream is cut off
\* (agent-chat.tsx, send and onmessage).
THEOREM TranscriptReads == Spec => []RepliesFollowMessages
BY ChatInvHolds, LinesFollow, PTL

-----------------------------------------------------------------------------
\* The lists.  Unless reads overlapped, at most one is on, its answer is as
\* fresh as its success, and so is what is shown when there is none.
FreshData(p, data) ==
    IF p = "tools" THEN data \in since.tools ELSE \A x \in Rows : data[x] \in since.rows[x]

FreshRead(p, s) ==
    reads[p][s] # None /\ reads[p][s].step = "back" /\ reads[p][s].data # None
        => FreshData(p, reads[p][s].data)

FreshShown(p) ==
    InFlight(p, reads) = {} =>
        IF p = "tools" THEN shown.tools # None => FreshData(p, shown.tools)
        ELSE ~listError => FreshData(p, shown.rows)

FreshPart(p) ==
    /\ \A s, t \in InFlight(p, reads) : s = t
    /\ \A s \in Reads : FreshRead(p, s)
    /\ FreshShown(p)

Data == [Rows -> Values] \cup Catalogues \cup {None}

ReadTypes ==
    /\ reads \in [AllParts -> [Reads -> Read \cup {None}]]
    /\ shown \in [rows : Data, tools : Data]

SinceInv ==
    /\ rows \in [Rows -> Values] /\ tools \in Catalogues
    /\ since \in [rows : [Rows -> SUBSET Values], tools : SUBSET Catalogues]
    /\ tools \in since.tools /\ \A x \in Rows : rows[x] \in since.rows[x]

FreshInv ==
    open \in Lists => \A p \in Parts \ overlapped : FreshPart(p)

LEMMA PartsAreParts == Parts \subseteq AllParts /\ AllParts = {"rows", "tools"}
BY DEF Parts, AllParts

LEMMA FreshIsFresh == FreshInv => ListIsFresh
BY PartsAreParts DEF FreshInv, FreshPart, FreshShown, FreshData, ListIsFresh

\* Now, everything is.
LEMMA NowIsSince ==
    ASSUME SinceInv, UNCHANGED brokerVars, since' = Now
    PROVE  SinceInv'
BY DEF SinceInv, Now, brokerVars

\* What was fresh stays so while the broker's values are collected.
SinceGrows ==
    /\ since.tools \subseteq since'.tools
    /\ \A x \in Rows : since.rows[x] \subseteq since'.rows[x]

LEMMA RowsGrow ==
    ASSUME SinceInv, NEW new \in [Rows -> Values], RowsBecome(new), UNCHANGED tools
    PROVE  SinceInv' /\ SinceGrows
<1>1. /\ since'.tools = since.tools
      /\ since'.rows = [x \in Rows |-> since.rows[x] \cup {new[x]}]
      /\ since' \in [rows : [Rows -> SUBSET Values], tools : SUBSET Catalogues]
    BY DEF RowsBecome, SinceInv
<1>2. QED
    BY <1>1 DEF SinceInv, SinceGrows, RowsBecome

LEMMA ToolsGrow ==
    ASSUME SinceInv, NEW new \in Catalogues, ToolsBecome(new), UNCHANGED rows
    PROVE  SinceInv' /\ SinceGrows
<1>1. /\ since'.rows = since.rows /\ since'.tools = since.tools \cup {new}
      /\ since' \in [rows : [Rows -> SUBSET Values], tools : SUBSET Catalogues]
    BY DEF ToolsBecome, SinceInv
<1>2. QED
    BY <1>1 DEF SinceInv, SinceGrows, ToolsBecome

LEMMA FreshGrows ==
    ASSUME FreshInv, SinceGrows, UNCHANGED readVars, UNCHANGED open
    PROVE  FreshInv'
<1>1. \A p, data : FreshData(p, data) => FreshData(p, data)'
    BY DEF FreshData, SinceGrows
<1>2. \A p : FreshPart(p) => FreshPart(p)'
    BY <1>1 DEF FreshPart, FreshRead, FreshShown, InFlight, readVars
<1>3. QED
    BY <1>2 DEF FreshInv, Parts, readVars

\* A reload that overlaps no other is the only one on, and not answered yet.
LEMMA FreshReload ==
    ASSUME ReadTypes, Reload, UNCHANGED <<open, shown>>
    PROVE  FreshInv' /\ ReadTypes'
<1>1. PICK s \in Reads : /\ Free(s, reads)
                         /\ reads' = Reloaded(s, reads)
                         /\ overlapped' = {p \in Parts : InFlight(p, reads) # {}}
    BY DEF Reload
<1>2. Sent \in Read /\ Sent # None /\ Sent.step = "sent"
    BY ListConstants DEF Sent, Read
<1>3. \A p \in AllParts : reads'[p] = IF p \in Parts THEN [reads[p] EXCEPT ![s] = Sent] ELSE reads[p]
    BY <1>1 DEF Reloaded
<1>4. reads' \in [AllParts -> [Reads -> Read \cup {None}]]
    BY <1>1, <1>2 DEF Reloaded, ReadTypes
<1>5. ASSUME NEW p \in Parts, p \notin overlapped' PROVE FreshPart(p)'
    <2>1. p \in AllParts /\ \A t \in Reads : reads[p][t] = None
        BY <1>1, <1>5, PartsAreParts DEF InFlight
    <2>2. reads'[p][s] = Sent /\ \A t \in Reads \ {s} : reads'[p][t] = None
        BY <1>3, <1>5, <2>1 DEF ReadTypes
    <2>3. InFlight(p, reads)' = {s}
        BY <1>2, <2>2 DEF InFlight
    <2>4. QED
        BY <1>2, <2>2, <2>3 DEF FreshPart, FreshRead, FreshShown
<1>6. QED
    BY <1>4, <1>5 DEF FreshInv, ReadTypes, Parts

LEMMA FreshServed ==
    ASSUME ReadTypes, SinceInv, FreshInv, NEW p \in AllParts, NEW s \in Reads, ServeRead(p, s)
    PROVE  ReadTypes' /\ SinceInv' /\ FreshInv'
<1>1. PICK data \in {Stored(p), None} :
        reads' = [reads EXCEPT ![p][s] = [step |-> "back", data |-> data]]
    BY DEF ServeRead
<1>2. UNCHANGED <<open, rows, tools, since, shown, listError, overlapped>> /\ reads[p][s] # None
    BY DEF ServeRead, brokerVars, pageVars, Fault
<1> DEFINE given == [step |-> "back", data |-> data]
<1>3. given \in Read /\ given # None
    BY ListConstants DEF Read, Stored, SinceInv
<1>4. /\ reads' \in [AllParts -> [Reads -> Read \cup {None}]]
      /\ reads'[p][s] = given
      /\ \A t \in Reads \ {s} : reads'[p][t] = reads[p][t]
      /\ \A q \in AllParts \ {p} : reads'[q] = reads[q]
    BY <1>1, <1>3 DEF ReadTypes
<1>5. ReadTypes' /\ SinceInv'
    BY <1>2, <1>4 DEF ReadTypes, SinceInv
<1>6. data # None => FreshData(p, data)
    BY PartsAreParts DEF FreshData, Stored, SinceInv
<1>7. \A q \in AllParts : InFlight(q, reads)' = InFlight(q, reads)
    BY <1>2, <1>3, <1>4 DEF InFlight
<1>8. \A q, d : FreshData(q, d)' = FreshData(q, d)
    BY <1>2 DEF FreshData
<1>9. ASSUME NEW q \in AllParts, FreshPart(q) PROVE FreshPart(q)'
    <2>1. FreshShown(q)'
        BY <1>2, <1>7, <1>8, <1>9 DEF FreshPart, FreshShown
    <2>2. \A t \in Reads : FreshRead(q, t)'
        BY <1>4, <1>6, <1>8, <1>9 DEF FreshPart, FreshRead
    <2>3. QED
        BY <1>7, <1>9, <2>1, <2>2 DEF FreshPart
<1>10. FreshInv'
    BY <1>2, <1>9, PartsAreParts DEF FreshInv, Parts
<1>11. QED
    BY <1>5, <1>10

LEMMA FreshAnswered ==
    ASSUME ReadTypes, SinceInv, FreshInv, NEW p \in AllParts, NEW s \in Reads, ReadAnswered(p, s)
    PROVE  ReadTypes' /\ SinceInv' /\ FreshInv'
<1> DEFINE data == reads[p][s].data
<1>1. /\ reads' = [reads EXCEPT ![p][s] = None]
      /\ UNCHANGED <<open, rows, tools, since, overlapped>>
      /\ reads[p][s] # None /\ reads[p][s].step = "back"
    BY DEF ReadAnswered, brokerVars, pageVars
<1>2. data \in Data
    BY <1>1 DEF ReadTypes, Read, Data
<1>3. /\ reads' \in [AllParts -> [Reads -> Read \cup {None}]]
      /\ reads'[p][s] = None
      /\ \A t \in Reads \ {s} : reads'[p][t] = reads[p][t]
      /\ \A q \in AllParts \ {p} : reads'[q] = reads[q]
    BY <1>1 DEF ReadTypes
<1>4. Empty \in Data
    BY DEF Empty, Data, Values
<1>5. /\ p = "tools" => shown' = [shown EXCEPT !.tools = data] /\ listError' = listError
      /\ p = "rows" => /\ shown' = [shown EXCEPT !.rows = IF data = None THEN Empty ELSE data]
                       /\ listError' = (data = None)
    BY DEF ReadAnswered
<1> HIDE DEF data
<1>6. /\ shown' \in [rows : Data, tools : Data]
      /\ p = "tools" => shown'.tools = data /\ shown'.rows = shown.rows
      /\ p = "rows" => /\ shown'.rows = (IF data = None THEN Empty ELSE data)
                       /\ shown'.tools = shown.tools
    BY <1>2, <1>4, <1>5, PartsAreParts DEF ReadTypes
<1>7. ReadTypes' /\ SinceInv'
    BY <1>1, <1>3, <1>6 DEF ReadTypes, SinceInv
<1>8. \A q, d : FreshData(q, d)' = FreshData(q, d)
    BY <1>1 DEF FreshData
<1>9. ASSUME NEW q \in AllParts, q # p, FreshPart(q) PROVE FreshPart(q)'
    <2>1. InFlight(q, reads)' = InFlight(q, reads)
        BY <1>3, <1>9 DEF InFlight
    <2>2. FreshShown(q)'
        BY <1>5, <1>6, <1>8, <1>9, <2>1, PartsAreParts DEF FreshPart, FreshShown
    <2>3. \A t \in Reads : FreshRead(q, t)'
        BY <1>3, <1>8, <1>9 DEF FreshPart, FreshRead
    <2>4. QED
        BY <1>9, <2>1, <2>2, <2>3 DEF FreshPart
<1>10. ASSUME FreshPart(p) PROVE FreshPart(p)'
    <2>1. \A t \in Reads \ {s} : reads[p][t] = None
        BY <1>1, <1>10 DEF FreshPart, InFlight
    <2>2. \A t \in Reads : reads'[p][t] = None
        BY <1>3, <2>1
    <2>3. data # None => FreshData(p, data)
        BY <1>1, <1>10 DEF FreshPart, FreshRead, data
    <2>4. FreshShown(p)'
        BY <1>5, <1>6, <1>8, <2>3, PartsAreParts DEF FreshShown
    <2>5. QED
        BY <2>2, <2>4 DEF FreshPart, FreshRead, InFlight
<1>11. FreshInv'
    BY <1>1, <1>9, <1>10, PartsAreParts DEF FreshInv, Parts
<1>12. QED
    BY <1>7, <1>11

LEMMA FreshPerformed ==
    ASSUME SinceInv, NEW op \in Ops, Perform(op)
    PROVE  SinceInv' /\ SinceGrows
<1>1. CASE op.what = "sync"
    <2>1. PICK c \in Catalogues : ToolsBecome(c) /\ UNCHANGED rows
        BY <1>1 DEF Perform
    <2>2. c \in Catalogues
        BY DEF Catalogues, SinceInv
    <2>3. QED
        BY <2>1, <2>2, ToolsGrow
<1>2. CASE op.what = "invoke"
    BY <1>2 DEF Perform, SinceInv, SinceGrows, brokerVars
<1>3. CASE op.what \in {"delete", "on", "off"}
    <2> DEFINE new == [rows EXCEPT ![op.row] = IF op.what = "delete" THEN "absent" ELSE op.what]
    <2>1. RowsBecome(new) /\ UNCHANGED tools
        BY <1>3 DEF Perform
    <2>2. new \in [Rows -> Values]
        BY <1>3 DEF SinceInv, Values
    <2> HIDE DEF new
    <2>3. QED
        BY <2>1, <2>2, RowsGrow
<1>4. QED
    BY <1>1, <1>2, <1>3 DEF Ops

LEMMA FreshStays ==
    ASSUME ReadTypes, SinceInv, FreshInv, UNCHANGED <<readVars, brokerVars, since>>, UNCHANGED open
    PROVE  ReadTypes' /\ SinceInv' /\ FreshInv'
<1>1. SinceGrows /\ SinceInv'
    BY DEF SinceGrows, SinceInv, brokerVars
<1>2. QED
    BY <1>1, FreshGrows DEF ReadTypes, readVars

LEMMA FreshList ==
    ButtonInv /\ ReadTypes /\ SinceInv /\ FreshInv /\ ListNext => (ReadTypes /\ SinceInv /\ FreshInv)'
<1> SUFFICES ASSUME ButtonInv, ReadTypes, SinceInv, FreshInv, ListNext
             PROVE  (ReadTypes /\ SinceInv /\ FreshInv)'
    OBVIOUS
<1>0. UNCHANGED readVars => ReadTypes'
    BY DEF ReadTypes, readVars
<1>1. CASE Poll
    BY <1>1, FreshReload DEF Poll, pageVars, brokerVars, SinceInv
<1>2. CASE ClickSync
    BY <1>2, FreshStays DEF ClickSync, pageVars
<1>3. CASE RowsChange
    <2>1. UNCHANGED readVars /\ open' = open
        BY <1>3 DEF RowsChange, Elsewhere
    <2>2. SinceInv' /\ SinceGrows
        <3>1. CASE \E r \in Rows : \E v \in Values \ {rows[r]} :
                     RowsBecome([rows EXCEPT ![r] = v]) /\ UNCHANGED tools
            <4>1. PICK r \in Rows, v \in Values : RowsBecome([rows EXCEPT ![r] = v]) /\ UNCHANGED tools
                BY <3>1
            <4>2. [rows EXCEPT ![r] = v] \in [Rows -> Values]
                BY DEF SinceInv
            <4>3. QED
                BY <4>1, <4>2, RowsGrow
        <3>2. CASE \E c \in Catalogues \ {tools} : ToolsBecome(c) /\ UNCHANGED rows
            BY <3>2, ToolsGrow
        <3>3. QED
            BY <1>3, <3>1, <3>2 DEF RowsChange
    <2>3. QED
        BY <1>0, <2>1, <2>2, FreshGrows
<1>4. CASE \E p \in AllParts, s \in Reads : ServeRead(p, s) \/ ReadAnswered(p, s)
    BY <1>4, FreshServed, FreshAnswered
<1>5. CASE \E r \in Rows :
              \/ DeleteUser(r) \/ InvokeRecipe(r) \/ TogglePolicy(r)
              \/ DeletePolicy(r) \/ DeleteRole(r)
    <2>1. UNCHANGED <<readVars, brokerVars, since>> /\ UNCHANGED open
        BY <1>5 DEF DeleteUser, InvokeRecipe, TogglePolicy, DeletePolicy, DeleteRole, Click, pageVars
    <2>2. QED
        BY <2>1, FreshStays
<1>6. ASSUME NEW o \in DOMAIN ops, ServeOp(o) PROVE (ReadTypes /\ SinceInv /\ FreshInv)'
    <2>1. UNCHANGED readVars /\ open' = open
        BY <1>6 DEF ServeOp, pageVars, Fault
    <2>2. ops[o] \in Ops
        BY DEF ButtonInv
    <2>3. CASE Perform(ops[o])
        BY <1>0, <2>1, <2>2, <2>3, FreshPerformed, FreshGrows
    <2>4. CASE UNCHANGED <<brokerVars, since>>
        BY <2>1, <2>4, FreshStays
    <2>5. QED
        BY <1>6, <2>3, <2>4 DEF ServeOp
<1>7. ASSUME NEW o \in DOMAIN ops, OpAnswered(o) PROVE (ReadTypes /\ SinceInv /\ FreshInv)'
    <2>1. UNCHANGED <<brokerVars, shown, listError>> /\ open' = open
        BY <1>7 DEF OpAnswered, pageVars
    <2>2. CASE Reload /\ since' = Now
        BY <2>1, <2>2, FreshReload, NowIsSince
    <2>3. CASE UNCHANGED <<since, reads, overlapped>>
        BY <2>1, <2>3, FreshStays DEF readVars
    <2>4. QED
        BY <1>7, <2>2, <2>3 DEF OpAnswered, Refresh
<1>8. QED
    BY <1>1, <1>2, <1>3, <1>4, <1>5, <1>6, <1>7 DEF ListNext

LEMMA FreshInvHolds == Spec => [](ButtonInv /\ ReadTypes /\ SinceInv /\ FreshInv)
<1>1. Init => ButtonInv /\ ReadTypes /\ SinceInv /\ FreshInv
    <2> SUFFICES ASSUME Init PROVE ButtonInv /\ ReadTypes /\ SinceInv /\ FreshInv
        OBVIOUS
    <2>1. ButtonInv
        BY ListConstants DEF Init, ListInit, ButtonInv, ButtonsTellTheTruth
    <2>2. SinceInv
        BY DEF Init, ListInit, SinceInv, Now, Values, Catalogues
    <2>3. Sent \in Read /\ Sent # None /\ Sent.step = "sent" /\ 1 \in Reads
        BY ListConstants DEF Sent, Read
    <2>4. reads = IF open \in Lists THEN Reloaded(1, NoReads) ELSE NoReads
        BY DEF Init, ListInit
    <2>5. ReadTypes
        BY <2>3, <2>4 DEF Init, ListInit, ReadTypes, Data, Reloaded, NoReads
    <2>6. ASSUME open \in Lists, NEW p \in Parts PROVE FreshPart(p)
        <3>1. reads[p][1] = Sent /\ \A s \in Reads \ {1} : reads[p][s] = None
            BY <2>3, <2>4, <2>6, PartsAreParts DEF Reloaded, NoReads
        <3>2. InFlight(p, reads) = {1}
            BY <2>3, <3>1 DEF InFlight
        <3>3. QED
            BY <2>3, <3>1, <3>2 DEF FreshPart, FreshRead, FreshShown
    <2>7. QED
        BY <2>1, <2>2, <2>5, <2>6 DEF FreshInv
<1>2. ButtonInv /\ ReadTypes /\ SinceInv /\ FreshInv /\ [Next]_vars
        => (ButtonInv /\ ReadTypes /\ SinceInv /\ FreshInv)'
    <2> SUFFICES ASSUME ButtonInv, ReadTypes, SinceInv, FreshInv, [Next]_vars
                 PROVE  (ReadTypes /\ SinceInv /\ FreshInv)'
        BY ButtonInvNext
    <2>1. CASE ListNext
        BY <2>1, FreshList
    <2>2. CASE UNCHANGED listVars /\ open' \in {open, None}
        <3>1. UNCHANGED <<readVars, brokerVars, since>>
            BY <2>2 DEF listVars
        <3>2. ReadTypes' /\ SinceInv'
            BY <3>1 DEF ReadTypes, SinceInv, readVars, brokerVars
        <3>3. CASE open' = open
            BY <3>1, <3>3, FreshStays
        <3>4. CASE open' = None
            BY <3>2, <3>4, NoneIsNoPath DEF FreshInv, AllPaths
        <3>5. QED
            BY <2>2, <3>3, <3>4
    <2>3. QED
        BY <2>1, <2>2, RolesStay, SkillsStay, PersonStays, ChatStays DEF Next, vars, pageVars
<1>3. QED
    BY <1>1, <1>2, PTL DEF Spec

\* A list whose reads did not overlap shows nothing older than the page's last
\* success, so that a row deleted here does not come back (users-list.tsx,
\* reload), for any rows and any number of operations and failures.
THEOREM ListsAreFresh == Spec => []ListIsFresh
BY FreshInvHolds, FreshIsFresh, PTL

-----------------------------------------------------------------------------
\* The types.  First of what the pages share.
LEMMA PageTypeList == PageTypeOK /\ ListNext => PageTypeOK'
<1> SUFFICES ASSUME PageTypeOK, ListNext PROVE PageTypeOK'
    OBVIOUS
<1> USE PageConstants DEF PageTypeOK, pageVars, Fault, Elsewhere
<1>1. CASE Poll \/ ClickSync \/ RowsChange
    BY <1>1 DEF Poll, ClickSync, RowsChange
<1>2. CASE \E p \in AllParts, s \in Reads : ServeRead(p, s) \/ ReadAnswered(p, s)
    BY <1>2 DEF ServeRead, ReadAnswered
<1>3. CASE \E r \in Rows :
              \/ DeleteUser(r) \/ InvokeRecipe(r) \/ TogglePolicy(r)
              \/ DeletePolicy(r) \/ DeleteRole(r)
    BY <1>3 DEF DeleteUser, InvokeRecipe, TogglePolicy, DeletePolicy, DeleteRole, Click
<1>4. CASE \E o \in DOMAIN ops : ServeOp(o) \/ OpAnswered(o)
    BY <1>4 DEF ServeOp, OpAnswered
<1>5. QED
    BY <1>1, <1>2, <1>3, <1>4 DEF ListNext

LEMMA PageTypeChat == PageTypeOK /\ ChatNext => PageTypeOK'
BY PageConstants
DEF PageTypeOK, ChatNext, Connect, Disconnect, Receive, SendMessage, ServeMessage,
    MessageAnswered, RobotSays, RobotDone, OtherChats, pageVars, Fault, Elsewhere

LEMMA PageTypeRole == PageTypeOK /\ RoleNext => PageTypeOK'
<1> SUFFICES ASSUME PageTypeOK, RoleNext PROVE PageTypeOK'
    OBVIOUS
<1> USE PageConstants DEF PageTypeOK, pageVars, Leave, Fault, Elsewhere
<1>1. CASE LoadRole \/ LoadTools \/ LoadFails
    BY <1>1 DEF LoadRole, LoadTools, LoadFails
<1>2. CASE SetWildcard \/ ToggleSkill \/ GrantCategory \/ RevokeCategory \/ Reset
    BY <1>2 DEF SetWildcard, ToggleSkill, GrantCategory, RevokeCategory, Reset, Edited
<1>3. CASE Save \/ ServeSave \/ RefreshSave \/ SaveAnswered \/ CloseRole \/ RoleChanges
    BY <1>3 DEF Save, ServeSave, RefreshSave, SaveAnswered, CloseRole, RoleChanges
<1>4. QED
    BY <1>1, <1>2, <1>3 DEF RoleNext

LEMMA PageTypeSkill == PageTypeOK /\ SkillNext => PageTypeOK'
<1> SUFFICES ASSUME PageTypeOK, SkillNext PROVE PageTypeOK'
    OBVIOUS
<1> USE PageConstants DEF PageTypeOK, pageVars, Leave, Fault, Elsewhere
<1>1. CASE Describe \/ Draft \/ ServeDraft \/ DraftAnswered \/ Discard
    BY <1>1 DEF Describe, Draft, ServeDraft, DraftAnswered, Discard
<1>2. CASE Ship \/ ServeShip \/ ShipAnswered
    BY <1>2 DEF Ship, ServeShip, ShipAnswered
<1>3. CASE LoadSkill \/ OpenDialog \/ CloseDialog \/ LeaveSkill \/ SkillDeleted
    BY <1>3 DEF LoadSkill, OpenDialog, CloseDialog, LeaveSkill, SkillDeleted
<1>4. CASE \E w \in What : Do(w) \/ ServeDo(w) \/ DoAnswered(w)
    BY <1>4 DEF Do, ServeDo, DoAnswered
<1>5. QED
    BY <1>1, <1>2, <1>3, <1>4 DEF SkillNext

LEMMA PageTypePerson == PageTypeOK /\ PersonNext => PageTypeOK'
<1> SUFFICES ASSUME PageTypeOK, PersonNext PROVE PageTypeOK'
    OBVIOUS
<1> USE PageConstants DEF PageTypeOK, pageVars, Leave, Gone, Fault, Elsewhere
<1>1. CASE LoadRoles \/ ChooseRole
    BY <1>1 DEF LoadRoles, ChooseRole
<1>2. CASE \E to \in {"webcam", "upload"} : SwitchMode(to)
    BY <1>2 DEF SwitchMode
<1>3. CASE \E m \in Mounts : CameraGiven(m) \/ CameraDenied(m) \/ Played(m)
    BY <1>3 DEF CameraGiven, CameraDenied, Played
<1>4. CASE Snap \/ PickFile \/ \E p \in Pictures : Encoded(p)
    BY <1>4 DEF Snap, PickFile, Encoded
<1>5. CASE Submit \/ ServeCreate \/ CreateAnswered \/ ServeUpload \/ UploadAnswered
    BY <1>5 DEF Submit, ServeCreate, CreateAnswered, ServeUpload, UploadAnswered
<1>6. CASE LeavePerson \/ PersonChanges
    BY <1>6 DEF LeavePerson, PersonChanges
<1>7. QED
    BY <1>1, <1>2, <1>3, <1>4, <1>5, <1>6 DEF PersonNext

LEMMA PageTypeNext == PageTypeOK /\ [Next]_vars => PageTypeOK'
BY PageTypeList, PageTypeChat, PageTypeRole, PageTypeSkill, PageTypePerson
DEF Next, vars, pageVars, PageTypeOK

\* The editor of a role.
LEMMA RoleTypeRole == RoleTypeOK /\ RoleNext => RoleTypeOK'
<1> SUFFICES ASSUME RoleTypeOK, RoleNext PROVE RoleTypeOK'
    OBVIOUS
<1> USE DEF RoleTypeOK, savingVars
<1>1. CASE LoadRole \/ LoadTools
    BY <1>1 DEF LoadRole, LoadTools
<1>2. CASE LoadFails \/ CloseRole
    BY <1>2 DEF LoadFails, CloseRole, roleVars
<1>3. CASE SetWildcard \/ ToggleSkill \/ GrantCategory \/ RevokeCategory \/ Reset
    <2>1. draft # None => draft \in Permissions
        OBVIOUS
    <2>2. \A c : Offered(c) \subseteq Skills
        BY <1>3
        DEF Offered, SetWildcard, ToggleSkill, GrantCategory, RevokeCategory, Reset, Editable
    <2>3. PICK new \in Permissions \cup {None} : Edited(new)
        <3>1. CASE SetWildcard
            BY <3>1 DEF SetWildcard, Permissions
        <3>2. CASE ToggleSkill
            BY <2>1, <2>2, <3>2 DEF ToggleSkill, Permissions, Editable
        <3>3. CASE GrantCategory
            BY <2>1, <2>2, <3>3 DEF GrantCategory, Permissions, Editable
        <3>4. CASE RevokeCategory
            BY <2>1, <2>2, <3>4 DEF RevokeCategory, Permissions, Editable
        <3>5. CASE Reset
            BY <3>5 DEF Reset
        <3>6. QED
            BY <1>3, <3>1, <3>2, <3>3, <3>4, <3>5
    <2>4. QED
        BY <2>3 DEF Edited
<1>4. CASE Save
    BY <1>4 DEF Save, Editable
<1>5. CASE ServeSave
    BY <1>5 DEF ServeSave
<1>9. CASE RefreshSave
    BY <1>9 DEF RefreshSave
<1>6. CASE SaveAnswered
    BY <1>6 DEF SaveAnswered, Finished
<1>7. CASE RoleChanges
    BY <1>7 DEF RoleChanges, Permissions
<1>8. QED
    BY <1>1, <1>2, <1>3, <1>4, <1>5, <1>6, <1>7, <1>9 DEF RoleNext

\* The pages of skills.
LEMMA SkillTypeSkill == SkillTypeOK /\ SkillNext => SkillTypeOK'
<1> SUFFICES ASSUME SkillTypeOK, SkillNext PROVE SkillTypeOK'
    OBVIOUS
<1> USE DEF SkillTypeOK, newSkillVars, oldSkillVars, Outcomes
<1>1. CASE Describe \/ Draft \/ ServeDraft \/ DraftAnswered \/ Discard
    BY <1>1 DEF Describe, Draft, ServeDraft, DraftAnswered, Discard
<1>2. CASE Ship \/ ServeShip \/ ShipAnswered
    BY <1>2 DEF Ship, ServeShip, ShipAnswered
<1>3. CASE LoadSkill \/ OpenDialog \/ CloseDialog \/ LeaveSkill \/ SkillDeleted
    BY <1>3 DEF LoadSkill, OpenDialog, CloseDialog, LeaveSkill, SkillDeleted, skillVars
<1>4. CASE \E w \in What : Do(w) \/ ServeDo(w) \/ DoAnswered(w)
    BY <1>4 DEF Do, ServeDo, DoAnswered
<1>5. QED
    BY <1>1, <1>2, <1>3, <1>4 DEF SkillNext

\* The page that adds a person.
LEMMA PersonTypePerson == PersonTypeOK /\ PersonNext => PersonTypeOK'
<1> SUFFICES ASSUME PersonTypeOK, PersonNext PROVE PersonTypeOK'
    OBVIOUS
<1>0. Unmounted \in [Mounts -> {"none", "asked", "denied", "stopped"} \cup On]
    BY DEF PersonTypeOK, Unmounted
<1>1. Mounts = 1..MaxMounts /\ Pictures = 1..MaxPictures
      /\ MaxMounts \in Nat \ {0} /\ MaxPictures \in Nat
    BY PersonConstants DEF Mounts, Pictures
<1> USE DEF PersonTypeOK, faceVars, saveVars
<1>2. CASE LoadRoles \/ ChooseRole
    BY <1>2 DEF LoadRoles, ChooseRole
<1>3. ASSUME NEW to \in {"webcam", "upload"}, SwitchMode(to) PROVE PersonTypeOK'
    BY <1>0, <1>1, <1>3 DEF SwitchMode, Camera
<1>4. ASSUME NEW m \in Mounts, CameraGiven(m) \/ CameraDenied(m) \/ Played(m)
      PROVE  PersonTypeOK'
    BY <1>4 DEF CameraGiven, CameraDenied, Played, Camera, On
<1>5. CASE Snap
    <2>1. taken' \in 0..MaxPictures /\ taken' \in Pictures
        BY <1>1, <1>5 DEF Snap
    <2>2. QED
        BY <1>5, <2>1 DEF Snap
<1>6. CASE PickFile
    <2>1. taken < MaxPictures /\ taken' = taken + 1 => taken' \in 0..MaxPictures /\ taken' \in Pictures
        BY <1>1
    <2>2. QED
        BY <1>6, <2>1 DEF PickFile
<1>7. CASE \E p \in Pictures : Encoded(p)
    BY <1>7 DEF Encoded
<1>8. CASE Submit \/ ServeCreate
    BY <1>8 DEF Submit, ServeCreate, SaveSteps
<1>9. CASE CreateAnswered
    BY <1>0, <1>1, <1>9 DEF CreateAnswered, Gone, Picture, SaveSteps
<1>10. CASE ServeUpload
    BY <1>10 DEF ServeUpload, SaveSteps
<1>11. CASE UploadAnswered \/ LeavePerson
    <2>1. /\ camera' \in [Mounts -> {"none", "asked", "denied", "stopped"} \cup On]
          /\ mount' \in 0..MaxMounts
        BY <1>0, <1>1, <1>11 DEF UploadAnswered, LeavePerson, Gone
    <2>2. saveStep' \in SaveSteps
        BY <1>11 DEF UploadAnswered, LeavePerson, SaveSteps
    <2>3. UNCHANGED <<roles, rolesRead, role, mode, taken, encoding, face,
                      captured, person, faceStored, shownAtSave>>
        BY <1>11 DEF UploadAnswered, LeavePerson
    <2>4. QED
        BY <2>1, <2>2, <2>3
<1>12. CASE PersonChanges
    BY <1>12 DEF PersonChanges
<1>13. QED
    BY <1>2, <1>3, <1>4, <1>5, <1>6, <1>7, <1>8, <1>9, <1>10, <1>11, <1>12 DEF PersonNext

\* The chat.
ChatCounts ==
    /\ sending \in {"no", "sent", "ok", "failed"} /\ message \in Messages
    /\ connected \in BOOLEAN /\ answers \in 0..MaxAnswers

LEMMA ChatCountsChat == ChatCounts /\ ChatNext => ChatCounts'
<1> SUFFICES ASSUME ChatCounts, ChatNext PROVE ChatCounts'
    OBVIOUS
<1> USE ChatConstants DEF ChatCounts, Messages
<1>1. CASE Connect \/ Disconnect \/ Receive
    BY <1>1 DEF Connect, Disconnect, Receive
<1>2. CASE SendMessage \/ ServeMessage \/ MessageAnswered
    BY <1>2 DEF SendMessage, ServeMessage, MessageAnswered
<1>3. CASE RobotSays \/ RobotDone \/ OtherChats
    BY <1>3 DEF RobotSays, RobotDone, OtherChats
<1>4. QED
    BY <1>1, <1>2, <1>3 DEF ChatNext

LEMMA ChatTyped == ChatCounts /\ LinesInv /\ QueueInv => ChatTypeOK
<1> SUFFICES ASSUME ChatCounts, LinesInv, QueueInv PROVE ChatTypeOK
    OBVIOUS
<1>1. message \in Nat /\ message <= MaxMessages /\ MaxMessages \in Nat
    BY ChatConstants DEF ChatCounts, Messages
<1>2. \A l \in ChatLine : l.of <= message => l \in Line
    BY <1>1 DEF ChatLine, Line, Messages
<1>3. \A i \in DOMAIN lines : lines[i] \in ChatLine /\ lines[i].of <= message
    BY DEF LinesInv
<1>4. \A i \in DOMAIN queue : queue[i] \in ChatLine /\ queue[i].of <= message
    BY DEF QueueInv
<1>5. working \subseteq Messages
    BY <1>1 DEF QueueInv, Messages
<1>6. QED
    BY <1>2, <1>3, <1>4, <1>5 DEF ChatTypeOK, ChatCounts

\* The lists: what is read is of the kind of its part.
ListTypes ==
    /\ shown.rows \in [Rows -> Values] \cup {None}
    /\ shown.tools \in Catalogues \cup {None}
    /\ listError \in BOOLEAN /\ slot \in Rows \cup {None} /\ syncing \in BOOLEAN
    /\ Len(ops) <= MaxOps
    /\ \A p \in AllParts : \A s \in Reads :
         reads[p][s] # None => reads[p][s].data \in DataOf(p) \cup {None}
    /\ overlapped \subseteq AllParts

LEMMA ListTypesReload ==
    ASSUME ReadTypes, ListTypes, Reload, UNCHANGED <<shown, listError>>,
           Len(ops') <= MaxOps, slot' \in {slot, None}, syncing' \in {syncing, FALSE}
    PROVE  ListTypes'
<1>1. PICK s \in Reads : /\ reads' = Reloaded(s, reads)
                         /\ overlapped' = {p \in Parts : InFlight(p, reads) # {}}
    BY DEF Reload
<1>2. \A p \in AllParts : reads'[p] = IF p \in Parts THEN [reads[p] EXCEPT ![s] = Sent] ELSE reads[p]
    BY <1>1 DEF Reloaded
<1>3. \A p \in AllParts : \A t \in Reads : reads'[p][t] \in {Sent, reads[p][t]}
    BY <1>2 DEF ReadTypes
<1>4. Sent.data = None
    BY DEF Sent
<1>5. \A p \in AllParts : \A t \in Reads :
        reads'[p][t] # None => reads'[p][t].data \in DataOf(p) \cup {None}
    BY <1>3, <1>4 DEF ListTypes
<1>6. overlapped' \subseteq AllParts
    BY <1>1, PartsAreParts
<1>7. QED
    BY <1>5, <1>6 DEF ListTypes, DataOf

LEMMA ListTypesServe ==
    ASSUME ReadTypes, SinceInv, ListTypes,
           NEW p \in AllParts, NEW s \in Reads, ServeRead(p, s)
    PROVE  ListTypes'
<1>1. PICK data \in {Stored(p), None} :
        reads' = [reads EXCEPT ![p][s] = [step |-> "back", data |-> data]]
    BY DEF ServeRead
<1>2. data \in DataOf(p) \cup {None}
    BY PartsAreParts DEF Stored, DataOf, SinceInv
<1> DEFINE given == [step |-> "back", data |-> data]
<1>3. given.data = data
    OBVIOUS
<1> HIDE DEF given
<1>4. \A q \in AllParts : \A t \in Reads :
        reads'[q][t] = IF q = p /\ t = s THEN given ELSE reads[q][t]
    BY <1>1 DEF ReadTypes, given
<1>5. \A q \in AllParts : \A t \in Reads :
        reads'[q][t] # None => reads'[q][t].data \in DataOf(q) \cup {None}
    BY <1>2, <1>3, <1>4 DEF ListTypes
<1>6. UNCHANGED <<shown, listError, slot, syncing, ops, overlapped>>
    BY DEF ServeRead
<1>7. QED
    BY <1>5, <1>6 DEF ListTypes, DataOf

LEMMA ListTypesAnswered ==
    ASSUME ReadTypes, ListTypes, NEW p \in AllParts, NEW s \in Reads, ReadAnswered(p, s)
    PROVE  ListTypes'
<1> DEFINE data == reads[p][s].data
<1>1. data \in DataOf(p) \cup {None}
    BY DEF ListTypes, ReadAnswered
<1>2. \A q \in AllParts : \A t \in Reads :
        reads'[q][t] = IF q = p /\ t = s THEN None ELSE reads[q][t]
    BY DEF ReadTypes, ReadAnswered
<1>3. /\ p = "tools" => shown' = [shown EXCEPT !.tools = data] /\ listError' = listError
      /\ p = "rows" => /\ shown' = [shown EXCEPT !.rows = IF data = None THEN Empty ELSE data]
                       /\ listError' = (data = None)
    BY DEF ReadAnswered
<1> HIDE DEF data
<1>4. /\ p = "tools" => shown'.tools = data /\ shown'.rows = shown.rows
      /\ p = "rows" => /\ shown'.rows = (IF data = None THEN Empty ELSE data)
                       /\ shown'.tools = shown.tools
    BY <1>3, PartsAreParts DEF ReadTypes
<1>5. Empty \in [Rows -> Values]
    BY DEF Empty, Values
<1>6. /\ shown'.rows \in [Rows -> Values] \cup {None}
      /\ shown'.tools \in Catalogues \cup {None}
    BY <1>1, <1>4, <1>5, PartsAreParts DEF ListTypes, DataOf
<1>7. listError' \in BOOLEAN
    BY <1>3, PartsAreParts DEF ListTypes
<1>8. \A q \in AllParts : \A t \in Reads :
        reads'[q][t] # None => reads'[q][t].data \in DataOf(q) \cup {None}
    BY <1>2 DEF ListTypes
<1>9. UNCHANGED <<slot, syncing, ops, overlapped>>
    BY DEF ReadAnswered
<1>10. QED
    BY <1>6, <1>7, <1>8, <1>9 DEF ListTypes, DataOf

\* A button adds one operation, within the bound.
LEMMA StartCounts ==
    ASSUME ButtonInv, NEW r, NEW w, Start(r, w)
    PROVE  Len(ops') <= MaxOps
<1> DEFINE rest == [o \in DOMAIN ops |-> [ops[o] EXCEPT !.lone = FALSE]]
           new == [row |-> r, what |-> w, step |-> "sent", lone |-> \A o \in DOMAIN ops : ~Busy(o)]
<1>1. \A o \in DOMAIN ops : ops[o] \in Ops
    BY DEF ButtonInv
<1>2. \A o \in DOMAIN ops : rest[o] \in Ops
    BY <1>1, NoLongerLone
<1>3. rest \in Seq(Ops) /\ Len(rest) = Len(ops)
    BY <1>2 DEF ButtonInv
<1>4. ops' = Append(rest, new) /\ Len(ops) < MaxOps
    BY DEF Start
<1> HIDE DEF rest, new
<1>5. Len(ops') = Len(ops) + 1 /\ Len(ops) \in Nat
    BY <1>3, <1>4
<1>6. QED
    BY <1>4, <1>5, ListConstants

LEMMA SameLength ==
    ASSUME ButtonInv, NEW o \in DOMAIN ops, ServeOp(o) \/ OpAnswered(o)
    PROVE  Len(ops') = Len(ops)
<1>1. \E new : ops' = [ops EXCEPT ![o] = new]
    BY DEF ServeOp, OpAnswered
<1>2. QED
    BY <1>1 DEF ButtonInv

LEMMA ListTypesList ==
    ButtonInv /\ ReadTypes /\ SinceInv /\ ListTypes /\ ListNext => ListTypes'
<1> SUFFICES ASSUME ButtonInv, ReadTypes, SinceInv, ListTypes, ListNext PROVE ListTypes'
    OBVIOUS
<1>1. CASE Poll
    BY <1>1, ListTypesReload DEF Poll, ListTypes
<1>2. CASE ClickSync
    <2>1. Len(ops') <= MaxOps
        BY <1>2, StartCounts DEF ClickSync
    <2>2. UNCHANGED <<shown, listError, reads, overlapped, slot>> /\ syncing' = TRUE
        BY <1>2 DEF ClickSync, readVars
    <2>3. QED
        BY <2>1, <2>2 DEF ListTypes, DataOf
<1>3. CASE RowsChange
    <2>1. UNCHANGED <<shown, listError, reads, overlapped, slot, syncing, ops>>
        BY <1>3 DEF RowsChange, readVars
    <2>2. QED
        BY <2>1 DEF ListTypes, DataOf
<1>4. CASE \E p \in AllParts, s \in Reads : ServeRead(p, s) \/ ReadAnswered(p, s)
    BY <1>4, ListTypesServe, ListTypesAnswered
<1>5. ASSUME NEW r \in Rows,
             \/ DeleteUser(r) \/ InvokeRecipe(r) \/ TogglePolicy(r)
             \/ DeletePolicy(r) \/ DeleteRole(r)
      PROVE  ListTypes'
    <2>1. PICK path \in Lists, w \in {"delete", "invoke", "on", "off"} : Click(path, r, w)
        BY <1>5
        DEF DeleteUser, InvokeRecipe, TogglePolicy, DeletePolicy, DeleteRole, Lists
    <2>2. Len(ops') <= MaxOps
        BY <2>1, StartCounts DEF Click
    <2>3. UNCHANGED <<shown, listError, reads, overlapped, syncing>> /\ slot' = r
        BY <2>1 DEF Click, readVars
    <2>4. QED
        BY <2>2, <2>3 DEF ListTypes, DataOf
<1>6. ASSUME NEW o \in DOMAIN ops, ServeOp(o) PROVE ListTypes'
    <2>1. UNCHANGED <<shown, listError, reads, overlapped, slot, syncing>>
        BY <1>6 DEF ServeOp, readVars
    <2>2. QED
        BY <1>6, <2>1, SameLength DEF ListTypes, DataOf
<1>7. ASSUME NEW o \in DOMAIN ops, OpAnswered(o) PROVE ListTypes'
    <2>1. Len(ops') <= MaxOps
        BY <1>7, SameLength DEF ListTypes
    <2>2. UNCHANGED <<shown, listError>> /\ slot' \in {slot, None} /\ syncing' \in {syncing, FALSE}
        BY <1>7 DEF OpAnswered, Released
    <2>3. CASE UNCHANGED <<reads, overlapped>>
        BY <2>1, <2>2, <2>3 DEF ListTypes, DataOf
    <2>4. CASE Reload
        BY <2>1, <2>2, <2>4, ListTypesReload
    <2>5. QED
        BY <1>7, <2>3, <2>4 DEF OpAnswered, Refresh
<1>8. QED
    BY <1>1, <1>2, <1>3, <1>4, <1>5, <1>6, <1>7 DEF ListNext

LEMMA ListTyped == ButtonInv /\ ReadTypes /\ SinceInv /\ ListTypes => ListTypeOK
<1> SUFFICES ASSUME ButtonInv, ReadTypes, SinceInv, ListTypes PROVE ListTypeOK
    OBVIOUS
<1>1. ASSUME NEW p \in AllParts
      PROVE  reads[p] \in [Reads -> {None} \cup [step : {"sent", "back"}, data : DataOf(p) \cup {None}]]
    <2>1. ASSUME NEW s \in Reads, reads[p][s] # None
          PROVE  reads[p][s] \in [step : {"sent", "back"}, data : DataOf(p) \cup {None}]
        <3>1. reads[p][s] \in Read
            BY <2>1 DEF ReadTypes
        <3>2. reads[p][s].data \in DataOf(p) \cup {None}
            BY <2>1 DEF ListTypes
        <3>3. QED
            BY <3>1, <3>2 DEF Read
    <2>2. QED
        BY <2>1 DEF ReadTypes
<1>2. DOMAIN reads = AllParts
    BY DEF ReadTypes
<1>3. since.rows \in [Rows -> SUBSET Values] /\ since.tools \subseteq Catalogues
    BY DEF SinceInv
<1>4. QED
    BY <1>1, <1>2, <1>3 DEF ListTypeOK, ListTypes, SinceInv, ButtonInv

\* The pages together.  A step of one leaves the variables of the others.
PagesInv ==
    /\ ListTypes /\ RoleTypeOK /\ SkillTypeOK /\ PersonTypeOK /\ ChatCounts

LEMMA PagesInvInit == Init => PageTypeOK /\ PagesInv
<1> SUFFICES ASSUME Init PROVE PageTypeOK /\ PagesInv
    OBVIOUS
<1>1. PageTypeOK
    BY PageConstants DEF Init, PageInit, PageTypeOK
<1>2. ListTypes
    <2>1. /\ shown = [rows |-> None, tools |-> None] /\ listError = FALSE /\ slot = None
          /\ syncing = FALSE /\ ops = <<>> /\ overlapped = {}
        BY DEF Init, ListInit
    <2>2. reads = IF open \in Lists THEN Reloaded(1, NoReads) ELSE NoReads
        BY DEF Init, ListInit
    <2>3. \A p \in AllParts : \A s \in Reads : reads[p][s] \in {None, Sent}
        BY <2>2 DEF Reloaded, NoReads
    <2>4. Sent.data = None
        BY DEF Sent
    <2>5. shown.rows = None /\ shown.tools = None /\ Len(ops) = 0
        BY <2>1
    <2>6. \A p \in AllParts : \A s \in Reads :
            reads[p][s] # None => reads[p][s].data \in DataOf(p) \cup {None}
        BY <2>3, <2>4
    <2>7. Len(ops) <= MaxOps
        BY <2>5, ListConstants
    <2>8. QED
        BY <2>1, <2>5, <2>6, <2>7 DEF ListTypes
<1>3. RoleTypeOK
    BY DEF Init, RoleInit, RoleTypeOK, Permissions
<1>4. SkillTypeOK
    <2>1. doing \in [What -> Outcomes]
        BY DEF Init, SkillInit, Outcomes
    <2>2. QED
        BY <2>1 DEF Init, SkillInit, SkillTypeOK, Outcomes
<1>5. PersonTypeOK
    <2>1. mount \in 0..MaxMounts
        BY PersonConstants DEF Init, PersonInit
    <2>2. camera \in [Mounts -> {"none", "asked", "denied", "stopped"} \cup On]
        BY DEF Init, PersonInit
    <2>3. taken \in 0..MaxPictures
        BY PersonConstants DEF Init, PersonInit
    <2>4. /\ roles = RoleNames /\ rolesRead = None /\ role = None
          /\ mode = "webcam" /\ encoding = {} /\ face = None /\ saveStep = "no"
          /\ captured = None /\ person = FALSE /\ faceStored = None /\ shownAtSave = None
        BY DEF Init, PersonInit
    <2>5. QED
        BY <2>1, <2>2, <2>3, <2>4 DEF PersonTypeOK, SaveSteps
<1>6. ChatCounts
    <2>1. sending = "no" /\ message = 0 /\ connected = FALSE /\ answers = 0
        BY DEF Init, ChatInit
    <2>2. message \in Messages /\ answers \in 0..MaxAnswers
        BY <2>1, ChatConstants DEF Messages
    <2>3. connected \in BOOLEAN
        BY <2>1
    <2>4. QED
        BY <2>1, <2>2, <2>3 DEF ChatCounts
<1>7. QED
    BY <1>1, <1>2, <1>3, <1>4, <1>5, <1>6 DEF PagesInv

LEMMA PagesInvNext ==
    ButtonInv /\ ReadTypes /\ SinceInv /\ PagesInv /\ [Next]_vars => PagesInv'
<1> SUFFICES ASSUME ButtonInv, ReadTypes, SinceInv, PagesInv, [Next]_vars PROVE PagesInv'
    OBVIOUS
<1> USE DEF PagesInv
<1>1. UNCHANGED listVars => ListTypes'
    BY DEF listVars, readVars, ListTypes, DataOf
<1>2. UNCHANGED roleVars => RoleTypeOK'
    BY DEF roleVars, savingVars, RoleTypeOK, Permissions
<1>3. UNCHANGED skillVars => SkillTypeOK'
    BY DEF skillVars, newSkillVars, oldSkillVars, SkillTypeOK
<1>4. UNCHANGED personVars => PersonTypeOK'
    BY DEF personVars, faceVars, saveVars, PersonTypeOK
<1>5. UNCHANGED chatVars => ChatCounts'
    BY DEF chatVars, ChatCounts
<1>6. CASE ListNext /\ UNCHANGED <<roleVars, skillVars, personVars, chatVars>>
    BY <1>2, <1>3, <1>4, <1>5, <1>6, ListTypesList
<1>7. CASE RoleNext /\ UNCHANGED <<listVars, skillVars, personVars, chatVars>>
    BY <1>1, <1>3, <1>4, <1>5, <1>7, RoleTypeRole
<1>8. CASE SkillNext /\ UNCHANGED <<listVars, roleVars, personVars, chatVars>>
    BY <1>1, <1>2, <1>4, <1>5, <1>8, SkillTypeSkill
<1>9. CASE PersonNext /\ UNCHANGED <<listVars, roleVars, skillVars, chatVars>>
    BY <1>1, <1>2, <1>3, <1>5, <1>9, PersonTypePerson
<1>10. CASE ChatNext /\ UNCHANGED <<listVars, roleVars, skillVars, personVars>>
    BY <1>1, <1>2, <1>3, <1>4, <1>10, ChatCountsChat
<1>11. CASE UNCHANGED vars
    BY <1>1, <1>2, <1>3, <1>4, <1>5, <1>11 DEF vars
<1>12. QED
    BY <1>6, <1>7, <1>8, <1>9, <1>10, <1>11 DEF Next

LEMMA PagesInvHolds == Spec => [](PageTypeOK /\ PagesInv)
<1>1. ButtonInv /\ ReadTypes /\ SinceInv /\ FreshInv /\ PageTypeOK /\ PagesInv /\ [Next]_vars
        => (PageTypeOK /\ PagesInv)'
    BY PageTypeNext, PagesInvNext
<1>2. QED
    BY <1>1, PagesInvInit, FreshInvHolds, PTL DEF Spec

\* What every page of the console reads, shows and sends is of its kind: a
\* list is never shown the answer that belongs to the catalogue (lib/api.ts
\* and the reload functions), and an editor holds permissions only.
THEOREM ConsoleTyped == Spec => []TypeOK
<1>1. /\ PageTypeOK /\ PagesInv /\ ButtonInv /\ ReadTypes /\ SinceInv /\ LinesInv /\ QueueInv
        => TypeOK
    BY ListTyped, ChatTyped DEF TypeOK, PagesInv
<1>2. QED
    BY <1>1, PagesInvHolds, FreshInvHolds, ChatInvHolds, PTL

=============================================================================
