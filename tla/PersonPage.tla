------------------------------- MODULE PersonPage -------------------------------
(***************************************************************************)
(* The page that adds a person (app/users/new/page.tsx) with the camera    *)
(* (components/face-capture.tsx): the account is created by one request,   *)
(* and its face uploaded by a second.                                      *)
(*                                                                         *)
(* The text fields are left out: Save waits until they are valid.  The     *)
(* form's picture and its preview are set together and are one here.       *)
(* RolePermissionsPreview only shows what was read, and is left out with   *)
(* the catalogue and the taxonomy that it shows.                           *)
(***************************************************************************)
EXTENDS Page

CONSTANTS
    RoleNames,      \* the roles that there may be
    Default,        \* the role that is chosen first, if it is there
    MaxMounts,      \* bound: times that the camera is turned to
    MaxPictures     \* bound: pictures taken or picked

ASSUME PersonConstants == MaxMounts \in Nat \ {0} /\ MaxPictures \in Nat

VARIABLES
    roles,      \* the roles that the broker has
    rolesRead,  \* as the page loaded them, or None
    role,       \* the role that is selected, or None
    mode,       \* "webcam" or "upload"
    mount,      \* the WebcamCapture that is on the screen, 0 for none
    camera,     \* camera[m]: the state of mount m
    taken,      \* how many pictures there are
    encoding,   \* the snapshots that toBlob encodes
    face,       \* the picture of the form and its preview, or None
    saveStep,   \* where onSubmit is
    captured,   \* the picture that onSubmit uploads, or None
    person,     \* the account is there
    faceStored, \* the picture that was uploaded for it, or None
    shownAtSave \* history: the preview when Save was clicked

faceVars == <<mode, mount, camera, taken, encoding, face>>
saveVars == <<saveStep, captured, person, faceStored, shownAtSave>>
personVars == <<roles, rolesRead, role, faceVars, saveVars>>

Mounts == 1..MaxMounts
Pictures == 1..MaxPictures
SaveSteps == {"no", "create", "created", "refused", "upload", "uploaded", "failed", "over"}
On == {"live", "playing", "broken"}     \* the tracks of its stream run

PersonTypeOK ==
    /\ roles \subseteq RoleNames
    /\ rolesRead \in {None} \cup SUBSET RoleNames
    /\ role \in RoleNames \cup {None}
    /\ mode \in {"webcam", "upload"} /\ mount \in 0..MaxMounts
    /\ camera \in [Mounts -> {"none", "asked", "denied", "stopped"} \cup On]
    /\ taken \in 0..MaxPictures /\ encoding \subseteq Pictures
    /\ face \in Pictures \cup {None} /\ saveStep \in SaveSteps
    /\ captured \in Pictures \cup {None} /\ person \in BOOLEAN
    /\ faceStored \in Pictures \cup {None} /\ shownAtSave \in Pictures \cup {None}

Here == open = "/users/new"
Enabled_ == Here /\ saveStep = "no"

\* The camera is asked for as soon as the page is shown.
PersonInit ==
    /\ roles = RoleNames
    /\ rolesRead = None
    /\ role = None
    /\ mode = "webcam" /\ taken = 0 /\ encoding = {} /\ face = None
    /\ mount = IF Here THEN 1 ELSE 0
    /\ camera = [m \in Mounts |-> IF m = mount THEN "asked" ELSE "none"]
    /\ saveStep = "no" /\ captured = None
    /\ person = FALSE /\ faceStored = None /\ shownAtSave = None

-----------------------------------------------------------------------------
\* Loading, and the role.
LoadRoles ==
    /\ Here /\ rolesRead = None
    /\ rolesRead' = roles
    /\ role' \in IF roles = {} THEN {None}
                 ELSE IF Default \in roles THEN {Default} ELSE roles
    /\ UNCHANGED <<pageVars, roles, faceVars, saveVars>>

ChooseRole ==
    /\ Enabled_ /\ rolesRead # None
    /\ role' \in rolesRead \ {role}
    /\ UNCHANGED <<pageVars, roles, rolesRead, faceVars, saveVars>>

-----------------------------------------------------------------------------
\* The camera.
Camera(m, state) == camera' = [camera EXCEPT ![m] = state]

\* The effect's cleanup: a stream that there is is stopped, one that is still
\* asked for only marked as cancelled.
Unmounted == [m \in Mounts |-> IF m = mount /\ camera[m] \in On THEN "stopped" ELSE camera[m]]

\* Both buttons clear the picture first.
SwitchMode(to) ==
    /\ Enabled_
    /\ face' = None /\ mode' = to
    /\ \/ to = "upload" /\ camera' = Unmounted /\ mount' = 0
       \/ to = "webcam" /\ mode = "webcam" /\ UNCHANGED <<mount, camera>>
       \/ /\ to = "webcam" /\ mode = "upload"
          /\ \E m \in Mounts :
               /\ camera[m] = "none" /\ \A n \in 1..(m - 1) : camera[n] # "none"
               /\ mount' = m /\ Camera(m, "asked")
    /\ UNCHANGED <<pageVars, roles, rolesRead, role, taken, encoding, saveVars>>

\* Mutant: a camera that was given up is used all the same.
GrantCamera(m) ==
    /\ camera[m] = "asked"
    /\ Camera(m, "live")
    /\ UNCHANGED <<pageVars, roles, rolesRead, role, mode, mount, taken, encoding, face, saveVars>>

\* The browser gives the stream, when the person or a policy of the browser
\* allows it; by then nobody may need it any more.
CameraGiven(m) ==
    /\ camera[m] = "asked"
    /\ Camera(m, IF m = mount THEN "live" ELSE "stopped")
    /\ UNCHANGED <<pageVars, roles, rolesRead, role, mode, mount, taken, encoding, face, saveVars>>

CameraDenied(m) ==
    /\ camera[m] = "asked"
    /\ Camera(m, "denied")
    /\ UNCHANGED <<pageVars, roles, rolesRead, role, mode, mount, taken, encoding, face, saveVars>>

\* play() ends well, or the error hides the video while the stream goes on.
Played(m) ==
    /\ camera[m] = "live"
    /\ \E state \in {"playing", "broken"} : Camera(m, state)
    /\ UNCHANGED <<pageVars, roles, rolesRead, role, mode, mount, taken, encoding, face, saveVars>>

Snap ==
    /\ Enabled_ /\ mount # 0 /\ camera[mount] = "playing"
    /\ taken < MaxPictures /\ taken' = taken + 1
    /\ encoding' = encoding \cup {taken'}
    /\ UNCHANGED <<pageVars, roles, rolesRead, role, mode, mount, camera, face, saveVars>>

\* The callback of toBlob, whatever mode the form is in by now, and even while
\* it is submitted; with no blob it does nothing.
Encoded(p) ==
    /\ p \in encoding
    /\ encoding' = encoding \ {p}
    /\ \/ Here /\ face' = p
       \/ UNCHANGED face
    /\ UNCHANGED <<pageVars, roles, rolesRead, role, mode, mount, camera, taken, saveVars>>

\* A file is picked, or none.
PickFile ==
    /\ Enabled_ /\ mode = "upload"
    /\ \/ taken < MaxPictures /\ taken' = taken + 1 /\ face' = taken'
       \/ face' = None /\ UNCHANGED taken
    /\ UNCHANGED <<pageVars, roles, rolesRead, role, mode, mount, camera, encoding, saveVars>>

-----------------------------------------------------------------------------
\* onSubmit.
Gone == Leave /\ camera' = Unmounted /\ mount' = 0

Submit ==
    /\ Enabled_ /\ role # None
    /\ saveStep' = "create"
    /\ captured' = face /\ shownAtSave' = face
    /\ UNCHANGED <<pageVars, roles, rolesRead, role, faceVars, person, faceStored>>

\* The user name may be taken and the role gone.
ServeCreate ==
    /\ saveStep = "create"
    /\ \/ /\ ~person /\ role \in roles
          /\ person' = TRUE
          /\ \/ saveStep' = "created" /\ UNCHANGED pageVars
             \/ saveStep' = "refused" /\ Fault
       \/ /\ saveStep' = "refused"
          /\ IF ~person /\ role \in roles THEN Fault ELSE UNCHANGED pageVars
          /\ UNCHANGED person
    /\ UNCHANGED <<roles, rolesRead, role, faceVars, captured, faceStored, shownAtSave>>

\* Mutant: the picture that the form has by now.
PictureByNow == face

\* The picture that the form had when it was submitted.
Picture == captured

CreateAnswered ==
    /\ saveStep \in {"created", "refused"}
    /\ IF saveStep = "created" /\ Picture = None
       THEN Gone /\ saveStep' = "over"
       ELSE /\ saveStep' = IF saveStep = "created" THEN "upload" ELSE "no"
            /\ UNCHANGED <<pageVars, mount, camera>>
    /\ captured' = IF saveStep = "created" THEN Picture ELSE None
    /\ UNCHANGED <<roles, rolesRead, role, mode, taken, encoding, face,
                   person, faceStored, shownAtSave>>

ServeUpload ==
    /\ saveStep = "upload"
    /\ \/ /\ person
          /\ faceStored' = captured
          /\ \/ saveStep' = "uploaded" /\ UNCHANGED pageVars
             \/ saveStep' = "failed" /\ Fault
       \/ /\ saveStep' = "failed"
          /\ IF person THEN Fault ELSE UNCHANGED pageVars
          /\ UNCHANGED faceStored
    /\ UNCHANGED <<roles, rolesRead, role, faceVars, captured, person, shownAtSave>>

\* The page is left, with or without the face.
UploadAnswered ==
    /\ saveStep \in {"uploaded", "failed"}
    /\ Gone /\ saveStep' = "over"
    /\ UNCHANGED <<roles, rolesRead, role, mode, taken, encoding, face,
                   captured, person, faceStored, shownAtSave>>

\* The link back, at any time; onSubmit goes on.
LeavePerson ==
    /\ Here
    /\ Gone
    /\ UNCHANGED <<roles, rolesRead, role, mode, taken, encoding, face, saveVars>>

\* Somebody else deletes the person or a role, or takes the user name.
PersonChanges ==
    /\ Here /\ Elsewhere
    /\ \/ /\ person' = ~person /\ faceStored' = None
          /\ UNCHANGED roles
       \/ \E r \in roles : roles' = roles \ {r} /\ UNCHANGED <<person, faceStored>>
    /\ UNCHANGED <<rolesRead, role, faceVars, saveStep, captured, shownAtSave>>

PersonNext ==
    \/ LoadRoles \/ ChooseRole
    \/ \E to \in {"webcam", "upload"} : SwitchMode(to)
    \/ \E m \in Mounts : CameraGiven(m) \/ CameraDenied(m) \/ Played(m)
    \/ Snap \/ PickFile \/ \E p \in Pictures : Encoded(p)
    \/ Submit \/ ServeCreate \/ CreateAnswered \/ ServeUpload \/ UploadAnswered
    \/ LeavePerson \/ PersonChanges

-----------------------------------------------------------------------------
\* The light of the camera is on only while its video, or the error in its
\* place, is on the screen, however late the person answers the browser's
\* question and however often the mode changes (face-capture.tsx, the effect
\* of WebcamCapture).
CameraOffWhenLeft ==
    \A m \in Mounts : camera[m] \in On => Here /\ mode = "webcam" /\ m = mount

\* A face that is stored is the picture that the form showed when Save was
\* clicked, although snapshots may arrive while the person is being created.
SavedAsShown == faceStored # None => faceStored = shownAtSave
=============================================================================
