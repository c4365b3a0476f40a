------------------------------- MODULE UserFaces -------------------------------
(***************************************************************************)
(* A user is a row; the user's face is an image on a volume and, in the    *)
(* row, an embedding that dimos computes from it                           *)
(* (packages/api/src/users/service.py, storage.py, router.py).  Creating   *)
(* and deleting a user, uploading and deleting a face touch them one await *)
(* at a time.                                                              *)
(*                                                                         *)
(* The image goes through a temporary file that all uploads for one name   *)
(* and extension share.  An upload writes to the file it opened, wherever  *)
(* a rename has moved it meanwhile, so open files and paths are kept       *)
(* apart.  The database runs at READ COMMITTED, as in RecipeStore; the ORM  *)
(* gives the row back that its session has loaded already, as it was.  An  *)
(* account, and an image, is identified with the request that brought it.  *)
(***************************************************************************)
EXTENDS Naturals, FiniteSets

CONSTANTS
    Requests,
    Usernames,
    Exts,           \* file extensions of uploaded images
    Old,            \* the account and the image there were before
    Nothing,        \* no account, no image, no file, no transaction
    MaxCrashes      \* bound: crashes of the broker

Identities == Requests \cup {Old}
Paths == Usernames \X Exts

\* Whole is FALSE of an image that is not written completely, or over which
\* another one was.
Images == [image : Identities, whole : BOOLEAN]

ASSUME NamesDiffer ==
    /\ Old \notin Requests
    /\ Nothing \notin Identities \cup Images
ASSUME RequestsAreFinite == IsFiniteSet(Requests)
ASSUME CrashesAreNat == MaxCrashes \in Nat

VARIABLES
    job,        \* job[r]: what request r asks for
    at,         \* at[r]: where its handler is
    account,    \* account[u]: the committed row of that user name
    embedding,  \* embedding[u]: the image that row's embedding is of
    writer,     \* writer[u]: the transaction that is deleting that row
    seen,       \* seen[r]: the account whose embedding r is about to reset
    opened,     \* opened[r]: the file that r has open or has written
    tmp,        \* tmp[p]: the file at path p with .tmp appended
    face,       \* face[p]: the file at path p
    content,    \* content[f]: what is in file f
    session,    \* session[r]: the row that the session of r keeps, the caller's
    before,     \* history: before[r]: the rivals of r that were over when it arrived
    crashes

rowVars == <<account, embedding, writer>>
fileVars == <<opened, tmp, face, content>>
vars == <<job, at, rowVars, seen, fileVars, session, before, crashes>>

Kinds == {"create", "upload", "delete_face", "delete_user"}

\* own: the user asks for it, otherwise somebody else.  The rest of this module
\* does not depend on who creates or deletes a user.
Jobs == {j \in [kind : Kinds, user : Usernames, ext : Exts, own : BOOLEAN] :
            j.own => j.kind \in {"upload", "delete_face"}}

Accounts == Identities \cup {Nothing}
Sessions == [account : Accounts, embedding : Accounts]

Contents == Images \cup {Nothing}

Ends == {"answered", "refused", "failed"}
Steps == {"look_up", "insert", "clean", "open", "write", "replace", "select", "reset",
          "look_again", "delete", "unlink", "commit"}

TypeOK ==
    /\ job \in [Requests -> Jobs]
    /\ at \in [Requests -> {"new"} \cup Steps \cup Ends]
    /\ account \in [Usernames -> Identities \cup {Nothing}]
    /\ embedding \in [Usernames -> Identities \cup {Nothing}]
    /\ writer \in [Usernames -> Requests \cup {Nothing}]
    /\ seen \in [Requests -> Identities \cup {Nothing}]
    /\ opened \in [Requests -> Identities \cup {Nothing}]
    /\ tmp \in [Paths -> Identities \cup {Nothing}]
    /\ face \in [Paths -> Identities \cup {Nothing}]
    /\ content \in [Identities -> Contents]
    /\ session \in [Requests -> Sessions]
    /\ before \in [Requests -> SUBSET Requests]
    /\ crashes \in 0..MaxCrashes
    /\ \A r \in Requests :
         /\ at[r] \in {"write", "replace"} => opened[r] # Nothing
         /\ at[r] = "reset" => seen[r] # Nothing

\* Every user, or none, is there already, with a face and an embedding of it.
\* Only an upload has an extension of its own.
Init ==
    /\ job \in [Requests -> Jobs]
    /\ at = [r \in Requests |-> "new"]
    /\ \E first \in {Old, Nothing}, x \in Exts :
         /\ account = [u \in Usernames |-> first]
         /\ embedding = [u \in Usernames |-> first]
         /\ face = [p \in Paths |-> IF p[2] = x THEN first ELSE Nothing]
         /\ \A r \in Requests : job[r].kind # "upload" => job[r].ext = x
    /\ writer = [u \in Usernames |-> Nothing]
    /\ seen = [r \in Requests |-> Nothing]
    /\ opened = [r \in Requests |-> Nothing]
    /\ tmp = [p \in Paths |-> Nothing]
    /\ content = [f \in Identities |->
                    IF f = Old THEN [image |-> Old, whole |-> TRUE] ELSE Nothing]
    /\ session = [r \in Requests |-> [account |-> Nothing, embedding |-> Nothing]]
    /\ before = [r \in Requests |-> {}]
    /\ crashes = 0

-----------------------------------------------------------------------------
User(r) == job[r].user
Path(r) == <<job[r].user, job[r].ext>>

\* Uploads for one user, and a creation and a deletion of one user: nothing in
\* the code keeps them apart.
Rivals(r, s) ==
    /\ r # s /\ User(r) = User(s)
    /\ {job[r].kind, job[s].kind} \in {{"upload"}, {"create", "delete_user"}}

Goes(r, from, to) ==
    /\ at[r] = from
    /\ at' = [at EXCEPT ![r] = to]

Constant == UNCHANGED <<job, session, before, crashes>>
Unseen == UNCHANGED seen /\ Constant

FirstStep(kind) ==
    IF kind = "delete_face" THEN "unlink"
    ELSE IF kind = "delete_user" THEN "delete"
    ELSE "look_up"

\* get_current_user loads the caller's row into the session of the request,
\* which lasts as long as the request; a caller without a row is refused.
Arrive(r) ==
    /\ Goes(r, "new", IF job[r].own /\ account[User(r)] = Nothing THEN "refused"
                      ELSE FirstStep(job[r].kind))
    /\ session' = IF job[r].own
                  THEN [session EXCEPT ![r] = [account |-> account[User(r)],
                                               embedding |-> embedding[User(r)]]]
                  ELSE session
    /\ before' = [before EXCEPT ![r] = {s \in Requests : Rivals(r, s) /\ at[s] \in Ends}]
    /\ UNCHANGED <<job, rowVars, seen, fileVars, crashes>>

\* A creation refuses a name that is taken, an upload a name that is not, or
\* an image that is too large or of another type.
LookUp(r) ==
    /\ \/ /\ job[r].kind = "create"
          /\ Goes(r, "look_up", IF account[User(r)] = Nothing THEN "insert" ELSE "refused")
       \/ /\ job[r].kind = "upload"
          /\ account[User(r)] # Nothing
          /\ Goes(r, "look_up", "clean")
       \/ /\ job[r].kind = "upload"
          /\ Goes(r, "look_up", "refused")
    /\ UNCHANGED <<rowVars, fileVars>> /\ Unseen

\* INSERT and COMMIT.  The unique index makes it wait for a deletion of that
\* name, and refuses a name taken meanwhile.
InsertUser(r) ==
    /\ writer[User(r)] = Nothing
    /\ IF account[User(r)] = Nothing
       THEN /\ Goes(r, "insert", "look_again")
            /\ account' = [account EXCEPT ![User(r)] = r]
            /\ embedding' = [embedding EXCEPT ![User(r)] = Nothing]
       ELSE /\ Goes(r, "insert", "refused")
            /\ UNCHANGED <<account, embedding>>
    /\ UNCHANGED <<writer, fileVars>> /\ Unseen

\* The refresh of a created row, or the last read of an upload, whose assert
\* fails when the row is gone.
LookAgain(r) ==
    /\ Goes(r, "look_again", IF account[User(r)] # Nothing THEN "answered" ELSE "failed")
    /\ UNCHANGED <<rowVars, fileVars>> /\ Unseen

-----------------------------------------------------------------------------
\* Mutant: images of other extensions stay.
KeepSiblings(r) ==
    /\ Goes(r, "clean", "open")
    /\ UNCHANGED <<rowVars, fileVars>> /\ Unseen

\* write_face: remove the images of other extensions, ...
CleanSiblings(r) ==
    /\ Goes(r, "clean", "open")
    /\ face' = [p \in Paths |->
                  IF p[1] = User(r) /\ p[2] # job[r].ext THEN Nothing ELSE face[p]]
    /\ UNCHANGED <<rowVars, opened, tmp, content>> /\ Unseen

\* Mutant: the image is written in place.
OpenInPlace(r) ==
    /\ Goes(r, "open", "write")
    /\ face' = [face EXCEPT ![Path(r)] = r]
    /\ tmp' = [tmp EXCEPT ![Path(r)] = r]
    /\ opened' = [opened EXCEPT ![r] = r]
    /\ content' = [content EXCEPT ![r] = [image |-> r, whole |-> FALSE]]
    /\ UNCHANGED rowVars /\ Unseen

\* ... open the temporary file, new or as another upload left it, and
\* truncate it, ...
OpenTmp(r) ==
    /\ Goes(r, "open", "write")
    /\ LET f == IF tmp[Path(r)] = Nothing THEN r ELSE tmp[Path(r)]
       IN  /\ tmp' = [tmp EXCEPT ![Path(r)] = f]
           /\ opened' = [opened EXCEPT ![r] = f]
           /\ content' = [content EXCEPT ![f] = [image |-> r, whole |-> FALSE]]
    /\ UNCHANGED <<rowVars, face>> /\ Unseen

\* ... write the image, which may leave the end of a longer one that another
\* upload has written to the same file since, ...
WriteTmp(r) ==
    /\ Goes(r, "write", "replace")
    /\ \E whole \in BOOLEAN :
         /\ whole \/ content[opened[r]] # [image |-> r, whole |-> FALSE]
         /\ content' = [content EXCEPT ![opened[r]] = [image |-> r, whole |-> whole]]
    /\ UNCHANGED <<rowVars, opened, tmp, face>> /\ Unseen

\* Mutant: whoever renamed the temporary file, it is done.
ReplaceFaceOrNot(r) ==
    /\ Goes(r, "replace", "select")
    /\ IF tmp[Path(r)] # Nothing
       THEN /\ face' = [face EXCEPT ![Path(r)] = tmp[Path(r)]]
            /\ tmp' = [tmp EXCEPT ![Path(r)] = Nothing]
       ELSE UNCHANGED <<face, tmp>>
    /\ UNCHANGED <<rowVars, opened, content>> /\ Unseen

\* ... and rename the temporary file, if another upload has not done it.
ReplaceFace(r) ==
    /\ IF tmp[Path(r)] # Nothing
       THEN /\ Goes(r, "replace", "select")
            /\ face' = [face EXCEPT ![Path(r)] = tmp[Path(r)]]
            /\ tmp' = [tmp EXCEPT ![Path(r)] = Nothing]
       ELSE /\ Goes(r, "replace", "failed")
            /\ UNCHANGED <<face, tmp>>
    /\ UNCHANGED <<rowVars, opened, content>> /\ Unseen

-----------------------------------------------------------------------------
Faceless(u) == [p \in Paths |-> IF p[1] = u THEN Nothing ELSE face[p]]

\* Mutant: the embedding outlives the image it was computed from.
UnlinkFaceOnly(r) ==
    /\ \/ /\ job[r].kind = "delete_face"
          /\ Goes(r, "unlink", "answered")
       \/ /\ job[r].kind = "delete_user"
          /\ Goes(r, "unlink", "commit")
    /\ face' = Faceless(User(r))
    /\ UNCHANGED <<rowVars, opened, tmp, content>> /\ Unseen

\* storage.delete_face, of a face or of a user.
UnlinkFace(r) ==
    /\ \/ /\ job[r].kind = "delete_face"
          /\ Goes(r, "unlink", "select")
       \/ /\ job[r].kind = "delete_user"
          /\ Goes(r, "unlink", "commit")
    /\ face' = Faceless(User(r))
    /\ UNCHANGED <<rowVars, opened, tmp, content>> /\ Unseen

\* What follows clear_face_embedding.  That a deletion of nothing answers 404
\* is left out.
AfterReset(r) == IF job[r].kind = "upload" THEN "look_again" ELSE "answered"

\* Mutant: nobody looks whether there is a row.
SelectRowUnchecked(r) ==
    /\ Goes(r, "select", "reset")
    /\ seen' = [seen EXCEPT ![r] = account[User(r)]]
    /\ UNCHANGED <<rowVars, fileVars>> /\ Constant

\* The embedding in the row that the SELECT gives: of a row that the session
\* keeps, the one there was when the request arrived.
EmbeddingRead(r) ==
    IF session[r].account = account[User(r)]
    THEN session[r].embedding
    ELSE embedding[User(r)]

\* clear_face_embedding: no row, or none with an embedding, and there is
\* nothing to write; ...
SelectRow(r) ==
    /\ IF account[User(r)] # Nothing /\ EmbeddingRead(r) # Nothing
       THEN /\ Goes(r, "select", "reset")
            /\ seen' = [seen EXCEPT ![r] = account[User(r)]]
       ELSE /\ Goes(r, "select", AfterReset(r))
            /\ UNCHANGED seen
    /\ UNCHANGED <<rowVars, fileVars>> /\ Constant

\* ... otherwise UPDATE and COMMIT, of the row that was read.  The UPDATE
\* waits for a deletion and fails if the row is gone.
ResetEmbedding(r) ==
    /\ writer[User(r)] = Nothing
    /\ IF account[User(r)] = seen[r]
       THEN /\ Goes(r, "reset", AfterReset(r))
            /\ embedding' = [embedding EXCEPT ![User(r)] = Nothing]
       ELSE /\ Goes(r, "reset", "failed")
            /\ UNCHANGED embedding
    /\ seen' = [seen EXCEPT ![r] = Nothing]
    /\ UNCHANGED <<account, writer, fileVars>> /\ Constant

\* DELETE FROM users waits for another deletion of the row.
DeleteRow(r) ==
    /\ Goes(r, "delete", "unlink")
    /\ writer[User(r)] = Nothing \/ account[User(r)] = Nothing
    /\ writer' = IF account[User(r)] # Nothing
                 THEN [writer EXCEPT ![User(r)] = r]
                 ELSE writer
    /\ UNCHANGED <<account, embedding, fileVars>> /\ Unseen

CommitDelete(r) ==
    /\ Goes(r, "commit", "answered")
    /\ IF writer[User(r)] = r
       THEN /\ account' = [account EXCEPT ![User(r)] = Nothing]
            /\ embedding' = [embedding EXCEPT ![User(r)] = Nothing]
            /\ writer' = [writer EXCEPT ![User(r)] = Nothing]
       ELSE UNCHANGED rowVars
    /\ UNCHANGED fileVars /\ Unseen

-----------------------------------------------------------------------------
InProgress(r) == at[r] \in Steps

Rollback(dead) ==
    writer' = [u \in Usernames |-> IF writer[u] \in dead THEN Nothing ELSE writer[u]]

\* An await raises: the transaction is rolled back, the files stay.
Fails(r) ==
    /\ InProgress(r)
    /\ at' = [at EXCEPT ![r] = "failed"]
    /\ Rollback({r})
    /\ UNCHANGED <<account, embedding, fileVars>> /\ Unseen

Crash ==
    /\ crashes < MaxCrashes
    /\ crashes' = crashes + 1
    /\ at' = [r \in Requests |-> IF InProgress(r) THEN "failed" ELSE at[r]]
    /\ Rollback(Requests)
    /\ UNCHANGED <<job, account, embedding, seen, fileVars, session, before>>

\* dimos computes the embedding that is missing from the image there is.
Enroll(p) ==
    /\ account[p[1]] # Nothing
    /\ embedding[p[1]] = Nothing
    /\ writer[p[1]] = Nothing
    /\ face[p] # Nothing
    /\ embedding' = [embedding EXCEPT ![p[1]] = content[face[p]].image]
    /\ UNCHANGED <<at, account, writer, fileVars>> /\ Unseen

Step(r) ==
    \/ Arrive(r) \/ LookUp(r) \/ InsertUser(r) \/ LookAgain(r)
    \/ CleanSiblings(r) \/ OpenTmp(r) \/ WriteTmp(r) \/ ReplaceFace(r)
    \/ UnlinkFace(r) \/ SelectRow(r) \/ ResetEmbedding(r)
    \/ DeleteRow(r) \/ CommitDelete(r)

Next ==
    \/ \E r \in Requests : Step(r) \/ Fails(r)
    \/ \E p \in Paths : Enroll(p)
    \/ Crash

Spec == Init /\ [][Next]_vars

\* Without a failure or a crash.
FaultFreeSpec == Init /\ [][\E r \in Requests : Step(r)]_vars

-----------------------------------------------------------------------------
\* Rivals, neither of which was over when the other arrived.
Overlapped(r, s) ==
    /\ Rivals(r, s)
    /\ at[r] # "new" /\ at[s] # "new"
    /\ r \notin before[s] /\ s \notin before[r]

Uploads(p) == {r \in Requests : job[r].kind = "upload" /\ Path(r) = p}

Half(p) == face[p] # Nothing /\ ~content[face[p]].whole

\* storage.py renames to avoid half-written reads.  No failure and no crash of
\* an upload leaves a half-written image, nor does a step of an upload that
\* is on: it takes two uploads of one type that overlapped, and so shared the
\* temporary file.
HalfFacesHaveCause ==
    \A p \in Paths :
        Half(p) => \E r, s \in Uploads(p) : Overlapped(r, s)

\* However many uploads share a temporary file, and however they are cut off,
\* a half-written image never stays with all of them answered: one is still
\* writing, or it failed and whoever sent it was told to try again.
HalfFacesAreTold ==
    \A p \in Paths :
        Half(p) => \E r \in Uploads(p) : at[r] \in {"write", "replace", "failed"}

\* write_face removes the other types "so the user only ever has one face on
\* disk": a user has two only after uploads of these two types that overlapped,
\* whatever else was going on or went wrong.
SecondFacesHaveCause ==
    \A u \in Usernames : \A x, y \in Exts :
        x # y /\ face[<<u, x>>] # Nothing /\ face[<<u, y>>] # Nothing =>
            \E r \in Uploads(<<u, x>>), s \in Uploads(<<u, y>>) : Overlapped(r, s)

Idle(u) ==
    \A r \in Requests : User(r) = u => at[r] \in {"new", "answered", "refused"}

\* The embedding is of an image on disk.
Current(u) ==
    \E x \in Exts :
        /\ face[<<u, x>>] # Nothing
        /\ content[face[<<u, x>>]].image = embedding[u]

\* A user's own request that arrived before the row had an embedding does not
\* see one that dimos computed since, and resets nothing.
Unaware(r) ==
    job[r].own /\ session[r] = [account |-> account[User(r)], embedding |-> Nothing]

\* A creation of a user and a deletion of the user's name that overlapped.
Crossed(u) ==
    \E r, s \in Requests :
        /\ User(r) = u /\ job[r].kind = "create"
        /\ User(s) = u /\ job[s].kind = "delete_user"
        /\ Overlapped(r, s)

\* clear_face_embedding.  With nobody at work on a user, and nobody having
\* failed, the embedding is of an image on disk: whoever replaced or removed
\* an image has reset it, in whatever order uploads, deletions and dimos met;
\* but for the two cases above.
EmbeddingsAreCurrent ==
    \A u \in Usernames :
        Idle(u) /\ embedding[u] # Nothing =>
            \/ Current(u)
            \/ Crossed(u)
            \/ \E r \in Requests : User(r) = u /\ Unaware(r)

\* What delete_user says: it deletes the row and the image.  So with nobody
\* at work, no image is left for the next user of that name to inherit.
NoFaceWithoutUser ==
    \A u \in Usernames :
        /\ account[u] = Nothing
        /\ \A r \in Requests : User(r) = u => ~InProgress(r)
        => \A x \in Exts : face[<<u, x>>] = Nothing
=============================================================================
