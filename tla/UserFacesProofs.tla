---------------------------- MODULE UserFacesProofs ----------------------------
(***************************************************************************)
(* What holds of the users and their faces for every set of requests,      *)
(* names and extensions, and for any number of failures and crashes.       *)
(***************************************************************************)
EXTENDS UserFaces, FiniteSetTheorems, TLAPS

\* A file that has a path, or is open, has been truncated or written.
FilesAreFilled ==
    /\ \A p \in Paths : face[p] # Nothing => content[face[p]] # Nothing
    /\ \A p \in Paths : tmp[p] # Nothing => content[tmp[p]] # Nothing
    /\ \A r \in Requests : opened[r] # Nothing => content[opened[r]] # Nothing

FilledInv == TypeOK /\ FilesAreFilled

\* Each handler keeps to its own steps.
StepsFitJobs ==
    \A r \in Requests :
        /\ at[r] = "look_up" => job[r].kind \in {"create", "upload"}
        /\ at[r] = "insert" => job[r].kind = "create"
        /\ at[r] \in {"clean", "open", "write", "replace"} => job[r].kind = "upload"
        /\ at[r] \in {"select", "reset"} => job[r].kind \in {"upload", "delete_face"}
        /\ at[r] = "unlink" => job[r].kind \in {"delete_face", "delete_user"}
        /\ at[r] \in {"delete", "commit"} => job[r].kind = "delete_user"

\* The file that a request brings is at its own path, temporary or final, and
\* not before the request opens it.
FilesAtTheirPaths ==
    /\ \A p \in Paths :
         /\ tmp[p] # Nothing => tmp[p] \in Requests /\ Path(tmp[p]) = p
         /\ face[p] \in Requests => Path(face[p]) = p
         /\ face[p] # Nothing => tmp[p] # face[p]
    /\ \A r \in Requests : opened[r] # Nothing =>
         opened[r] \in Requests /\ Path(opened[r]) = Path(r) /\ job[r].kind = "upload"

\* A request has no file before it opens one, and who gave a file its name has
\* it open.
FilesHaveOpeners ==
    /\ \A r \in Requests :
         at[r] \in {"new", "look_up", "clean", "open", "refused"} => opened[r] = Nothing
    /\ \A p \in Paths :
         /\ tmp[p] # Nothing => opened[tmp[p]] = tmp[p]
         /\ face[p] \in Requests => opened[face[p]] = face[p]

\* What a history says, and what a session keeps.
HistoriesAgree ==
    \A r \in Requests :
        /\ \A s \in before[r] : at[s] \in Ends
        /\ session[r].account # Nothing => job[r].own /\ at[r] # "new"

Alone(p) == \A r, s \in Uploads(p) : ~Overlapped(r, s)

\* An upload that met no other of its path owns the temporary file, and its
\* image is whole when it is renamed.
UploadsOwnTmp ==
    \A r \in Requests :
        Alone(Path(r)) =>
            /\ at[r] \in {"write", "replace"} => tmp[Path(r)] = opened[r]
            /\ at[r] = "write" => content[opened[r]] = [image |-> r, whole |-> FALSE]
            /\ at[r] = "replace" => content[opened[r]].whole

\* While an upload is at work, an image of another type is that of an upload
\* which it met.
SiblingsHaveCause ==
    \A r \in Requests : \A x \in Exts \ {job[r].ext} :
        /\ at[r] \in {"open", "write", "replace"}
        /\ face[<<User(r), x>>] # Nothing
        => \E s \in Uploads(<<User(r), x>>) : Overlapped(r, s)

\* A deletion of a user holds the row, or there is none, or it met a creation.
DeletersHoldRow ==
    /\ \A r \in Requests :
          at[r] \in {"unlink", "commit"} /\ job[r].kind = "delete_user" =>
             writer[User(r)] = r \/ account[User(r)] = Nothing \/ Crossed(User(r))
    /\ \A u \in Usernames : account[u] = Nothing => embedding[u] = Nothing

Causes == {"open", "write", "replace", "select", "reset", "commit", "failed"}

\* An embedding that is not of an image on disk has somebody who is about to
\* reset it, or who failed on the way, or one of the two reasons why nobody is.
MismatchesHaveCause ==
    \A u \in Usernames :
        embedding[u] # Nothing /\ ~Current(u) =>
            \/ Crossed(u)
            \/ \E r \in Requests : User(r) = u /\ (at[r] \in Causes \/ Unaware(r))

\* The uploads that found no temporary file, and the ones that renamed one and
\* have not failed since: a file is renamed once.
Created(p) == {r \in Uploads(p) : opened[r] = r}
Renamed(p) == {r \in Uploads(p) : at[r] \in {"select", "reset", "look_again", "answered"}}

RenamesAreCounted ==
    \A p \in Paths :
        Cardinality(Renamed(p)) + (IF tmp[p] = Nothing THEN 0 ELSE 1) <= Cardinality(Created(p))

\* What is written to a file by one upload only is whole.
SoleWriters ==
    /\ content[Old].whole
    /\ \A f \in Requests :
         opened[f] = f /\ (\A s \in Requests \ {f} : opened[s] # f) =>
            /\ at[f] = "write" => content[f] = [image |-> f, whole |-> FALSE]
            /\ content[f].whole \/ at[f] \in {"write", "failed"}

FacesInv ==
    /\ FilledInv
    /\ StepsFitJobs
    /\ HistoriesAgree
    /\ FilesAtTheirPaths
    /\ FilesHaveOpeners
    /\ UploadsOwnTmp
    /\ HalfFacesHaveCause
    /\ SiblingsHaveCause
    /\ SecondFacesHaveCause
    /\ DeletersHoldRow
    /\ MismatchesHaveCause

-----------------------------------------------------------------------------
LEMMA InitFilledInv == Init => FilledInv
  <1> SUFFICES ASSUME Init PROVE FilledInv
    OBVIOUS
  <1>1. /\ job \in [Requests -> Jobs]
        /\ at \in [Requests -> {"new"} \cup Steps \cup Ends]
        /\ account \in [Usernames -> Identities \cup {Nothing}]
        /\ embedding \in [Usernames -> Identities \cup {Nothing}]
        /\ writer \in [Usernames -> Requests \cup {Nothing}]
        /\ seen \in [Requests -> Identities \cup {Nothing}]
    BY DEF Init, Identities
  <1>2. /\ opened \in [Requests -> Identities \cup {Nothing}]
        /\ tmp \in [Paths -> Identities \cup {Nothing}]
        /\ face \in [Paths -> Identities \cup {Nothing}]
        /\ content \in [Identities -> Contents]
    BY DEF Init, Identities, Contents, Images
  <1>3. crashes \in 0..MaxCrashes /\ at = [r \in Requests |-> "new"]
    BY CrashesAreNat DEF Init
  <1>a. /\ session \in [Requests -> Sessions]
        /\ before \in [Requests -> SUBSET Requests]
    BY DEF Init, Sessions, Accounts
  <1>4. TypeOK
    BY <1>1, <1>2, <1>3, <1>a DEF TypeOK
  <1>5. /\ \A p \in Paths : face[p] \in {Old, Nothing} /\ tmp[p] = Nothing
        /\ \A r \in Requests : opened[r] = Nothing
        /\ content[Old] = [image |-> Old, whole |-> TRUE]
    BY DEF Init, Identities
  <1>6. [image |-> Old, whole |-> TRUE] # Nothing
    <2>1. [image |-> Old, whole |-> TRUE] \in Images
      BY DEF Images, Identities
    <2> QED
      BY <2>1, NamesDiffer
  <1>7. QED
    BY <1>4, <1>5, <1>6 DEF FilledInv, FilesAreFilled

\* A step of a handler moves its request on, from a place to one that follows.
LEMMA StepsMoveOne ==
    ASSUME TypeOK, NEW r \in Requests, Step(r) \/ Fails(r)
    PROVE  /\ at[r] \in {"new"} \cup Steps
           /\ \E to \in (Steps \cup Ends) : at' = [at EXCEPT ![r] = to]
           /\ UNCHANGED <<job, crashes>>
           /\ \A s \in Requests \ {r} : seen'[s] = seen[s] /\ opened'[s] = opened[s]
           /\ Arrive(r) \/ UNCHANGED <<session, before>>
  <1> USE DEF Goes, Constant, Unseen, Steps, Ends, TypeOK, rowVars, fileVars
  <1>1. CASE Arrive(r)
    BY <1>1 DEF Arrive, FirstStep
  <1>2. CASE LookUp(r) \/ InsertUser(r) \/ LookAgain(r)
    BY <1>2 DEF LookUp, InsertUser, LookAgain
  <1>3. CASE CleanSiblings(r) \/ OpenTmp(r)
    BY <1>3 DEF CleanSiblings, OpenTmp
  <1>4. CASE WriteTmp(r) \/ ReplaceFace(r)
    BY <1>4 DEF WriteTmp, ReplaceFace
  <1>5. CASE UnlinkFace(r)
    BY <1>5 DEF UnlinkFace
  <1>6. CASE SelectRow(r) \/ ResetEmbedding(r)
    BY <1>6 DEF SelectRow, ResetEmbedding, AfterReset
  <1>7. CASE DeleteRow(r) \/ CommitDelete(r)
    BY <1>7 DEF DeleteRow, CommitDelete
  <1>8. CASE Fails(r)
    BY <1>8 DEF Fails, InProgress
  <1>9. QED
    BY <1>1, <1>2, <1>3, <1>4, <1>5, <1>6, <1>7, <1>8 DEF Step

\* The action that a request's new place comes from.
LEMMA WhereFrom ==
    ASSUME TypeOK, NEW r \in Requests, Step(r) \/ Fails(r)
    PROVE  /\ at'[r] # "new"
           /\ at'[r] \in {"look_up", "delete"} => Arrive(r)
           /\ at'[r] \in {"insert", "clean"} => LookUp(r)
           /\ at'[r] = "refused" => Arrive(r) \/ LookUp(r) \/ InsertUser(r)
           /\ at'[r] = "open" => CleanSiblings(r)
           /\ at'[r] = "write" => OpenTmp(r)
           /\ at'[r] = "replace" => WriteTmp(r)
           /\ at'[r] = "select" => ReplaceFace(r) \/ UnlinkFace(r)
           /\ at'[r] = "reset" => SelectRow(r)
           /\ at'[r] = "unlink" => Arrive(r) \/ DeleteRow(r)
           /\ at'[r] = "commit" => UnlinkFace(r)
  <1> USE DEF Goes, TypeOK
  <1>1. CASE Arrive(r)
    BY <1>1 DEF Arrive, FirstStep
  <1>2. CASE LookUp(r)
    BY <1>2 DEF LookUp
  <1>3. CASE InsertUser(r)
    BY <1>3 DEF InsertUser
  <1>4. CASE LookAgain(r)
    BY <1>4 DEF LookAgain
  <1>5. CASE CleanSiblings(r)
    BY <1>5 DEF CleanSiblings
  <1>6. CASE OpenTmp(r)
    BY <1>6 DEF OpenTmp
  <1>7. CASE WriteTmp(r)
    BY <1>7 DEF WriteTmp
  <1>8. CASE ReplaceFace(r)
    BY <1>8 DEF ReplaceFace
  <1>9. CASE UnlinkFace(r)
    BY <1>9 DEF UnlinkFace
  <1>10. CASE SelectRow(r)
    BY <1>10 DEF SelectRow, AfterReset
  <1>11. CASE ResetEmbedding(r)
    BY <1>11 DEF ResetEmbedding, AfterReset
  <1>12. CASE DeleteRow(r)
    BY <1>12 DEF DeleteRow
  <1>13. CASE CommitDelete(r)
    BY <1>13 DEF CommitDelete
  <1>14. CASE Fails(r)
    BY <1>14 DEF Fails
  <1>15. QED
    BY <1>1, <1>2, <1>3, <1>4, <1>5, <1>6, <1>7, <1>8,
       <1>9, <1>10, <1>11, <1>12, <1>13, <1>14 DEF Step

\* What a step does to the files leaves each with something in it.
LEMMA FilesStayFilled ==
    ASSUME FilledInv, NEW r \in Requests, Step(r) \/ Fails(r)
    PROVE  /\ opened' \in [Requests -> Identities \cup {Nothing}]
           /\ tmp' \in [Paths -> Identities \cup {Nothing}]
           /\ face' \in [Paths -> Identities \cup {Nothing}]
           /\ content' \in [Identities -> Contents]
           /\ at'[r] \in {"write", "replace"} => opened'[r] # Nothing
           /\ FilesAreFilled'
  <1> USE DEF Goes, Constant, Unseen, rowVars, Contents, Images
  <1>a. TypeOK /\ FilesAreFilled
    BY DEF FilledInv
  <1>b. Path(r) \in Paths
    BY <1>a DEF TypeOK, Jobs, Path, Paths
  <1>1. CASE CleanSiblings(r)
    <2>1. face' \in [Paths -> Identities \cup {Nothing}]
      BY <1>a, <1>1 DEF CleanSiblings, TypeOK
    <2>2. \A p \in Paths : face'[p] \in {face[p], Nothing}
      BY <1>1 DEF CleanSiblings
    <2>3. UNCHANGED <<opened, tmp, content>> /\ at' = [at EXCEPT ![r] = "open"]
      BY <1>1 DEF CleanSiblings
    <2> QED
      BY <1>a, <2>1, <2>2, <2>3 DEF TypeOK, FilesAreFilled
  <1>2. CASE OpenTmp(r)
    <2> DEFINE f == IF tmp[Path(r)] = Nothing THEN r ELSE tmp[Path(r)]
    <2>1. f \in Identities /\ f # Nothing
      BY <1>a, <1>b, NamesDiffer DEF TypeOK, Identities
    <2>2. /\ tmp' = [tmp EXCEPT ![Path(r)] = f] /\ opened' = [opened EXCEPT ![r] = f]
          /\ content' = [content EXCEPT ![f] = [image |-> r, whole |-> FALSE]]
          /\ UNCHANGED face
      BY <1>2 DEF OpenTmp
    <2>3. [image |-> r, whole |-> FALSE] \in Images
      BY DEF Identities
    <2> HIDE DEF f
    <2>4. content'[f] # Nothing /\ \A g \in Identities : content'[g] \in {content[g], content'[f]}
      BY <1>a, <2>1, <2>2, <2>3, NamesDiffer DEF TypeOK
    <2> QED
      BY <1>a, <1>b, <2>1, <2>2, <2>3, <2>4 DEF TypeOK, FilesAreFilled
  <1>3. CASE WriteTmp(r)
    <2> DEFINE f == opened[r]
    <2>1. f \in Identities /\ f # Nothing
      BY <1>a, <1>3 DEF TypeOK, WriteTmp
    <2>2. PICK whole \in BOOLEAN : content' = [content EXCEPT ![f] = [image |-> r, whole |-> whole]]
      BY <1>3 DEF WriteTmp
    <2>3. [image |-> r, whole |-> whole] \in Images
      BY DEF Identities
    <2>4. UNCHANGED <<face, tmp, opened>>
      BY <1>3 DEF WriteTmp
    <2> HIDE DEF f
    <2>5. content'[f] # Nothing /\ \A g \in Identities : content'[g] \in {content[g], content'[f]}
      BY <1>a, <2>1, <2>2, <2>3, NamesDiffer DEF TypeOK
    <2>6. opened'[r] # Nothing
      BY <2>1, <2>4 DEF f
    <2> QED
      BY <1>a, <2>1, <2>2, <2>3, <2>4, <2>5, <2>6 DEF TypeOK, FilesAreFilled
  <1>4. CASE ReplaceFace(r)
    <2>1. at'[r] \notin {"write", "replace"} /\ UNCHANGED <<opened, content>>
      BY <1>a, <1>4 DEF ReplaceFace, TypeOK
    <2>2. /\ tmp' \in [Paths -> Identities \cup {Nothing}]
          /\ face' \in [Paths -> Identities \cup {Nothing}]
      BY <1>a, <1>b, <1>4 DEF ReplaceFace, TypeOK
    <2>3. \A p \in Paths : tmp'[p] \in {tmp[p], Nothing} /\ face'[p] \in {face[p], tmp[p]}
      BY <1>a, <1>b, <1>4 DEF ReplaceFace, TypeOK
    <2> QED
      BY <1>a, <2>1, <2>2, <2>3 DEF TypeOK, FilesAreFilled
  <1>5. CASE UnlinkFace(r)
    <2>1. at'[r] \notin {"write", "replace"} /\ UNCHANGED <<opened, tmp, content>>
      BY <1>a, <1>5 DEF UnlinkFace, TypeOK
    <2>2. face' \in [Paths -> Identities \cup {Nothing}] /\ \A p \in Paths : face'[p] \in {face[p], Nothing}
      BY <1>a, <1>5 DEF UnlinkFace, Faceless, TypeOK
    <2> QED
      BY <1>a, <2>1, <2>2 DEF TypeOK, FilesAreFilled
  <1>6. CASE UNCHANGED fileVars /\ at'[r] \notin {"write", "replace"}
    BY <1>a, <1>6 DEF fileVars, TypeOK, FilesAreFilled
  <1>7. CASE /\ ~CleanSiblings(r) /\ ~OpenTmp(r) /\ ~WriteTmp(r)
             /\ ~ReplaceFace(r) /\ ~UnlinkFace(r)
    <2>1. UNCHANGED fileVars
      BY <1>7
      DEF Step, Arrive, LookUp, InsertUser, LookAgain, SelectRow, ResetEmbedding, DeleteRow,
          CommitDelete, Fails
    <2>2. at'[r] \notin {"write", "replace"}
      BY <1>a, <1>7, WhereFrom
    <2> QED
      BY <2>1, <2>2, <1>6
  <1>8. QED
    BY <1>1, <1>2, <1>3, <1>4, <1>5, <1>7

\* What a step does to the rows and to what is known of them is typed.
LEMMA RowsStayTyped ==
    ASSUME TypeOK, NEW r \in Requests, Step(r) \/ Fails(r)
    PROVE  /\ account' \in [Usernames -> Identities \cup {Nothing}]
           /\ embedding' \in [Usernames -> Identities \cup {Nothing}]
           /\ writer' \in [Usernames -> Requests \cup {Nothing}]
           /\ seen' \in [Requests -> Identities \cup {Nothing}]
           /\ at'[r] = "reset" => seen'[r] # Nothing
  <1> USE DEF TypeOK, Constant, Unseen, rowVars, fileVars
  <1>a. User(r) \in Usernames
    BY DEF User, Jobs
  <1>1. CASE InsertUser(r)
    <2>1. at'[r] # "reset"
      BY <1>1 DEF InsertUser, Goes
    <2> QED
      BY <1>a, <1>1, <2>1 DEF InsertUser, Identities
  <1>2. CASE SelectRow(r)
    <2>1. CASE account[User(r)] # Nothing /\ EmbeddingRead(r) # Nothing
      BY <1>a, <1>2, <2>1 DEF SelectRow
    <2>2. CASE ~(account[User(r)] # Nothing /\ EmbeddingRead(r) # Nothing)
      <3>1. at'[r] # "reset" /\ UNCHANGED seen
        BY <1>2, <2>2 DEF SelectRow, AfterReset, Goes
      <3> QED
        BY <1>2, <3>1 DEF SelectRow
    <2> QED
      BY <2>1, <2>2
  <1>3. CASE ResetEmbedding(r)
    <2>1. at'[r] # "reset"
      BY <1>3 DEF ResetEmbedding, AfterReset, Goes
    <2> QED
      BY <1>a, <1>3, <2>1 DEF ResetEmbedding
  <1>4. CASE DeleteRow(r)
    <2>1. at'[r] # "reset"
      BY <1>4 DEF DeleteRow, Goes
    <2> QED
      BY <1>a, <1>4, <2>1 DEF DeleteRow
  <1>5. CASE CommitDelete(r)
    <2>1. at'[r] # "reset"
      BY <1>5 DEF CommitDelete, Goes
    <2> QED
      BY <1>a, <1>5, <2>1 DEF CommitDelete
  <1>6. CASE Fails(r)
    BY <1>6 DEF Fails, Rollback
  <1>7. CASE /\ ~InsertUser(r) /\ ~SelectRow(r) /\ ~ResetEmbedding(r)
             /\ ~DeleteRow(r) /\ ~CommitDelete(r) /\ ~Fails(r)
    <2>1. UNCHANGED <<account, embedding, writer, seen>>
      BY <1>7
      DEF Step, Arrive, LookUp, LookAgain, CleanSiblings, OpenTmp, WriteTmp, ReplaceFace, UnlinkFace
    <2>2. at'[r] # "reset"
      BY <1>7, WhereFrom
    <2> QED
      BY <2>1, <2>2
  <1>8. QED
    BY <1>1, <1>2, <1>3, <1>4, <1>5, <1>6, <1>7

LEMMA FilledStep ==
    ASSUME FilledInv, NEW r \in Requests, Step(r) \/ Fails(r)
    PROVE  FilledInv'
  <1>a. TypeOK
    BY DEF FilledInv
  <1>1. /\ job' \in [Requests -> Jobs]
        /\ at' \in [Requests -> {"new"} \cup Steps \cup Ends]
        /\ crashes' \in 0..MaxCrashes
        /\ session' \in [Requests -> Sessions]
        /\ before' \in [Requests -> SUBSET Requests]
    <2>1. UNCHANGED <<job, crashes>>
      BY <1>a, StepsMoveOne
    <2>2. at' \in [Requests -> {"new"} \cup Steps \cup Ends]
      <3>1. PICK to \in Steps \cup Ends : at' = [at EXCEPT ![r] = to]
        BY <1>a, StepsMoveOne
      <3> QED
        BY <1>a, <3>1 DEF TypeOK
    <2>3. /\ session' \in [Requests -> Sessions]
          /\ before' \in [Requests -> SUBSET Requests]
      <3>1. CASE Arrive(r)
        <4>1. account[User(r)] \in Accounts /\ embedding[User(r)] \in Accounts
          BY <1>a DEF TypeOK, Jobs, User, Accounts
        <4>2. [account |-> account[User(r)], embedding |-> embedding[User(r)]] \in Sessions
          BY <4>1 DEF Sessions
        <4> QED
          BY <1>a, <3>1, <4>2 DEF Arrive, TypeOK
      <3>2. CASE UNCHANGED <<session, before>>
        BY <1>a, <3>2 DEF TypeOK
      <3>3. Arrive(r) \/ UNCHANGED <<session, before>>
        BY <1>a, StepsMoveOne
      <3> QED
        BY <3>1, <3>2, <3>3
    <2> QED
      BY <1>a, <2>1, <2>2, <2>3 DEF TypeOK
  <1>2. ASSUME NEW s \in Requests
        PROVE  /\ at'[s] \in {"write", "replace"} => opened'[s] # Nothing
               /\ at'[s] = "reset" => seen'[s] # Nothing
    <2>1. CASE s = r
      BY <1>a, <2>1, FilesStayFilled, RowsStayTyped
    <2>2. CASE s # r
      <3>1. at'[s] = at[s] /\ seen'[s] = seen[s] /\ opened'[s] = opened[s]
        BY <1>a, <2>2, StepsMoveOne DEF TypeOK
      <3> QED
        BY <1>a, <3>1 DEF TypeOK
    <2> QED
      BY <2>1, <2>2
  <1>3. QED
    BY <1>a, <1>1, <1>2, FilesStayFilled, RowsStayTyped DEF TypeOK, FilledInv

LEMMA NextFilledInv == FilledInv /\ [Next]_vars => FilledInv'
  <1> SUFFICES ASSUME FilledInv, [Next]_vars PROVE FilledInv'
    OBVIOUS
  <1>1. ASSUME NEW r \in Requests, Step(r) \/ Fails(r) PROVE FilledInv'
    BY <1>1, FilledStep
  <1>2. ASSUME NEW p \in Paths, Enroll(p) PROVE FilledInv'
    <2>1. face[p] \in Identities /\ content[face[p]] \in Images
      BY <1>2 DEF FilledInv, TypeOK, FilesAreFilled, Enroll, Contents
    <2>2. content[face[p]].image \in Identities
      BY <2>1 DEF Images
    <2>3. embedding' \in [Usernames -> Identities \cup {Nothing}]
      BY <1>2, <2>2 DEF Enroll, FilledInv, TypeOK
    <2> QED
      BY <1>2, <2>3 DEF Enroll, Unseen, Constant, FilledInv, TypeOK, FilesAreFilled, fileVars
  <1>3. CASE Crash
    <2>1. /\ at' \in [Requests -> {"new"} \cup Steps \cup Ends]
          /\ writer' \in [Usernames -> Requests \cup {Nothing}]
          /\ crashes' \in 0..MaxCrashes
      BY <1>3, CrashesAreNat DEF Crash, Rollback, FilledInv, TypeOK, Ends
    <2>2. \A r \in Requests : at'[r] \in {"write", "replace", "reset"} => at'[r] = at[r]
      BY <1>3 DEF Crash
    <2> QED
      BY <1>3, <2>1, <2>2 DEF Crash, FilledInv, TypeOK, FilesAreFilled, fileVars
  <1>4. CASE UNCHANGED vars
    BY <1>4 DEF FilledInv, TypeOK, FilesAreFilled, vars, rowVars, fileVars
  <1>5. QED
    BY <1>1, <1>2, <1>3, <1>4 DEF Next

-----------------------------------------------------------------------------
LEMMA InitFacesInv == Init => FacesInv
  <1> SUFFICES ASSUME Init PROVE FacesInv
    OBVIOUS
  <1>1. FilledInv
    BY InitFilledInv
  <1>2. /\ at = [r \in Requests |-> "new"] /\ tmp = [p \in Paths |-> Nothing]
        /\ opened = [r \in Requests |-> Nothing]
    BY DEF Init
  <1>3. PICK first \in {Old, Nothing}, x \in Exts :
          /\ account = [u \in Usernames |-> first]
          /\ embedding = [u \in Usernames |-> first]
          /\ face = [p \in Paths |-> IF p[2] = x THEN first ELSE Nothing]
    BY DEF Init
  <1>4. content[Old] = [image |-> Old, whole |-> TRUE]
    BY DEF Init, Identities
  <1>5. StepsFitJobs /\ UploadsOwnTmp /\ SiblingsHaveCause
    BY <1>2 DEF StepsFitJobs, UploadsOwnTmp, SiblingsHaveCause
  <1>6. FilesAtTheirPaths
    BY <1>2, <1>3, NamesDiffer DEF FilesAtTheirPaths, Identities
  <1>7. HalfFacesHaveCause
    BY <1>3, <1>4 DEF HalfFacesHaveCause, Half
  <1>8. SecondFacesHaveCause
    BY <1>3 DEF SecondFacesHaveCause, Paths
  <1>9. DeletersHoldRow
    BY <1>2, <1>3 DEF DeletersHoldRow
  <1>10. MismatchesHaveCause
    <2>1. ASSUME NEW u \in Usernames, embedding[u] # Nothing PROVE Current(u)
      <3>1. embedding[u] = Old /\ face[<<u, x>>] = Old /\ Old # Nothing
        BY <1>3, <2>1 DEF Paths
      <3> QED
        BY <1>4, <3>1 DEF Current
    <2> QED
      BY <2>1 DEF MismatchesHaveCause
  <1>11. HistoriesAgree
    BY DEF Init, HistoriesAgree
  <1>12. FilesHaveOpeners
    BY <1>2, <1>3, NamesDiffer DEF FilesHaveOpeners, Identities
  <1>13. QED
    BY <1>12, <1>1, <1>5, <1>6, <1>7, <1>8, <1>9, <1>10, <1>11 DEF FacesInv

LEMMA StepsFitJobsStep ==
    ASSUME FacesInv, NEW r \in Requests, Step(r) \/ Fails(r)
    PROVE  StepsFitJobs'
  <1>a. TypeOK /\ StepsFitJobs
    BY DEF FacesInv, FilledInv
  <1>b. job[r] \in Jobs /\ UNCHANGED job
    BY <1>a, StepsMoveOne DEF TypeOK
  <1>1. /\ at'[r] = "look_up" => job[r].kind \in {"create", "upload"}
        /\ at'[r] = "delete" => job[r].kind = "delete_user"
    BY <1>a, <1>b, WhereFrom DEF Arrive, FirstStep, Goes, TypeOK, Jobs, Kinds
  <1>2. /\ at'[r] = "insert" => job[r].kind = "create"
        /\ at'[r] = "clean" => job[r].kind = "upload"
    BY <1>a, WhereFrom DEF LookUp, Goes, TypeOK
  <1>3. at'[r] \in {"open", "write", "replace"} => job[r].kind = "upload"
    BY <1>a, WhereFrom DEF CleanSiblings, OpenTmp, WriteTmp, Goes, StepsFitJobs
  <1>4. at'[r] \in {"select", "reset"} => job[r].kind \in {"upload", "delete_face"}
    BY <1>a, WhereFrom DEF ReplaceFace, UnlinkFace, SelectRow, AfterReset, Goes, StepsFitJobs, TypeOK
  <1>5. at'[r] = "unlink" => job[r].kind \in {"delete_face", "delete_user"}
    BY <1>a, <1>b, WhereFrom DEF Arrive, FirstStep, DeleteRow, Goes, StepsFitJobs, TypeOK
  <1>6. at'[r] = "commit" => job[r].kind = "delete_user"
    BY <1>a, WhereFrom DEF UnlinkFace, Goes, TypeOK
  <1>7. \A s \in Requests \ {r} : at'[s] = at[s]
    BY <1>a, StepsMoveOne DEF TypeOK
  <1>8. QED
    BY <1>a, <1>b, <1>1, <1>2, <1>3, <1>4, <1>5, <1>6, <1>7 DEF StepsFitJobs

\* Which of the files a step may touch.
LEMMA FilesChange ==
    ASSUME FilledInv, NEW r \in Requests, Step(r) \/ Fails(r)
    PROVE  \/ CleanSiblings(r) \/ OpenTmp(r) \/ WriteTmp(r) \/ ReplaceFace(r) \/ UnlinkFace(r)
           \/ UNCHANGED <<tmp, face, content, opened>>
  BY DEF Step, Arrive, LookUp, InsertUser, LookAgain, SelectRow, ResetEmbedding, DeleteRow,
         CommitDelete, Fails, fileVars

\* A step leaves what the histories say, and adds the one of an arrival.
LEMMA HistoriesAgreeStep ==
    ASSUME FacesInv, NEW r \in Requests, Step(r) \/ Fails(r)
    PROVE  HistoriesAgree'
  <1>a. TypeOK /\ HistoriesAgree
    BY DEF FacesInv, FilledInv
  <1>b. UNCHANGED job /\ at[r] \in {"new"} \cup Steps /\ at'[r] # "new"
    BY <1>a, StepsMoveOne, WhereFrom
  <1>c. \A s \in Requests \ {r} : at'[s] = at[s]
    BY <1>a, StepsMoveOne DEF TypeOK
  <1>d. \A s \in Requests : at[s] \in Ends => at'[s] \in Ends
    BY <1>b, <1>c DEF Ends, Steps
  <1>1. CASE Arrive(r)
    <2>1. /\ \A s \in Requests \ {r} : before'[s] = before[s] /\ session'[s] = session[s]
          /\ before'[r] \subseteq {s \in Requests : at[s] \in Ends}
          /\ session'[r].account # Nothing => job[r].own \/ session[r].account # Nothing
      BY <1>a, <1>1 DEF Arrive, TypeOK
    <2> QED
      BY <1>a, <1>b, <1>c, <1>d, <2>1 DEF HistoriesAgree, TypeOK
  <1>2. CASE UNCHANGED <<session, before>>
    BY <1>a, <1>b, <1>c, <1>d, <1>2 DEF HistoriesAgree, TypeOK
  <1>3. QED
    BY <1>a, <1>1, <1>2, StepsMoveOne

\* Requests that met have met for good; rivals that are at work have met.
LEMMA OverlapsStay ==
    ASSUME FacesInv, NEW r \in Requests, Step(r) \/ Fails(r)
    PROVE  /\ \A c, d \in Requests : Overlapped(c, d) => Overlapped(c, d)'
           /\ \A c, d \in Requests :
                 Rivals(c, d) /\ at[c] \in Steps /\ at[d] \in Steps => Overlapped(c, d)
           /\ \A c, d \in Requests : Overlapped(c, d) => Overlapped(d, c)
           /\ \A p : Uploads(p)' = Uploads(p)
           /\ \A u : Crossed(u) => Crossed(u)'
           /\ \A p : Alone(p)' => Alone(p)
  <1>a. TypeOK /\ HistoriesAgree
    BY DEF FacesInv, FilledInv
  <1>b. UNCHANGED job /\ at'[r] # "new"
    BY <1>a, StepsMoveOne, WhereFrom
  <1>c. \A s \in Requests \ {r} : at'[s] = at[s]
    BY <1>a, StepsMoveOne DEF TypeOK
  <1>1. \A c, d \in Requests : Rivals(c, d)' = Rivals(c, d)
    BY <1>b DEF Rivals, User
  <1>2. \A c \in Requests : at[c] # "new" => before'[c] = before[c] /\ at'[c] # "new"
    <2>1. CASE Arrive(r)
      BY <1>a, <1>b, <1>c, <2>1 DEF Arrive, Goes, TypeOK
    <2>2. CASE UNCHANGED <<session, before>>
      BY <1>b, <1>c, <2>2
    <2> QED
      BY <1>a, <2>1, <2>2, StepsMoveOne
  <1>3. \A c, d \in Requests : Overlapped(c, d) => Overlapped(c, d)'
    BY <1>1, <1>2 DEF Overlapped
  <1>4. \A c, d \in Requests :
          Rivals(c, d) /\ at[c] \in Steps /\ at[d] \in Steps => Overlapped(c, d)
    BY <1>a DEF HistoriesAgree, Overlapped, Steps, Ends
  <1>5. \A p : Uploads(p)' = Uploads(p)
    BY <1>b DEF Uploads, Path
  <1>6. \A u : Crossed(u) => Crossed(u)'
    BY <1>b, <1>3 DEF Crossed, User
  <1>7. \A p : Alone(p)' => Alone(p)
    <2>1. \A p : Uploads(p) \subseteq Requests
      BY DEF Uploads
    <2> QED
      BY <1>3, <1>5, <2>1 DEF Alone
  <1>8. \A c, d \in Requests : Overlapped(c, d) => Overlapped(d, c)
    <2>1. \A c, d \in Requests : {job[c].kind, job[d].kind} = {job[d].kind, job[c].kind}
      OBVIOUS
    <2> QED
      BY <2>1 DEF Overlapped, Rivals
  <1>9. QED
    BY <1>3, <1>4, <1>5, <1>6, <1>7, <1>8

\* Two uploads of one path that are at work have met.
LEMMA UploadsMeet ==
    ASSUME FacesInv, NEW r \in Requests, NEW s \in Requests, r # s, User(r) = User(s),
           at[r] \in Steps, at[s] \in Steps, job[r].kind = "upload", job[s].kind = "upload"
    PROVE  Overlapped(r, s) /\ Overlapped(s, r) /\ (Path(r) = Path(s) => ~Alone(Path(r)))
  <1>1. Rivals(r, s) /\ Rivals(s, r)
    <2>1. {job[r].kind, job[s].kind} = {"upload"} /\ {job[s].kind, job[r].kind} = {"upload"}
      OBVIOUS
    <2> QED
      BY <2>1 DEF Rivals
  <1>2. Overlapped(r, s) /\ Overlapped(s, r)
    BY <1>1 DEF FacesInv, HistoriesAgree, Overlapped, Steps, Ends
  <1>3. QED
    BY <1>2 DEF Alone, Uploads

LEMMA FilesHaveOpenersStep ==
    ASSUME FacesInv, NEW r \in Requests, Step(r) \/ Fails(r)
    PROVE  FilesHaveOpeners'
  <1>a. TypeOK /\ FilledInv /\ StepsFitJobs /\ FilesAtTheirPaths /\ FilesHaveOpeners
    BY DEF FacesInv, FilledInv
  <1>b. Path(r) \in Paths /\ UNCHANGED job
    BY <1>a, StepsMoveOne DEF TypeOK, Jobs, Path, Paths
  <1> DEFINE Early == {"new", "look_up", "clean", "open", "refused"}
  <1>c. \A s \in Requests : at'[s] \in Early => opened[s] = Nothing
    <2>1. \A s \in Requests \ {r} : at'[s] = at[s]
      BY <1>a, StepsMoveOne DEF TypeOK
    <2>2. at'[r] \in Early => at[r] \in Early \/ (at[r] = "insert" /\ job[r].kind = "create")
      BY <1>a, WhereFrom DEF Arrive, LookUp, CleanSiblings, InsertUser, Goes, StepsFitJobs
    <2>3. at'[r] \in Early => opened[r] = Nothing
      BY <1>a, <2>2 DEF FilesHaveOpeners, FilesAtTheirPaths
    <2> QED
      BY <1>a, <2>1, <2>3 DEF FilesHaveOpeners
  <1>1. CASE OpenTmp(r)
    <2> DEFINE f == IF tmp[Path(r)] = Nothing THEN r ELSE tmp[Path(r)]
    <2>1. /\ tmp' = [tmp EXCEPT ![Path(r)] = f] /\ UNCHANGED face
          /\ opened' = [opened EXCEPT ![r] = f] /\ at[r] = "open" /\ at'[r] = "write"
      BY <1>a, <1>1 DEF OpenTmp, Goes, TypeOK
    <2>2. f \in Requests /\ opened[r] = Nothing /\ (f # r => opened[f] = f)
      BY <1>a, <1>b, <2>1 DEF FilesAtTheirPaths, FilesHaveOpeners
    <2> HIDE DEF f
    <2>3. /\ \A p \in Paths : tmp'[p] = IF p = Path(r) THEN f ELSE tmp[p]
          /\ \A s \in Requests : opened'[s] = IF s = r THEN f ELSE opened[s]
      BY <1>a, <1>b, <2>1 DEF TypeOK
    <2>4. \A s \in Requests : at'[s] \in Early => opened'[s] = Nothing
      BY <1>a, <1>c, <2>1, <2>3 DEF FilesHaveOpeners
    <2>5. ASSUME NEW p \in Paths
          PROVE  /\ tmp'[p] # Nothing => opened'[tmp'[p]] = tmp'[p]
                 /\ face'[p] \in Requests => opened'[face'[p]] = face'[p]
      <3>1. tmp[p] # Nothing => tmp[p] \in Requests /\ opened[tmp[p]] = tmp[p] /\ tmp[p] # r
        BY <1>a, <2>2, NamesDiffer DEF FilesAtTheirPaths, FilesHaveOpeners, Identities
      <3>2. face[p] \in Requests => opened[face[p]] = face[p] /\ face[p] # r
        BY <1>a, <2>2, NamesDiffer DEF FilesHaveOpeners, Identities
      <3>3. opened'[f] = f
        BY <2>2, <2>3
      <3> QED
        BY <2>1, <2>3, <3>1, <3>2, <3>3
    <2> QED
      BY <2>4, <2>5 DEF FilesHaveOpeners
  <1>2. CASE ReplaceFace(r)
    <2>1. UNCHANGED opened
      BY <1>2 DEF ReplaceFace
    <2>2. \A p \in Paths : tmp'[p] \in {tmp[p], Nothing} /\ face'[p] \in {face[p], tmp[p]}
      BY <1>a, <1>b, <1>2 DEF ReplaceFace, TypeOK
    <2> QED
      BY <1>a, <1>c, <2>1, <2>2, NamesDiffer DEF FilesHaveOpeners, Identities
  <1>3. CASE CleanSiblings(r) \/ UnlinkFace(r) \/ WriteTmp(r) \/ UNCHANGED <<tmp, face, content, opened>>
    <2>1. UNCHANGED <<tmp, opened>> /\ \A p \in Paths : face'[p] \in {face[p], Nothing}
      BY <1>3 DEF CleanSiblings, UnlinkFace, Faceless, WriteTmp
    <2> QED
      BY <1>a, <1>c, <2>1, NamesDiffer DEF FilesHaveOpeners, Identities
  <1>4. QED
    BY <1>a, <1>1, <1>2, <1>3, FilesChange

LEMMA FilesAtTheirPathsStep ==
    ASSUME FacesInv, NEW r \in Requests, Step(r) \/ Fails(r)
    PROVE  FilesAtTheirPaths'
  <1>a. TypeOK /\ FilledInv /\ StepsFitJobs /\ FilesAtTheirPaths /\ FilesHaveOpeners
    BY DEF FacesInv, FilledInv
  <1>b. Path(r) \in Paths /\ UNCHANGED job
    BY <1>a, StepsMoveOne DEF TypeOK, Jobs, Path, Paths
  <1>d. \A s \in Requests : Path(s)' = Path(s)
    BY <1>b DEF Path
  <1>1. CASE OpenTmp(r)
    <2> DEFINE f == IF tmp[Path(r)] = Nothing THEN r ELSE tmp[Path(r)]
    <2>1. /\ tmp' = [tmp EXCEPT ![Path(r)] = f] /\ UNCHANGED face
          /\ opened' = [opened EXCEPT ![r] = f] /\ at[r] = "open"
      BY <1>1 DEF OpenTmp, Goes
    <2>2. f \in Requests /\ Path(f) = Path(r) /\ job[r].kind = "upload"
      BY <1>a, <1>b, <2>1 DEF FilesAtTheirPaths, StepsFitJobs
    <2>3. \A p \in Paths : face[p] # r
      BY <1>a, <2>1, NamesDiffer DEF FilesHaveOpeners, Identities
    <2>4. face[Path(r)] # f
      BY <1>a, <1>b, <2>3 DEF FilesAtTheirPaths
    <2> HIDE DEF f
    <2>5. /\ \A p \in Paths : tmp'[p] = IF p = Path(r) THEN f ELSE tmp[p]
          /\ \A s \in Requests : opened'[s] = IF s = r THEN f ELSE opened[s]
      BY <1>a, <1>b, <2>1 DEF TypeOK
    <2> QED
      BY <1>a, <1>b, <1>d, <2>1, <2>2, <2>4, <2>5 DEF FilesAtTheirPaths
  <1>2. CASE ReplaceFace(r)
    <2>0. UNCHANGED opened
      BY <1>2 DEF ReplaceFace
    <2>1. CASE tmp[Path(r)] = Nothing
      BY <1>a, <1>b, <1>d, <1>2, <2>0, <2>1 DEF ReplaceFace, FilesAtTheirPaths
    <2>2. CASE tmp[Path(r)] # Nothing
      <3>1. /\ \A p \in Paths : tmp'[p] = IF p = Path(r) THEN Nothing ELSE tmp[p]
            /\ \A p \in Paths : face'[p] = IF p = Path(r) THEN tmp[p] ELSE face[p]
        BY <1>a, <1>b, <1>2, <2>2 DEF ReplaceFace, TypeOK
      <3> QED
        BY <1>a, <1>b, <1>d, <2>0, <2>2, <3>1, NamesDiffer DEF FilesAtTheirPaths, Identities
    <2> QED
      BY <2>1, <2>2
  <1>3. CASE CleanSiblings(r) \/ UnlinkFace(r) \/ WriteTmp(r) \/ UNCHANGED <<tmp, face, content, opened>>
    <2>1. UNCHANGED <<tmp, opened>> /\ \A p \in Paths : face'[p] \in {face[p], Nothing}
      BY <1>3 DEF CleanSiblings, UnlinkFace, Faceless, WriteTmp
    <2> QED
      BY <1>a, <1>b, <1>d, <2>1, NamesDiffer DEF FilesAtTheirPaths, Identities
  <1>4. QED
    BY <1>a, <1>1, <1>2, <1>3, FilesChange

\* An upload truncates and writes a file at its own path, and the others keep
\* what is in them.
LEMMA OthersKeepContent ==
    ASSUME FacesInv, NEW r \in Requests, Step(r) \/ Fails(r)
    PROVE  /\ content'[Old] = content[Old]
           /\ \A f \in Requests : Path(f) # Path(r) => content'[f] = content[f]
  <1>a. TypeOK /\ FilledInv /\ FilesAtTheirPaths
    BY DEF FacesInv, FilledInv
  <1>b. Path(r) \in Paths
    BY <1>a DEF TypeOK, Jobs, Path, Paths
  <1>1. CASE OpenTmp(r)
    <2> DEFINE g == IF tmp[Path(r)] = Nothing THEN r ELSE tmp[Path(r)]
    <2>1. content' = [content EXCEPT ![g] = [image |-> r, whole |-> FALSE]]
      BY <1>1 DEF OpenTmp
    <2>2. g \in Requests /\ Path(g) = Path(r)
      BY <1>a, <1>b DEF FilesAtTheirPaths
    <2> HIDE DEF g
    <2> QED
      BY <1>a, <2>1, <2>2, NamesDiffer DEF TypeOK, Identities
  <1>2. CASE WriteTmp(r)
    <2> DEFINE g == opened[r]
    <2>1. PICK whole \in BOOLEAN : content' = [content EXCEPT ![g] = [image |-> r, whole |-> whole]]
      BY <1>2 DEF WriteTmp
    <2>2. g \in Requests /\ Path(g) = Path(r)
      BY <1>a, <1>2 DEF FilesAtTheirPaths, WriteTmp, Goes, TypeOK
    <2> HIDE DEF g
    <2> QED
      BY <1>a, <2>1, <2>2, NamesDiffer DEF TypeOK, Identities
  <1>3. CASE UNCHANGED content
    BY <1>3
  <1>4. QED
    BY <1>a, <1>1, <1>2, <1>3, FilesChange DEF CleanSiblings, ReplaceFace, UnlinkFace

LEMMA UploadsOwnTmpStep ==
    ASSUME FacesInv, NEW r \in Requests, Step(r) \/ Fails(r)
    PROVE  UploadsOwnTmp'
  <1>a. TypeOK /\ FilledInv /\ StepsFitJobs /\ FilesAtTheirPaths /\ UploadsOwnTmp
    BY DEF FacesInv, FilledInv
  <1>b. UNCHANGED job /\ \A s \in Requests : Path(s) \in Paths /\ Path(s)' = Path(s)
    BY <1>a, StepsMoveOne DEF TypeOK, Jobs, Path, Paths
  <1>c. \A s \in Requests : Alone(Path(s))' => Alone(Path(s))
    BY <1>b, OverlapsStay
  <1>1. ASSUME NEW s \in Requests, Alone(Path(s)), at'[s] \in {"write", "replace"}
        PROVE  /\ tmp'[Path(s)] = opened'[s]
               /\ at'[s] = "write" => content'[opened'[s]] = [image |-> s, whole |-> FALSE]
               /\ at'[s] = "replace" => content'[opened'[s]].whole
    <2>1. CASE s # r
      <3>1. at'[s] = at[s] /\ opened'[s] = opened[s] /\ opened[s] # Nothing
        BY <1>a, <1>1, <2>1, StepsMoveOne DEF TypeOK
      <3>2. opened[s] \in Requests /\ Path(opened[s]) = Path(s) /\ job[s].kind = "upload"
        BY <1>a, <3>1 DEF FilesAtTheirPaths
      <3>3. CASE OpenTmp(r) \/ WriteTmp(r) \/ ReplaceFace(r)
        <4>1. at[r] \in Steps /\ job[r].kind = "upload" /\ at[s] \in Steps
          BY <1>a, <1>1, <3>1, <3>3 DEF OpenTmp, WriteTmp, ReplaceFace, Goes, StepsFitJobs, Steps
        <4>2. Path(r) # Path(s)
          <5>1. Path(r) = Path(s) => User(r) = User(s)
            BY DEF Path, User
          <5> QED
            BY <1>1, <2>1, <3>2, <4>1, <5>1, UploadsMeet
        <4>3. tmp'[Path(s)] = tmp[Path(s)]
          BY <1>a, <1>b, <3>3, <4>2 DEF OpenTmp, WriteTmp, ReplaceFace, TypeOK
        <4>4. content'[opened[s]] = content[opened[s]]
          BY <3>2, <4>2, OthersKeepContent
        <4> QED
          BY <1>a, <1>1, <3>1, <4>3, <4>4 DEF UploadsOwnTmp
      <3>4. CASE UNCHANGED <<tmp, content>>
        BY <1>a, <1>1, <3>1, <3>4 DEF UploadsOwnTmp
      <3> QED
        BY <1>a, <3>3, <3>4, FilesChange DEF CleanSiblings, UnlinkFace
    <2>2. CASE s = r /\ at'[s] = "write"
      <3>1. OpenTmp(r)
        BY <1>a, <2>2, WhereFrom
      <3> DEFINE f == IF tmp[Path(r)] = Nothing THEN r ELSE tmp[Path(r)]
      <3>2. /\ tmp' = [tmp EXCEPT ![Path(r)] = f] /\ opened' = [opened EXCEPT ![r] = f]
            /\ content' = [content EXCEPT ![f] = [image |-> r, whole |-> FALSE]]
        BY <3>1 DEF OpenTmp
      <3>3. f \in Identities
        BY <1>a, <1>b DEF FilesAtTheirPaths, Identities
      <3> HIDE DEF f
      <3> QED
        BY <1>a, <1>b, <2>2, <3>2, <3>3 DEF TypeOK
    <2>3. CASE s = r /\ at'[s] = "replace"
      <3>1. WriteTmp(r)
        BY <1>a, <2>3, WhereFrom
      <3>2. PICK whole \in BOOLEAN :
              /\ whole \/ content[opened[r]] # [image |-> r, whole |-> FALSE]
              /\ content' = [content EXCEPT ![opened[r]] = [image |-> r, whole |-> whole]]
        BY <3>1 DEF WriteTmp
      <3>3. at[r] = "write" /\ UNCHANGED <<tmp, opened>>
        BY <3>1 DEF WriteTmp, Goes
      <3>4. tmp[Path(r)] = opened[r] /\ content[opened[r]] = [image |-> r, whole |-> FALSE]
        BY <1>a, <1>1, <2>3, <3>3 DEF UploadsOwnTmp
      <3>5. opened[r] \in Identities /\ whole
        BY <1>a, <3>2, <3>3, <3>4 DEF FilesAtTheirPaths, TypeOK, Identities
      <3> QED
        BY <1>a, <2>3, <3>2, <3>3, <3>4, <3>5 DEF TypeOK
    <2> QED
      BY <1>1, <2>1, <2>2, <2>3
  <1>2. QED
    BY <1>b, <1>c, <1>1 DEF UploadsOwnTmp

\* An image appears on disk by the rename of an upload, and one that has met no
\* other upload of its path is whole then; otherwise it stays as it is.
LEMMA FacesAppear ==
    ASSUME FacesInv, NEW r \in Requests, Step(r) \/ Fails(r), NEW p \in Paths, face'[p] # Nothing
    PROVE  /\ face'[p] # face[p] => ReplaceFace(r) /\ at[r] = "replace" /\ p = Path(r)
           /\ p # Path(r) => face'[p] = face[p] /\ content'[face[p]] = content[face[p]]
           /\ Alone(p) /\ face'[p] = face[p] => content'[face[p]] = content[face[p]]
           /\ Alone(p) /\ face'[p] # face[p] => content'[face'[p]].whole
  <1>a. /\ TypeOK /\ FilledInv /\ StepsFitJobs /\ FilesAtTheirPaths /\ FilesHaveOpeners
        /\ UploadsOwnTmp
    BY DEF FacesInv, FilledInv
  <1>b. Path(r) \in Paths
    BY <1>a DEF TypeOK, Jobs, Path, Paths
  <1>1. face'[p] # face[p] => ReplaceFace(r) /\ at[r] = "replace" /\ p = Path(r)
    <2>1. CASE ReplaceFace(r)
      BY <1>a, <1>b, <2>1 DEF ReplaceFace, Goes, TypeOK
    <2>2. CASE CleanSiblings(r) \/ UnlinkFace(r)
      BY <2>2 DEF CleanSiblings, UnlinkFace, Faceless
    <2>3. CASE OpenTmp(r) \/ WriteTmp(r) \/ UNCHANGED face
      BY <2>3 DEF OpenTmp, WriteTmp
    <2> QED
      BY <1>a, <2>1, <2>2, <2>3, FilesChange
  <1>2. p # Path(r) => face'[p] = face[p] /\ content'[face[p]] = content[face[p]]
    <2> SUFFICES ASSUME p # Path(r) PROVE content'[face[p]] = content[face[p]]
      BY <1>1
    <2>1. face'[p] = face[p] /\ face[p] \in Identities /\ face[p] # Nothing
      BY <1>a, <1>1 DEF TypeOK
    <2>2. face[p] = Old \/ (face[p] \in Requests /\ Path(face[p]) # Path(r))
      BY <1>a, <2>1 DEF FilesAtTheirPaths, Identities
    <2> QED
      BY <2>2, OthersKeepContent
  <1>3. Alone(p) /\ face'[p] = face[p] => content'[face[p]] = content[face[p]]
    <2> SUFFICES ASSUME Alone(p), face'[p] = face[p], p = Path(r)
                 PROVE  content'[face[p]] = content[face[p]]
      BY <1>2
    <2>1. face[p] # Nothing /\ face[p] \in Identities
      BY <1>a DEF TypeOK
    <2>2. CASE OpenTmp(r)
      <3> DEFINE f == IF tmp[Path(r)] = Nothing THEN r ELSE tmp[Path(r)]
      <3>1. content' = [content EXCEPT ![f] = [image |-> r, whole |-> FALSE]] /\ at[r] = "open"
        BY <2>2 DEF OpenTmp, Goes
      <3>2. face[p] # r
        BY <1>a, <2>1, <3>1 DEF FilesHaveOpeners
      <3>3. face[p] # f
        BY <1>a, <2>1, <3>2 DEF FilesAtTheirPaths
      <3> HIDE DEF f
      <3> QED
        BY <1>a, <2>1, <3>1, <3>3 DEF TypeOK
    <2>3. CASE WriteTmp(r)
      <3>1. at[r] = "write" /\ opened[r] # Nothing
        BY <1>a, <2>3 DEF WriteTmp, Goes, TypeOK
      <3>2. tmp[p] = opened[r]
        BY <1>a, <3>1 DEF UploadsOwnTmp
      <3>3. face[p] # opened[r]
        BY <1>a, <2>1, <3>2 DEF FilesAtTheirPaths
      <3> QED
        BY <1>a, <2>1, <2>3, <3>3 DEF WriteTmp, TypeOK
    <2>4. CASE UNCHANGED content
      BY <2>4
    <2> QED
      BY <1>a, <2>2, <2>3, <2>4, FilesChange DEF CleanSiblings, ReplaceFace, UnlinkFace
  <1>4. Alone(p) /\ face'[p] # face[p] => content'[face'[p]].whole
    <2> SUFFICES ASSUME Alone(p), face'[p] # face[p] PROVE content'[face'[p]].whole
      OBVIOUS
    <2>1. ReplaceFace(r) /\ at[r] = "replace" /\ p = Path(r)
      BY <1>1
    <2>2. tmp[p] = opened[r] /\ content[opened[r]].whole /\ opened[r] # Nothing
      BY <1>a, <2>1 DEF UploadsOwnTmp, TypeOK
    <2>3. face'[p] = opened[r] /\ UNCHANGED content
      BY <1>a, <2>1, <2>2 DEF ReplaceFace, TypeOK
    <2> QED
      BY <2>2, <2>3
  <1>5. QED
    BY <1>1, <1>2, <1>3, <1>4

LEMMA HalfFacesHaveCauseStep ==
    ASSUME FacesInv, NEW r \in Requests, Step(r) \/ Fails(r)
    PROVE  HalfFacesHaveCause'
  <1>1. \A p \in Paths : Alone(p)' => Alone(p)
    BY OverlapsStay
  <1>2. ASSUME NEW p \in Paths, Half(p)', Alone(p)' PROVE FALSE
    <2>1. Alone(p)
      BY <1>1, <1>2
    <2>2. ~Half(p)
      BY <2>1 DEF FacesInv, HalfFacesHaveCause, Alone
    <2>3. face'[p] # Nothing /\ ~content'[face'[p]].whole
      BY <1>2 DEF Half
    <2>4. face'[p] = face[p] /\ content'[face[p]] = content[face[p]]
      BY <2>1, <2>3, FacesAppear
    <2> QED
      BY <2>2, <2>3, <2>4 DEF Half
  <1>3. QED
    BY <1>2 DEF HalfFacesHaveCause, Alone

LEMMA SiblingsHaveCauseStep ==
    ASSUME FacesInv, NEW r \in Requests, Step(r) \/ Fails(r)
    PROVE  SiblingsHaveCause'
  <1>a. TypeOK /\ FilledInv /\ StepsFitJobs /\ SiblingsHaveCause
    BY DEF FacesInv, FilledInv
  <1>b. /\ UNCHANGED job
        /\ \A s \in Requests : User(s)' = User(s) /\ job[s].ext \in Exts
        /\ \A s \in Requests, x \in Exts : <<User(s), x>> \in Paths
    BY <1>a, StepsMoveOne DEF TypeOK, Jobs, Paths, User
  <1>c. /\ \A c, d \in Requests : Overlapped(c, d) => Overlapped(c, d)'
        /\ \A p : Uploads(p)' = Uploads(p) /\ Uploads(p) \subseteq Requests
    BY OverlapsStay DEF Uploads
  <1> SUFFICES ASSUME NEW s \in Requests, NEW x \in Exts, x # job[s].ext,
                      at'[s] \in {"open", "write", "replace"}, face'[<<User(s), x>>] # Nothing
               PROVE  \E c \in Uploads(<<User(s), x>>) : Overlapped(s, c)
    BY <1>b, <1>c DEF SiblingsHaveCause
  <1>1. CASE s = r
    <2>1. CASE at'[r] = "open"
      <3>1. CleanSiblings(r)
        BY <1>a, <2>1, WhereFrom
      <3>2. face'[<<User(r), x>>] = Nothing
        BY <1>b, <1>1, <3>1 DEF CleanSiblings
      <3> QED
        BY <1>1, <3>2
    <2>2. CASE at'[r] \in {"write", "replace"}
      <3>1. OpenTmp(r) \/ WriteTmp(r)
        BY <1>a, <2>2, WhereFrom
      <3>2. at[r] \in {"open", "write"} /\ UNCHANGED face
        BY <3>1 DEF OpenTmp, WriteTmp, Goes
      <3> QED
        BY <1>a, <1>1, <3>2 DEF SiblingsHaveCause
    <2> QED
      BY <1>1, <2>1, <2>2
  <1>2. CASE s # r
    <2>1. at'[s] = at[s]
      BY <1>a, <1>2, StepsMoveOne DEF TypeOK
    <2>2. CASE face'[<<User(s), x>>] = face[<<User(s), x>>]
      BY <1>a, <2>1, <2>2 DEF SiblingsHaveCause
    <2>3. CASE face'[<<User(s), x>>] # face[<<User(s), x>>]
      <3>1. at[r] = "replace" /\ <<User(s), x>> = Path(r)
        BY <1>b, <2>3, FacesAppear
      <3>2. at[r] \in Steps /\ at[s] \in Steps /\ job[r].kind = "upload" /\ job[s].kind = "upload"
        BY <1>a, <2>1, <3>1 DEF StepsFitJobs, Steps
      <3>3. User(s) = User(r) /\ r \in Uploads(<<User(s), x>>)
        BY <3>1, <3>2 DEF Path, User, Uploads
      <3> QED
        BY <1>2, <3>2, <3>3, UploadsMeet
    <2> QED
      BY <2>2, <2>3
  <1>3. QED
    BY <1>1, <1>2

LEMMA SecondFacesHaveCauseStep ==
    ASSUME FacesInv, NEW r \in Requests, Step(r) \/ Fails(r)
    PROVE  SecondFacesHaveCause'
  <1>a. TypeOK /\ StepsFitJobs /\ SecondFacesHaveCause /\ SiblingsHaveCause
    BY DEF FacesInv, FilledInv
  <1>b. job[r].ext \in Exts /\ job[r].user \in Usernames
    BY <1>a DEF TypeOK, Jobs
  <1>c. /\ \A c, d \in Requests : Overlapped(c, d) => Overlapped(c, d)' /\ Overlapped(d, c)
        /\ \A p : Uploads(p)' = Uploads(p) /\ Uploads(p) \subseteq Requests
    BY OverlapsStay DEF Uploads
  \* The rename of r puts an image next to one of another type.
  <1>1. ASSUME NEW u \in Usernames, NEW x \in Exts, NEW y \in Exts, x # y,
               face'[<<u, x>>] # Nothing, face'[<<u, y>>] # Nothing,
               face'[<<u, x>>] # face[<<u, x>>]
        PROVE  \E c \in Uploads(<<u, x>>), d \in Uploads(<<u, y>>) : Overlapped(c, d)
    <2>1. <<u, x>> \in Paths /\ <<u, y>> \in Paths
      BY DEF Paths
    <2>2. at[r] = "replace" /\ <<u, x>> = Path(r)
      BY <1>1, <2>1, FacesAppear
    <2>3. User(r) = u /\ job[r].ext = x /\ <<u, y>> # Path(r) /\ r \in Uploads(<<u, x>>)
      BY <1>a, <1>1, <2>2 DEF Path, User, StepsFitJobs, Uploads
    <2>4. face[<<u, y>>] # Nothing
      BY <1>1, <2>1, <2>3, FacesAppear
    <2>5. PICK d \in Uploads(<<User(r), y>>) : Overlapped(r, d)
      BY <1>a, <1>1, <2>2, <2>3, <2>4 DEF SiblingsHaveCause
    <2> QED
      BY <2>3, <2>5
  <1>2. ASSUME NEW u \in Usernames, NEW x \in Exts, NEW y \in Exts, x # y,
               face'[<<u, x>>] # Nothing, face'[<<u, y>>] # Nothing
        PROVE  \E c \in Uploads(<<u, x>>), d \in Uploads(<<u, y>>) : Overlapped(c, d)
    <2>1. CASE face'[<<u, x>>] = face[<<u, x>>] /\ face'[<<u, y>>] = face[<<u, y>>]
      BY <1>a, <1>2, <2>1 DEF SecondFacesHaveCause
    <2>2. CASE face'[<<u, x>>] # face[<<u, x>>]
      BY <1>1, <1>2, <2>2
    <2>3. CASE face'[<<u, y>>] # face[<<u, y>>]
      <3>1. PICK c \in Uploads(<<u, y>>), d \in Uploads(<<u, x>>) : Overlapped(c, d)
        BY <1>1, <1>2, <2>3
      <3> QED
        BY <1>c, <3>1
    <2> QED
      BY <2>1, <2>2, <2>3
  <1>3. QED
    BY <1>2, <1>c DEF SecondFacesHaveCause

LEMMA DeletersHoldRowStep ==
    ASSUME FacesInv, NEW r \in Requests, Step(r) \/ Fails(r)
    PROVE  DeletersHoldRow'
  <1>a. TypeOK /\ StepsFitJobs /\ DeletersHoldRow
    BY DEF FacesInv, FilledInv
  <1>b. UNCHANGED job /\ \A s \in Requests : User(s) \in Usernames /\ User(s)' = User(s)
    BY <1>a, StepsMoveOne DEF TypeOK, Jobs, User
  <1>c. \A u : Crossed(u) => Crossed(u)'
    BY OverlapsStay
  <1>1. \A u \in Usernames : account'[u] = Nothing => embedding'[u] = Nothing
    <2>1. CASE InsertUser(r)
      BY <1>a, <2>1 DEF InsertUser, DeletersHoldRow, TypeOK
    <2>2. CASE ResetEmbedding(r)
      BY <1>a, <2>2 DEF ResetEmbedding, DeletersHoldRow, TypeOK
    <2>3. CASE CommitDelete(r)
      BY <1>a, <2>3 DEF CommitDelete, DeletersHoldRow, TypeOK, rowVars
    <2>4. CASE ~InsertUser(r) /\ ~ResetEmbedding(r) /\ ~CommitDelete(r)
      <3>1. UNCHANGED <<account, embedding>>
        BY <2>4
        DEF Step, Arrive, LookUp, LookAgain, CleanSiblings, OpenTmp, WriteTmp, ReplaceFace,
            UnlinkFace, SelectRow, DeleteRow, Fails, rowVars
      <3> QED
        BY <1>a, <3>1 DEF DeletersHoldRow
    <2> QED
      BY <2>1, <2>2, <2>3, <2>4
  <1>2. ASSUME NEW s \in Requests, at'[s] \in {"unlink", "commit"}, job[s].kind = "delete_user",
               ~Crossed(User(s))
        PROVE  writer'[User(s)] = s \/ account'[User(s)] = Nothing
    <2>1. CASE s = r
      <3>1. CASE DeleteRow(r)
        BY <1>a, <1>b, <2>1, <3>1 DEF DeleteRow, TypeOK
      <3>2. CASE UnlinkFace(r)
        <4>1. at[r] = "unlink" /\ UNCHANGED <<writer, account>>
          BY <3>2 DEF UnlinkFace, Goes, rowVars
        <4> QED
          BY <1>a, <1>2, <2>1, <4>1 DEF DeletersHoldRow
      <3>3. ~Arrive(r)
        BY <1>a, <1>2, <2>1 DEF Arrive, FirstStep, Goes, TypeOK
      <3> QED
        BY <1>a, <1>2, <2>1, <3>1, <3>2, <3>3, WhereFrom
    <2>2. CASE s # r
      <3>1. at'[s] = at[s]
        BY <1>a, <2>2, StepsMoveOne DEF TypeOK
      <3>2. writer[User(s)] = s \/ account[User(s)] = Nothing
        BY <1>a, <1>2, <3>1 DEF DeletersHoldRow
      <3>3. CASE InsertUser(r)
        <4>1. at[r] \in Steps /\ at[s] \in Steps /\ job[r].kind = "create"
          BY <1>a, <1>2, <3>1, <3>3 DEF InsertUser, Goes, StepsFitJobs, Steps
        <4>2. User(r) # User(s)
          <5>1. User(r) = User(s) => Rivals(r, s)
            BY <1>2, <2>2, <4>1 DEF Rivals
          <5>2. Rivals(r, s) => Overlapped(r, s)
            BY <4>1, OverlapsStay
          <5> QED
            BY <1>2, <4>1, <5>1, <5>2 DEF Crossed
        <4> QED
          BY <1>a, <1>b, <3>2, <3>3, <4>2 DEF InsertUser, TypeOK
      <3>4. CASE DeleteRow(r)
        BY <1>a, <1>b, <2>2, <3>2, <3>4, NamesDiffer DEF DeleteRow, TypeOK, Identities
      <3>5. CASE CommitDelete(r)
        BY <1>a, <1>b, <2>2, <3>2, <3>5 DEF CommitDelete, TypeOK, rowVars
      <3>6. CASE Fails(r)
        BY <1>a, <1>b, <2>2, <3>2, <3>6 DEF Fails, Rollback, TypeOK
      <3>7. CASE ~InsertUser(r) /\ ~DeleteRow(r) /\ ~CommitDelete(r) /\ ~Fails(r)
        <4>1. UNCHANGED <<account, writer>>
          BY <3>7
          DEF Step, Arrive, LookUp, LookAgain, CleanSiblings, OpenTmp, WriteTmp, ReplaceFace,
              UnlinkFace, SelectRow, ResetEmbedding, rowVars
        <4> QED
          BY <3>2, <4>1
      <3> QED
        BY <3>3, <3>4, <3>5, <3>6, <3>7
    <2> QED
      BY <2>1, <2>2
  <1>3. QED
    BY <1>1, <1>2, <1>b, <1>c DEF DeletersHoldRow

\* A step that ends somebody's cause for a mismatch has reset the embedding,
\* or was unaware of it, and one that makes a mismatch is cause of it.
LEMMA StepsCauseOrReset ==
    ASSUME FacesInv, NEW r \in Requests, Step(r) \/ Fails(r), at'[r] \notin Causes,
           embedding'[User(r)] # Nothing, ~Crossed(User(r)), ~Unaware(r)'
    PROVE  at[r] \notin Causes /\ UNCHANGED <<face, content, account, embedding>>
  <1> DEFINE u == User(r)
  <1>a. TypeOK /\ DeletersHoldRow /\ StepsFitJobs /\ HistoriesAgree
    BY DEF FacesInv, FilledInv
  <1>b. u \in Usernames
    BY <1>a DEF TypeOK, Jobs, User
  <1>1. /\ ~CleanSiblings(r) /\ ~OpenTmp(r) /\ ~WriteTmp(r) /\ ~ReplaceFace(r) /\ ~UnlinkFace(r)
        /\ ~Fails(r)
    BY <1>a DEF CleanSiblings, OpenTmp, WriteTmp, ReplaceFace, UnlinkFace, Fails, Goes, Causes, TypeOK
  <1>2. ~InsertUser(r) \/ UNCHANGED <<account, embedding>>
    BY <1>a, <1>b DEF InsertUser, TypeOK
  <1>3. ~SelectRow(r)
    <2> SUFFICES ASSUME SelectRow(r) PROVE FALSE
      OBVIOUS
    <2>1. ~(account[u] # Nothing /\ EmbeddingRead(r) # Nothing)
      BY <1>a DEF SelectRow, Goes, Causes, TypeOK
    <2>2. UNCHANGED <<job, account, embedding, session>>
      BY DEF SelectRow, rowVars, Constant
    <2>3. account[u] # Nothing
      BY <1>a, <1>b, <2>2 DEF DeletersHoldRow
    <2>4. session[r].account = account[u] /\ session[r].embedding = Nothing
      BY <2>1, <2>2, <2>3 DEF EmbeddingRead
    <2>5. session[r] = [account |-> account[u], embedding |-> Nothing]
      BY <1>a, <2>4 DEF TypeOK, Sessions
    <2>6. job[r].own
      BY <1>a, <2>3, <2>4 DEF HistoriesAgree
    <2> QED
      BY <2>2, <2>5, <2>6 DEF Unaware, User
  <1>4. ~ResetEmbedding(r)
    <2> SUFFICES ASSUME ResetEmbedding(r) PROVE FALSE
      OBVIOUS
    <2>1. account[u] # seen[r]
      BY <1>a, <1>b DEF ResetEmbedding, TypeOK
    <2>2. at'[r] = "failed"
      BY <1>a, <2>1 DEF ResetEmbedding, Goes, TypeOK
    <2> QED
      BY <2>2 DEF Causes
  <1>5. ~CommitDelete(r)
    <2> SUFFICES ASSUME CommitDelete(r) PROVE FALSE
      OBVIOUS
    <2>1. writer[u] # r /\ UNCHANGED embedding
      BY <1>a, <1>b DEF CommitDelete, TypeOK, rowVars
    <2>2. at[r] = "commit" /\ job[r].kind = "delete_user"
      BY <1>a DEF CommitDelete, Goes, StepsFitJobs
    <2>3. embedding[u] = Nothing
      BY <1>a, <1>b, <2>1, <2>2 DEF DeletersHoldRow
    <2> QED
      BY <2>1, <2>3
  <1>6. Arrive(r) \/ LookUp(r) \/ InsertUser(r) \/ LookAgain(r) \/ DeleteRow(r)
    BY <1>1, <1>3, <1>4, <1>5 DEF Step
  <1>7. at[r] \notin Causes
    BY <1>6 DEF Arrive, LookUp, InsertUser, LookAgain, DeleteRow, Goes, Causes
  <1>8. UNCHANGED <<face, content, account, embedding>>
    BY <1>2, <1>6 DEF Arrive, LookUp, InsertUser, LookAgain, DeleteRow, rowVars, fileVars
  <1>9. QED
    BY <1>7, <1>8

\* A step for one user leaves the rows and images of the others alone.
LEMMA OthersKeepTheirFaces ==
    ASSUME FacesInv, NEW r \in Requests, Step(r) \/ Fails(r), NEW u \in Usernames, u # User(r)
    PROVE  account'[u] = account[u] /\ embedding'[u] = embedding[u] /\ (Current(u) => Current(u)')
  <1>a. TypeOK /\ FilledInv
    BY DEF FacesInv, FilledInv
  <1>b. User(r) \in Usernames
    BY <1>a DEF TypeOK, Jobs, User
  <1>1. account'[u] = account[u] /\ embedding'[u] = embedding[u]
    <2>1. CASE InsertUser(r) \/ ResetEmbedding(r) \/ CommitDelete(r)
      BY <1>a, <1>b, <2>1 DEF InsertUser, ResetEmbedding, CommitDelete, TypeOK, rowVars
    <2>2. CASE ~InsertUser(r) /\ ~ResetEmbedding(r) /\ ~CommitDelete(r)
      BY <2>2
      DEF Step, Arrive, LookUp, LookAgain, CleanSiblings, OpenTmp, WriteTmp, ReplaceFace,
          UnlinkFace, SelectRow, DeleteRow, Fails, rowVars
    <2> QED
      BY <2>1, <2>2
  <1>2. ASSUME NEW x \in Exts PROVE face'[<<u, x>>] = face[<<u, x>>] /\ <<u, x>> \in Paths
    <2>1. <<u, x>> \in Paths /\ <<u, x>> # Path(r) /\ <<u, x>>[1] = u
      BY DEF Paths, Path, User
    <2>2. CASE CleanSiblings(r) \/ UnlinkFace(r)
      BY <2>1, <2>2 DEF CleanSiblings, UnlinkFace, Faceless
    <2>3. CASE ReplaceFace(r)
      BY <1>a, <2>1, <2>3 DEF ReplaceFace, TypeOK
    <2>4. CASE OpenTmp(r) \/ WriteTmp(r) \/ UNCHANGED face
      BY <2>1, <2>4 DEF OpenTmp, WriteTmp
    <2> QED
      BY <1>a, <2>1, <2>2, <2>3, <2>4, FilesChange
  <1>3. ASSUME NEW x \in Exts, face[<<u, x>>] # Nothing
        PROVE  content'[face[<<u, x>>]] = content[face[<<u, x>>]]
    <2>1. <<u, x>> # Path(r)
      BY DEF Path, User
    <2> QED
      BY <1>2, <1>3, <2>1, FacesAppear
  <1>4. QED
    BY <1>1, <1>2, <1>3 DEF Current

LEMMA MismatchesHaveCauseStep ==
    ASSUME FacesInv, NEW r \in Requests, Step(r) \/ Fails(r)
    PROVE  MismatchesHaveCause'
  <1>a. TypeOK /\ MismatchesHaveCause /\ HistoriesAgree /\ DeletersHoldRow
    BY DEF FacesInv, FilledInv
  <1>b. /\ UNCHANGED job /\ \A s \in Requests : User(s)' = User(s) /\ User(s) \in Usernames
        /\ \A s \in Requests \ {r} : at'[s] = at[s]
    BY <1>a, StepsMoveOne DEF TypeOK, User, Jobs
  <1>c. \A u : Crossed(u) => Crossed(u)'
    BY OverlapsStay
  <1>d. \A s \in Requests : session'[s] = session[s] \/ (s = r /\ at[r] = "new")
    <2>1. CASE Arrive(r)
      BY <1>a, <2>1 DEF Arrive, Goes, TypeOK
    <2>2. CASE UNCHANGED <<session, before>>
      BY <2>2
    <2>3. Arrive(r) \/ UNCHANGED <<session, before>>
      BY <1>a, StepsMoveOne
    <2> QED
      BY <2>1, <2>2, <2>3
  \* What gave the mismatch a cause still does.
  <1>e. ASSUME NEW u \in Usernames, embedding[u] # Nothing, ~Current(u), ~Crossed(u),
               account'[u] = account[u], u = User(r) => at[r] \notin Causes
        PROVE  \E s \in Requests : User(s) = u /\ (at'[s] \in Causes \/ Unaware(s)')
    <2>1. PICK s \in Requests : User(s) = u /\ (at[s] \in Causes \/ Unaware(s))
      BY <1>a, <1>e DEF MismatchesHaveCause
    <2>2. CASE at[s] \in Causes
      BY <1>b, <1>e, <2>1, <2>2
    <2>3. CASE Unaware(s)
      <3>1. session[s].account = account[u] /\ account[u] # Nothing
        BY <1>a, <1>e, <2>1, <2>3 DEF Unaware, DeletersHoldRow
      <3>2. session'[s] = session[s]
        BY <1>a, <1>d, <3>1 DEF HistoriesAgree
      <3>3. Unaware(s)'
        BY <1>b, <1>e, <2>1, <2>3, <3>2 DEF Unaware
      <3> QED
        BY <2>1, <3>3
    <2> QED
      BY <2>1, <2>2, <2>3
  <1> SUFFICES ASSUME NEW u \in Usernames, embedding'[u] # Nothing, ~Current(u)', ~Crossed(u)
               PROVE  \E s \in Requests : User(s) = u /\ (at'[s] \in Causes \/ Unaware(s)')
    BY <1>b, <1>c DEF MismatchesHaveCause
  <1>1. CASE u # User(r)
    <2>1. embedding[u] # Nothing /\ ~Current(u) /\ account'[u] = account[u]
      BY <1>1, OthersKeepTheirFaces
    <2> QED
      BY <1>1, <1>e, <2>1
  <1>2. CASE u = User(r) /\ (at'[r] \in Causes \/ Unaware(r)')
    BY <1>2
  <1>3. CASE u = User(r) /\ at'[r] \notin Causes /\ ~Unaware(r)'
    <2>1. at[r] \notin Causes /\ UNCHANGED <<face, content, account, embedding>>
      BY <1>3, StepsCauseOrReset
    <2>2. embedding[u] # Nothing /\ ~Current(u)
      BY <2>1 DEF Current
    <2> QED
      BY <1>e, <2>1, <2>2
  <1>4. QED
    BY <1>1, <1>2, <1>3

\* Who has met whom only changes as requests arrive.
LEMMA NobodyMeets ==
    ASSUME UNCHANGED <<job, before>>,
           \A r \in Requests : (at'[r] = "new") <=> (at[r] = "new")
    PROVE  /\ \A c, d \in Requests : Overlapped(c, d)' <=> Overlapped(c, d)
           /\ \A p : Uploads(p)' = Uploads(p) /\ Uploads(p) \subseteq Requests
           /\ \A p : Alone(p)' <=> Alone(p)
           /\ \A u : Crossed(u)' <=> Crossed(u)
  <1>1. \A c, d \in Requests : Overlapped(c, d)' <=> Overlapped(c, d)
    BY DEF Overlapped, Rivals, User
  <1>2. \A p : Uploads(p)' = Uploads(p) /\ Uploads(p) \subseteq Requests
    BY DEF Uploads, Path
  <1>3. \A p : Alone(p)' <=> Alone(p)
    BY <1>1, <1>2 DEF Alone
  <1>4. \A u : Crossed(u)' <=> Crossed(u)
    BY <1>1 DEF Crossed, User
  <1>5. QED
    BY <1>1, <1>2, <1>3, <1>4

\* What is said of files, and of who met whom, stays if they do and everybody
\* stays where they are or is cut off.
LEMMA FilesStay ==
    ASSUME FacesInv, UNCHANGED <<job, before, session, opened, tmp, face, content>>,
           \A r \in Requests : at'[r] = at[r] \/ (at[r] \in Steps /\ at'[r] = "failed")
    PROVE  /\ StepsFitJobs' /\ HistoriesAgree' /\ FilesAtTheirPaths' /\ FilesHaveOpeners'
           /\ UploadsOwnTmp' /\ HalfFacesHaveCause' /\ SiblingsHaveCause' /\ SecondFacesHaveCause'
           /\ \A u : Crossed(u)' <=> Crossed(u)
  <1>1. \A r \in Requests : (at'[r] = "new") <=> (at[r] = "new")
    BY DEF Steps
  <1>2. /\ \A c, d \in Requests : Overlapped(c, d)' <=> Overlapped(c, d)
        /\ \A p : Uploads(p)' = Uploads(p) /\ Uploads(p) \subseteq Requests
        /\ \A p : Alone(p)' <=> Alone(p)
        /\ \A u : Crossed(u)' <=> Crossed(u)
    BY <1>1, NobodyMeets
  <1>3. \A r \in Requests : User(r)' = User(r) /\ Path(r)' = Path(r)
    BY DEF User, Path
  <1>4. StepsFitJobs' /\ HistoriesAgree'
    BY DEF FacesInv, FilledInv, TypeOK, StepsFitJobs, HistoriesAgree, Steps, Ends
  <1>5. FilesAtTheirPaths' /\ FilesHaveOpeners'
    BY <1>3 DEF FacesInv, FilesAtTheirPaths, FilesHaveOpeners
  <1>6. UploadsOwnTmp'
    <2>1. ASSUME NEW r \in Requests, Alone(Path(r))
          PROVE  /\ at'[r] \in {"write", "replace"} => tmp[Path(r)] = opened[r]
                 /\ at'[r] = "write" => content[opened[r]] = [image |-> r, whole |-> FALSE]
                 /\ at'[r] = "replace" => content[opened[r]].whole
      BY <2>1 DEF FacesInv, UploadsOwnTmp
    <2> QED
      BY <1>2, <1>3, <2>1 DEF UploadsOwnTmp
  <1>7. HalfFacesHaveCause'
    BY <1>2 DEF FacesInv, HalfFacesHaveCause, Half
  <1>8. SiblingsHaveCause'
    BY <1>2, <1>3 DEF FacesInv, SiblingsHaveCause
  <1>9. SecondFacesHaveCause'
    BY <1>2 DEF FacesInv, SecondFacesHaveCause
  <1>10. QED
    BY <1>2, <1>4, <1>5, <1>6, <1>7, <1>8, <1>9

\* dimos computes an embedding of an image that is there.
LEMMA EnrollFacesInv ==
    ASSUME FacesInv, NEW p \in Paths, Enroll(p), FilledInv'
    PROVE  FacesInv'
  <1>a. FilledInv /\ TypeOK
    BY DEF FacesInv, FilledInv
  <1>b. p[1] \in Usernames /\ p[2] \in Exts /\ p = <<p[1], p[2]>>
    BY DEF Paths
  <1>1. UNCHANGED <<job, at, account, writer, opened, tmp, face, content, session, before>>
    BY DEF Enroll, fileVars, Unseen, Constant
  <1>2. embedding' = [embedding EXCEPT ![p[1]] = content[face[p]].image] /\ face[p] # Nothing
    BY DEF Enroll
  <1>3. /\ StepsFitJobs' /\ HistoriesAgree' /\ FilesAtTheirPaths' /\ FilesHaveOpeners'
        /\ UploadsOwnTmp' /\ HalfFacesHaveCause' /\ SiblingsHaveCause' /\ SecondFacesHaveCause'
        /\ \A u : Crossed(u)' <=> Crossed(u)
    BY <1>1, FilesStay
  <1>4. DeletersHoldRow'
    <2>1. account[p[1]] # Nothing
      BY DEF Enroll
    <2> QED
      BY <1>a, <1>b, <1>1, <1>2, <1>3, <2>1 DEF FacesInv, DeletersHoldRow, TypeOK, User
  <1>5. MismatchesHaveCause'
    <2>1. ASSUME NEW u \in Usernames, embedding'[u] # Nothing, ~Current(u)'
          PROVE  Crossed(u) \/ \E r \in Requests : User(r) = u /\ (at[r] \in Causes \/ Unaware(r))
      <3>1. u # p[1]
        BY <1>a, <1>b, <1>1, <1>2, <2>1 DEF Current, TypeOK
      <3>2. embedding[u] # Nothing /\ ~Current(u)
        BY <1>a, <1>1, <1>2, <2>1, <3>1 DEF Current, TypeOK
      <3> QED
        BY <3>2 DEF FacesInv, MismatchesHaveCause
    <2>2. \A r \in Requests : User(r)' = User(r) /\ (Unaware(r)' <=> Unaware(r))
      BY <1>1 DEF User, Unaware
    <2> QED
      BY <1>1, <1>3, <2>1, <2>2 DEF MismatchesHaveCause
  <1>6. QED
    BY <1>3, <1>4, <1>5 DEF FacesInv

\* A crash ends every request that is on, and leaves rows and files.
LEMMA CrashFacesInv ==
    ASSUME FacesInv, Crash, FilledInv'
    PROVE  FacesInv'
  <1>a. FilledInv /\ TypeOK
    BY DEF FacesInv, FilledInv
  <1>1. /\ UNCHANGED <<job, account, embedding, opened, tmp, face, content, session, before>>
        /\ \A r \in Requests : \/ at'[r] = at[r] /\ at[r] \notin Steps
                               \/ at[r] \in Steps /\ at'[r] = "failed"
    BY <1>a DEF Crash, fileVars, InProgress
  <1>2. /\ StepsFitJobs' /\ HistoriesAgree' /\ FilesAtTheirPaths' /\ FilesHaveOpeners'
        /\ UploadsOwnTmp' /\ HalfFacesHaveCause' /\ SiblingsHaveCause' /\ SecondFacesHaveCause'
        /\ \A u : Crossed(u)' <=> Crossed(u)
    BY <1>1, FilesStay
  <1>3. DeletersHoldRow'
    BY <1>1 DEF FacesInv, DeletersHoldRow, Steps
  <1>4. MismatchesHaveCause'
    <2>1. \A r \in Requests : /\ User(r)' = User(r) /\ (Unaware(r)' <=> Unaware(r))
                              /\ at[r] \in Causes => at'[r] \in Causes
      BY <1>1 DEF User, Unaware, Causes
    <2>2. \A u \in Usernames : embedding'[u] = embedding[u] /\ (Current(u)' <=> Current(u))
      BY <1>1 DEF Current
    <2> QED
      BY <1>2, <2>1, <2>2 DEF FacesInv, MismatchesHaveCause
  <1>5. QED
    BY <1>2, <1>3, <1>4 DEF FacesInv

LEMMA NextFacesInv == FacesInv /\ [Next]_vars => FacesInv'
  <1> SUFFICES ASSUME FacesInv, [Next]_vars PROVE FacesInv'
    OBVIOUS
  <1>1. FilledInv'
    BY NextFilledInv DEF FacesInv
  <1>2. ASSUME NEW r \in Requests, Step(r) \/ Fails(r) PROVE FacesInv'
    BY <1>1, <1>2, StepsFitJobsStep, HistoriesAgreeStep, FilesAtTheirPathsStep,
       FilesHaveOpenersStep, UploadsOwnTmpStep, HalfFacesHaveCauseStep, SiblingsHaveCauseStep,
       SecondFacesHaveCauseStep, DeletersHoldRowStep, MismatchesHaveCauseStep
    DEF FacesInv
  <1>3. ASSUME NEW p \in Paths, Enroll(p) PROVE FacesInv'
    BY <1>1, <1>3, EnrollFacesInv
  <1>4. CASE Crash
    BY <1>1, <1>4, CrashFacesInv
  <1>5. CASE UNCHANGED vars
    <2>1. UNCHANGED <<job, at, account, embedding, writer, opened, tmp, face, content, session, before>>
      BY <1>5 DEF vars, rowVars, fileVars
    <2>2. /\ StepsFitJobs' /\ HistoriesAgree' /\ FilesAtTheirPaths' /\ FilesHaveOpeners'
          /\ UploadsOwnTmp' /\ HalfFacesHaveCause' /\ SiblingsHaveCause' /\ SecondFacesHaveCause'
          /\ \A u : Crossed(u)' <=> Crossed(u)
      BY <2>1, FilesStay
    <2>3. DeletersHoldRow'
      BY <2>1, <2>2 DEF FacesInv, DeletersHoldRow, User
    <2>4. MismatchesHaveCause'
      BY <2>1, <2>2 DEF FacesInv, MismatchesHaveCause, Current, Unaware, User
    <2> QED
      BY <1>1, <2>2, <2>3, <2>4 DEF FacesInv
  <1>6. QED
    BY <1>2, <1>3, <1>4, <1>5 DEF Next

-----------------------------------------------------------------------------
\* An upload is past its rename only by having renamed a file, and opens a file
\* only by OpenTmp.
LEMMA WhoRenames ==
    ASSUME FacesInv, NEW r \in Requests, Step(r) \/ Fails(r), job[r].kind = "upload",
           at'[r] \in {"select", "reset", "look_again", "answered"}
    PROVE  \/ at[r] \in {"select", "reset", "look_again", "answered"}
           \/ ReplaceFace(r) /\ tmp[Path(r)] # Nothing
  <1>a. TypeOK /\ StepsFitJobs
    BY DEF FacesInv, FilledInv
  <1> USE <1>a DEF Goes, TypeOK, StepsFitJobs
  <1>1. CASE ReplaceFace(r)
    BY <1>1 DEF ReplaceFace
  <1>2. CASE Arrive(r) \/ LookUp(r) \/ InsertUser(r) \/ LookAgain(r)
    BY <1>2 DEF Arrive, FirstStep, LookUp, InsertUser, LookAgain
  <1>3. CASE CleanSiblings(r) \/ OpenTmp(r) \/ WriteTmp(r) \/ UnlinkFace(r)
    BY <1>3 DEF CleanSiblings, OpenTmp, WriteTmp, UnlinkFace
  <1>4. CASE SelectRow(r) \/ ResetEmbedding(r) \/ DeleteRow(r) \/ CommitDelete(r) \/ Fails(r)
    BY <1>4 DEF SelectRow, ResetEmbedding, DeleteRow, CommitDelete, Fails
  <1>5. QED
    BY <1>1, <1>2, <1>3, <1>4 DEF Step

LEMMA RenamesAreCountedStep ==
    ASSUME FacesInv, RenamesAreCounted, NEW r \in Requests, Step(r) \/ Fails(r)
    PROVE  RenamesAreCounted'
  <1>a. /\ TypeOK /\ FilledInv /\ StepsFitJobs /\ FilesHaveOpeners
    BY DEF FacesInv, FilledInv
  <1>b. Path(r) \in Paths /\ UNCHANGED job /\ \A s \in Requests \ {r} : at'[s] = at[s]
    BY <1>a, StepsMoveOne DEF TypeOK, Jobs, Path, Paths
  <1>c. \A p : Uploads(p)' = Uploads(p) /\ Uploads(p) \subseteq Requests
    BY OverlapsStay DEF Uploads
  <1> SUFFICES ASSUME NEW p \in Paths
               PROVE  Cardinality(Renamed(p)') + (IF tmp'[p] = Nothing THEN 0 ELSE 1)
                         <= Cardinality(Created(p)')
    BY DEF RenamesAreCounted
  <1>1. /\ IsFiniteSet(Renamed(p)) /\ IsFiniteSet(Created(p))
        /\ IsFiniteSet(Renamed(p)') /\ IsFiniteSet(Created(p)')
    <2>1. /\ Renamed(p) \subseteq Requests /\ Created(p) \subseteq Requests
          /\ Renamed(p)' \subseteq Requests /\ Created(p)' \subseteq Requests
      BY <1>c DEF Renamed, Created
    <2> QED
      BY <2>1, RequestsAreFinite, FS_Subset
  <1>2. /\ Cardinality(Renamed(p)) \in Nat /\ Cardinality(Created(p)) \in Nat
        /\ Cardinality(Renamed(p)') \in Nat /\ Cardinality(Created(p)') \in Nat
    BY <1>1, FS_CardinalityType
  <1>3. Cardinality(Renamed(p)) + (IF tmp[p] = Nothing THEN 0 ELSE 1) <= Cardinality(Created(p))
    BY DEF RenamesAreCounted
  <1>4. \A s \in Created(p) : s \in Created(p)'
    <2>1. CASE OpenTmp(r)
      <3>1. at[r] = "open" /\ \A s \in Requests \ {r} : opened'[s] = opened[s]
        BY <1>a, <2>1 DEF OpenTmp, Goes, TypeOK
      <3>2. opened[r] # r
        BY <1>a, <3>1, NamesDiffer DEF FilesHaveOpeners, Identities
      <3> QED
        BY <1>c, <3>1, <3>2 DEF Created
    <2>2. CASE UNCHANGED opened
      BY <1>c, <2>2 DEF Created
    <2> QED
      BY <1>a, <2>1, <2>2, FilesChange DEF CleanSiblings, WriteTmp, ReplaceFace, UnlinkFace
  <1>5. Cardinality(Created(p)) <= Cardinality(Created(p)')
    BY <1>1, <1>4, FS_Subset
  <1>6. \A s \in Renamed(p)' : s \in Renamed(p) \/ (s = r /\ ReplaceFace(r) /\ tmp[Path(r)] # Nothing)
    <2> SUFFICES ASSUME NEW s \in Renamed(p)' PROVE s \in Renamed(p) \/ (s = r /\ ReplaceFace(r) /\ tmp[Path(r)] # Nothing)
      OBVIOUS
    <2>1. s \in Uploads(p) /\ at'[s] \in {"select", "reset", "look_again", "answered"}
      BY <1>c DEF Renamed
    <2>2. CASE s # r
      BY <1>b, <1>c, <2>1, <2>2 DEF Renamed
    <2>3. CASE s = r
      <3>1. job[r].kind = "upload"
        BY <2>1, <2>3 DEF Uploads
      <3> QED
        BY <2>1, <2>3, <3>1, WhoRenames DEF Renamed
    <2> QED
      BY <2>2, <2>3
  <1>7. CASE ReplaceFace(r) /\ p = Path(r) /\ tmp[p] # Nothing
    <2>1. tmp'[p] = Nothing
      BY <1>a, <1>7 DEF ReplaceFace, TypeOK
    <2>2. Renamed(p)' \subseteq Renamed(p) \cup {r}
      BY <1>6
    <2>3. /\ IsFiniteSet(Renamed(p) \cup {r})
          /\ Cardinality(Renamed(p) \cup {r}) \in Nat
          /\ Cardinality(Renamed(p) \cup {r}) <= Cardinality(Renamed(p)) + 1
      <3>1. /\ IsFiniteSet(Renamed(p) \cup {r})
            /\ Cardinality(Renamed(p) \cup {r}) =
                 IF r \in Renamed(p) THEN Cardinality(Renamed(p)) ELSE Cardinality(Renamed(p)) + 1
        BY <1>1, FS_AddElement
      <3> QED
        BY <1>2, <3>1
    <2>4. Cardinality(Renamed(p)') <= Cardinality(Renamed(p) \cup {r})
      BY <2>2, <2>3, FS_Subset
    <2> QED
      BY <1>2, <1>3, <1>5, <1>7, <2>1, <2>3, <2>4
  <1>8. CASE ~(ReplaceFace(r) /\ p = Path(r) /\ tmp[p] # Nothing)
    <2>1. Renamed(p)' \subseteq Renamed(p)
      <3>1. r \in Renamed(p)' => Path(r) = p
        BY <1>c DEF Renamed, Uploads
      <3> QED
        BY <1>6, <1>8, <3>1
    <2>2. Cardinality(Renamed(p)') <= Cardinality(Renamed(p))
      BY <1>1, <2>1, FS_Subset
    <2>3. CASE tmp'[p] = Nothing \/ tmp[p] # Nothing
      BY <1>2, <1>3, <1>5, <2>2, <2>3
    <2>4. CASE tmp'[p] # Nothing /\ tmp[p] = Nothing
      <3>1. OpenTmp(r) /\ p = Path(r)
        <4>1. CASE OpenTmp(r)
          BY <1>a, <1>b, <2>4, <4>1 DEF OpenTmp, TypeOK
        <4>2. CASE ReplaceFace(r)
          BY <1>a, <1>b, <2>4, <4>2 DEF ReplaceFace, TypeOK
        <4>3. CASE UNCHANGED tmp
          BY <2>4, <4>3
        <4> QED
          BY <1>a, <4>1, <4>2, <4>3, FilesChange DEF CleanSiblings, WriteTmp, UnlinkFace
      <3>2. opened'[r] = r /\ at[r] = "open" /\ job[r].kind = "upload"
        BY <1>a, <2>4, <3>1 DEF OpenTmp, Goes, StepsFitJobs, TypeOK
      <3>3. r \in Created(p)' /\ r \notin Created(p)
        <4>1. r \in Uploads(p) /\ opened[r] # r
          BY <1>a, <3>1, <3>2, NamesDiffer DEF Uploads, FilesHaveOpeners, Identities
        <4> QED
          BY <1>c, <3>2, <4>1 DEF Created
      <3>4. /\ IsFiniteSet(Created(p) \cup {r})
            /\ Cardinality(Created(p) \cup {r}) = Cardinality(Created(p)) + 1
        BY <1>1, <3>3, FS_AddElement
      <3>5. Created(p) \cup {r} \subseteq Created(p)'
        BY <1>4, <3>3
      <3>6. Cardinality(Created(p)) + 1 <= Cardinality(Created(p)')
        BY <1>1, <3>4, <3>5, FS_Subset
      <3> QED
        BY <1>2, <1>3, <2>2, <2>4, <3>6
    <2> QED
      BY <2>3, <2>4
  <1>9. QED
    BY <1>7, <1>8

LEMMA SoleWritersStep ==
    ASSUME FacesInv, SoleWriters, NEW r \in Requests, Step(r) \/ Fails(r)
    PROVE  SoleWriters'
  <1>a. TypeOK /\ FilledInv /\ FilesAtTheirPaths /\ FilesHaveOpeners
    BY DEF FacesInv, FilledInv
  <1>b. Path(r) \in Paths /\ \A s \in Requests \ {r} : at'[s] = at[s] /\ opened'[s] = opened[s]
    BY <1>a, StepsMoveOne DEF TypeOK, Jobs, Path, Paths
  <1>1. content'[Old].whole
    BY OthersKeepContent DEF SoleWriters
  <1>2. opened[r] # Nothing => opened'[r] = opened[r]
    <2>1. CASE OpenTmp(r)
      BY <1>a, <2>1 DEF OpenTmp, Goes, FilesHaveOpeners
    <2>2. CASE UNCHANGED opened
      BY <2>2
    <2> QED
      BY <1>a, <2>1, <2>2, FilesChange DEF CleanSiblings, WriteTmp, ReplaceFace, UnlinkFace
  <1> SUFFICES ASSUME NEW f \in Requests, opened'[f] = f, \A s \in Requests \ {f} : opened'[s] # f
               PROVE  /\ at'[f] = "write" => content'[f] = [image |-> f, whole |-> FALSE]
                      /\ content'[f].whole \/ at'[f] \in {"write", "failed"}
    BY <1>1 DEF SoleWriters
  <1>3. f # Nothing /\ f \in Identities
    BY NamesDiffer DEF Identities
  <1>4. \A s \in Requests \ {f} : opened[s] # f
    BY <1>b, <1>2, <1>3
  <1>5. CASE r # f
    <2>1. at'[f] = at[f] /\ opened[f] = f
      BY <1>b, <1>5
    <2>2. content'[f] = content[f]
      <3>1. CASE OpenTmp(r)
        <4> DEFINE g == IF tmp[Path(r)] = Nothing THEN r ELSE tmp[Path(r)]
        <4>1. opened' = [opened EXCEPT ![r] = g] /\ content' = [content EXCEPT ![g] = [image |-> r, whole |-> FALSE]]
          BY <3>1 DEF OpenTmp
        <4> HIDE DEF g
        <4>2. g # f
          BY <1>a, <1>5, <4>1 DEF TypeOK
        <4> QED
          BY <1>a, <1>3, <4>1, <4>2 DEF TypeOK
      <3>2. CASE WriteTmp(r)
        <4>1. opened[r] # f
          BY <1>4, <1>5
        <4>2. PICK w \in BOOLEAN : content' = [content EXCEPT ![opened[r]] = [image |-> r, whole |-> w]]
          BY <3>2 DEF WriteTmp
        <4> QED
          BY <1>a, <1>3, <4>1, <4>2 DEF TypeOK
      <3>3. CASE UNCHANGED content
        BY <3>3
      <3> QED
        BY <1>a, <3>1, <3>2, <3>3, FilesChange DEF CleanSiblings, ReplaceFace, UnlinkFace
    <2> QED
      BY <1>4, <2>1, <2>2 DEF SoleWriters
  <1>6. CASE r = f /\ OpenTmp(r)
    <2> DEFINE g == IF tmp[Path(r)] = Nothing THEN r ELSE tmp[Path(r)]
    <2>1. opened' = [opened EXCEPT ![r] = g] /\ content' = [content EXCEPT ![g] = [image |-> r, whole |-> FALSE]]
      BY <1>6 DEF OpenTmp
    <2> HIDE DEF g
    <2>2. g = f /\ at'[f] = "write"
      BY <1>a, <1>6, <2>1 DEF TypeOK, OpenTmp, Goes
    <2> QED
      BY <1>a, <1>3, <1>6, <2>1, <2>2 DEF TypeOK
  <1>7. CASE r = f /\ WriteTmp(r)
    <2>1. PICK w \in BOOLEAN :
            /\ w \/ content[opened[r]] # [image |-> r, whole |-> FALSE]
            /\ content' = [content EXCEPT ![opened[r]] = [image |-> r, whole |-> w]]
      BY <1>7 DEF WriteTmp
    <2>2. opened[f] = f /\ at[f] = "write" /\ at'[f] = "replace"
      BY <1>a, <1>7 DEF WriteTmp, Goes, TypeOK
    <2>3. content[f] = [image |-> f, whole |-> FALSE]
      BY <1>4, <2>2 DEF SoleWriters
    <2>4. w
      BY <1>7, <2>1, <2>2, <2>3
    <2> QED
      BY <1>a, <1>3, <1>7, <2>1, <2>2, <2>4 DEF TypeOK
  <1>8. CASE r = f /\ ~OpenTmp(r) /\ ~WriteTmp(r)
    <2>1. UNCHANGED <<opened, content>>
      BY <1>a, <1>8, FilesChange DEF CleanSiblings, ReplaceFace, UnlinkFace
    <2>2. at'[f] # "write"
      BY <1>a, <1>8, WhereFrom
    <2>3. at[f] = "write" => at'[f] = "failed"
      BY <1>a, <1>8
      DEF Step, Arrive, LookUp, InsertUser, LookAgain, CleanSiblings, ReplaceFace, UnlinkFace,
          SelectRow, ResetEmbedding, DeleteRow, CommitDelete, Fails, Goes, TypeOK
    <2>4. at[f] # "failed"
      BY <1>a, <1>8, StepsMoveOne DEF Steps
    <2> QED
      BY <1>4, <2>1, <2>2, <2>3, <2>4 DEF SoleWriters
  <1>9. QED
    BY <1>5, <1>6, <1>7, <1>8

\* Whoever stays where they are or is cut off renames nothing and writes nothing.
LEMMA CountsStay ==
    ASSUME FacesInv, RenamesAreCounted, SoleWriters, UNCHANGED <<job, opened, tmp, content>>,
           \A r \in Requests : at'[r] = at[r] \/ (at[r] \in Steps /\ at'[r] = "failed")
    PROVE  RenamesAreCounted' /\ SoleWriters'
  <1>1. \A p : Uploads(p)' = Uploads(p) /\ Uploads(p) \subseteq Requests
    BY DEF Uploads, Path
  <1>2. ASSUME NEW p \in Paths
        PROVE  Cardinality(Renamed(p)') + (IF tmp[p] = Nothing THEN 0 ELSE 1)
                  <= Cardinality(Created(p)')
    <2>1. Created(p)' = Created(p) /\ Renamed(p)' \subseteq Renamed(p) /\ Renamed(p) \subseteq Requests
      BY <1>1 DEF Created, Renamed
    <2>2. IsFiniteSet(Renamed(p)) /\ Created(p) \subseteq Requests
      BY <1>1, <2>1, RequestsAreFinite, FS_Subset DEF Created
    <2>3. IsFiniteSet(Renamed(p)') /\ IsFiniteSet(Created(p))
      BY <2>1, <2>2, RequestsAreFinite, FS_Subset
    <2>4. /\ Cardinality(Renamed(p)) \in Nat /\ Cardinality(Renamed(p)') \in Nat
          /\ Cardinality(Created(p)) \in Nat
      BY <2>2, <2>3, FS_CardinalityType
    <2>5. Cardinality(Renamed(p)') <= Cardinality(Renamed(p))
      BY <2>1, <2>2, FS_Subset
    <2>6. Cardinality(Renamed(p)) + (IF tmp[p] = Nothing THEN 0 ELSE 1) <= Cardinality(Created(p))
      BY DEF RenamesAreCounted
    <2> QED
      BY <2>1, <2>4, <2>5, <2>6
  <1>3. SoleWriters'
    BY DEF SoleWriters
  <1>4. QED
    BY <1>2, <1>3 DEF RenamesAreCounted

LEMMA InitCounts == Init => RenamesAreCounted /\ SoleWriters
  <1> SUFFICES ASSUME Init PROVE RenamesAreCounted /\ SoleWriters
    OBVIOUS
  <1>1. /\ \A r \in Requests : at[r] = "new" /\ opened[r] = Nothing
        /\ \A p \in Paths : tmp[p] = Nothing
        /\ content[Old] = [image |-> Old, whole |-> TRUE]
    BY DEF Init, Identities
  <1>2. ASSUME NEW p \in Paths PROVE Cardinality(Renamed(p)) <= Cardinality(Created(p))
    <2>1. Renamed(p) = {} /\ Created(p) \subseteq Requests
      BY <1>1 DEF Renamed, Created, Uploads
    <2>2. Cardinality(Renamed(p)) = 0 /\ Cardinality(Created(p)) \in Nat
      BY <2>1, RequestsAreFinite, FS_Subset, FS_EmptySet, FS_CardinalityType
    <2> QED
      BY <2>2
  <1>3. ASSUME NEW p \in Paths
        PROVE  Cardinality(Renamed(p)) + (IF tmp[p] = Nothing THEN 0 ELSE 1) <= Cardinality(Created(p))
    <2>1. Renamed(p) = {}
      BY <1>1 DEF Renamed, Uploads
    <2>2. Cardinality(Renamed(p)) \in Nat
      BY <2>1, FS_EmptySet
    <2> QED
      BY <1>1, <1>2, <2>2
  <1>4. SoleWriters
    BY <1>1, NamesDiffer DEF SoleWriters, Identities
  <1>5. QED
    BY <1>3, <1>4 DEF RenamesAreCounted

LEMMA NextCounts ==
    FacesInv /\ RenamesAreCounted /\ SoleWriters /\ [Next]_vars => RenamesAreCounted' /\ SoleWriters'
  <1> SUFFICES ASSUME FacesInv, RenamesAreCounted, SoleWriters, [Next]_vars
               PROVE  RenamesAreCounted' /\ SoleWriters'
    OBVIOUS
  <1>1. ASSUME NEW r \in Requests, Step(r) \/ Fails(r) PROVE RenamesAreCounted' /\ SoleWriters'
    BY <1>1, RenamesAreCountedStep, SoleWritersStep
  <1>2. CASE (\E p \in Paths : Enroll(p)) \/ Crash \/ UNCHANGED vars
    <2>1. UNCHANGED <<job, opened, tmp, content>>
      BY <1>2 DEF Enroll, Crash, Unseen, Constant, vars, fileVars
    <2>2. \A r \in Requests : at'[r] = at[r] \/ (at[r] \in Steps /\ at'[r] = "failed")
      BY <1>2 DEF Enroll, Crash, InProgress, vars
    <2> QED
      BY <2>1, <2>2, CountsStay
  <1>3. QED
    BY <1>1, <1>2 DEF Next

\* With all openers of a path past their renames there are as many renames as
\* files, and so every file has one writer.
LEMMA FilesAreSole ==
    ASSUME FacesInv, RenamesAreCounted, NEW p \in Paths,
           \A r \in Uploads(p) : at[r] \notin {"write", "replace", "failed"}
    PROVE  \A r \in Uploads(p) : opened[r] # Nothing => opened[r] = r
  <1>a. TypeOK /\ StepsFitJobs /\ FilesHaveOpeners
    BY DEF FacesInv, FilledInv
  <1>b. Uploads(p) \subseteq Requests /\ \A r \in Uploads(p) : job[r].kind = "upload"
    BY DEF Uploads
  <1>1. \A r \in Uploads(p) : opened[r] # Nothing => r \in Renamed(p)
    BY <1>a, <1>b DEF Renamed, FilesHaveOpeners, StepsFitJobs, TypeOK, Steps, Ends
  <1>2. Created(p) \subseteq Renamed(p)
    BY <1>1, <1>b, NamesDiffer DEF Created, Identities
  <1>3. IsFiniteSet(Renamed(p)) /\ IsFiniteSet(Created(p))
    <2>1. Renamed(p) \subseteq Requests /\ Created(p) \subseteq Requests
      BY <1>b DEF Renamed, Created
    <2> QED
      BY <2>1, RequestsAreFinite, FS_Subset
  <1>4. Cardinality(Renamed(p)) \in Nat /\ Cardinality(Created(p)) \in Nat
    BY <1>3, FS_CardinalityType
  <1>5. Cardinality(Renamed(p)) <= Cardinality(Created(p))
    <2>1. Cardinality(Renamed(p)) + (IF tmp[p] = Nothing THEN 0 ELSE 1) <= Cardinality(Created(p))
      BY DEF RenamesAreCounted
    <2> QED
      BY <1>4, <2>1
  <1>6. Cardinality(Created(p)) <= Cardinality(Renamed(p))
    BY <1>2, <1>3, FS_Subset
  <1>7. Created(p) = Renamed(p)
    <2>1. Cardinality(Renamed(p)) = Cardinality(Created(p))
      BY <1>4, <1>5, <1>6
    <2> QED
      BY <1>2, <1>3, <2>1, FS_Subset
  <1>8. QED
    BY <1>1, <1>7 DEF Created

-----------------------------------------------------------------------------
\* With any requests at the same time, every variable keeps to its type, and
\* what is computed from an image is computed from one that has a content.
THEOREM FacesTyped == Spec => []TypeOK
  <1>1. FilledInv => TypeOK
    BY DEF FilledInv
  <1>2. QED
    BY <1>1, InitFilledInv, NextFilledInv, PTL DEF Spec

\* Whatever is interleaved, fails or is cut off by a crash.
THEOREM FacesAreSafe == Spec => []FacesInv
  BY InitFacesInv, NextFacesInv, PTL DEF Spec

\* write_face: the rename avoids half-written reads, but for uploads of one
\* type that overlap.
THEOREM HalfFacesNeedTwo == Spec => []HalfFacesHaveCause
  <1>1. FacesInv => HalfFacesHaveCause
    BY DEF FacesInv
  <1>2. QED
    BY <1>1, FacesAreSafe, PTL

\* write_face: a user has one face on disk, but for uploads of two types that
\* overlap.
THEOREM SecondFacesNeedTwo == Spec => []SecondFacesHaveCause
  <1>1. FacesInv => SecondFacesHaveCause
    BY DEF FacesInv
  <1>2. QED
    BY <1>1, FacesAreSafe, PTL

\* clear_face_embedding: with nobody at work on a user and nobody having failed,
\* the embedding is of an image that is on disk, but for a creation that met a
\* deletion and for a user's own request that did not see the embedding.
THEOREM EmbeddingsStayCurrent == Spec => []EmbeddingsAreCurrent
  <1>1. FacesInv => EmbeddingsAreCurrent
    <2> SUFFICES ASSUME FacesInv, NEW u \in Usernames, Idle(u), embedding[u] # Nothing,
                        ~Current(u), ~Crossed(u)
                 PROVE  \E r \in Requests : User(r) = u /\ Unaware(r)
      BY DEF EmbeddingsAreCurrent
    <2>1. \A r \in Requests : User(r) = u => at[r] \notin Causes
      BY DEF Idle, Causes
    <2> QED
      BY <2>1 DEF FacesInv, MismatchesHaveCause
  <1>2. QED
    BY <1>1, FacesAreSafe, PTL

\* However many uploads share a temporary file, a half-written image on disk is
\* that of one that is still writing or has failed: each file is renamed once,
\* so with every upload answered each has a file, and a rename, of its own.
THEOREM HalfFacesStayTold == Spec => []HalfFacesAreTold
  <1>1. FacesInv /\ RenamesAreCounted /\ SoleWriters => HalfFacesAreTold
    <2> SUFFICES ASSUME FacesInv, RenamesAreCounted, SoleWriters, NEW p \in Paths, Half(p),
                        \A r \in Uploads(p) : at[r] \notin {"write", "replace", "failed"}
                 PROVE  FALSE
      BY DEF HalfFacesAreTold
    <2>a. TypeOK /\ FilesAtTheirPaths /\ FilesHaveOpeners
      BY DEF FacesInv, FilledInv
    <2> DEFINE f == face[p]
    <2>1. f \in Requests /\ f # Nothing /\ ~content[f].whole
      BY <2>a DEF Half, SoleWriters, TypeOK, Identities
    <2>2. opened[f] = f /\ Path(f) = p
      BY <2>a, <2>1 DEF FilesAtTheirPaths, FilesHaveOpeners
    <2>3. f \in Uploads(p)
      BY <2>a, <2>1, <2>2 DEF FilesAtTheirPaths, Uploads
    <2>4. ASSUME NEW s \in Requests \ {f}, opened[s] = f PROVE FALSE
      <3>1. Path(s) = p /\ job[s].kind = "upload"
        BY <2>a, <2>1, <2>2, <2>4 DEF FilesAtTheirPaths
      <3>2. s \in Uploads(p)
        BY <3>1 DEF Uploads
      <3> QED
        BY <2>1, <2>4, <3>2, FilesAreSole
    <2>5. content[f].whole \/ at[f] \in {"write", "failed"}
      BY <2>1, <2>2, <2>4 DEF SoleWriters
    <2> QED
      BY <2>1, <2>3, <2>5
  <1>2. QED
    BY <1>1, FacesAreSafe, InitCounts, NextCounts, PTL DEF Spec
=============================================================================
