--------------------------- MODULE RecipeStoreProofs ---------------------------
(***************************************************************************)
(* What holds of the recipe store for every set of requests and names and  *)
(* any number of failures and crashes.                                     *)
(***************************************************************************)
EXTENDS RecipeStore, TLAPS

Written(r) == [recipe |-> r, whole |-> TRUE]

\* A creation between its INSERT and its COMMIT.
Creating(r) == at[r] \in {"open", "write", "replace", "commit"}

\* A creation holds its name's key, for a row that is not there.
CreatorsHoldKey ==
    \A r \in Requests :
        Creating(r) => writer[name[r]] = r /\ row[name[r]] = Nothing

\* The files on the way to a creation's or a deletion's COMMIT.
FilesInProgress ==
    \A r \in Requests :
        /\ at[r] = "replace" => tmp[name[r]] = Written(r)
        /\ at[r] = "commit" => file[name[r]] \in {Nothing, Written(r)}
        /\ at[r] \in {"commit delete", "commit no delete"} /\ writer[name[r]] = r =>
              file[name[r]] = Nothing

RecipeInv ==
    /\ TypeOK
    /\ CreatorsHoldKey
    /\ FilesInProgress
    /\ FilesAreWhole
    /\ FilesMatchRows

-----------------------------------------------------------------------------
LEMMA InitRecipeInv == Init => RecipeInv
  <1> SUFFICES ASSUME Init PROVE RecipeInv
    OBVIOUS
  <1>1. TypeOK
    BY CrashesAreNat DEF Init, TypeOK, Contents
  <1>2. CreatorsHoldKey /\ FilesInProgress
    BY DEF Init, CreatorsHoldKey, FilesInProgress, Creating
  <1>3. FilesAreWhole /\ FilesMatchRows
    BY DEF Init, FilesAreWhole, FilesMatchRows
  <1>4. QED
    BY <1>1, <1>2, <1>3 DEF RecipeInv

\* A step of a handler moves it and no other, and leaves the names alone.
LEMMA StepsAreTyped ==
    ASSUME TypeOK, NEW r \in Requests, Arrive(r) \/ Step(r) \/ Fails(r)
    PROVE  TypeOK'
  <1> USE DEF TypeOK, Goes, NoRowChange, NoFileChange, Others, CreateSteps, DeleteSteps, Ends
  <1>1. CASE Arrive(r)
    BY <1>1, NothingIsNoRequest DEF Arrive
  <1>2. CASE CheckName(r)
    BY <1>2, NothingIsNoRequest DEF CheckName
  <1>3. CASE InsertRow(r)
    BY <1>3, NothingIsNoRequest DEF InsertRow
  <1>4. CASE OpenTmp(r)
    BY <1>4, NothingIsNoRequest DEF OpenTmp, Contents
  <1>5. CASE WriteTmp(r)
    BY <1>5, NothingIsNoRequest DEF WriteTmp, Contents
  <1>6. CASE ReplaceFile(r)
    BY <1>6, NothingIsNoRequest DEF ReplaceFile, Contents
  <1>7. CASE CommitRow(r)
    BY <1>7, NothingIsNoRequest DEF CommitRow
  <1>8. CASE Refresh(r)
    BY <1>8, NothingIsNoRequest DEF Refresh
  <1>9. CASE DeleteRow(r)
    BY <1>9, NothingIsNoRequest DEF DeleteRow
  <1>10. CASE Unlink(r)
    BY <1>10, NothingIsNoRequest DEF Unlink, Contents
  <1>11. CASE CommitDelete(r)
    BY <1>11, NothingIsNoRequest DEF CommitDelete
  <1>12. CASE Fails(r)
    BY <1>12, NothingIsNoRequest DEF Fails, Rollback, InProgress
  <1>13. QED
    BY <1>1, <1>2, <1>3, <1>4, <1>5, <1>6, <1>7, <1>8, <1>9, <1>10, <1>11, <1>12 DEF Step

\* Only the creation that holds a key commits a row under it.
LEMMA KeysAreKept ==
    ASSUME TypeOK, CreatorsHoldKey, NEW r \in Requests,
           Arrive(r) \/ Step(r) \/ Fails(r)
    PROVE  CreatorsHoldKey'
  <1> USE NothingIsNoRequest
      DEF TypeOK, Goes, NoRowChange, NoFileChange, Others, Creating,
          CreatorsHoldKey
  <1>1. CASE Arrive(r)
    BY <1>1 DEF Arrive
  <1>2. CASE CheckName(r)
    BY <1>2 DEF CheckName
  <1>3. CASE InsertRow(r)
    BY <1>3 DEF InsertRow
  <1>4. CASE OpenTmp(r)
    BY <1>4 DEF OpenTmp
  <1>5. CASE WriteTmp(r)
    BY <1>5 DEF WriteTmp
  <1>6. CASE ReplaceFile(r)
    BY <1>6 DEF ReplaceFile
  <1>7. CASE CommitRow(r)
    BY <1>7 DEF CommitRow
  <1>8. CASE Refresh(r)
    BY <1>8 DEF Refresh
  <1>9. CASE DeleteRow(r)
    BY <1>9 DEF DeleteRow
  <1>10. CASE Unlink(r)
    BY <1>10 DEF Unlink
  <1>11. CASE CommitDelete(r)
    <2> SUFFICES ASSUME NEW s \in Requests, Creating(s)'
                 PROVE  writer'[name[s]] = s /\ row'[name[s]] = Nothing
      BY <1>11 DEF CommitDelete
    <2>1. s # r /\ Creating(s)
      BY <1>11 DEF CommitDelete
    <2>2. writer[name[s]] = s /\ row[name[s]] = Nothing
      BY <2>1
    <2>3. CASE writer[name[r]] = r
      <3>1. name[s] # name[r]
        BY <2>1, <2>2, <2>3
      <3>2. row' = [row EXCEPT ![name[r]] = Nothing] /\ writer' = [writer EXCEPT ![name[r]] = Nothing]
        BY <1>11, <2>3 DEF CommitDelete
      <3>3. QED
        BY <2>2, <3>1, <3>2
    <2>4. CASE writer[name[r]] # r
      BY <1>11, <2>2, <2>4 DEF CommitDelete
    <2>5. QED
      BY <2>3, <2>4
  <1>12. CASE Fails(r)
    BY <1>12 DEF Fails, Rollback, InProgress
  <1>13. QED
    BY <1>1, <1>2, <1>3, <1>4, <1>5, <1>6, <1>7, <1>8, <1>9, <1>10, <1>11, <1>12 DEF Step

\* A step that touches no file and leaves the way to a COMMIT, or is not on it.
LEMMA FilesRest ==
    ASSUME FilesInProgress, NEW r \in Requests,
           at'[r] \notin {"replace", "commit", "commit delete", "commit no delete"},
           \A s \in Requests \ {r} : at'[s] = at[s],
           UNCHANGED <<name, writer, tmp, file>>
    PROVE  FilesInProgress'
BY DEF FilesInProgress

\* A creation finds its own files where it left them.
LEMMA FilesAreKept ==
    ASSUME TypeOK, CreatorsHoldKey, FilesInProgress, NEW r \in Requests,
           Arrive(r) \/ Step(r) \/ Fails(r)
    PROVE  FilesInProgress'
  <1> USE NothingIsNoRequest
      DEF TypeOK, Goes, NoRowChange, NoFileChange, Others, Creating,
          CreatorsHoldKey, FilesInProgress, Written
  <1>1. CASE Arrive(r)
    <2>1. /\ at'[r] \in {"check", "delete"} /\ \A s \in Requests \ {r} : at'[s] = at[s]
          /\ UNCHANGED <<name, writer, tmp, file>>
      BY <1>1 DEF Arrive
    <2>2. QED
      BY <2>1, FilesRest
  <1>2. CASE CheckName(r)
    <2>1. /\ at'[r] \in {"insert", "409"} /\ \A s \in Requests \ {r} : at'[s] = at[s]
          /\ UNCHANGED <<name, writer, tmp, file>>
      BY <1>2 DEF CheckName
    <2>2. QED
      BY <2>1, FilesRest
  <1>3. CASE InsertRow(r)
    <2> SUFFICES ASSUME NEW s \in Requests
                 PROVE  /\ at'[s] = "replace" => tmp'[name[s]] = Written(s)
                        /\ at'[s] = "commit" => file'[name[s]] \in {Nothing, Written(s)}
                        /\ at'[s] \in {"commit delete", "commit no delete"} /\ writer'[name[s]] = s =>
                              file'[name[s]] = Nothing
      BY <1>3 DEF InsertRow
    <2>1. CASE s = r
      <3>1. at'[s] \in {"open", "500"}
        BY <1>3, <2>1 DEF InsertRow
      <3>2. QED
        BY <3>1
    <2>2. CASE s # r
      <3>1. at'[s] = at[s] /\ name[s] \in Names
        BY <1>3, <2>2 DEF InsertRow
      <3>2. writer' = writer \/ writer' = [writer EXCEPT ![name[r]] = r]
        BY <1>3 DEF InsertRow
      <3>3. writer'[name[s]] = s => writer[name[s]] = s
        <4>1. CASE name[s] = name[r]
          BY <2>2, <3>1, <3>2, <4>1
        <4>2. CASE name[s] # name[r]
          BY <3>1, <3>2, <4>2
        <4>3. QED
          BY <4>1, <4>2
      <3>4. QED
        BY <1>3, <3>1, <3>3 DEF InsertRow
    <2>3. QED
      BY <2>1, <2>2
  <1>4. CASE OpenTmp(r)
    <2>1. /\ at[r] = "open" /\ at'[r] = "write" /\ \A s \in Requests \ {r} : at'[s] = at[s]
          /\ \A n \in Names \ {name[r]} : tmp'[n] = tmp[n]
          /\ UNCHANGED <<name, writer, file>>
      BY <1>4 DEF OpenTmp
    <2>2. ASSUME NEW s \in Requests, at'[s] = "replace" PROVE tmp'[name[s]] = tmp[name[s]]
      <3>1. s # r /\ at[s] = "replace"
        BY <2>1, <2>2
      <3>2. writer[name[s]] = s /\ writer[name[r]] = r
        BY <2>1, <3>1
      <3>3. QED
        BY <2>1, <3>1, <3>2
    <2>3. \A s \in Requests :
            at'[s] \in {"replace", "commit", "commit delete", "commit no delete"} => at'[s] = at[s]
      BY <2>1
    <2>4. ASSUME NEW s \in Requests, at'[s] = "replace" PROVE tmp'[name'[s]] = Written(s)
      BY <2>1, <2>2, <2>3, <2>4
    <2>5. QED
      BY <2>1, <2>3, <2>4
  <1>5. CASE WriteTmp(r)
    <2> SUFFICES ASSUME NEW s \in Requests
                 PROVE  /\ at'[s] = "replace" => tmp'[name[s]] = Written(s)
                        /\ at'[s] = "commit" => file'[name[s]] \in {Nothing, Written(s)}
                        /\ at'[s] \in {"commit delete", "commit no delete"} /\ writer'[name[s]] = s =>
                              file'[name[s]] = Nothing
      BY <1>5 DEF WriteTmp
    <2>1. CASE s = r
      <3>1. at'[s] = "replace" /\ tmp'[name[s]] = Written(s)
        BY <1>5, <2>1 DEF WriteTmp
      <3>2. QED
        BY <3>1
    <2>2. CASE s # r
      <3>1. at'[s] = at[s] /\ file' = file /\ writer' = writer
        BY <1>5, <2>2 DEF WriteTmp
      <3>2. ASSUME at[s] = "replace" PROVE tmp'[name[s]] = tmp[name[s]]
        <4>1. writer[name[s]] = s /\ writer[name[r]] = r
          BY <1>5, <3>2 DEF WriteTmp
        <4>2. tmp' = [tmp EXCEPT ![name[r]] = Written(r)]
          BY <1>5 DEF WriteTmp
        <4>3. QED
          BY <2>2, <4>1, <4>2
      <3>3. QED
        BY <3>1, <3>2
    <2>3. QED
      BY <2>1, <2>2
  <1>6. CASE ReplaceFile(r)
    BY <1>6 DEF ReplaceFile
  <1>7. CASE CommitRow(r)
    <2>1. /\ at'[r] = "refresh" /\ \A s \in Requests \ {r} : at'[s] = at[s]
          /\ writer' = [writer EXCEPT ![name[r]] = Nothing]
          /\ UNCHANGED <<name, tmp, file>>
      BY <1>7 DEF CommitRow
    <2>2. ASSUME NEW s \in Requests, writer'[name[s]] = s PROVE writer[name[s]] = s
      BY <2>1, <2>2
    <2>3. QED
      BY <2>1, <2>2
  <1>8. CASE Refresh(r)
    <2>1. /\ at'[r] \in {"201", "500"} /\ \A s \in Requests \ {r} : at'[s] = at[s]
          /\ UNCHANGED <<name, writer, tmp, file>>
      BY <1>8 DEF Refresh
    <2>2. QED
      BY <2>1, FilesRest
  <1>9. CASE DeleteRow(r)
    <2> SUFFICES ASSUME NEW s \in Requests
                 PROVE  /\ at'[s] = "replace" => tmp'[name[s]] = Written(s)
                        /\ at'[s] = "commit" => file'[name[s]] \in {Nothing, Written(s)}
                        /\ at'[s] \in {"commit delete", "commit no delete"} /\ writer'[name[s]] = s =>
                              file'[name[s]] = Nothing
      BY <1>9 DEF DeleteRow
    <2>1. CASE s = r
      <3>1. at'[s] = "unlink"
        BY <1>9, <2>1 DEF DeleteRow
      <3>2. QED
        BY <3>1
    <2>2. CASE s # r
      <3>1. at'[s] = at[s] /\ name[s] \in Names
        BY <1>9, <2>2 DEF DeleteRow
      <3>2. writer' = writer \/ writer' = [writer EXCEPT ![name[r]] = r]
        BY <1>9 DEF DeleteRow
      <3>3. writer'[name[s]] = s => writer[name[s]] = s
        <4>1. CASE name[s] = name[r]
          BY <2>2, <3>1, <3>2, <4>1
        <4>2. CASE name[s] # name[r]
          BY <3>1, <3>2, <4>2
        <4>3. QED
          BY <4>1, <4>2
      <3>4. QED
        BY <1>9, <3>1, <3>3 DEF DeleteRow
    <2>3. QED
      BY <2>1, <2>2
  <1>10. CASE Unlink(r)
    BY <1>10 DEF Unlink
  <1>11. CASE CommitDelete(r)
    <2> SUFFICES ASSUME NEW s \in Requests
                 PROVE  /\ at'[s] = "replace" => tmp'[name[s]] = Written(s)
                        /\ at'[s] = "commit" => file'[name[s]] \in {Nothing, Written(s)}
                        /\ at'[s] \in {"commit delete", "commit no delete"} /\ writer'[name[s]] = s =>
                              file'[name[s]] = Nothing
      BY <1>11 DEF CommitDelete
    <2>1. CASE s = r
      <3>1. at'[s] \in {"204", "404"}
        BY <1>11, <2>1 DEF CommitDelete
      <3>2. QED
        BY <3>1
    <2>2. CASE s # r
      <3>1. at'[s] = at[s]
        BY <1>11, <2>2 DEF CommitDelete
      <3>2. writer' = writer \/ writer' = [writer EXCEPT ![name[r]] = Nothing]
        BY <1>11 DEF CommitDelete
      <3>3. writer'[name[s]] = s => writer[name[s]] = s
        <4>1. CASE writer' = writer
          BY <4>1
        <4>2. CASE writer' = [writer EXCEPT ![name[r]] = Nothing]
          <5>1. name[s] \in Names /\ s # Nothing
            OBVIOUS
          <5>2. writer'[name[s]] \in {writer[name[s]], Nothing}
            BY <4>2, <5>1
          <5>3. QED
            BY <5>1, <5>2
        <4>3. QED
          BY <3>2, <4>1, <4>2
      <3>4. QED
        BY <1>11, <3>1, <3>3 DEF CommitDelete
    <2>3. QED
      BY <2>1, <2>2
  <1>12. CASE Fails(r)
    BY <1>12 DEF Fails, Rollback, InProgress
  <1>13. QED
    BY <1>1, <1>2, <1>3, <1>4, <1>5, <1>6, <1>7, <1>8, <1>9, <1>10, <1>11, <1>12 DEF Step

\* Only a finished temporary file is renamed.
LEMMA WholeFilesAreKept ==
    ASSUME TypeOK, FilesInProgress, FilesAreWhole, NEW r \in Requests,
           Arrive(r) \/ Step(r) \/ Fails(r)
    PROVE  FilesAreWhole'
  <1> USE NothingIsNoRequest
      DEF TypeOK, Goes, NoRowChange, NoFileChange, Others, Creating,
          FilesInProgress, FilesAreWhole, Written
  <1>1. CASE Arrive(r)
    BY <1>1 DEF Arrive
  <1>2. CASE CheckName(r)
    BY <1>2 DEF CheckName
  <1>3. CASE InsertRow(r)
    BY <1>3 DEF InsertRow
  <1>4. CASE OpenTmp(r)
    BY <1>4 DEF OpenTmp
  <1>5. CASE WriteTmp(r)
    BY <1>5 DEF WriteTmp
  <1>6. CASE ReplaceFile(r)
    <2>1. file' = [file EXCEPT ![name[r]] = Written(r)]
      BY <1>6 DEF ReplaceFile
    <2>2. ASSUME NEW n \in Names, file'[n] # Nothing PROVE file'[n].whole
      <3>1. CASE n = name[r]
        BY <2>1, <3>1
      <3>2. CASE n # name[r]
        BY <2>1, <2>2, <3>2
      <3>3. QED
        BY <3>1, <3>2
    <2>3. QED
      BY <2>2
  <1>7. CASE CommitRow(r)
    BY <1>7 DEF CommitRow
  <1>8. CASE Refresh(r)
    BY <1>8 DEF Refresh
  <1>9. CASE DeleteRow(r)
    BY <1>9 DEF DeleteRow
  <1>10. CASE Unlink(r)
    BY <1>10 DEF Unlink
  <1>11. CASE CommitDelete(r)
    BY <1>11 DEF CommitDelete
  <1>12. CASE Fails(r)
    BY <1>12 DEF Fails, Rollback, InProgress
  <1>13. QED
    BY <1>1, <1>2, <1>3, <1>4, <1>5, <1>6, <1>7, <1>8, <1>9, <1>10, <1>11, <1>12 DEF Step

\* A row appears over no file but its own.
LEMMA MatchesAreKept ==
    ASSUME TypeOK, CreatorsHoldKey, FilesInProgress, FilesMatchRows, NEW r \in Requests,
           Arrive(r) \/ Step(r) \/ Fails(r)
    PROVE  FilesMatchRows'
  <1> USE NothingIsNoRequest
      DEF TypeOK, Goes, NoRowChange, NoFileChange, Others, Creating,
          CreatorsHoldKey, FilesInProgress, FilesMatchRows, Written
  <1>1. CASE Arrive(r)
    BY <1>1 DEF Arrive
  <1>2. CASE CheckName(r)
    BY <1>2 DEF CheckName
  <1>3. CASE InsertRow(r)
    BY <1>3 DEF InsertRow
  <1>4. CASE OpenTmp(r)
    BY <1>4 DEF OpenTmp
  <1>5. CASE WriteTmp(r)
    BY <1>5 DEF WriteTmp
  <1>6. CASE ReplaceFile(r)
    BY <1>6 DEF ReplaceFile
  <1>7. CASE CommitRow(r)
    <2>1. /\ row' = [row EXCEPT ![name[r]] = r]
          /\ file' = file
          /\ file[name[r]] \in {Nothing, Written(r)}
      BY <1>7 DEF CommitRow
    <2>2. ASSUME NEW n \in Names, row'[n] # Nothing, file[n] # Nothing
          PROVE  file[n].recipe = row'[n]
      <3>1. CASE n = name[r]
        <4>1. row'[n] = r
          BY <2>1, <3>1
        <4>2. file[n] = Written(r)
          BY <2>1, <2>2, <3>1
        <4>3. Written(r).recipe = r
          OBVIOUS
        <4>4. QED
          BY <4>1, <4>2, <4>3
      <3>2. CASE n # name[r]
        BY <2>1, <2>2, <3>2
      <3>3. QED
        BY <3>1, <3>2
    <2>3. QED
      BY <2>1, <2>2
  <1>8. CASE Refresh(r)
    BY <1>8 DEF Refresh
  <1>9. CASE DeleteRow(r)
    BY <1>9 DEF DeleteRow
  <1>10. CASE Unlink(r)
    BY <1>10 DEF Unlink
  <1>11. CASE CommitDelete(r)
    BY <1>11 DEF CommitDelete
  <1>12. CASE Fails(r)
    BY <1>12 DEF Fails, Rollback, InProgress
  <1>13. QED
    BY <1>1, <1>2, <1>3, <1>4, <1>5, <1>6, <1>7, <1>8, <1>9, <1>10, <1>11, <1>12 DEF Step

\* A crash frees every key, ends every handler and leaves the files alone.
LEMMA CrashKeepsInv ==
    ASSUME RecipeInv, Crash
    PROVE  RecipeInv'
  <1> USE DEF RecipeInv, Crash, Rollback, NoFileChange, InProgress, Ends
  <1>1. TypeOK'
    <2>1. crashes' \in 0..MaxCrashes
      BY CrashesAreNat DEF TypeOK
    <2>2. writer' \in [Names -> Requests \cup {Nothing}]
      BY DEF TypeOK
    <2>3. at' \in [Requests -> {"new", "check", "delete"} \cup CreateSteps \cup DeleteSteps \cup Ends]
      BY DEF TypeOK
    <2>4. QED
      BY <2>1, <2>2, <2>3 DEF TypeOK
  <1>2. CreatorsHoldKey' /\ FilesInProgress'
    BY DEF TypeOK, CreatorsHoldKey, FilesInProgress, Creating
  <1>3. FilesAreWhole' /\ FilesMatchRows'
    BY DEF FilesAreWhole, FilesMatchRows
  <1>4. QED
    BY <1>1, <1>2, <1>3

LEMMA RecipeInvHolds == Spec => []RecipeInv
  <1>1. ASSUME RecipeInv, NEW r \in Requests, Arrive(r) \/ Step(r) \/ Fails(r)
        PROVE  RecipeInv'
    BY <1>1, StepsAreTyped, KeysAreKept, FilesAreKept, WholeFilesAreKept, MatchesAreKept
    DEF RecipeInv
  <1>2. ASSUME RecipeInv, UNCHANGED vars PROVE RecipeInv'
    BY <1>2 DEF RecipeInv, vars, TypeOK, CreatorsHoldKey, FilesInProgress,
                FilesAreWhole, FilesMatchRows, Creating
  <1>3. RecipeInv /\ [Next]_vars => RecipeInv'
    BY <1>1, <1>2, CrashKeepsInv DEF Next
  <1>4. QED
    BY <1>3, InitRecipeInv, PTL DEF Spec

-----------------------------------------------------------------------------
\* Every variable of the recipe store keeps its type.
THEOREM RecipeTypes == Spec => []TypeOK
  <1>1. RecipeInv => TypeOK
    BY DEF RecipeInv
  <1>2. QED
    BY <1>1, RecipeInvHolds, PTL

\* The robot never reads a half-written recipe.
THEOREM NoHalfWrittenRecipe == Spec => []FilesAreWhole
  <1>1. RecipeInv => FilesAreWhole
    BY DEF RecipeInv
  <1>2. QED
    BY <1>1, RecipeInvHolds, PTL

\* A row's file, if it is there, is the row's recipe.
THEOREM NoForeignRecipe == Spec => []FilesMatchRows
  <1>1. RecipeInv => FilesMatchRows
    BY DEF RecipeInv
  <1>2. QED
    BY <1>1, RecipeInvHolds, PTL

\* A deletion that removes a row leaves no file of that name.
THEOREM NoFileSurvivesItsRow == Spec => DeletionsAreComplete
  <1> DEFINE Complete ==
        \A n \in Names : row[n] # Nothing /\ row'[n] = Nothing => file'[n] = Nothing
  <1>1. RecipeInv /\ [Next]_vars => [Complete]_vars
    <2> SUFFICES ASSUME RecipeInv, Next, NEW n \in Names,
                        row[n] # Nothing, row'[n] = Nothing
                 PROVE  file'[n] = Nothing
      OBVIOUS
    <2>1. ASSUME NEW r \in Requests, CommitDelete(r) PROVE file'[n] = Nothing
      BY <2>1 DEF CommitDelete, RecipeInv, TypeOK, FilesInProgress, Goes, NoRowChange,
                  NoFileChange
    <2>2. ASSUME NEW r \in Requests, CommitRow(r) PROVE FALSE
      BY <2>2, NothingIsNoRequest DEF CommitRow, RecipeInv, TypeOK
    <2>3. QED
      BY <2>1, <2>2
      DEF Next, Step, Arrive, CheckName, InsertRow, OpenTmp, WriteTmp, ReplaceFile,
          Refresh, DeleteRow, Unlink, Fails, Crash, NoRowChange, Others
  <1>2. QED
    BY <1>1, RecipeInvHolds, PTL DEF Spec, DeletionsAreComplete
=============================================================================
