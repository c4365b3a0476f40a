------------------------------ MODULE RecipeStore ------------------------------
(***************************************************************************)
(* Recipes live in two places: a Postgres row and a JSON file on a volume  *)
(* that the robot reads (packages/api/src/recipes/service.py, storage.py,  *)
(* router.py).  A create and a delete touch both, one await at a time, and *)
(* either may fail or die with the broker in between.                      *)
(*                                                                         *)
(* The database runs at READ COMMITTED: a reader sees committed rows, an   *)
(* INSERT or a DELETE waits for the transaction that already inserts or    *)
(* deletes the same primary key, and a DELETE does not see a row that is   *)
(* not committed.  A recipe's content is identified with the request that  *)
(* brought it.                                                             *)
(***************************************************************************)
EXTENDS Naturals

CONSTANTS
    Requests,       \* POST /recipes and DELETE /recipes/{name} requests
    Names,          \* recipe names
    Nothing,        \* no row, no file, no transaction
    MaxCrashes      \* bound: crashes of the broker

ASSUME NothingIsNoRequest == Nothing \notin Requests
ASSUME CrashesAreNat == MaxCrashes \in Nat

VARIABLES
    at,         \* at[r]: where the handler of r is
    name,       \* name[r]: the recipe it is about
    row,        \* row[n]: the committed row's recipe
    writer,     \* writer[n]: the transaction that inserted or deleted row n
    tmp,        \* tmp[n]: what <name>.json.tmp holds
    file,       \* file[n]: what <name>.json holds
    crashes

vars == <<at, name, row, writer, tmp, file, crashes>>

\* Whole is FALSE while the content is still being written.
Contents == [recipe : Requests, whole : BOOLEAN] \cup {Nothing}

CreateSteps == {"insert", "open", "write", "replace", "commit", "refresh"}
DeleteSteps == {"unlink", "commit delete", "commit no delete"}
Ends == {"201", "409", "204", "404", "500", "dead"}

TypeOK ==
    /\ at \in [Requests -> {"new", "check", "delete"} \cup CreateSteps \cup DeleteSteps \cup Ends]
    /\ name \in [Requests -> Names]
    /\ row \in [Names -> Requests \cup {Nothing}]
    /\ writer \in [Names -> Requests \cup {Nothing}]
    /\ tmp \in [Names -> Contents]
    /\ file \in [Names -> Contents]
    /\ crashes \in 0..MaxCrashes

Init ==
    /\ at = [r \in Requests |-> "new"]
    /\ name \in [Requests -> Names]
    /\ row = [n \in Names |-> Nothing]
    /\ writer = [n \in Names |-> Nothing]
    /\ tmp = [n \in Names |-> Nothing]
    /\ file = [n \in Names |-> Nothing]
    /\ crashes = 0

-----------------------------------------------------------------------------
Goes(r, from, to) ==
    /\ at[r] = from
    /\ at' = [at EXCEPT ![r] = to]

NoRowChange == UNCHANGED <<row, writer>>
NoFileChange == UNCHANGED <<tmp, file>>
Others == UNCHANGED <<name, crashes>>

Arrive(r) ==
    /\ Goes(r, "new", "check") \/ Goes(r, "new", "delete")
    /\ NoRowChange /\ NoFileChange /\ Others

\* The SELECT for an existing recipe of the name.
CheckName(r) ==
    /\ IF row[name[r]] = Nothing
       THEN Goes(r, "check", "insert")
       ELSE Goes(r, "check", "409")
    /\ NoRowChange /\ NoFileChange /\ Others

\* Mutant: the row is added without a flush, so the INSERT goes with COMMIT.
InsertRowUnflushed(r) ==
    /\ Goes(r, "insert", "open")
    /\ NoRowChange /\ NoFileChange /\ Others

\* session.flush() sends the INSERT.  It waits for a transaction that holds
\* the key; a row committed meanwhile is an IntegrityError nobody catches.
InsertRow(r) ==
    /\ writer[name[r]] = Nothing
    /\ IF row[name[r]] = Nothing
       THEN /\ Goes(r, "insert", "open")
            /\ writer' = [writer EXCEPT ![name[r]] = r]
       ELSE /\ Goes(r, "insert", "500")
            /\ UNCHANGED writer
    /\ UNCHANGED row /\ NoFileChange /\ Others

\* write_recipe: open the temporary file, which truncates it, ...
OpenTmp(r) ==
    /\ Goes(r, "open", "write")
    /\ tmp' = [tmp EXCEPT ![name[r]] = [recipe |-> r, whole |-> FALSE]]
    /\ UNCHANGED file /\ NoRowChange /\ Others

\* Mutant: the content is read back from the database, before the commit.
WriteTmpOfCommittedRow(r) ==
    /\ Goes(r, "write", "replace")
    /\ tmp' = [tmp EXCEPT ![name[r]] = [recipe |-> row[name[r]], whole |-> TRUE]]
    /\ UNCHANGED file /\ NoRowChange /\ Others

\* ... write and close it, ...
WriteTmp(r) ==
    /\ Goes(r, "write", "replace")
    /\ tmp' = [tmp EXCEPT ![name[r]] = [recipe |-> r, whole |-> TRUE]]
    /\ UNCHANGED file /\ NoRowChange /\ Others

\* ... and rename it over the recipe's file.
ReplaceFile(r) ==
    /\ Goes(r, "replace", "commit")
    /\ file' = [file EXCEPT ![name[r]] = tmp[name[r]]]
    /\ tmp' = [tmp EXCEPT ![name[r]] = Nothing]
    /\ NoRowChange /\ Others

CommitRow(r) ==
    /\ Goes(r, "commit", "refresh")
    /\ row' = [row EXCEPT ![name[r]] = r]
    /\ writer' = [writer EXCEPT ![name[r]] = Nothing]
    /\ NoFileChange /\ Others

\* session.refresh reads the row again and raises if it is gone.
Refresh(r) ==
    /\ IF row[name[r]] # Nothing
       THEN Goes(r, "refresh", "201")
       ELSE Goes(r, "refresh", "500")
    /\ NoRowChange /\ NoFileChange /\ Others

-----------------------------------------------------------------------------
\* DELETE FROM recipes: it waits for another deletion of the row, and finds
\* nothing, without waiting, while the row is only being created.
DeleteRow(r) ==
    /\ at[r] = "delete"
    /\ \/ /\ row[name[r]] # Nothing
          /\ writer[name[r]] = Nothing
          /\ writer' = [writer EXCEPT ![name[r]] = r]
       \/ /\ row[name[r]] = Nothing
          /\ UNCHANGED writer
    /\ at' = [at EXCEPT ![r] = "unlink"]
    /\ UNCHANGED row /\ NoFileChange /\ Others

\* storage.delete_recipe unlinks the file, whoever it belongs to by now.
Unlink(r) ==
    /\ at[r] = "unlink"
    /\ at' = [at EXCEPT ![r] =
                IF writer[name[r]] = r \/ file[name[r]] # Nothing
                THEN "commit delete" ELSE "commit no delete"]
    /\ file' = [file EXCEPT ![name[r]] = Nothing]
    /\ UNCHANGED tmp /\ NoRowChange /\ Others

CommitDelete(r) ==
    /\ Goes(r, "commit delete", "204") \/ Goes(r, "commit no delete", "404")
    /\ IF writer[name[r]] = r
       THEN /\ row' = [row EXCEPT ![name[r]] = Nothing]
            /\ writer' = [writer EXCEPT ![name[r]] = Nothing]
       ELSE NoRowChange
    /\ NoFileChange /\ Others

-----------------------------------------------------------------------------
\* What a failed handler leaves: its transaction is rolled back, the files
\* are as they are.
Rollback(dead) ==
    writer' = [n \in Names |-> IF writer[n] \in dead THEN Nothing ELSE writer[n]]

InProgress(r) == at[r] \notin {"new"} \cup Ends

\* Mutant: a failed handler's transaction stays open.
FailsHoldingRow(r) ==
    /\ InProgress(r)
    /\ at' = [at EXCEPT ![r] = "500"]
    /\ NoRowChange /\ NoFileChange /\ Others

\* The database or the file system refuses what the handler asks next: the
\* exception leaves it, the session is closed and the caller gets a 500.
Fails(r) ==
    /\ InProgress(r)
    /\ at' = [at EXCEPT ![r] = "500"]
    /\ Rollback({r})
    /\ UNCHANGED row /\ NoFileChange /\ Others

\* The broker dies: its transactions are rolled back.
Crash ==
    /\ crashes < MaxCrashes
    /\ crashes' = crashes + 1
    /\ at' = [r \in Requests |-> IF InProgress(r) THEN "dead" ELSE at[r]]
    /\ Rollback(Requests)
    /\ UNCHANGED <<name, row>> /\ NoFileChange

Step(r) ==
    \/ CheckName(r) \/ InsertRow(r) \/ OpenTmp(r) \/ WriteTmp(r) \/ ReplaceFile(r)
    \/ CommitRow(r) \/ Refresh(r)
    \/ DeleteRow(r) \/ Unlink(r) \/ CommitDelete(r)

Next ==
    \/ \E r \in Requests : Arrive(r) \/ Step(r) \/ Fails(r)
    \/ Crash

Spec == Init /\ [][Next]_vars

\* Without a failure or a crash.
FaultFreeSpec == Init /\ [][\E r \in Requests : Arrive(r) \/ Step(r)]_vars

\* The event loop, the database and the file system answer in the end.
FairSpec == Spec /\ \A r \in Requests : WF_vars(Step(r))

-----------------------------------------------------------------------------
\* The robot never reads a half-written recipe: what a rename puts in place
\* is whole, although all writers of a name share one temporary file
\* (storage.py: it would poison the robot's cache).
FilesAreWhole ==
    \A n \in Names : file[n] # Nothing => file[n].whole

\* The file of a row, if it is there, is that row's recipe and not one that
\* a losing or failed creation of the same name left.
FilesMatchRows ==
    \A n \in Names :
        row[n] # Nothing /\ file[n] # Nothing => file[n].recipe = row[n]

\* A deletion that removed a row leaves no file of that name, whoever was
\* creating or deleting it at the same time.
DeletionsAreComplete ==
    [][\A n \in Names :
          row[n] # Nothing /\ row'[n] = Nothing => file'[n] = Nothing]_vars

\* Every request gets an answer: no transaction waits for ever for another.
RequestsEnd ==
    \A r \in Requests : InProgress(r) ~> ~InProgress(r)

\* What service.py says of create_recipe: the row and the file are written
\* atomically.  So with nobody at work on it, a recipe has both or neither.
RowAndFileTogether ==
    \A n \in Names :
        (\A r \in Requests : name[r] = n => ~InProgress(r)) =>
            (row[n] # Nothing <=> file[n] # Nothing)
=============================================================================
