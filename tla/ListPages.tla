------------------------------- MODULE ListPages -------------------------------
(***************************************************************************)
(* The pages that list what the broker has and change single rows: people  *)
(* (components/users-list.tsx), learned skills (components/recipe-list.tsx),*)
(* policies (app/policies/page.tsx) and roles with the skill catalogue     *)
(* (app/roles/page.tsx).                                                   *)
(*                                                                         *)
(* A row is there with its attribute on or off: a face enrolled, a recipe  *)
(* live, a policy enabled, a role with full access; or it is absent.       *)
(* Reads are answered in any order, and nothing cancels an older one.      *)
(***************************************************************************)
EXTENDS Page, Sequences

CONSTANTS
    Rows,
    Reads,      \* bound: reloads in flight, numbered
    MaxOps      \* bound: buttons that are used

VARIABLES
    rows,       \* the broker's rows
    tools,      \* the broker's catalogue
    shown,      \* shown.rows and shown.tools: what the page has read, or None
    listError,  \* the list was not read
    slot,       \* deleting, invoking or busy: the row whose buttons are disabled
    syncing,    \* the button "Sync from MCP" is disabled
    reads,      \* reads[p][s]: the read of part p in flight of reload s, or None
    ops,        \* the operations of the page so far
    since,      \* history: the values since the last success of an operation
    overlapped  \* history: the parts whose last read was sent while one was on

brokerVars == <<rows, tools>>
readVars == <<shown, listError, reads, overlapped>>
listVars == <<brokerVars, readVars, slot, syncing, ops, since>>

Lists == {"/", "/skills", "/policies", "/roles"}
Polled == {"/", "/skills"}      \* read again every 10 and every 5 seconds
Values == {"absent", "off", "on"}
Catalogues == {"empty", "some"}

AllParts == {"rows", "tools"}
Parts == IF open = "/roles" THEN AllParts ELSE {"rows"}
Stored(part) == IF part = "rows" THEN rows ELSE tools
DataOf(part) == IF part = "rows" THEN [Rows -> Values] ELSE Catalogues

\* A read on its way, and its answer: no data if it failed.
Read == [step : {"sent", "back"}, data : [Rows -> Values] \cup Catalogues \cup {None}]

ASSUME ListConstants ==
    /\ None \notin Rows \cup Read
    /\ Reads \subseteq Nat /\ 1 \in Reads
    /\ MaxOps \in Nat

InFlight(part, rs) == {s \in Reads : rs[part][s] # None}

Over == [row |-> None, what |-> "sync", step |-> "over", lone |-> FALSE]

Ops == [row : Rows \cup {None}, what : {"delete", "on", "off", "invoke", "sync"},
        step : {"sent", "ok", "failed", "over"}, lone : BOOLEAN]

ListTypeOK ==
    /\ rows \in [Rows -> Values] /\ tools \in Catalogues
    /\ shown.rows \in [Rows -> Values] \cup {None}
    /\ shown.tools \in Catalogues \cup {None}
    /\ listError \in BOOLEAN /\ slot \in Rows \cup {None} /\ syncing \in BOOLEAN
    /\ ops \in Seq(Ops) /\ Len(ops) <= MaxOps
    /\ DOMAIN reads = AllParts
    /\ \A p \in AllParts : reads[p] \in
         [Reads -> {None} \cup [step : {"sent", "back"}, data : DataOf(p) \cup {None}]]
    /\ since.rows \in [Rows -> SUBSET Values] /\ since.tools \subseteq Catalogues
    /\ overlapped \subseteq AllParts

NoReads == [p \in AllParts |-> [s \in Reads |-> None]]
Now == [rows |-> [r \in Rows |-> {rows[r]}], tools |-> {tools}]
Sent == [step |-> "sent", data |-> None]

\* reload: the list and, on the page of roles, the catalogue.  The first number
\* that is free is used.
Free(s, rs) == \A p \in Parts : rs[p][s] = None
Reloaded(s, rs) ==
    [p \in AllParts |-> IF p \in Parts THEN [rs[p] EXCEPT ![s] = Sent] ELSE rs[p]]

Reload ==
    /\ \E s \in Reads :
         /\ Free(s, reads) /\ \A t \in Reads : t < s => ~Free(t, reads)
         /\ reads' = Reloaded(s, reads)
    /\ overlapped' = {p \in Parts : InFlight(p, reads) # {}}

\* The page is shown for the first time, and reads.
ListInit ==
    /\ rows = [r \in Rows |-> "on"] /\ tools = "some"
    /\ shown = [rows |-> None, tools |-> None]
    /\ listError = FALSE /\ slot = None /\ syncing = FALSE
    /\ reads = IF open \in Lists THEN Reloaded(1, NoReads) ELSE NoReads
    /\ ops = <<>>
    /\ since = Now
    /\ overlapped = {}

-----------------------------------------------------------------------------
\* Reading.

\* Mutant: the list is only read when there is none.
PollOnce ==
    /\ open \in Polled /\ shown.rows = None
    /\ Reload
    /\ UNCHANGED <<pageVars, brokerVars, shown, listError, slot, syncing, ops, since>>

\* setInterval; the bound of reads in flight holds it up.
Poll ==
    /\ open \in Polled
    /\ Reload
    /\ UNCHANGED <<pageVars, brokerVars, shown, listError, slot, syncing, ops, since>>

ServeRead(p, s) ==
    /\ reads[p][s] # None /\ reads[p][s].step = "sent"
    /\ \/ /\ reads' = [reads EXCEPT ![p][s] = [step |-> "back", data |-> Stored(p)]]
          /\ UNCHANGED pageVars
       \/ /\ reads' = [reads EXCEPT ![p][s] = [step |-> "back", data |-> None]]
          /\ Fault
    /\ UNCHANGED <<brokerVars, shown, listError, slot, syncing, ops, since, overlapped>>

\* A list that cannot be read is shown as empty, with the error; a catalogue
\* that cannot be read is not shown.
Empty == [r \in Rows |-> "absent"]

ReadAnswered(p, s) ==
    /\ reads[p][s] # None /\ reads[p][s].step = "back"
    /\ LET data == reads[p][s].data
       IN IF p = "tools"
          THEN shown' = [shown EXCEPT !.tools = data] /\ UNCHANGED listError
          ELSE /\ shown' = [shown EXCEPT !.rows = IF data = None THEN Empty ELSE data]
               /\ listError' = (data = None)
    /\ reads' = [reads EXCEPT ![p][s] = None]
    /\ UNCHANGED <<pageVars, brokerVars, slot, syncing, ops, since, overlapped>>

-----------------------------------------------------------------------------
\* Changing.
Busy(o) == ops[o] # Over

Start(row_, what_) ==
    /\ Len(ops) < MaxOps
    /\ ops' = Append([o \in DOMAIN ops |-> [ops[o] EXCEPT !.lone = FALSE]],
                     [row |-> row_, what |-> what_, step |-> "sent",
                      lone |-> \A o \in DOMAIN ops : ~Busy(o)])

\* The handlers, of a row that is shown and whose buttons are enabled.
Click(path, r, what) ==
    /\ open = path
    /\ shown.rows # None /\ shown.rows[r] # "absent" /\ slot # r
    /\ Start(r, what)
    /\ slot' = r
    /\ UNCHANGED <<pageVars, brokerVars, readVars, syncing, since>>

DeleteUser(r) == Click("/", r, "delete")
InvokeRecipe(r) == Click("/skills", r, "invoke")
TogglePolicy(r) ==
    /\ shown.rows # None
    /\ Click("/policies", r, IF shown.rows[r] = "on" THEN "off" ELSE "on")
DeletePolicy(r) == Click("/policies", r, "delete")
DeleteRole(r) == Click("/roles", r, "delete")

ClickSync ==
    /\ open = "/roles" /\ ~syncing
    /\ Start(None, "sync")
    /\ syncing' = TRUE
    /\ UNCHANGED <<pageVars, brokerVars, readVars, slot, since>>

RowsBecome(new) ==
    /\ rows' = new
    /\ since' = [since EXCEPT !.rows = [x \in Rows |-> since.rows[x] \cup {new[x]}]]

ToolsBecome(new) ==
    /\ tools' = new
    /\ since' = [since EXCEPT !.tools = since.tools \cup {new}]

\* The broker does it; a sync keeps the catalogue, fills it or, when no tool that
\* the robot lists has a usable name, empties it.
Perform(op) ==
    CASE op.what = "sync" ->
           /\ \E c \in Catalogues : ToolsBecome(c)
           /\ UNCHANGED rows
      [] op.what = "invoke" -> UNCHANGED <<brokerVars, since>>
      [] op.what \in {"delete", "on", "off"} ->
           /\ RowsBecome([rows EXCEPT ![op.row] =
                            IF op.what = "delete" THEN "absent" ELSE op.what])
           /\ UNCHANGED tools

\* A row that is gone is not found.  A role that people hold is not deleted, and
\* there is no sync without the robot.
Refusable == open = "/roles"
Found(op) == op.row # None => rows[op.row] # "absent"

ServeOp(o) ==
    /\ ops[o].step = "sent"
    /\ \/ /\ Found(ops[o]) /\ Perform(ops[o])
          /\ \/ ops' = [ops EXCEPT ![o].step = "ok"] /\ UNCHANGED pageVars
             \/ ops' = [ops EXCEPT ![o].step = "failed"] /\ Fault
       \/ /\ ops' = [ops EXCEPT ![o].step = "failed"]
          /\ IF Found(ops[o]) /\ ~Refusable THEN Fault ELSE UNCHANGED pageVars
          /\ UNCHANGED <<brokerVars, since>>
    /\ UNCHANGED <<readVars, slot, syncing>>

\* Mutant: what a failure leaves disabled stays so.
StillBusy(o) == IF ops[o].step = "ok" THEN None ELSE slot

\* finally: whichever row the slot names by now.
Released(o) == None

\* Mutant: the list is not read again.
NoReload(o) ==
    /\ since' = IF ops[o].what = "invoke" THEN since ELSE Now
    /\ UNCHANGED <<reads, overlapped>>

\* A success is followed by a reload, but for an invocation.
Refresh(o) ==
    IF ops[o].what = "invoke" THEN UNCHANGED <<since, reads, overlapped>>
    ELSE Reload /\ since' = Now

OpAnswered(o) ==
    /\ ops[o].step \in {"ok", "failed"}
    /\ IF ops[o].step = "ok" THEN Refresh(o) ELSE UNCHANGED <<since, reads, overlapped>>
    /\ IF ops[o].what = "sync" THEN syncing' = FALSE /\ UNCHANGED slot
       ELSE slot' = Released(o) /\ UNCHANGED syncing
    /\ ops' = [ops EXCEPT ![o] = Over]
    /\ UNCHANGED <<pageVars, brokerVars, shown, listError>>

\* Somebody else changes a row or syncs the catalogue.
RowsChange ==
    /\ open \in Lists /\ Elsewhere
    /\ \/ \E r \in Rows : \E v \in Values \ {rows[r]} :
            RowsBecome([rows EXCEPT ![r] = v]) /\ UNCHANGED tools
       \/ \E c \in Catalogues \ {tools} : ToolsBecome(c) /\ UNCHANGED rows
    /\ UNCHANGED <<readVars, slot, syncing, ops>>

ListNext ==
    \/ Poll \/ ClickSync \/ RowsChange
    \/ \E p \in AllParts, s \in Reads : ServeRead(p, s) \/ ReadAnswered(p, s)
    \/ \E r \in Rows :
         DeleteUser(r) \/ InvokeRecipe(r) \/ TogglePolicy(r) \/ DeletePolicy(r) \/ DeleteRole(r)
    \/ \E o \in DOMAIN ops : ServeOp(o) \/ OpAnswered(o)

-----------------------------------------------------------------------------
\* Once no read is on, a list that was read without another read in between
\* shows each row as it was at the page's last success or later: a row that
\* was deleted here does not come back (users-list.tsx, reload).
ListIsFresh ==
    \A p \in Parts :
        open \in Lists /\ InFlight(p, reads) = {} /\ p \notin overlapped /\ ~listError =>
            IF p = "tools" THEN shown.tools # None => shown.tools \in since.tools
            ELSE \A x \in Rows : shown.rows[x] \in since.rows[x]

\* A button that says "Deleting..." waits for its own request, and a request
\* that nobody interfered with disables its row: nothing is deleted twice by
\* a double click.
ButtonsTellTheTruth ==
    \A r \in Rows :
        /\ slot = r => \E o \in DOMAIN ops : ops[o].row = r /\ Busy(o)
        /\ \A o \in DOMAIN ops : ops[o].row = r /\ ops[o].lone /\ Busy(o) => slot = r

\* A polled list ends up showing what the broker has, whatever was lost or
\* answered late, once nobody changes it any more.
ListsCatchUp ==
    open \in Polled => <>[](~listError /\ shown.rows = rows)
=============================================================================
