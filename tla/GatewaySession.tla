---------------------------- MODULE GatewaySession ----------------------------
(***************************************************************************)
(* The state shared by the turn dispatcher and the MCP gateway             *)
(* (packages/api/src/mcp_gateway/session.py): who the robot's one agent is *)
(* working for, and the log of the gated calls of the current turn.        *)
(*                                                                         *)
(* The code guards both with a threading lock that is never held across an *)
(* await, so each function below is one atomic effect.  A line of the log  *)
(* says which call was decided and how; the call's own record keeps the    *)
(* verdict, so the log is the set of the calls that have a line in it.     *)
(***************************************************************************)

CONSTANTS
    Accounts,   \* the ActiveUser values, [user, role] records
    NoUser,     \* Python's None
    Calls       \* tool calls, one value per HTTP request to the gateway

ASSUME NoUserIsNoAccount == NoUser \notin Accounts

VARIABLES
    active,     \* _active
    events      \* _events

sessionVars == <<active, events>>

SessionTypeOK ==
    /\ active \in Accounts \cup {NoUser}
    /\ events \in SUBSET Calls

SessionInit ==
    /\ active = NoUser
    /\ events = {}

-----------------------------------------------------------------------------
\* Mutant: a turn starts without clearing the log.
SetActiveOnly(account) ==
    /\ active' = account
    /\ UNCHANGED events

SetActive(account) ==
    /\ active' = account
    /\ events' = {}

ClearActive == active' = NoUser

\* A line goes to whoever is active now, which need not be who was active
\* when the call arrived.
RecordEvent(c) ==
    events' = IF active # NoUser THEN events \cup {c} ELSE events

DrainEvents == events' = {}
=============================================================================
