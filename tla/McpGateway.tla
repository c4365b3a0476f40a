------------------------------ MODULE McpGateway ------------------------------
(***************************************************************************)
(* The MCP gateway (packages/api/src/mcp_gateway/router.py): every tool    *)
(* call of the robot's agent is an HTTP request here, gated against the    *)
(* role of the active user and then forwarded to the robot.                *)
(*                                                                         *)
(* A handler is cut at its awaits, the two database reads, and remembers   *)
(* the user it found active on arrival.  Only tools/call requests with an  *)
(* id are modelled: the others are passed through and touch nothing.      *)
(***************************************************************************)
EXTENDS TurnDispatcher

CONSTANTS
    Skills,
    AlwaysAllowed,  \* ALWAYS_ALLOWED: skills the gate lets through
    SeedRoles,      \* the roles that start-up writes, over what they were
    SeedGrants,     \* and the pairs it gives them
    Direct          \* the origin of a call of a client that is not the agent

ASSUME SkillsExist == Skills # {} /\ AlwaysAllowed \subseteq Skills
ASSUME DirectIsNoRequest == Direct \notin Requests \cup {NoRequest}

VARIABLES
    grants,     \* the role-skill pairs that role_allows_skill accepts
    denies,     \* the role-skill pairs that some enabled policy denies
    call        \* call[c]: the handler of tool call c

gatewayVars == <<grants, denies, call>>

Roles == {account.role : account \in Accounts}

\* The pairs that the database decides about.
Pairs == Roles \X (Skills \ AlwaysAllowed)

ASSUME SeedGrantsArePairs ==
    /\ SeedGrants \subseteq Pairs
    /\ SeedRoles \subseteq Roles

Origins == Requests \cup {Direct}

CallStates == {"free", "role", "policy", "done"}
\* "pass", "always" and "allow" are forwarded to the robot; its answer, or the
\* error of the forward, goes back to the caller and changes nothing here.
Verdicts == {"none", "pass", "always", "allow", "rbac", "policy", "error"}

\* origin: the request whose message made the agent call, as only the agent
\* knows.  gate: the local variable `active`.  turn, onTime and held are
\* history: the turn on at the arrival, whether it was the origin's own, and
\* what was true of the call's pair at some moment since.
CallRecords ==
    [state: CallStates, verdict: Verdicts, skill: Skills, origin: Origins,
     gate: Accounts \cup {NoUser}, turn: ChatRequests \cup {NoRequest},
     onTime: BOOLEAN, held: SUBSET {"granted", "undenied"}]

GatewayTypeOK ==
    /\ grants \in SUBSET Pairs
    /\ denies \in SUBSET Pairs
    /\ call \in [Calls -> CallRecords]

Free == [state |-> "free", verdict |-> "none",
         skill |-> CHOOSE s \in Skills : TRUE, origin |-> Direct,
         gate |-> NoUser, turn |-> NoRequest, onTime |-> FALSE, held |-> {}]

\* A database as the first start leaves it: the seed roles, no policy.
GatewayInit ==
    /\ grants = SeedGrants
    /\ denies = {}
    /\ call = [c \in Calls |-> Free]

-----------------------------------------------------------------------------
PairOf(c) == <<call[c].gate.role, call[c].skill>>

Holding(pair, granted, denied) ==
    {fact \in {"granted", "undenied"} :
        \/ fact = "granted" /\ pair \in granted
        \/ fact = "undenied" /\ pair \notin denied}

\* The database changes under the handlers that are reading it.
Witness(granted, denied) ==
    [c \in Calls |->
        IF call[c].state \in {"role", "policy"}
        THEN [call[c] EXCEPT !.held = @ \cup Holding(PairOf(c), granted, denied)]
        ELSE call[c]]

Arrival(s, o, state, verdict) ==
    [state |-> state, verdict |-> verdict, skill |-> s, origin |-> o,
     gate |-> active, turn |-> holder,
     onTime |-> o \in ChatRequests /\ pc[o] \in {"sending", "waiting"},
     held |-> IF state = "role"
              THEN Holding(<<active.role, s>>, grants, denies)
              ELSE {}]

\* Every tools/call, whatever becomes of it, restarts the idle clock.
Arrive(c) ==
    /\ call[c].state = "free"
    /\ MarkGatewayActivity
    /\ UNCHANGED <<pc, caller, queue, holder, age, reply>>
    /\ UNCHANGED <<grants, denies, active>>

\* No turn is on: the call is forwarded without a check.
PassThrough(c, o, s) ==
    /\ Arrive(c)
    /\ active = NoUser
    /\ call' = [call EXCEPT ![c] = Arrival(s, o, "done", "pass")]
    /\ UNCHANGED events

LetAlwaysAllowed(c, o, s) ==
    /\ Arrive(c)
    /\ active # NoUser
    /\ s \in AlwaysAllowed
    /\ call' = [call EXCEPT ![c] = Arrival(s, o, "done", "always")]
    /\ RecordEvent(c)

StartGate(c, o, s) ==
    /\ Arrive(c)
    /\ active # NoUser
    /\ s \notin AlwaysAllowed
    /\ call' = [call EXCEPT ![c] = Arrival(s, o, "role", "none")]
    /\ UNCHANGED events

ToolCall(c, o, s) ==
    PassThrough(c, o, s) \/ LetAlwaysAllowed(c, o, s) \/ StartGate(c, o, s)

-----------------------------------------------------------------------------
Decided(c, state, verdict) ==
    [call[c] EXCEPT !.state = state, !.verdict = verdict]

Decide(c, state, verdict) ==
    call' = [call EXCEPT ![c] = Decided(c, state, verdict)]

\* Mutant: the role is that of the user active now.
CheckRoleOfActive(c) ==
    /\ call[c].state = "role"
    /\ IF active # NoUser /\ <<active.role, call[c].skill>> \in grants
       THEN Decide(c, "policy", "none") /\ UNCHANGED events
       ELSE Decide(c, "done", "rbac") /\ RecordEvent(c)
    /\ UNCHANGED <<grants, denies, active>>
    /\ UNCHANGED dispatcherVars

\* Mutant: a call that passes the role check is logged there too.
CheckRoleLogsPass(c) ==
    /\ call[c].state = "role"
    /\ IF PairOf(c) \in grants
       THEN Decide(c, "policy", "none")
       ELSE Decide(c, "done", "rbac")
    /\ RecordEvent(c)
    /\ UNCHANGED <<grants, denies, active>>
    /\ UNCHANGED dispatcherVars

\* _get_role_permissions returned.
CheckRole(c) ==
    /\ call[c].state = "role"
    /\ IF PairOf(c) \in grants
       THEN Decide(c, "policy", "none") /\ UNCHANGED events
       ELSE Decide(c, "done", "rbac") /\ RecordEvent(c)
    /\ UNCHANGED <<grants, denies, active>>
    /\ UNCHANGED dispatcherVars

\* policies_service.evaluate returned, for an empty set of signals.
CheckPolicy(c) ==
    /\ call[c].state = "policy"
    /\ IF PairOf(c) \notin denies
       THEN Decide(c, "done", "allow")
       ELSE Decide(c, "done", "policy")
    /\ RecordEvent(c)
    /\ UNCHANGED <<grants, denies, active>>
    /\ UNCHANGED dispatcherVars

\* A database read raised: the agent gets a 500 and nothing is forwarded.
GateFails(c) ==
    /\ call[c].state \in {"role", "policy"}
    /\ Decide(c, "done", "error")
    /\ UNCHANGED <<grants, denies>>
    /\ UNCHANGED sessionVars
    /\ UNCHANGED dispatcherVars
=============================================================================
