----------------------------- MODULE AgentGateway -----------------------------
(***************************************************************************)
(* The broker and the robot's agent together: chat turns, recipe           *)
(* invocations, the agent's tool calls and their gate, administrators who  *)
(* change permissions and policies meanwhile, and restarts of the broker.  *)
(*                                                                         *)
(* The agent is dimos, outside this repository.  It takes messages in the  *)
(* order it receives them, works on one at a time for as long as it likes, *)
(* and calls tools through the gateway.  A message that was posted may     *)
(* reach it after the broker gave up on the post.                          *)
(***************************************************************************)
EXTENDS McpGateway

CONSTANTS
    MaxChanges,     \* bound: administrators' changes
    MaxRestarts     \* bound: restarts of the broker

ASSUME BoundsAreNat == MaxChanges \in Nat /\ MaxRestarts \in Nat

VARIABLES
    wire,       \* wire[r]: how far the agent_send message of r got
    inbox,      \* messages the agent has, oldest first
    changes,
    restarts

agentVars == <<wire, inbox>>
boundVars == <<changes, restarts>>
vars == <<sessionVars, dispatcherVars, gatewayVars, agentVars, boundVars>>

TypeOK ==
    /\ SessionTypeOK
    /\ DispatcherTypeOK
    /\ GatewayTypeOK
    /\ wire \in [Requests -> {"none", "posted", "delivered"}]
    /\ inbox \in Seq(Requests)
    /\ changes \in 0..MaxChanges
    /\ restarts \in 0..MaxRestarts

Init ==
    /\ SessionInit
    /\ DispatcherInit
    /\ GatewayInit
    /\ wire = [r \in Requests |-> "none"]
    /\ inbox = <<>>
    /\ changes = 0
    /\ restarts = 0

-----------------------------------------------------------------------------
\* Chat turns.
SendChat(r, account) ==
    /\ Submit(r, account)
    /\ UNCHANGED <<gatewayVars, agentVars, boundVars>>

StartChat(r) ==
    /\ BeginTurn(r)
    /\ wire' = [wire EXCEPT ![r] = "posted"]
    /\ UNCHANGED <<gatewayVars, inbox, boundVars>>

ChatAcked(r) ==
    /\ SendAcked(r)
    /\ wire[r] = "delivered"
    /\ UNCHANGED <<gatewayVars, agentVars, boundVars>>

ChatFailed(r) ==
    /\ SendFailed(r)
    /\ UNCHANGED <<gatewayVars, agentVars, boundVars>>

ChatAnswered(r) ==
    /\ EndTurn(r)
    /\ UNCHANGED <<gatewayVars, agentVars, boundVars>>

ClockTicks ==
    /\ Tick
    /\ UNCHANGED <<gatewayVars, agentVars, boundVars>>

\* Recipe invocations post to the agent without taking a turn.
InvokeRecipe(r) ==
    /\ pc[r] = "new"
    /\ pc' = [pc EXCEPT ![r] = "sending"]
    /\ wire' = [wire EXCEPT ![r] = "posted"]
    /\ UNCHANGED <<caller, queue, holder, age, quiet, reply, inbox>>
    /\ UNCHANGED <<sessionVars, gatewayVars, boundVars>>

RecipeReturns(r) ==
    /\ pc[r] = "sending"
    /\ \/ wire[r] = "delivered" /\ pc' = [pc EXCEPT ![r] = "answered"]
       \/ pc' = [pc EXCEPT ![r] = "failed"]
    /\ UNCHANGED <<caller, queue, holder, age, quiet, reply>>
    /\ UNCHANGED <<sessionVars, gatewayVars, agentVars, boundVars>>

-----------------------------------------------------------------------------
\* The agent, and clients that call the gateway directly.
AgentReceives(r) ==
    /\ wire[r] = "posted"
    /\ wire' = [wire EXCEPT ![r] = "delivered"]
    /\ inbox' = Append(inbox, r)
    /\ UNCHANGED <<sessionVars, dispatcherVars, gatewayVars, boundVars>>

AgentFinishes ==
    /\ inbox # <<>>
    /\ inbox' = Tail(inbox)
    /\ UNCHANGED <<sessionVars, dispatcherVars, gatewayVars, wire, boundVars>>

AgentCalls(c, s) ==
    /\ inbox # <<>>
    /\ ToolCall(c, Head(inbox), s)
    /\ UNCHANGED <<agentVars, boundVars>>

DirectClientCalls(c, s) ==
    /\ ToolCall(c, Direct, s)
    /\ UNCHANGED <<agentVars, boundVars>>

GateStep(c) ==
    /\ CheckRole(c) \/ CheckPolicy(c) \/ GateFails(c)
    /\ UNCHANGED <<agentVars, boundVars>>

\* Not a step of the system: the value of a call that no log and no reply
\* mentions is used for a later call, so that calls never run out.
Forget(c) ==
    /\ call[c].state = "done"
    /\ c \notin events
    /\ \A r \in ChatRequests : c \notin reply[r]
    /\ call' = [call EXCEPT ![c] = Free]
    /\ UNCHANGED <<sessionVars, dispatcherVars, grants, denies, agentVars, boundVars>>

-----------------------------------------------------------------------------
\* Administrators give a role another list of permissions.
ChangePermissions(role, skills) ==
    /\ changes < MaxChanges
    /\ changes' = changes + 1
    /\ grants' = {p \in grants : p[1] # role} \cup ({role} \X skills)
    /\ call' = Witness(grants', denies)
    /\ UNCHANGED <<denies, restarts>>
    /\ UNCHANGED <<sessionVars, dispatcherVars, agentVars>>

\* They create, patch or delete a policy, after which the enabled policies
\* deny another set of pairs: one policy may cover any roles and skills.
ChangePolicies(denied) ==
    /\ changes < MaxChanges
    /\ changes' = changes + 1
    /\ denies' = denied
    /\ call' = Witness(grants, denies')
    /\ UNCHANGED <<grants, restarts>>
    /\ UNCHANGED <<sessionVars, dispatcherVars, agentVars>>

Administer ==
    \/ \E role \in Roles, skills \in SUBSET (Skills \ AlwaysAllowed) :
          ChangePermissions(role, skills)
    \/ \E denied \in SUBSET Pairs : ChangePolicies(denied)

\* The broker restarts: every handler dies, the session's globals are gone,
\* and start-up writes the seed roles again.  What was posted stays posted.
Restart ==
    /\ restarts < MaxRestarts
    /\ restarts' = restarts + 1
    /\ pc' = [r \in Requests |->
                IF pc[r] \in {"queued", "sending", "waiting"} THEN "failed" ELSE pc[r]]
    /\ queue' = <<>>
    /\ holder' = NoRequest
    /\ age' = 0
    /\ quiet' = NeverCalled
    /\ ClearActive
    /\ DrainEvents
    /\ grants' = {p \in grants : p[1] \notin SeedRoles} \cup SeedGrants
    /\ call' = [c \in Calls |->
                  IF call[c].state \in {"role", "policy"}
                  THEN Decided(c, "done", "error")
                  ELSE call[c]]
    /\ UNCHANGED <<caller, reply, denies, agentVars, changes>>

-----------------------------------------------------------------------------
ChatStep(r) ==
    StartChat(r) \/ ChatAcked(r) \/ ChatFailed(r) \/ ChatAnswered(r)

Next ==
    \/ \E r \in ChatRequests : \E a \in Accounts : SendChat(r, a)
    \/ \E r \in ChatRequests : ChatStep(r)
    \/ ClockTicks
    \/ \E r \in RecipeRequests : InvokeRecipe(r) \/ RecipeReturns(r)
    \/ \E r \in Requests : AgentReceives(r)
    \/ AgentFinishes
    \/ \E c \in Calls, s \in Skills : AgentCalls(c, s) \/ DirectClientCalls(c, s)
    \/ \E c \in Calls : GateStep(c) \/ Forget(c)
    \/ Administer
    \/ Restart

Spec == Init /\ [][Next]_vars

\* The event loop wakes the next waiter of a free lock, the adapter's timeout
\* ends a post that gets no answer, the idle poll wakes up again and again,
\* and time passes.  Nothing is assumed of the agent or of any client.
Fairness ==
    /\ WF_vars(\E r \in ChatRequests : StartChat(r))
    /\ WF_vars(\E r \in ChatRequests : ChatAcked(r) \/ ChatFailed(r))
    /\ WF_vars(\E r \in ChatRequests : ChatAnswered(r))
    /\ WF_vars(ClockTicks)

FairSpec == Spec /\ Fairness

-----------------------------------------------------------------------------
\* The active user is the caller of the one request whose turn is on: there
\* is no turn without an active user, no active user without a turn, and no
\* second turn (session.py: the global is single-writer because the
\* dispatcher holds its lock around each turn).
TurnOwnsSession ==
    /\ holder = NoRequest => active = NoUser
    /\ holder # NoRequest =>
         /\ active = caller[holder]
         /\ active # NoUser
         /\ pc[holder] \in {"sending", "waiting"}
    /\ \A r \in ChatRequests : pc[r] \in {"sending", "waiting"} => r = holder

\* A tool call that the agent makes for a chat message while that message's
\* turn is still on is gated as the user who sent the message.
AttributedInTurn ==
    \A c \in Calls :
        call[c].onTime => call[c].gate = caller[call[c].origin]

\* A gated call is forwarded only if, between its arrival and the decision,
\* the role it was attributed to held the permission at some moment and no
\* policy denied it at some moment: a permission revoked, or a policy
\* enabled, before the call arrived is never missed.
ForwardedOnlyIfPermitted ==
    \A c \in Calls :
        call[c].verdict = "allow" => call[c].held = {"granted", "undenied"}

\* No call is reported to two users: its line is in at most one reply, and
\* not in a reply as well as in the log of the turn that is on.
ReportedOnce ==
    /\ \A r1, r2 \in ChatRequests : r1 # r2 => reply[r1] \cap reply[r2] = {}
    /\ holder # NoRequest => \A r \in ChatRequests : reply[r] \cap events = {}

\* A chat request that waits for its turn gets it and is answered or fails,
\* whatever the agent does (dispatcher.py: the hard upper bound prevents a
\* stuck agent from holding the lock forever).
EveryTurnEnds ==
    \A r \in ChatRequests :
        pc[r] = "queued" ~> pc[r] \in {"answered", "failed"}

\* The dispatcher and the session implement first-come first-served turns,
\* each with a log of its own.
Turns == INSTANCE TurnLog WITH
    Turns <- ChatRequests, NoTurn <- NoRequest, Lines <- Calls,
    line <- queue, turn <- holder, answer <- reply,
    log <- IF holder = NoRequest THEN {} ELSE events

TurnsInOrder == Turns!TurnSpec

-----------------------------------------------------------------------------
\* What agents/router.py says: every tools/call is attributed to a specific
\* user.  Stated for the calls the agent makes for a message whose sender was
\* answered, so that no failure is to blame: each is gated as its sender.
EveryCallAttributed ==
    \A c \in Calls :
        /\ call[c].state # "free"
        /\ call[c].origin \in ChatRequests
        /\ pc[call[c].origin] = "answered"
        => call[c].gate = caller[call[c].origin]
=============================================================================
