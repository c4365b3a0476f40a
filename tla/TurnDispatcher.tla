---------------------------- MODULE TurnDispatcher ----------------------------
(***************************************************************************)
(* The chat turn dispatcher (packages/api/src/agents/dispatcher.py) and    *)
(* its caller, POST /agents/send (packages/api/src/agents/router.py).      *)
(*                                                                         *)
(* Every request takes one global asyncio lock, which serves its waiters   *)
(* first come first served, and holds it until the agent seems idle.  The  *)
(* code is cut where it awaits: the lock, the agent_send call, the sleep   *)
(* of the idle poll.                                                       *)
(*                                                                         *)
(* Time is counted in ticks of any length.  The dispatcher compares two    *)
(* durations with its tunables, the age of the turn and the silence since  *)
(* the last tools/call; both stop counting where no comparison can tell    *)
(* further values apart.                                                   *)
(***************************************************************************)
EXTENDS GatewaySession, Integers, Sequences

CONSTANTS
    ChatRequests,    \* POST /agents/send requests
    RecipeRequests,  \* POST /recipes/{name}/invoke requests
    NoRequest,
    TurnMax,         \* _TURN_MAX_SECONDS, in ticks
    IdleWindow,      \* _IDLE_WINDOW, in ticks
    InitialGrace     \* _INITIAL_GRACE, in ticks

Requests == ChatRequests \cup RecipeRequests

ASSUME TimesAreTicks ==
    /\ TurnMax \in Nat
    /\ IdleWindow \in Nat
    /\ InitialGrace \in Nat

ASSUME RequestsAreDistinct ==
    /\ ChatRequests \cap RecipeRequests = {}
    /\ NoRequest \notin Requests

VARIABLES
    pc,       \* pc[r]: where the handler of request r is
    caller,   \* caller[r]: the account that request r authenticated as
    queue,    \* requests waiting for _turn_lock, oldest first
    holder,   \* the request that holds _turn_lock
    age,      \* ticks since turn_start
    quiet,    \* ticks since _last_activity_monotonic
    reply     \* reply[r]: the events returned to the caller of r

dispatcherVars == <<pc, caller, queue, holder, age, quiet, reply>>

\* _last_activity_monotonic = 0.0: no tools/call seen in this turn.
NeverCalled == -1

PcValues == {"new", "queued", "sending", "waiting", "answered", "failed"}

DispatcherTypeOK ==
    /\ pc \in [Requests -> PcValues]
    /\ caller \in [Requests -> Accounts \cup {NoUser}]
    /\ queue \in Seq(ChatRequests)
    /\ holder \in ChatRequests \cup {NoRequest}
    /\ age \in 0..TurnMax
    /\ quiet \in NeverCalled..IdleWindow
    /\ reply \in [ChatRequests -> SUBSET Calls]

DispatcherInit ==
    /\ pc = [r \in Requests |-> "new"]
    /\ caller = [r \in Requests |-> NoUser]
    /\ queue = <<>>
    /\ holder = NoRequest
    /\ age = 0
    /\ quiet = NeverCalled
    /\ reply = [r \in ChatRequests |-> {}]

-----------------------------------------------------------------------------
\* The request reads its user and role and waits for the lock.  The role it
\* read here is the one the whole turn is gated with.
Submit(r, account) ==
    /\ pc[r] = "new"
    /\ pc' = [pc EXCEPT ![r] = "queued"]
    /\ caller' = [caller EXCEPT ![r] = account]
    /\ queue' = Append(queue, r)
    /\ UNCHANGED <<holder, age, quiet, reply>>
    /\ UNCHANGED sessionVars

\* Mutant: the lock is not waited for.
BeginTurnUnlocked(r) ==
    /\ queue # <<>>
    /\ r = Head(queue)
    /\ holder' = r
    /\ queue' = Tail(queue)
    /\ SetActive(caller[r])
    /\ quiet' = NeverCalled
    /\ age' = 0
    /\ pc' = [pc EXCEPT ![r] = "sending"]
    /\ UNCHANGED <<caller, reply>>

\* The lock's next waiter takes its turn: it becomes the active user, the
\* idle clock is reset and agent_send is posted to dimos.
BeginTurn(r) ==
    /\ queue # <<>>
    /\ r = Head(queue)
    /\ holder = NoRequest
    /\ holder' = r
    /\ queue' = Tail(queue)
    /\ SetActive(caller[r])
    /\ quiet' = NeverCalled
    /\ age' = 0
    /\ pc' = [pc EXCEPT ![r] = "sending"]
    /\ UNCHANGED <<caller, reply>>

\* agent_send was acknowledged: the dispatcher waits for silence.
SendAcked(r) ==
    /\ holder = r
    /\ pc[r] = "sending"
    /\ pc' = [pc EXCEPT ![r] = "waiting"]
    /\ UNCHANGED <<caller, queue, holder, age, quiet, reply>>
    /\ UNCHANGED sessionVars

\* Mutant: the handler of a failed agent_send forgets clear_active.
SendFailedStaysActive(r) ==
    /\ holder = r
    /\ pc[r] = "sending"
    /\ pc' = [pc EXCEPT ![r] = "failed"]
    /\ holder' = NoRequest
    /\ UNCHANGED <<active, events>>
    /\ UNCHANGED <<caller, queue, age, quiet, reply>>

\* agent_send raised (an MCP error, a lost connection, the adapter's
\* timeout): the turn ends, with whatever it logged left in the log.
SendFailed(r) ==
    /\ holder = r
    /\ pc[r] = "sending"
    /\ pc' = [pc EXCEPT ![r] = "failed"]
    /\ holder' = NoRequest
    /\ ClearActive
    /\ UNCHANGED events
    /\ UNCHANGED <<caller, queue, age, quiet, reply>>

\* Mutant: no upper bound on a turn.
SilentOnly ==
    IF quiet = NeverCalled
    THEN age >= InitialGrace
    ELSE quiet >= IdleWindow

\* What the idle poll looks for: the deadline, or silence for long enough.
TurnOver ==
    \/ age >= TurnMax
    \/ /\ quiet = NeverCalled
       /\ age >= InitialGrace
    \/ /\ quiet # NeverCalled
       /\ quiet >= IdleWindow

\* A poll that finds the turn over drains the log into the reply, clears the
\* active user and releases the lock, with no await in between.  A poll that
\* does not find it over changes nothing.
EndTurn(r) ==
    /\ holder = r
    /\ pc[r] = "waiting"
    /\ TurnOver
    /\ pc' = [pc EXCEPT ![r] = "answered"]
    /\ reply' = [reply EXCEPT ![r] = events]
    /\ DrainEvents
    /\ ClearActive
    /\ holder' = NoRequest
    /\ UNCHANGED <<caller, queue, age, quiet>>

\* Mutant: the age is not kept within the bound.
TickUnbounded ==
    /\ holder # NoRequest
    /\ age' = age + 1
    /\ UNCHANGED <<quiet, pc, caller, queue, holder, reply>>
    /\ UNCHANGED sessionVars

\* A tick of the clock.  Between turns nobody reads it.
Tick ==
    /\ holder # NoRequest
    /\ \/ age < TurnMax
       \/ quiet \in 0..(IdleWindow - 1)
    /\ age' = IF age < TurnMax THEN age + 1 ELSE age
    /\ quiet' = IF quiet \in 0..(IdleWindow - 1) THEN quiet + 1 ELSE quiet
    /\ UNCHANGED <<pc, caller, queue, holder, reply>>
    /\ UNCHANGED sessionVars

\* mark_gateway_activity, called by the gateway.
MarkGatewayActivity == quiet' = 0
=============================================================================
