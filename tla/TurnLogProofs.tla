----------------------------- MODULE TurnLogProofs -----------------------------
(***************************************************************************)
(* The agent gateway implements TurnLog: chat turns are served one at a    *)
(* time in the order the requests came, and every answer carries the log   *)
(* of its own turn, also after turns that failed and left lines behind.    *)
(***************************************************************************)
EXTENDS AgentGatewayProofs


LEMMA InitIsTurnInit == Init => Turns!TurnInit
  BY DEF Init, SessionInit, DispatcherInit, Turns!TurnInit

\* A line is written to the turn that is on; between turns there is none.
LEMMA RecordIsWrite ==
    ASSUME TurnInv, NEW c \in Calls, RecordEvent(c) \/ UNCHANGED events,
           UNCHANGED <<queue, holder, reply>>
    PROVE  Turns!Write(c) \/ UNCHANGED Turns!turnVars
  <1>1. CASE holder = NoRequest
    BY <1>1 DEF Turns!turnVars
  <1>2. CASE holder # NoRequest
    <2>1. active # NoUser
      BY <1>2 DEF TurnInv, TurnOwnsSession
    <2>2. CASE RecordEvent(c)
      BY <1>2, <2>1, <2>2 DEF RecordEvent, Turns!Write
    <2>3. CASE UNCHANGED events
      BY <2>3 DEF Turns!turnVars
    <2>4. QED
      BY <2>2, <2>3
  <1>3. QED
    BY <1>1, <1>2

LEMMA ChatIsTurn ==
    ASSUME TurnInv, NEW r \in ChatRequests, ChatStep(r)
    PROVE  Turns!TurnNext \/ UNCHANGED Turns!turnVars
  <1> USE RequestsAreDistinct DEF Requests
  <1>1. CASE StartChat(r)
    BY <1>1 DEF StartChat, BeginTurn, SetActive, Turns!Start, Turns!TurnNext
  <1>2. CASE ChatAcked(r)
    BY <1>2 DEF ChatAcked, SendAcked, sessionVars, Turns!turnVars
  <1>3. CASE ChatFailed(r)
    BY <1>3 DEF ChatFailed, SendFailed, Turns!GiveUp, Turns!TurnNext
  <1>4. CASE ChatAnswered(r)
    BY <1>4 DEF ChatAnswered, EndTurn, Turns!Answer, Turns!TurnNext
  <1>5. QED
    BY <1>1, <1>2, <1>3, <1>4 DEF ChatStep

LEMMA CallIsWrite ==
    ASSUME TurnInv, NEW c \in Calls,
           (\E s \in Skills : AgentCalls(c, s) \/ DirectClientCalls(c, s)) \/ GateStep(c)
    PROVE  Turns!TurnNext \/ UNCHANGED Turns!turnVars
  <1>1. (RecordEvent(c) \/ UNCHANGED events) /\ UNCHANGED <<queue, holder, reply>>
    BY DEF AgentCalls, DirectClientCalls, ToolCall, PassThrough, LetAlwaysAllowed,
           StartGate, Arrive, GateStep, CheckRole, CheckPolicy, GateFails, sessionVars,
           dispatcherVars
  <1>2. QED
    BY <1>1, RecordIsWrite DEF Turns!TurnNext

\* Every step of the broker is a step of TurnLog or leaves it alone.
LEMMA NextIsTurnNext ==
    ASSUME TurnInv, [Next]_vars
    PROVE  Turns!TurnNext \/ UNCHANGED Turns!turnVars
  <1>1. ASSUME NEW r \in ChatRequests, NEW a \in Accounts, SendChat(r, a)
        PROVE  Turns!TurnNext
    BY <1>1 DEF SendChat, Submit, sessionVars, Turns!Enter, Turns!TurnNext
  <1>2. CASE Restart
    BY <1>2 DEF Restart, Turns!Crash, Turns!TurnNext
  <1>3. CASE UNCHANGED <<queue, holder, reply, events>>
    BY <1>3 DEF Turns!turnVars
  <1>4. QED
    BY <1>1, <1>2, <1>3, ChatIsTurn, CallIsWrite
    DEF Next, ClockTicks, Tick, InvokeRecipe, RecipeReturns, AgentReceives,
        AgentFinishes, Forget, Administer, ChangePermissions, ChangePolicies, vars, sessionVars,
        dispatcherVars

\* Chat requests get their turns in the order they came, one at a time, and
\* each is answered with the log of its own turn and nothing of another's.
THEOREM ImplementsTurnLog == Spec => TurnsInOrder
  <1>1. TurnInv /\ [Next]_vars => [Turns!TurnNext]_(Turns!turnVars)
    BY NextIsTurnNext
  <1>2. QED
    BY <1>1, InitIsTurnInit, TurnInvHolds, PTL DEF Spec, TurnsInOrder, Turns!TurnSpec
=============================================================================
