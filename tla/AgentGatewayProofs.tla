-------------------------- MODULE AgentGatewayProofs --------------------------
(***************************************************************************)
(* What holds of the agent gateway for every set of requests, calls,       *)
(* accounts and skills and for every choice of the dispatcher's times.     *)
(***************************************************************************)
EXTENDS AgentGateway, SequenceTheorems, TLAPS

\* The record that an arriving call gets is a call record, whichever branch
\* of the gateway writes it.
LEMMA ArrivalIsRecord ==
    ASSUME TypeOK, NEW s \in Skills, NEW o \in Origins,
           NEW st \in CallStates, NEW v \in Verdicts
    PROVE  Arrival(s, o, st, v) \in CallRecords
  BY DEF TypeOK, SessionTypeOK, DispatcherTypeOK, GatewayTypeOK,
         Arrival, CallRecords, Holding

\* Deciding a call keeps the calls call records.
LEMMA DecidedIsRecord ==
    ASSUME GatewayTypeOK, NEW c \in Calls, NEW st \in CallStates, NEW v \in Verdicts
    PROVE  Decided(c, st, v) \in CallRecords
  BY DEF GatewayTypeOK, CallRecords, Decided

LEMMA DecideKeepsRecords ==
    ASSUME GatewayTypeOK, NEW c \in Calls, NEW st \in CallStates,
           NEW v \in Verdicts, Decide(c, st, v)
    PROVE  call' \in [Calls -> CallRecords]
  BY DecidedIsRecord DEF GatewayTypeOK, Decide

\* So does noting what a change of the database did to the calls in the gate.
LEMMA WitnessIsTyped ==
    ASSUME GatewayTypeOK, NEW g, NEW d
    PROVE  Witness(g, d) \in [Calls -> CallRecords]
  <1>1. ASSUME NEW c \in Calls
        PROVE  [call[c] EXCEPT !.held = @ \cup Holding(PairOf(c), g, d)] \in CallRecords
    BY DEF GatewayTypeOK, CallRecords, Holding
  <1>2. QED
    BY <1>1 DEF GatewayTypeOK, Witness

\* Lines are calls.
LEMMA RecordKeepsType ==
    ASSUME SessionTypeOK, NEW c \in Calls, RecordEvent(c)
    PROVE  events' \in SUBSET Calls
  BY DEF SessionTypeOK, RecordEvent

LEMMA FreeIsRecord == Free \in CallRecords
  BY SkillsExist DEF Free, CallRecords, CallStates, Verdicts, Origins

-----------------------------------------------------------------------------
\* Type correctness: every variable of the broker, its gateway and the agent
\* keeps its type, whatever the interleaving.
LEMMA InitTypeOK == Init => TypeOK
  <1> SUFFICES ASSUME Init PROVE TypeOK
    OBVIOUS
  <1>1. SessionTypeOK
    BY DEF Init, SessionInit, SessionTypeOK
  <1>2. DispatcherTypeOK
    BY TimesAreTicks DEF Init, DispatcherInit, DispatcherTypeOK, NeverCalled, PcValues
  <1>3. GatewayTypeOK
    BY FreeIsRecord, SeedGrantsArePairs DEF Init, GatewayInit, GatewayTypeOK
  <1>4. QED
    BY <1>1, <1>2, <1>3, BoundsAreNat DEF Init, TypeOK

LEMMA ChatKeepsTypeOK ==
    ASSUME TypeOK, NEW r \in ChatRequests,
           (\E a \in Accounts : SendChat(r, a)) \/ ChatStep(r)
    PROVE  TypeOK'
  <1> USE DEF TypeOK, SessionTypeOK, DispatcherTypeOK, GatewayTypeOK, Requests,
              PcValues, gatewayVars, agentVars, boundVars, sessionVars
  <1>1. ASSUME NEW a \in Accounts, SendChat(r, a) PROVE TypeOK'
    BY <1>1 DEF SendChat, Submit
  <1>2. CASE StartChat(r)
    <2>1. queue' \in Seq(ChatRequests)
      BY <1>2 DEF StartChat, BeginTurn
    <2>2. active' \in Accounts \cup {NoUser} /\ events' \in SUBSET Calls
      BY <1>2 DEF StartChat, BeginTurn, SetActive
    <2>3. quiet' \in NeverCalled..IdleWindow /\ age' \in 0..TurnMax
      BY <1>2, TimesAreTicks DEF StartChat, BeginTurn, NeverCalled
    <2>4. QED
      BY <1>2, <2>1, <2>2, <2>3 DEF StartChat, BeginTurn
  <1>3. CASE ChatAcked(r)
    BY <1>3 DEF ChatAcked, SendAcked
  <1>4. CASE ChatFailed(r)
    BY <1>4 DEF ChatFailed, SendFailed, ClearActive
  <1>5. CASE ChatAnswered(r)
    BY <1>5 DEF ChatAnswered, EndTurn, ClearActive, DrainEvents
  <1>6. QED
    BY <1>1, <1>2, <1>3, <1>4, <1>5 DEF ChatStep

LEMMA CallKeepsTypeOK ==
    ASSUME TypeOK, NEW c \in Calls, NEW o \in Origins, NEW s \in Skills,
           ToolCall(c, o, s), UNCHANGED <<agentVars, boundVars>>
    PROVE  TypeOK'
  <1>1. GatewayTypeOK'
    <2>1. CASE PassThrough(c, o, s)
      <3>1. Arrival(s, o, "done", "pass") \in CallRecords
        BY ArrivalIsRecord DEF CallStates, Verdicts
      <3>2. QED
        BY <2>1, <3>1 DEF PassThrough, Arrive, TypeOK, GatewayTypeOK
    <2>2. CASE LetAlwaysAllowed(c, o, s)
      <3>1. Arrival(s, o, "done", "always") \in CallRecords
        BY ArrivalIsRecord DEF CallStates, Verdicts
      <3>2. QED
        BY <2>2, <3>1 DEF LetAlwaysAllowed, Arrive, TypeOK, GatewayTypeOK
    <2>3. CASE StartGate(c, o, s)
      <3>1. Arrival(s, o, "role", "none") \in CallRecords
        BY ArrivalIsRecord DEF CallStates, Verdicts
      <3>2. QED
        BY <2>3, <3>1 DEF StartGate, Arrive, TypeOK, GatewayTypeOK
    <2>4. QED
      BY <2>1, <2>2, <2>3 DEF ToolCall
  <1>2. SessionTypeOK'
    BY RecordKeepsType
    DEF ToolCall, PassThrough, LetAlwaysAllowed, StartGate, Arrive, TypeOK, SessionTypeOK
  <1>3. DispatcherTypeOK'
    BY TimesAreTicks
    DEF ToolCall, PassThrough, LetAlwaysAllowed, StartGate, Arrive,
        MarkGatewayActivity, TypeOK, DispatcherTypeOK, NeverCalled
  <1>4. QED
    BY <1>1, <1>2, <1>3 DEF TypeOK, agentVars, boundVars

LEMMA GateKeepsTypeOK ==
    ASSUME TypeOK, NEW c \in Calls, GateStep(c) \/ Forget(c)
    PROVE  TypeOK'
  <1>1. CASE GateStep(c)
    <2>1. call' \in [Calls -> CallRecords]
      <3>1. PICK st \in CallStates, v \in Verdicts : Decide(c, st, v)
        BY <1>1 DEF GateStep, CheckRole, CheckPolicy, GateFails, CallStates, Verdicts
      <3>2. QED
        BY <3>1, DecideKeepsRecords DEF TypeOK
    <2>2. events' \in SUBSET Calls
      BY <1>1, RecordKeepsType
      DEF GateStep, CheckRole, CheckPolicy, GateFails, TypeOK, SessionTypeOK, sessionVars
    <2>3. QED
      BY <1>1, <2>1, <2>2
      DEF GateStep, CheckRole, CheckPolicy, GateFails, TypeOK, SessionTypeOK,
          DispatcherTypeOK, GatewayTypeOK, sessionVars, dispatcherVars, agentVars, boundVars
  <1>2. CASE Forget(c)
    BY <1>2, FreeIsRecord
    DEF Forget, TypeOK, SessionTypeOK, DispatcherTypeOK, GatewayTypeOK,
        sessionVars, dispatcherVars, agentVars, boundVars
  <1>3. QED
    BY <1>1, <1>2

LEMMA WorldKeepsTypeOK ==
    ASSUME TypeOK,
           \/ ClockTicks
           \/ \E r \in RecipeRequests : InvokeRecipe(r) \/ RecipeReturns(r)
           \/ \E r \in Requests : AgentReceives(r)
           \/ AgentFinishes
           \/ Administer
           \/ Restart
           \/ UNCHANGED vars
    PROVE  TypeOK'
  <1> USE DEF TypeOK, SessionTypeOK, DispatcherTypeOK, GatewayTypeOK, Requests,
              PcValues, gatewayVars, dispatcherVars, sessionVars, agentVars, boundVars
  <1>1. CASE ClockTicks
    <2>1. age' \in 0..TurnMax /\ quiet' \in NeverCalled..IdleWindow
      BY <1>1, TimesAreTicks DEF ClockTicks, Tick, NeverCalled
    <2>2. QED
      BY <1>1, <2>1 DEF ClockTicks, Tick
  <1>2. ASSUME NEW r \in RecipeRequests, InvokeRecipe(r) PROVE TypeOK'
    BY <1>2 DEF InvokeRecipe
  <1>3. ASSUME NEW r \in RecipeRequests, RecipeReturns(r) PROVE TypeOK'
    BY <1>3 DEF RecipeReturns
  <1>4. ASSUME NEW r \in Requests, AgentReceives(r) PROVE TypeOK'
    BY <1>4 DEF AgentReceives
  <1>5. CASE AgentFinishes
    BY <1>5 DEF AgentFinishes
  <1>6. CASE Administer
    <2>1. call' \in [Calls -> CallRecords]
      BY <1>6, WitnessIsTyped DEF Administer, ChangePermissions, ChangePolicies
    <2>2. changes' \in 0..MaxChanges
      BY <1>6, BoundsAreNat DEF Administer, ChangePermissions, ChangePolicies
    <2>3. grants' \in SUBSET Pairs /\ denies' \in SUBSET Pairs
      BY <1>6 DEF Administer, ChangePermissions, ChangePolicies, Pairs
    <2>4. QED
      BY <1>6, <2>1, <2>2, <2>3 DEF Administer, ChangePermissions, ChangePolicies
  <1>7. CASE Restart
    <2>1. call' \in [Calls -> CallRecords]
      <3>1. ASSUME NEW c \in Calls PROVE Decided(c, "done", "error") \in CallRecords
        BY DecidedIsRecord DEF CallStates, Verdicts
      <3>2. QED
        BY <1>7, <3>1 DEF Restart
    <2>2. restarts' \in 0..MaxRestarts
      BY <1>7, BoundsAreNat DEF Restart
    <2>3. age' \in 0..TurnMax /\ quiet' \in NeverCalled..IdleWindow
      BY <1>7, TimesAreTicks DEF Restart, NeverCalled
    <2>4. grants' \in SUBSET Pairs
      BY <1>7, SeedGrantsArePairs DEF Restart
    <2>5. pc' \in [Requests -> PcValues]
      BY <1>7 DEF Restart
    <2>6. QED
      BY <1>7, <2>1, <2>2, <2>3, <2>4, <2>5 DEF Restart, ClearActive, DrainEvents
  <1>8. CASE UNCHANGED vars
    BY <1>8 DEF vars
  <1>9. QED
    BY <1>1, <1>2, <1>3, <1>4, <1>5, <1>6, <1>7, <1>8

\* Every variable of the broker, its gateway and the agent keeps its type.
THEOREM TypeCorrect == Spec => []TypeOK
  <1>1. TypeOK /\ [Next]_vars => TypeOK'
    <2> SUFFICES ASSUME TypeOK, [Next]_vars PROVE TypeOK'
      OBVIOUS
    <2>1. ASSUME NEW c \in Calls, NEW s \in Skills,
                 AgentCalls(c, s) \/ DirectClientCalls(c, s)
          PROVE  TypeOK'
      <3>1. PICK o \in Origins : ToolCall(c, o, s)
        BY <2>1 DEF AgentCalls, DirectClientCalls, Origins, TypeOK
      <3>2. QED
        BY <2>1, <3>1, CallKeepsTypeOK DEF AgentCalls, DirectClientCalls
    <2>2. QED
      BY <2>1, ChatKeepsTypeOK, GateKeepsTypeOK, WorldKeepsTypeOK DEF Next
  <1>2. QED
    BY <1>1, InitTypeOK, PTL DEF Spec

-----------------------------------------------------------------------------
\* The waiters of the lock are distinct requests that said who they are and
\* have not had their turn.  Without it a second turn of the same request, or
\* a turn of nobody, could follow.
WaitersAreQueued ==
    /\ \A i \in 1..Len(queue) :
          /\ pc[queue[i]] = "queued"
          /\ caller[queue[i]] \in Accounts
    /\ \A i, j \in 1..Len(queue) : queue[i] = queue[j] => i = j

\* What is inductive about turns.
TurnInv == TypeOK /\ TurnOwnsSession /\ WaitersAreQueued

\* Only a step of the dispatcher touches what TurnInv speaks of.
LEMMA TurnInvUntouched ==
    ASSUME TurnInv, TypeOK',
           UNCHANGED <<pc, caller, queue, holder, active>>
    PROVE  TurnInv'
  BY DEF TurnInv, TurnOwnsSession, WaitersAreQueued

LEMMA SendChatKeepsTurnInv ==
    ASSUME TurnInv, TypeOK', NEW r \in ChatRequests, NEW a \in Accounts, SendChat(r, a)
    PROVE  TurnInv'
  <1> USE DEF TurnInv, TypeOK, DispatcherTypeOK, SessionTypeOK, SendChat, Submit,
              sessionVars, Requests
  <1>1. queue' \in Seq(ChatRequests) /\ Len(queue') = Len(queue) + 1
    OBVIOUS
  <1>2. \A i \in 1..Len(queue) : queue'[i] = queue[i]
    OBVIOUS
  <1>3. queue'[Len(queue')] = r
    OBVIOUS
  <1>4. \A i \in 1..Len(queue) : queue[i] \in ChatRequests /\ queue[i] # r
    BY DEF WaitersAreQueued
  <1>5. WaitersAreQueued'
    <2>1. ASSUME NEW i \in 1..Len(queue')
          PROVE  pc'[queue'[i]] = "queued" /\ caller'[queue'[i]] \in Accounts
      BY <1>1, <1>2, <1>3, <1>4 DEF WaitersAreQueued, PcValues
    <2>2. ASSUME NEW i \in 1..Len(queue'), NEW j \in 1..Len(queue'), queue'[i] = queue'[j]
          PROVE  i = j
      BY <1>1, <1>2, <1>3, <1>4, <2>2 DEF WaitersAreQueued
    <2>3. QED
      BY <2>1, <2>2 DEF WaitersAreQueued
  <1>6. TurnOwnsSession'
    BY RequestsAreDistinct DEF TurnOwnsSession
  <1>7. QED
    BY <1>5, <1>6

LEMMA StartChatKeepsTurnInv ==
    ASSUME TurnInv, TypeOK', NEW r \in ChatRequests, StartChat(r)
    PROVE  TurnInv'
  <1> USE DEF TurnInv, TypeOK, DispatcherTypeOK, SessionTypeOK, StartChat, BeginTurn,
              SetActive, Requests
  <1>1. /\ Len(queue) > 0
        /\ r = queue[1]
        /\ queue' \in Seq(ChatRequests)
        /\ Len(queue') = Len(queue) - 1
        /\ \A i \in 1..Len(queue') : queue'[i] = queue[i + 1]
    BY EmptySeq
  <1>2. ASSUME NEW i \in 1..Len(queue')
        PROVE  i + 1 \in 1..Len(queue) /\ queue[i + 1] # r
    <2>1. Len(queue) \in Nat /\ i + 1 \in 1..Len(queue) /\ 1 \in 1..Len(queue) /\ i + 1 # 1
      BY <1>1
    <2>2. \A m, n \in 1..Len(queue) : queue[m] = queue[n] => m = n
      BY DEF WaitersAreQueued
    <2>3. QED
      BY <1>1, <2>1, <2>2
  <1>3. WaitersAreQueued'
    <2>1. ASSUME NEW i \in 1..Len(queue')
          PROVE  pc'[queue'[i]] = "queued" /\ caller'[queue'[i]] \in Accounts
      BY <1>1, <1>2 DEF WaitersAreQueued
    <2>2. ASSUME NEW i \in 1..Len(queue'), NEW j \in 1..Len(queue'), queue'[i] = queue'[j]
          PROVE  i = j
      <3>1. queue[i + 1] = queue[j + 1]
        BY <1>1, <2>2
      <3>2. i + 1 \in 1..Len(queue) /\ j + 1 \in 1..Len(queue)
        BY <1>2
      <3>3. i + 1 = j + 1
        BY <3>1, <3>2 DEF WaitersAreQueued
      <3>4. QED
        BY <1>1, <3>3
    <2>3. QED
      BY <2>1, <2>2 DEF WaitersAreQueued
  <1>4. TurnOwnsSession'
    <2>1. caller[r] \in Accounts
      BY <1>1 DEF WaitersAreQueued
    <2>2. QED
      BY <2>1, NoUserIsNoAccount, RequestsAreDistinct DEF TurnOwnsSession
  <1>5. QED
    BY <1>3, <1>4

\* A running turn goes on, ends or fails: nobody in the queue is touched.
LEMMA TurnStepKeepsTurnInv ==
    ASSUME TurnInv, TypeOK', NEW r \in ChatRequests,
           ChatAcked(r) \/ ChatFailed(r) \/ ChatAnswered(r)
    PROVE  TurnInv'
  <1> USE DEF TurnInv, TypeOK, DispatcherTypeOK, SessionTypeOK, Requests
  <1>1. \A i \in 1..Len(queue) : queue[i] \in ChatRequests /\ queue[i] # r
    <2>1. pc[r] # "queued"
      BY DEF ChatAcked, SendAcked, ChatFailed, SendFailed, ChatAnswered, EndTurn
    <2>2. QED
      BY <2>1 DEF WaitersAreQueued
  <1>2. WaitersAreQueued'
    <2>1. UNCHANGED <<queue, caller>> /\ \A x \in ChatRequests : x # r => pc'[x] = pc[x]
      BY DEF ChatAcked, SendAcked, ChatFailed, SendFailed, ChatAnswered, EndTurn
    <2>2. \A i \in 1..Len(queue) : pc'[queue[i]] = pc[queue[i]]
      BY <1>1, <2>1
    <2>3. QED
      BY <2>1, <2>2 DEF WaitersAreQueued
  <1>3. TurnOwnsSession'
    <2>1. CASE ChatAcked(r)
      BY <2>1, RequestsAreDistinct
      DEF ChatAcked, SendAcked, sessionVars, TurnOwnsSession
    <2>2. CASE ChatFailed(r)
      BY <2>2, RequestsAreDistinct DEF ChatFailed, SendFailed, ClearActive, TurnOwnsSession
    <2>3. CASE ChatAnswered(r)
      BY <2>3, RequestsAreDistinct DEF ChatAnswered, EndTurn, ClearActive, TurnOwnsSession
    <2>4. QED
      BY <2>1, <2>2, <2>3
  <1>4. QED
    BY <1>2, <1>3

\* Recipe handlers are not chat requests, so they are in no queue.
LEMMA RecipeKeepsTurnInv ==
    ASSUME TurnInv, TypeOK', NEW r \in RecipeRequests,
           InvokeRecipe(r) \/ RecipeReturns(r)
    PROVE  TurnInv'
  <1> USE DEF TurnInv, TypeOK, DispatcherTypeOK, SessionTypeOK, Requests
  <1>1. \A x \in ChatRequests : pc'[x] = pc[x]
    BY RequestsAreDistinct DEF InvokeRecipe, RecipeReturns
  <1>2. UNCHANGED <<caller, queue, holder, active>>
    BY DEF InvokeRecipe, RecipeReturns, sessionVars
  <1>3. \A i \in 1..Len(queue) : queue[i] \in ChatRequests
    OBVIOUS
  <1>4. WaitersAreQueued'
    BY <1>1, <1>2, <1>3 DEF WaitersAreQueued
  <1>5. holder # NoRequest => pc'[holder] = pc[holder] /\ caller'[holder] = caller[holder]
    BY <1>1, <1>2
  <1>6. TurnOwnsSession'
    BY <1>1, <1>2, <1>5 DEF TurnOwnsSession
  <1>7. QED
    BY <1>4, <1>6

LEMMA RestartKeepsTurnInv ==
    ASSUME TurnInv, TypeOK', Restart
    PROVE  TurnInv'
  BY DEF TurnInv, TypeOK, DispatcherTypeOK, Restart, ClearActive, TurnOwnsSession,
         WaitersAreQueued, Requests, PcValues

\* TurnInv is inductive.
LEMMA TurnInvHolds == Spec => []TurnInv
  <1>1. Init => TurnInv
    BY InitTypeOK, RequestsAreDistinct
    DEF Init, SessionInit, DispatcherInit, TurnInv, TurnOwnsSession, WaitersAreQueued,
        Requests
  <1>2. TurnInv /\ TypeOK' /\ [Next]_vars => TurnInv'
    <2> SUFFICES ASSUME TurnInv, TypeOK', [Next]_vars PROVE TurnInv'
      OBVIOUS
    <2>1. ASSUME NEW r \in ChatRequests, ChatStep(r) PROVE TurnInv'
      BY <2>1, StartChatKeepsTurnInv, TurnStepKeepsTurnInv DEF ChatStep
    <2>2. CASE ClockTicks \/ AgentFinishes \/ \E r \in Requests : AgentReceives(r)
      BY <2>2, TurnInvUntouched
      DEF ClockTicks, Tick, AgentFinishes, AgentReceives, sessionVars, dispatcherVars
    <2>3. ASSUME NEW c \in Calls, NEW s \in Skills,
                 AgentCalls(c, s) \/ DirectClientCalls(c, s)
          PROVE  TurnInv'
      <3>1. PICK o : ToolCall(c, o, s)
        BY <2>3 DEF AgentCalls, DirectClientCalls
      <3>2. Arrive(c)
        BY <3>1 DEF ToolCall, PassThrough, LetAlwaysAllowed, StartGate
      <3>3. QED
        BY <3>2, TurnInvUntouched DEF Arrive
    <2>4. ASSUME NEW c \in Calls, GateStep(c) \/ Forget(c) PROVE TurnInv'
      BY <2>4, TurnInvUntouched
      DEF GateStep, CheckRole, CheckPolicy, GateFails, Forget, sessionVars, dispatcherVars
    <2>5. CASE Administer
      BY <2>5, TurnInvUntouched
      DEF Administer, ChangePermissions, ChangePolicies, sessionVars, dispatcherVars
    <2>6. CASE UNCHANGED vars
      BY <2>6, TurnInvUntouched DEF vars, sessionVars, dispatcherVars
    <2>7. QED
      BY <2>1, <2>2, <2>3, <2>4, <2>5, <2>6, SendChatKeepsTurnInv, RecipeKeepsTurnInv,
         RestartKeepsTurnInv DEF Next
  <1>3. QED
    BY <1>1, <1>2, TypeCorrect, PTL DEF Spec

\* The active user is the caller of the one request whose turn is on, and
\* there is none between turns.
THEOREM OneTurnOneUser == Spec => []TurnOwnsSession
  <1>1. TurnInv => TurnOwnsSession
    BY DEF TurnInv
  <1>2. QED
    BY <1>1, TurnInvHolds, PTL

-----------------------------------------------------------------------------
\* A request that has said who it is keeps its name.
LEMMA CallersStay ==
    ASSUME TypeOK, [Next]_vars, NEW r \in Requests, pc[r] # "new"
    PROVE  pc'[r] # "new" /\ caller'[r] = caller[r]
  <1> USE DEF TypeOK, DispatcherTypeOK, Requests
  <1>1. ASSUME NEW x \in ChatRequests, NEW a \in Accounts, SendChat(x, a)
        PROVE  pc'[r] # "new" /\ caller'[r] = caller[r]
    BY <1>1 DEF SendChat, Submit
  <1>2. ASSUME NEW x \in ChatRequests, ChatStep(x)
        PROVE  pc'[r] # "new" /\ caller'[r] = caller[r]
    BY <1>2 DEF ChatStep, StartChat, BeginTurn, ChatAcked, SendAcked, ChatFailed,
                SendFailed, ChatAnswered, EndTurn
  <1>3. ASSUME NEW x \in RecipeRequests, InvokeRecipe(x) \/ RecipeReturns(x)
        PROVE  pc'[r] # "new" /\ caller'[r] = caller[r]
    BY <1>3 DEF InvokeRecipe, RecipeReturns
  <1>4. CASE Restart
    BY <1>4 DEF Restart
  <1>5. CASE UNCHANGED <<pc, caller>>
    BY <1>5
  <1>6. QED
    BY <1>1, <1>2, <1>3, <1>4, <1>5
    DEF Next, ClockTicks, Tick, AgentReceives, AgentFinishes, AgentCalls,
        DirectClientCalls, ToolCall, PassThrough, LetAlwaysAllowed, StartGate, Arrive,
        GateStep, CheckRole, CheckPolicy, GateFails, Forget, Administer,
        ChangePermissions, ChangePolicies, vars, dispatcherVars

\* How a step can change a call: it arrives, it is forgotten, or it keeps all
\* that was noted of it on arrival.
SameArrival(c) ==
    /\ call'[c].onTime = call[c].onTime
    /\ call'[c].origin = call[c].origin
    /\ call'[c].gate = call[c].gate

Arrives(c) ==
    /\ Arrive(c)
    /\ \E o \in Origins, s \in Skills, st \in CallStates, v \in Verdicts :
          call' = [call EXCEPT ![c] = Arrival(s, o, st, v)]

LEMMA AgentArrives ==
    ASSUME TypeOK, NEW c \in Calls, NEW s \in Skills,
           AgentCalls(c, s) \/ DirectClientCalls(c, s)
    PROVE  Arrives(c)
  <1>1. PICK o \in Origins : ToolCall(c, o, s)
    BY DEF AgentCalls, DirectClientCalls, Origins, TypeOK
  <1>2. QED
    BY <1>1 DEF Arrives, ToolCall, PassThrough, LetAlwaysAllowed, StartGate,
                CallStates, Verdicts

LEMMA GateKeepsArrivals ==
    ASSUME GatewayTypeOK, NEW d \in Calls, GateStep(d), NEW c \in Calls
    PROVE  SameArrival(c)
  <1>1. PICK st, v : Decide(d, st, v)
    BY DEF GateStep, CheckRole, CheckPolicy, GateFails
  <1>2. QED
    <2>1. call[c] \in CallRecords
      BY DEF GatewayTypeOK
    <2>2. call'[c] = call[c] \/ call'[c] = [call[c] EXCEPT !.state = st, !.verdict = v]
      BY <1>1 DEF Decide, Decided, GatewayTypeOK
    <2>3. QED
      BY <2>1, <2>2 DEF SameArrival, CallRecords

LEMMA WitnessKeepsArrivals ==
    ASSUME GatewayTypeOK, Administer,
           NEW c \in Calls
    PROVE  SameArrival(c)
  <1>1. PICK g, d : call' = Witness(g, d)
    BY DEF Administer, ChangePermissions, ChangePolicies
  <1>2. QED
    BY <1>1 DEF Witness, SameArrival, GatewayTypeOK, CallRecords

LEMMA RestartKeepsArrivals ==
    ASSUME GatewayTypeOK, Restart, NEW c \in Calls
    PROVE  SameArrival(c)
  <1>1. call[c] \in CallRecords
    BY DEF GatewayTypeOK
  <1>2. call' = [d \in Calls |-> IF call[d].state \in {"role", "policy"}
                                THEN Decided(d, "done", "error") ELSE call[d]]
    BY DEF Restart
  <1>3. call'[c] = call[c] \/ call'[c] = Decided(c, "done", "error")
    BY <1>2
  <1>4. QED
    BY <1>1, <1>3 DEF Decided, SameArrival, CallRecords

LEMMA CallsChangeSo ==
    ASSUME TypeOK, [Next]_vars, NEW c \in Calls
    PROVE  Arrives(c) \/ call'[c] = Free \/ SameArrival(c)
  <1> USE DEF TypeOK, GatewayTypeOK
  <1>1. ASSUME NEW d \in Calls, NEW s \in Skills,
               AgentCalls(d, s) \/ DirectClientCalls(d, s)
        PROVE  Arrives(c) \/ SameArrival(c)
    <2>1. Arrives(d)
      BY <1>1, AgentArrives
    <2>2. QED
      BY <2>1 DEF Arrives, SameArrival
  <1>2. ASSUME NEW d \in Calls, Forget(d) PROVE call'[c] = Free \/ SameArrival(c)
    BY <1>2 DEF Forget, SameArrival
  <1>3. CASE UNCHANGED call
    BY <1>3 DEF SameArrival
  <1>4. QED
    BY <1>1, <1>2, <1>3, GateKeepsArrivals, WitnessKeepsArrivals, RestartKeepsArrivals
    DEF Next, SendChat, ChatStep, StartChat, ChatAcked, ChatFailed, ChatAnswered,
        ClockTicks, InvokeRecipe, RecipeReturns, AgentReceives, AgentFinishes, vars,
        gatewayVars

\* A call that came while its message's turn was on belongs to a request that
\* has said who it is, and is gated as that user.
AttributionInv ==
    \A c \in Calls :
        call[c].onTime =>
            /\ call[c].origin \in ChatRequests
            /\ pc[call[c].origin] # "new"
            /\ call[c].gate = caller[call[c].origin]

LEMMA NextKeepsAttribution ==
    ASSUME TurnInv, AttributionInv, [Next]_vars
    PROVE  AttributionInv'
  <1> SUFFICES ASSUME NEW c \in Calls, call'[c].onTime
               PROVE  /\ call'[c].origin \in ChatRequests
                      /\ pc'[call'[c].origin] # "new"
                      /\ call'[c].gate = caller'[call'[c].origin]
    BY DEF AttributionInv
  <1>1. CASE Arrives(c)
    <2>1. PICK o \in Origins, s \in Skills, st \in CallStates, v \in Verdicts :
             call' = [call EXCEPT ![c] = Arrival(s, o, st, v)]
      BY <1>1 DEF Arrives
    <2>2. call'[c] = Arrival(s, o, st, v)
      BY <2>1 DEF TurnInv, TypeOK, GatewayTypeOK
    <2>3. o \in ChatRequests /\ pc[o] \in {"sending", "waiting"}
      <3>1. Arrival(s, o, st, v).onTime
        BY <2>2
      <3>2. QED
        BY <3>1, Zenon DEF Arrival
    <2>4. o = holder /\ holder # NoRequest
      BY <2>3, RequestsAreDistinct DEF TurnInv, TurnOwnsSession, Requests
    <2>5. active = caller[o]
      BY <2>4 DEF TurnInv, TurnOwnsSession
    <2>6. UNCHANGED <<pc, caller>>
      BY <1>1 DEF Arrives, Arrive
    <2>7. QED
      BY <2>2, <2>3, <2>5, <2>6 DEF Arrival
  <1>2. CASE call'[c] = Free
    BY <1>2 DEF Free
  <1>3. CASE SameArrival(c)
    <2>1. /\ call[c].origin \in ChatRequests
          /\ pc[call[c].origin] # "new"
          /\ call[c].gate = caller[call[c].origin]
      BY <1>3 DEF SameArrival, AttributionInv
    <2>2. QED
      BY <1>3, <2>1, CallersStay DEF SameArrival, TurnInv, Requests
  <1>4. QED
    BY <1>1, <1>2, <1>3, CallsChangeSo DEF TurnInv

\* A tool call that the agent makes for a message while that message's turn is
\* on is gated as the user who sent the message.
THEOREM CallsInTurnAreAttributed == Spec => []AttributedInTurn
  <1>1. Init => AttributionInv
    BY DEF Init, GatewayInit, Free, AttributionInv
  <1>2. TurnInv /\ AttributionInv /\ [Next]_vars => AttributionInv'
    BY NextKeepsAttribution
  <1>3. AttributionInv => AttributedInTurn
    BY DEF AttributionInv, AttributedInTurn
  <1>4. QED
    BY <1>1, <1>2, <1>3, TurnInvHolds, PTL DEF Spec

-----------------------------------------------------------------------------
\* Lines are of decided calls, and no call is in two logs.
LogInv ==
    /\ \A c \in events : call[c].state = "done"
    /\ \A r \in ChatRequests : \A c \in reply[r] : call[c].state = "done"
    /\ \A r \in ChatRequests : reply[r] \cap events = {}
    /\ \A r1, r2 \in ChatRequests : r1 # r2 => reply[r1] \cap reply[r2] = {}

\* Calls that are decided stay so while a log mentions them.
LEMMA UnloggedStepKeepsLogInv ==
    ASSUME TypeOK, LogInv, events' \subseteq events, UNCHANGED reply,
           \A c \in Calls : call[c].state = "done" =>
               call'[c].state = "done" \/ (c \notin events /\ \A r \in ChatRequests : c \notin reply[r])
    PROVE  LogInv'
  BY DEF LogInv, TypeOK, SessionTypeOK, DispatcherTypeOK

\* A step that decides a call may write its line.
LEMMA DecidingKeepsLogInv ==
    ASSUME TypeOK, LogInv, NEW c \in Calls, call[c].state # "done", UNCHANGED reply,
           \/ UNCHANGED events
           \/ RecordEvent(c) /\ call'[c].state = "done",
           \A d \in Calls \ {c} : call'[d] = call[d]
    PROVE  LogInv'
  <1>1. c \notin events /\ \A r \in ChatRequests : c \notin reply[r]
    BY DEF LogInv
  <1>2. events' \subseteq events \cup {c}
    BY DEF RecordEvent
  <1>3. c \in events' => call'[c].state = "done"
    BY <1>1 DEF RecordEvent
  <1>4. QED
    BY <1>1, <1>2, <1>3 DEF LogInv, TypeOK, SessionTypeOK, DispatcherTypeOK

LEMMA CallKeepsLogInv ==
    ASSUME TypeOK, LogInv, NEW c \in Calls, NEW s \in Skills,
           AgentCalls(c, s) \/ DirectClientCalls(c, s)
    PROVE  LogInv'
  <1>1. PICK o \in Origins : ToolCall(c, o, s)
    BY DEF AgentCalls, DirectClientCalls, Origins, TypeOK
  <1>2. Arrive(c)
    BY <1>1 DEF ToolCall, PassThrough, LetAlwaysAllowed, StartGate
  <1>3. \A d \in Calls \ {c} : call'[d] = call[d]
    BY <1>1 DEF ToolCall, PassThrough, LetAlwaysAllowed, StartGate, TypeOK, GatewayTypeOK
  <1>4. (UNCHANGED events) \/ (RecordEvent(c) /\ call'[c].state = "done")
    <2>1. CASE LetAlwaysAllowed(c, o, s)
      <3>1. call'[c] = Arrival(s, o, "done", "always")
        BY <2>1 DEF LetAlwaysAllowed, TypeOK, GatewayTypeOK
      <3>2. call'[c].state = "done"
        BY <3>1 DEF Arrival
      <3>3. QED
        BY <2>1, <3>2 DEF LetAlwaysAllowed
    <2>2. CASE PassThrough(c, o, s)
      <3>1. UNCHANGED events
        BY <2>2 DEF PassThrough
      <3>2. QED
        BY <3>1
    <2>3. CASE StartGate(c, o, s)
      <3>1. UNCHANGED events
        BY <2>3 DEF StartGate
      <3>2. QED
        BY <3>1
    <2>4. QED
      BY <1>1, <2>1, <2>2, <2>3 DEF ToolCall
  <1>5. QED
    BY <1>2, <1>3, <1>4, DecidingKeepsLogInv DEF Arrive

LEMMA GateKeepsLogInv ==
    ASSUME TypeOK, LogInv, NEW c \in Calls, GateStep(c)
    PROVE  LogInv'
  <1>1. PICK st, v : /\ Decide(c, st, v)
                     /\ (UNCHANGED events) \/ (RecordEvent(c) /\ st = "done")
    BY DEF GateStep, CheckRole, CheckPolicy, GateFails, sessionVars
  <1>2. call'[c].state = st /\ \A d \in Calls \ {c} : call'[d] = call[d]
    BY <1>1 DEF Decide, Decided, TypeOK, GatewayTypeOK, CallRecords
  <1>3. call[c].state # "done" /\ UNCHANGED reply
    BY DEF GateStep, CheckRole, CheckPolicy, GateFails, dispatcherVars
  <1>4. QED
    BY <1>1, <1>2, <1>3, DecidingKeepsLogInv

LEMMA AnswerKeepsLogInv ==
    ASSUME TypeOK, LogInv, NEW r \in ChatRequests, ChatAnswered(r)
    PROVE  LogInv'
  <1>1. /\ events' = {}
        /\ call' = call
        /\ reply'[r] = events
        /\ \A x \in ChatRequests \ {r} : reply'[x] = reply[x]
    BY DEF ChatAnswered, EndTurn, DrainEvents, gatewayVars, TypeOK, DispatcherTypeOK
  <1>2. QED
    BY <1>1 DEF LogInv

LEMMA NextKeepsLogInv ==
    ASSUME TypeOK, LogInv, [Next]_vars
    PROVE  LogInv'
  <1>1. ASSUME NEW c \in Calls, Forget(c) PROVE LogInv'
    BY <1>1, UnloggedStepKeepsLogInv DEF Forget, TypeOK, GatewayTypeOK, sessionVars,
                                         dispatcherVars
  <1>2. CASE Administer
    <2>1. PICK g, d : call' = Witness(g, d)
      BY <1>2 DEF Administer, ChangePermissions, ChangePolicies
    <2>2. UNCHANGED <<events, reply>>
      BY <1>2 DEF Administer, ChangePermissions, ChangePolicies, sessionVars, dispatcherVars
    <2>3. QED
      BY <2>1, <2>2, UnloggedStepKeepsLogInv DEF Witness
  <1>3. CASE Restart
    <2>1. \A c \in Calls : call[c].state = "done" => call'[c].state = "done"
      BY <1>3 DEF Restart
    <2>2. QED
      BY <1>3, <2>1, UnloggedStepKeepsLogInv DEF Restart, DrainEvents
  <1>4. CASE UNCHANGED <<call, reply>> /\ events' \subseteq events
    BY <1>4, UnloggedStepKeepsLogInv
  <1>5. QED
    BY <1>1, <1>2, <1>3, <1>4, CallKeepsLogInv, GateKeepsLogInv, AnswerKeepsLogInv
    DEF Next, SendChat, Submit, ChatStep, StartChat, BeginTurn, SetActive, ChatAcked,
        SendAcked, ChatFailed, SendFailed, ClockTicks, Tick, InvokeRecipe, RecipeReturns,
        AgentReceives, AgentFinishes, vars, gatewayVars, dispatcherVars, sessionVars

\* No tool call is reported to two users.
THEOREM CallsAreReportedOnce == Spec => []ReportedOnce
  <1>1. Init => LogInv
    BY DEF Init, SessionInit, DispatcherInit, LogInv
  <1>2. TypeOK /\ LogInv /\ [Next]_vars => LogInv'
    BY NextKeepsLogInv
  <1>3. LogInv => ReportedOnce
    BY DEF LogInv, ReportedOnce
  <1>4. QED
    BY <1>1, <1>2, <1>3, TypeCorrect, PTL DEF Spec

-----------------------------------------------------------------------------
\* What the history of a call in the gate records: all that holds of its pair
\* now, the permission once the role was checked, and both once it was allowed.
GateInv ==
    \A c \in Calls :
        /\ call[c].state \in {"role", "policy"} =>
              Holding(PairOf(c), grants, denies) \subseteq call[c].held
        /\ call[c].state = "policy" => "granted" \in call[c].held
        /\ call[c].verdict = "allow" => call[c].held = {"granted", "undenied"}

\* One call's part of GateInv, for a given record and database.
GateFacts(record, g, d) ==
    /\ record.state \in {"role", "policy"} =>
          Holding(<<record.gate.role, record.skill>>, g, d) \subseteq record.held
    /\ record.state = "policy" => "granted" \in record.held
    /\ record.verdict = "allow" => record.held = {"granted", "undenied"}

LEMMA GateInvIsFacts == GateInv <=> \A c \in Calls : GateFacts(call[c], grants, denies)
  BY DEF GateInv, GateFacts, PairOf

LEMMA NextGateInvIsFacts == GateInv' <=> \A c \in Calls : GateFacts(call'[c], grants', denies')
  BY DEF GateInv, GateFacts, PairOf

\* The history grows with whatever the database comes to hold.
LEMMA WitnessKeepsGateFacts ==
    ASSUME TypeOK, NEW c \in Calls, GateFacts(call[c], grants, denies), NEW g, NEW d
    PROVE  GateFacts(Witness(g, d)[c], g, d)
  <1>1. call[c] \in CallRecords
    BY DEF TypeOK, GatewayTypeOK
  <1>2. CASE call[c].state \in {"role", "policy"}
    <2> DEFINE new == [call[c] EXCEPT !.held = @ \cup Holding(PairOf(c), g, d)]
    <2>1. Witness(g, d)[c] = new
      BY <1>2 DEF Witness
    <2>2. /\ new.state = call[c].state /\ new.verdict = call[c].verdict
          /\ new.gate = call[c].gate /\ new.skill = call[c].skill
          /\ new.held = call[c].held \cup Holding(PairOf(c), g, d)
      BY <1>1 DEF CallRecords
    <2>3. Holding(PairOf(c), g, d) \subseteq {"granted", "undenied"}
      BY DEF Holding
    <2> HIDE DEF new
    <2>4. QED
      BY <1>2, <2>1, <2>2, <2>3 DEF GateFacts, PairOf
  <1>3. CASE call[c].state \notin {"role", "policy"}
    BY <1>3 DEF Witness, GateFacts
  <1>4. QED
    BY <1>2, <1>3

LEMMA ArrivalHasGateFacts ==
    ASSUME NEW s, NEW o, NEW v \in {"pass", "always", "none"}, NEW st \in {"done", "role"}
    PROVE  GateFacts(Arrival(s, o, st, v), grants, denies)
  BY DEF GateFacts, Arrival

LEMMA CallKeepsGateInv ==
    ASSUME TypeOK, GateInv, NEW c \in Calls, NEW s \in Skills,
           AgentCalls(c, s) \/ DirectClientCalls(c, s)
    PROVE  GateInv'
  <1>1. PICK o : ToolCall(c, o, s)
    BY DEF AgentCalls, DirectClientCalls
  <1>2. UNCHANGED <<grants, denies>>
    BY <1>1 DEF ToolCall, PassThrough, LetAlwaysAllowed, StartGate, Arrive
  <1>3. PICK v \in {"pass", "always", "none"}, st \in {"done", "role"} :
           call' = [call EXCEPT ![c] = Arrival(s, o, st, v)]
    BY <1>1 DEF ToolCall, PassThrough, LetAlwaysAllowed, StartGate
  <1>4. \A d \in Calls : GateFacts(call'[d], grants, denies)
    BY <1>3, ArrivalHasGateFacts, GateInvIsFacts DEF TypeOK, GatewayTypeOK
  <1>5. QED
    BY <1>2, <1>4, GateInvIsFacts, NextGateInvIsFacts

\* The gate allows a call only after it saw the permission and no denial.
LEMMA GateKeepsGateInv ==
    ASSUME TypeOK, GateInv, NEW c \in Calls, GateStep(c)
    PROVE  GateInv'
  <1>1. UNCHANGED <<grants, denies>>
    BY DEF GateStep, CheckRole, CheckPolicy, GateFails
  <1>2. PICK st, v : Decide(c, st, v) /\ GateFacts(Decided(c, st, v), grants, denies)
    <2>0. call[c] \in CallRecords
      BY DEF TypeOK, GatewayTypeOK
    <2>1. \A st, v : /\ Decided(c, st, v).state = st
                     /\ Decided(c, st, v).verdict = v
                     /\ Decided(c, st, v).gate = call[c].gate
                     /\ Decided(c, st, v).skill = call[c].skill
                     /\ Decided(c, st, v).held = call[c].held
      BY <2>0 DEF Decided, CallRecords
    <2>2. CASE CheckRole(c)
      BY <2>1, <2>2 DEF CheckRole, GateInv, GateFacts, PairOf, Holding
    <2>3. CASE CheckPolicy(c)
      <3>1. CASE PairOf(c) \in denies
        BY <2>1, <2>3, <3>1 DEF CheckPolicy, GateFacts
      <3>2. CASE PairOf(c) \notin denies
        <4>1. "undenied" \in call[c].held /\ "granted" \in call[c].held
          BY <2>3, <3>2 DEF CheckPolicy, GateInv, Holding
        <4>2. call[c].held = {"granted", "undenied"}
          BY <2>0, <4>1 DEF CallRecords
        <4>3. QED
          BY <2>1, <2>3, <3>2, <4>2 DEF CheckPolicy, GateFacts
      <3>3. QED
        BY <3>1, <3>2
    <2>4. CASE GateFails(c)
      BY <2>1, <2>4 DEF GateFails, GateFacts
    <2>5. QED
      BY <2>2, <2>3, <2>4 DEF GateStep
  <1>3. \A d \in Calls : GateFacts(call'[d], grants, denies)
    BY <1>2, GateInvIsFacts DEF Decide, TypeOK, GatewayTypeOK
  <1>4. QED
    BY <1>1, <1>3, GateInvIsFacts, NextGateInvIsFacts

LEMMA NextKeepsGateInv ==
    ASSUME TypeOK, GateInv, [Next]_vars
    PROVE  GateInv'
  <1>1. ASSUME NEW c \in Calls, Forget(c) PROVE GateInv'
    BY <1>1 DEF Forget, Free, GateInv, PairOf, TypeOK, GatewayTypeOK
  <1>2. CASE Administer
    <2>1. call' = Witness(grants', denies')
      BY <1>2 DEF Administer, ChangePermissions, ChangePolicies
    <2>2. \A c \in Calls : GateFacts(call'[c], grants', denies')
      BY <2>1, WitnessKeepsGateFacts, GateInvIsFacts
    <2>3. QED
      BY <2>2, NextGateInvIsFacts
  <1>3. CASE Restart
    <2>1. ASSUME NEW c \in Calls PROVE GateFacts(call'[c], grants', denies')
      <3>1. call[c] \in CallRecords
        BY DEF TypeOK, GatewayTypeOK
      <3>2. CASE call[c].state \in {"role", "policy"}
        <4>1. call'[c] = Decided(c, "done", "error")
          BY <1>3, <3>2 DEF Restart
        <4>2. call'[c].state = "done" /\ call'[c].verdict = "error"
          BY <3>1, <4>1 DEF Decided, CallRecords
        <4>3. QED
          BY <4>2 DEF GateFacts
      <3>3. CASE call[c].state \notin {"role", "policy"}
        BY <1>3, <3>3 DEF Restart, GateInv, GateFacts
      <3>4. QED
        BY <3>2, <3>3
    <2>2. QED
      BY <2>1, NextGateInvIsFacts
  <1>4. CASE UNCHANGED <<call, grants, denies>>
    BY <1>4 DEF GateInv, PairOf
  <1>5. QED
    BY <1>1, <1>2, <1>3, <1>4, CallKeepsGateInv, GateKeepsGateInv
    DEF Next, SendChat, ChatStep, StartChat, ChatAcked, ChatFailed, ChatAnswered,
        ClockTicks, InvokeRecipe, RecipeReturns, AgentReceives, AgentFinishes, vars,
        gatewayVars

\* A gated call is forwarded only if its role held the permission, and no
\* policy denied it, at moments between its arrival and the decision.
THEOREM ForwardedCallsArePermitted == Spec => []ForwardedOnlyIfPermitted
  <1>1. Init => GateInv
    BY DEF Init, GatewayInit, Free, GateInv
  <1>2. TypeOK /\ GateInv /\ [Next]_vars => GateInv'
    BY NextKeepsGateInv
  <1>3. GateInv => ForwardedOnlyIfPermitted
    BY DEF GateInv, ForwardedOnlyIfPermitted
  <1>4. QED
    BY <1>1, <1>2, <1>3, TypeCorrect, PTL DEF Spec
=============================================================================
