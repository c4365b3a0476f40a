------------------------------- MODULE TurnLog -------------------------------
(***************************************************************************)
(* What the broker promises about chat turns: requests are served one at a *)
(* time in the order they came, every turn starts with an empty log, only  *)
(* a running turn is logged to, and an answer carries all of its turn's    *)
(* log and nothing else.  A turn may be given up without an answer, and a  *)
(* crash forgets everything but the answers already given.                 *)
(***************************************************************************)
EXTENDS Sequences

CONSTANTS Turns, NoTurn, Lines

VARIABLES
    line,       \* the turns that wait, oldest first
    turn,       \* the turn that is on, or NoTurn
    log,        \* what it logged
    answer      \* answer[t]: what t was answered

turnVars == <<line, turn, log, answer>>

TurnInit ==
    /\ line = <<>>
    /\ turn = NoTurn
    /\ log = {}
    /\ answer = [t \in Turns |-> {}]

Enter(t) ==
    /\ line' = Append(line, t)
    /\ UNCHANGED <<turn, log, answer>>

Start ==
    /\ turn = NoTurn
    /\ line # <<>>
    /\ turn' = Head(line)
    /\ line' = Tail(line)
    /\ UNCHANGED <<log, answer>>

Write(l) ==
    /\ turn # NoTurn
    /\ log' = log \cup {l}
    /\ UNCHANGED <<line, turn, answer>>

Answer ==
    /\ turn # NoTurn
    /\ answer' = [answer EXCEPT ![turn] = log]
    /\ turn' = NoTurn
    /\ log' = {}
    /\ UNCHANGED line

GiveUp ==
    /\ turn # NoTurn
    /\ turn' = NoTurn
    /\ log' = {}
    /\ UNCHANGED <<line, answer>>

Crash ==
    /\ line' = <<>>
    /\ turn' = NoTurn
    /\ log' = {}
    /\ UNCHANGED answer

TurnNext ==
    \/ \E t \in Turns : Enter(t)
    \/ Start
    \/ \E l \in Lines : Write(l)
    \/ Answer
    \/ GiveUp
    \/ Crash

TurnSpec == TurnInit /\ [][TurnNext]_turnVars
=============================================================================
