-------------------------------- MODULE ChatPage --------------------------------
(***************************************************************************)
(* The chat with the robot (components/agent-chat.tsx): the transcript is  *)
(* put together from what the person sends and from a stream of events of  *)
(* the robot, which all chats share.  What the stream sends while it is    *)
(* not connected is lost.  The second stream, which says whether the agent *)
(* is idle, only drives a badge and is left out.                           *)
(***************************************************************************)
EXTENDS Page, Sequences

CONSTANTS
    MaxMessages,    \* bound: messages that the person sends
    Replies,        \* the kinds of events that the robot sends about a message
    MaxAnswers      \* bound: events that the robot sends about a message

ASSUME ChatConstants == MaxMessages \in Nat /\ MaxAnswers \in Nat

ASSUME NoTextReplies == Replies \cap {"user", "human"} = {}

VARIABLES
    lines,      \* the transcript
    sending,    \* the step of POST /agents/send, "no" if none is on
    message,    \* how many messages were sent: the last is their number
    connected,  \* the stream is
    queue,      \* the events on their way
    working,    \* the messages that the robot has and will answer
    answers     \* how many events it has sent about messages

chatVars == <<lines, sending, message, connected, queue, working, answers>>

Other == 0          \* the number of another person's messages
Messages == 0..MaxMessages
Kinds == {"user", "system_error", "human"} \cup Replies
Line == [kind : Kinds, of : Messages]

ChatTypeOK ==
    /\ \A i \in DOMAIN lines : lines[i] \in Line
    /\ sending \in {"no", "sent", "ok", "failed"} /\ message \in Messages
    /\ connected \in BOOLEAN
    /\ \A i \in DOMAIN queue : queue[i] \in Line
    /\ working \subseteq Messages /\ answers \in 0..MaxAnswers

ChatInit ==
    /\ lines = <<>> /\ sending = "no" /\ message = 0
    /\ connected = FALSE /\ queue = <<>>
    /\ working = {} /\ answers = 0

Here_ == open = "/chat"

-----------------------------------------------------------------------------
\* The stream.  EventSource connects again by itself.
Connect ==
    /\ Here_ /\ ~connected
    /\ connected' = TRUE
    /\ UNCHANGED <<pageVars, lines, sending, message, queue, working, answers>>

Disconnect ==
    /\ Here_ /\ connected
    /\ Fault
    /\ connected' = FALSE /\ queue' = <<>>
    /\ UNCHANGED <<lines, sending, message, working, answers>>

Publish(event) == queue' = IF connected THEN Append(queue, event) ELSE queue

\* The echo of the person's message is skipped: so are those of others.
Shown(event) == event.kind # "human"

Receive ==
    /\ Here_ /\ queue # <<>>
    /\ lines' = IF Shown(Head(queue)) THEN Append(lines, Head(queue)) ELSE lines
    /\ queue' = Tail(queue)
    /\ UNCHANGED <<pageVars, sending, message, connected, working, answers>>

-----------------------------------------------------------------------------
\* send.
Says(kind, m) == [kind |-> kind, of |-> m]

\* Mutant: the message is shown once the broker has answered.
SendFirst ==
    /\ Here_ /\ sending = "no"
    /\ message < MaxMessages /\ message' = message + 1
    /\ sending' = "sent"
    /\ UNCHANGED <<pageVars, lines, connected, queue, working, answers>>

SendMessage ==
    /\ Here_ /\ sending = "no"
    /\ message < MaxMessages /\ message' = message + 1
    /\ sending' = "sent"
    /\ lines' = Append(lines, Says("user", message'))
    /\ UNCHANGED <<pageVars, connected, queue, working, answers>>

\* The robot has a message and echoes it.
Arrive(m) ==
    /\ working' = working \cup {m}
    /\ Publish(Says("human", m))

\* The broker passes the message on and answers when the robot is silent, or
\* fails before or after the robot got it; the robot may be slower than that.
ServeMessage ==
    /\ sending = "sent"
    /\ \/ /\ Arrive(message)
          /\ \/ sending' = "ok" /\ UNCHANGED pageVars
             \/ sending' = "failed" /\ Fault
       \/ sending' = "failed" /\ Fault /\ UNCHANGED <<queue, working>>
    /\ UNCHANGED <<lines, message, connected, answers>>

MessageAnswered ==
    /\ Here_ /\ sending \in {"ok", "failed"}
    /\ lines' = IF sending = "failed" THEN Append(lines, Says("system_error", message)) ELSE lines
    /\ sending' = "no"
    /\ UNCHANGED <<pageVars, message, connected, queue, working, answers>>

\* The robot: it works on a message, and is done with it.
RobotSays ==
    /\ Here_ /\ answers < MaxAnswers /\ answers' = answers + 1
    /\ \E m \in working, kind \in Replies : Publish(Says(kind, m))
    /\ UNCHANGED <<pageVars, lines, sending, message, connected, working>>

RobotDone ==
    /\ Here_
    /\ \E m \in working : working' = working \ {m}
    /\ UNCHANGED <<pageVars, lines, sending, message, connected, queue, answers>>

\* Somebody else chats with the same robot.
OtherChats ==
    /\ Here_ /\ Elsewhere
    /\ Arrive(Other)
    /\ UNCHANGED <<lines, sending, message, connected, answers>>

ChatNext ==
    \/ Connect \/ Disconnect \/ Receive \/ SendMessage \/ ServeMessage \/ MessageAnswered
    \/ RobotSays \/ RobotDone \/ OtherChats

-----------------------------------------------------------------------------
\* Whatever the transcript says about the person's own message, a reply, a
\* tool call, a denial or a failure, stands below the one line with the
\* message (agent-chat.tsx, send and the stream's onmessage).
RepliesFollowMessages ==
    \A i \in DOMAIN lines : lines[i].of # Other =>
        LET texts == {j \in DOMAIN lines :
                        lines[j].kind \in {"user", "human"} /\ lines[j].of = lines[i].of}
        IN \E j \in texts : texts = {j} /\ j <= i
=============================================================================
