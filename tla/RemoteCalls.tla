---------------------------- MODULE RemoteCalls ----------------------------
(* What the client library promises to the threads that use it: a command   *)
(* is carried out by the server at one moment between being sent and being  *)
(* answered, and its sender receives what it produced then. Only a lost     *)
(* connection excuses a missing answer, and nobody gets somebody else's.    *)
CONSTANTS Threads,    \* the threads that call
          NoAnswer    \* what a call returns when the connection is lost

VARIABLES online,     \* the connection stands
          call        \* per thread: the command that is out, and its result

vars == <<online, call>>

Idle == [state |-> "idle"]
Sent(c) == [state |-> "sent", command |-> c]
Executed(c, v) == [state |-> "executed", command |-> c, value |-> v]
Answered(c, v) == [state |-> "answered", command |-> c, value |-> v]

Init == /\ online \in BOOLEAN
        /\ call = [t \in Threads |-> Idle]

Resting(t) == call[t].state \in {"idle", "answered"}
Becomes(t, c) == call' = [call EXCEPT ![t] = c] /\ UNCHANGED online

\* A thread sends a command; one command is out at a time.
Send(t) == /\ \A s \in Threads : Resting(s)
           /\ call'[t].state = "sent"
           /\ Becomes(t, Sent(call'[t].command))

\* The server carries it out.
Execute(t) == /\ call[t].state = "sent"
              /\ call'[t].state = "executed"
              /\ Becomes(t, Executed(call[t].command, call'[t].value))

\* The answer to this command, and to no other, comes back.
Answer(t) == /\ call[t].state = "executed"
             /\ Becomes(t, Answered(call[t].command, call[t].value))

\* There is no connection any more. Whether the command was carried out is
\* not known.
Fail(t) == /\ ~online
           /\ ~Resting(t)
           /\ Becomes(t, Answered(call[t].command, NoAnswer))

\* The thread has looked at the answer.
Consume(t) == call[t].state = "answered" /\ Becomes(t, Idle)

\* Answers under way may be lost with the connection.
Disconnect == /\ online
              /\ online' = FALSE
              /\ \E L \in SUBSET {t \in Threads : call[t].state = "executed"} :
                   call' = [t \in Threads |->
                              IF t \in L THEN Sent(call[t].command)
                              ELSE call[t]]

Reconnect == /\ online' = TRUE
             /\ \A t \in Threads : Resting(t)
             /\ UNCHANGED call

Next == \/ \E t \in Threads : \/ Send(t) \/ Execute(t) \/ Answer(t)
                              \/ Fail(t) \/ Consume(t)
        \/ Disconnect
        \/ Reconnect

Spec == Init /\ [][Next]_vars
=============================================================================
