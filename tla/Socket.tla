-------------------------------- MODULE Socket --------------------------------
(* tkSock: messages over a stream of bytes. A message goes as its length, a *)
(* colon and its body; the stream cuts and joins it where it likes. This is *)
(* one direction of a connection, with the socket at each of its ends.      *)
EXTENDS Integers, Sequences, SequencesExt

CONSTANTS Bodies,       \* what is sent: sequences of bytes, at most 9 of them
          MaxRecv,      \* m_maxrecv: bytes that one ::recv asks for
          MaxSends,     \* bound: messages per connection
          MaxConnects   \* bound: connections

\* The codes of '0' and ':'.
Bytes == 0 .. 255
DigitZero == 48
ColonByte == 58
ASSUME BodyAssumption ==
  /\ Bodies \subseteq Seq(Bytes) /\ \A b \in Bodies : Len(b) < 10
  /\ MaxRecv \in Nat

VARIABLES
  outgoing, passed,   \* send: s_new, and how much of it went out (status)
  sending,            \* send has been called and has not returned
  wire, inbox,        \* bytes under way, and bytes that have arrived
  part, missing,      \* recv: s, and msgLen - status
  receiving,          \* recv has read a header and has not returned
  senderValid, receiverValid,  \* valid, at the two ends
  closed, broken,     \* the sender is gone; the connection is lost
  said, heard,        \* auxiliary: what send was given and recv has returned
  connects            \* counter of the bound

socketEnds == <<outgoing, passed, sending, part, missing, receiving>>
socketStream == <<wire, inbox, closed, broken>>
socketAux == <<said, heard, connects>>
tkSockVars == <<socketEnds, socketStream, senderValid, receiverValid, socketAux>>

-----------------------------------------------------------------------------
(* send.                                                                    *)

\* append_header.
WithHeader(body) == <<DigitZero + Len(body), ColonByte>> \o body

SendBegins == /\ senderValid /\ ~sending /\ ~closed
              /\ Len(said) < MaxSends
              /\ \E body \in Bodies : /\ outgoing' = WithHeader(body)
                                      /\ said' = Append(said, body)
              /\ passed' = 0
              /\ sending' = TRUE
              /\ UNCHANGED <<part, missing, receiving, socketStream, senderValid,
                             receiverValid, heard, connects>>

\* ::send takes some of the bytes. The call returns when it has taken all.
SendSome == /\ sending /\ ~broken /\ ~closed
            /\ passed < Len(outgoing)
            /\ \E n \in 1..(Len(outgoing) - passed) :
                 /\ wire' = wire \o SubSeq(outgoing, passed + 1, passed + n)
                 /\ passed' = passed + n
            /\ sending' = (passed' < Len(outgoing))
            /\ UNCHANGED <<outgoing, part, missing, receiving, inbox, closed,
                           broken, senderValid, receiverValid, socketAux>>

\* ::send fails: its -1 is added to what has been sent so far, and the loop is
\* left once that is negative.
SendFails == /\ sending /\ broken /\ ~closed
             /\ passed' = passed - 1
             /\ sending' = (passed' >= 0)
             /\ senderValid' = (passed' >= 0)
             /\ UNCHANGED <<outgoing, part, missing, receiving, socketStream,
                            receiverValid, socketAux>>

-----------------------------------------------------------------------------
(* recv.                                                                    *)

Returns(body) == /\ heard' = Append(heard, body)
                 /\ part' = <<>>
                 /\ missing' = 0
                 /\ receiving' = FALSE
Gives == /\ part' = <<>> /\ missing' = 0 /\ receiving' = FALSE
         /\ receiverValid' = FALSE
         /\ UNCHANGED heard

\* The first bytes are looked at, and the header is taken out; recv is left at
\* once when the message is empty.
Colon == CHOOSE i \in DOMAIN inbox :
           inbox[i] = ColonByte /\ \A j \in 1..(i - 1) : inbox[j] # ColonByte
Number(digit) == digit - DigitZero
RecvHeader == /\ receiverValid /\ ~receiving
              /\ ColonByte \in ToSet(inbox)
              /\ LET length == Number(inbox[1])
                 IN  IF length = 0 THEN Returns(<<>>)
                     ELSE /\ missing' = length
                          /\ receiving' = TRUE
                          /\ UNCHANGED <<part, heard>>
              /\ inbox' = SubSeq(inbox, Colon + 1, Len(inbox))
              /\ UNCHANGED <<outgoing, passed, sending, wire, closed, broken,
                             senderValid, receiverValid, said, connects>>

\* No colon has arrived yet, or nothing will arrive any more: the connection
\* is given up.
Ended == broken \/ (closed /\ wire = <<>>)
RecvNoHeader == /\ receiverValid /\ ~receiving
                /\ inbox # <<>> \/ Ended
                /\ ColonByte \notin ToSet(inbox)
                /\ Gives
                /\ UNCHANGED <<outgoing, passed, sending, socketStream,
                               senderValid, said, connects>>

\* Fault: the last piece is not cut to what the message lacks.
ToRecvAll == MaxRecv
\* The body comes in pieces of at most MaxRecv bytes; what follows it stays.
ToRecv == IF MaxRecv > missing THEN missing ELSE MaxRecv
RecvSome ==
  /\ receiving
  /\ \E n \in 1..Len(inbox) :
       /\ n <= ToRecv
       /\ LET got == part \o SubSeq(inbox, 1, n)
          IN  IF n >= missing THEN Returns(got)
              ELSE /\ part' = got
                   /\ missing' = missing - n
                   /\ UNCHANGED <<receiving, heard>>
       /\ inbox' = SubSeq(inbox, n + 1, Len(inbox))
  /\ UNCHANGED <<outgoing, passed, sending, wire, closed, broken, senderValid,
                 receiverValid, said, connects>>

\* Fault: no time is set for ::recv.
RecvFailsOnError == /\ receiving /\ inbox = <<>>
                    /\ broken
                    /\ Gives
                    /\ UNCHANGED <<outgoing, passed, sending, socketStream,
                                   senderValid, said, connects>>
\* A minute without a byte (SO_RCVTIMEO), or an error. At the end of the stream
\* ::recv returns 0 instead, and the loop goes round without getting on.
RecvFails == /\ receiving /\ inbox = <<>>
             /\ broken \/ ~closed
             /\ Gives
             /\ UNCHANGED <<outgoing, passed, sending, socketStream, senderValid,
                            said, connects>>

-----------------------------------------------------------------------------
(* The connection.                                                          *)

Arrive == /\ wire # <<>> /\ ~broken
          /\ \E n \in 1..Len(wire) :
               /\ inbox' = inbox \o SubSeq(wire, 1, n)
               /\ wire' = SubSeq(wire, n + 1, Len(wire))
          /\ UNCHANGED <<socketEnds, closed, broken, senderValid, receiverValid,
                         socketAux>>

\* ~tkSock, disconnect, or the end of the process.
Close == /\ ~closed
         /\ closed' = TRUE
         /\ senderValid' = FALSE
         /\ sending' = FALSE
         /\ UNCHANGED <<outgoing, passed, part, missing, receiving, wire, inbox,
                        broken, receiverValid, socketAux>>

LoseConnection == /\ ~broken
                  /\ broken' = TRUE
                  /\ wire' = <<>>
                  /\ UNCHANGED <<socketEnds, inbox, closed, senderValid,
                                 receiverValid, socketAux>>

\* connect at the one end and accept at the other, when both are done with the
\* connection before.
ConnectAccept ==
  /\ closed \/ ~senderValid
  /\ ~sending /\ ~receiving /\ ~receiverValid
  /\ connects < MaxConnects
  /\ connects' = connects + 1
  /\ senderValid' = TRUE
  /\ receiverValid' = TRUE
  /\ closed' = FALSE
  /\ broken' = FALSE
  /\ wire' = <<>>
  /\ inbox' = <<>>
  /\ said' = <<>>
  /\ heard' = <<>>
  /\ UNCHANGED socketEnds

TkSockInit ==
  /\ outgoing = <<>> /\ passed = 0 /\ sending = FALSE
  /\ wire = <<>> /\ inbox = <<>> /\ closed = FALSE /\ broken = FALSE
  /\ part = <<>> /\ missing = 0 /\ receiving = FALSE
  /\ senderValid = FALSE /\ receiverValid = FALSE
  /\ said = <<>> /\ heard = <<>> /\ connects = 0

SendStep == SendSome \/ SendFails
RecvStep == RecvHeader \/ RecvNoHeader \/ RecvSome \/ RecvFails
TkSockNext == \/ SendBegins \/ SendStep \/ RecvStep \/ Arrive
              \/ Close \/ LoseConnection \/ ConnectAccept

\* The threads in send and recv run on; ::recv fails when nothing comes.
TkSockFairness == WF_tkSockVars(SendStep) /\ WF_tkSockVars(RecvStep)
TkSockSpec == TkSockInit /\ [][TkSockNext]_tkSockVars /\ TkSockFairness

-----------------------------------------------------------------------------
(* Properties.                                                              *)

\* recv returns the messages that were given to send, each of them whole and
\* in order, however the stream was cut, whatever a message contains, and up
\* to the moment when the connection is given up.
MessagesArriveWhole == IsPrefix(heard, said)

\* recv comes back, also when the other end says nothing more or the connection
\* is lost, with one exception that the code makes: a stream that ends inside a
\* body.
RecvReturns == receiving ~> ~receiving \/ closed
=============================================================================
