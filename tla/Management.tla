------------------------------ MODULE Management ------------------------------
(***************************************************************************)
(* The management interface: mgmt_thread_main accepts connections, a       *)
(* handler thread per connection authenticates the client, answers its     *)
(* commands one by one and has the list dumped after them, and             *)
(* connection_manager queues messages for the clients that subscribed to   *)
(* a topic.  Commands are told apart by what they do to the list, the      *)
(* subscriptions and the file; what they do to single downloads is the     *)
(* subject of modules Scheduler and PackageList.                           *)
(*                                                                         *)
(* Everything a client is sent is sent by its own handler.                 *)
(***************************************************************************)
EXTENDS ListFile, SubSequences, SequencesExt

CONSTANTS
  Conns,     \* client objects, each with its handler thread
  Saver,     \* a download thread that dumps the list
  MaxClient, \* bound on client ids
  MaxQueue   \* bound on the messages queued for a client

ASSUME ManagementAssumption ==
  /\ Conns \subseteq Dumpers /\ Saver \in Dumpers \ Conns
  /\ MaxClient \in Nat /\ MaxQueue \in Nat

VARIABLES
  connections,   \* connection_manager::connections
  client_id,     \* of each client object
  phase,         \* where the handler of the client is
  subscriptions, \* the topics of each client
  subs_messages  \* the messages queued for each client, by topic

sessions == <<connections, client_id, phase, subscriptions, subs_messages>>
vars == <<fileVars, sessions>>

Topics == {"SUBS_DOWNLOADS", "SUBS_CONFIG"}

\* "none": the object is free; "left": it is in connections, but no handler
\* serves it; "recv": the handler reads a command from the socket.
Phases == {"none", "left", "auth", "idle", "recv", "dump"}
Goto(c, p) == phase' = [phase EXCEPT ![c] = p]
Connected(c) == phase[c] \notin {"none", "left"}

--------------------------------------------------------------------------------
(* connection_manager.                                                      *)

\* Fault: the id is the number of connections.
NextClientIdByCount == Len(connections)

NextClientId ==
  IF connections = <<>> THEN 0 ELSE client_id[Last(connections)] + 1

\* del_client: the first connection with that id, and its client object.
Deleted(i) ==
  LET with == {j \in DOMAIN connections : client_id[connections[j]] = i}
  IN  IF with = {} THEN connections
      ELSE RemoveAt(connections, CHOOSE j \in with : \A k \in with : j <= k)

\* push_message: a message for every client that subscribed to t.
Push(t) ==
  LET to == {c \in ToSet(connections) : t \in subscriptions[c]}
  IN  /\ \A c \in to : Len(subs_messages[c]) < MaxQueue
      /\ subs_messages' = [c \in Conns |-> IF c \in to THEN Append(subs_messages[c], t)
                                           ELSE subs_messages[c]]

\* Fault: what is queued for the topic stays queued.
UnsubscribedKeepingMessages(c, t) ==
  /\ subscriptions' = [subscriptions EXCEPT ![c] = @ \ {t}]
  /\ UNCHANGED subs_messages

\* unsubscribe also drops what is queued for the topic.
Unsubscribed(c, t) ==
  /\ subscriptions' = [subscriptions EXCEPT ![c] = @ \ {t}]
  /\ subs_messages' = [subs_messages EXCEPT ![c] = Kept(@, Topics \ {t})]

--------------------------------------------------------------------------------
(* The life of a connection.                                                *)

\* mgmt_thread_main.  A password may be asked for; the thread may fail to start.
Accept(c) ==
  /\ phase[c] = "none" /\ c \notin ToSet(connections)
  /\ NextClientId <= MaxClient
  /\ client_id' = [client_id EXCEPT ![c] = NextClientId]
  /\ connections' = Append(connections, c)
  /\ subscriptions' = [subscriptions EXCEPT ![c] = {}]
  /\ subs_messages' = [subs_messages EXCEPT ![c] = <<>>]
  /\ \E p \in {"auth", "idle", "left"} : Goto(c, p)
  /\ UNCHANGED fileVars

\* A handler that cannot authenticate its client returns without del_client.
Authenticate(c) ==
  /\ phase[c] = "auth"
  /\ \E p \in {"idle", "left"} : Goto(c, p)
  /\ UNCHANGED <<fileVars, connections, client_id, subscriptions, subs_messages>>

\* A subscriber's handler sends what is queued before it looks for a command.
SendMessage(c) ==
  /\ phase[c] = "idle" /\ subscriptions[c] # {} /\ subs_messages[c] # <<>>
  /\ subs_messages' = [subs_messages EXCEPT ![c] = Tail(@)]
  /\ UNCHANGED <<fileVars, connections, client_id, phase, subscriptions>>

\* Fault: the handler looks for a command first.
AwaitFirst(c) ==
  /\ phase[c] = "idle"
  /\ Goto(c, "recv")
  /\ UNCHANGED <<fileVars, connections, client_id, subscriptions, subs_messages>>

\* Without subscriptions the handler blocks in recv, with some it goes there
\* when nothing is queued and the socket has something to read.
Await(c) ==
  /\ phase[c] = "idle"
  /\ subscriptions[c] = {} \/ subs_messages[c] = <<>>
  /\ Goto(c, "recv")
  /\ UNCHANGED <<fileVars, connections, client_id, subscriptions, subs_messages>>

\* The client is gone: del_client destroys what has the handler's id.
Disconnect(c) ==
  /\ phase[c] \in {"idle", "recv"}
  /\ connections' = Deleted(client_id[c])
  /\ LET kept == ToSet(connections')
     IN  /\ client_id' = [d \in Conns |-> IF d \in kept THEN client_id[d] ELSE 0]
         /\ subscriptions' = [d \in Conns |-> IF d \in kept THEN subscriptions[d] ELSE {}]
         /\ subs_messages' = [d \in Conns |-> IF d \in kept THEN subs_messages[d] ELSE <<>>]
  /\ Goto(c, "none")
  /\ UNCHANGED fileVars

--------------------------------------------------------------------------------
(* Commands.  After most of them the list is dumped.                        *)

\* A command that is refused, or that holds the word LIST and changes nothing.
NoDumpCommand(c) ==
  /\ phase[c] = "recv"
  /\ Goto(c, "idle")
  /\ UNCHANGED <<fileVars, connections, client_id, subscriptions, subs_messages>>

\* A command on other things: ROUTER, FILE, CAPTCHA, PREMIUM, VAR GET ...
OtherCommand(c) ==
  /\ phase[c] = "recv"
  /\ Goto(c, "dump")
  /\ UNCHANGED <<fileVars, connections, client_id, subscriptions, subs_messages>>

\* DL and PKG commands.  There is no dump if the command holds the word LIST
\* anywhere, as in an url or in the name of a package.
ListCommand(c) ==
  /\ phase[c] = "recv"
  /\ \E new \in Lists \ {list} : Change(new)
  /\ \/ Goto(c, "dump") /\ UNCHANGED excuse
     \/ Goto(c, "idle") /\ excuse' = Owed
  /\ Push("SUBS_DOWNLOADS")
  /\ UNCHANGED <<connections, client_id, subscriptions>>

\* VAR SET.
SetVariable(c) ==
  /\ phase[c] = "recv"
  /\ Push("SUBS_CONFIG")
  /\ Goto(c, "dump")
  /\ UNCHANGED <<fileVars, connections, client_id, subscriptions>>

\* SUBSCRIPTION ADD and DEL.
Subscribe(c, t) ==
  /\ phase[c] = "recv"
  /\ subscriptions' = [subscriptions EXCEPT ![c] = @ \cup {t}]
  /\ Goto(c, "dump")
  /\ UNCHANGED <<fileVars, connections, client_id, subs_messages>>

Unsubscribe(c, t) ==
  /\ phase[c] = "recv"
  /\ Unsubscribed(c, t)
  /\ Goto(c, "dump")
  /\ UNCHANGED <<fileVars, connections, client_id>>

Receive(c) ==
  \/ Disconnect(c) \/ NoDumpCommand(c) \/ OtherCommand(c)
  \/ ListCommand(c) \/ SetVariable(c)
  \/ \E t \in Topics : Subscribe(c, t) \/ Unsubscribe(c, t)

\* dump_to_file at the end of the handler's loop.
StartDump(c) ==
  /\ phase[c] = "dump"
  /\ \/ DumpAtOnce /\ Goto(c, "idle")
     \/ Open(c) /\ UNCHANGED phase
  /\ UNCHANGED <<connections, client_id, subscriptions, subs_messages>>

FinishDump(c) ==
  /\ Write(c)
  /\ Goto(c, "idle")
  /\ UNCHANGED <<connections, client_id, subscriptions, subs_messages>>

HandlerNext(c) ==
  \/ Authenticate(c) \/ SendMessage(c) \/ Await(c) \/ Receive(c)
  \/ StartDump(c) \/ FinishDump(c)

--------------------------------------------------------------------------------
(* The download threads, and the process.                                   *)

Progress ==
  /\ BackgroundChange /\ Push("SUBS_DOWNLOADS")
  /\ UNCHANGED <<connections, client_id, phase, subscriptions>>

SaverStarts == (DumpAtOnce \/ Open(Saver)) /\ UNCHANGED sessions
SaverFinishes == Write(Saver) /\ UNCHANGED sessions

Restart ==
  /\ FileRestart
  /\ connections' = <<>>
  /\ client_id' = [c \in Conns |-> 0]
  /\ phase' = [c \in Conns |-> "none"]
  /\ subscriptions' = [c \in Conns |-> {}]
  /\ subs_messages' = [c \in Conns |-> <<>>]

Init ==
  /\ FileInit
  /\ connections = <<>>
  /\ client_id = [c \in Conns |-> 0]
  /\ phase = [c \in Conns |-> "none"]
  /\ subscriptions = [c \in Conns |-> {}]
  /\ subs_messages = [c \in Conns |-> <<>>]

Next ==
  \/ \E c \in Conns : Accept(c) \/ HandlerNext(c)
  \/ Progress \/ SaverStarts \/ SaverFinishes
  \/ Restart

Spec == Init /\ [][Next]_vars

\* A handler goes on, and gets the mutex it waits for; a subscriber's handler is
\* in recv only when there is something to read.  Clients read what they are
\* sent.
HandlersGoOn ==
  /\ \A c \in Conns :
       /\ WF_vars(SendMessage(c))
       /\ WF_vars(subscriptions[c] # {} /\ Receive(c))
       /\ SF_vars(StartDump(c))
       /\ WF_vars(FinishDump(c))
  /\ WF_vars(SaverFinishes)

FairSpec == Spec /\ HandlersGoOn

--------------------------------------------------------------------------------
(* What should hold.                                                        *)

\* The handler that has the file open, and mx with it, is in its dump.
WriterIsDumping == \A c \in Conns : dumping = c => phase[c] = "dump"

\* The variables keep their types, and a handler that is done with its dump,
\* also with one that failed, has given the mutex back.
TypeOK ==
  /\ FileTypeOK
  /\ connections \in Seq(Conns) /\ client_id \in [Conns -> 0 .. MaxClient]
  /\ phase \in [Conns -> Phases]
  /\ subscriptions \in [Conns -> SUBSET Topics]
  /\ subs_messages \in [Conns -> Seq(Topics)]
  /\ WriterIsDumping

Settled == Unlocked /\ \A c \in Conns : phase[c] # "dump"

\* When every handler is done with its dump, the file holds the list: whatever
\* the handlers' and the download threads' changes and dumps overlapped with,
\* and also after a file that could not be opened.  Excused are changes nobody
\* dumped yet and a write that failed, and a list that became empty: in a new
\* process that is the text written last, and the deletion is not saved.
NothingUnsaved ==
  Settled /\ excuse = "none" =>
    file = list \/ (list = NoPackages /\ last_dlist = NoPackages)

\* A handler at work has its client object: it is listed once, under an id that
\* is its own, and no other handler's del_client has destroyed it.
HandlersHaveClients ==
  \A c \in Conns : Connected(c) =>
    /\ c \in ToSet(connections)
    /\ \A d \in ToSet(connections) : client_id[d] = client_id[c] => d = c

\* Only what a client still subscribes to is queued for it, and so sent to it,
\* however its commands interleave with the threads that push.
OnlySubscribedIsQueued ==
  \A c \in Conns : Connected(c) => ToSet(subs_messages[c]) \subseteq subscriptions[c]

\* No message waits for ever in a queue: the handler goes on sending, also to a
\* client that keeps it busy with commands.
MessagesAreSent ==
  \A c \in Conns : []<>(subs_messages[c] = <<>>) \/ []<><<SendMessage(c)>>_vars
================================================================================
