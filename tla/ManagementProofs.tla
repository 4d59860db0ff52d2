--------------------------- MODULE ManagementProofs ---------------------------
(***************************************************************************)
(* What the management interface guarantees for any number of clients,     *)
(* lists and messages: a handler keeps its client object, a client is only *)
(* sent what it subscribes to, and no finished dump leaves a list unsaved. *)
(*                                                                         *)
(* What a host plugin can rely on, for any number of threads, identifiers, *)
(* values and images: that the settings and the account that it is asked   *)
(* with are those that were set (module Settings), and that an answer to a *)
(* captcha was given to the image that is there (module Captcha); and what *)
(* the user can rely on who changes the settings in the window             *)
(* (ConfigureDialog): that what is saved is what was entered.              *)
(***************************************************************************)
EXTENDS Management, Settings, ConfigureDialog, Captcha, DataFacts

--------------------------------------------------------------------------------
(* The queue of a client.                                                    *)

\* A message at the end of a queue, and a queue without its first message.
LEMMA QueueFacts ==
  ASSUME NEW S, NEW q \in Seq(S)
  PROVE  /\ \A m \in S : Append(q, m) \in Seq(S)
         /\ q # <<>> => Tail(q) \in Seq(S)
BY AppendProperties, HeadTailProperties

--------------------------------------------------------------------------------
(* What the connections and the file owe each other.                         *)

SessionTypes ==
  /\ connections \in Seq(Conns) /\ client_id \in [Conns -> 0 .. MaxClient]
  /\ phase \in [Conns -> Phases]
  /\ subscriptions \in [Conns -> SUBSET Topics]
  /\ subs_messages \in [Conns -> Seq(Topics)]

\* The ids grow along connections, so that no two clients have one id.
IdsGrow ==
  \A i, j \in DOMAIN connections :
    i < j => client_id[connections[i]] < client_id[connections[j]]

\* The client of a handler at work is listed.
HandlersAreListed ==
  \A c \in Conns : Connected(c) => \E i \in DOMAIN connections : connections[i] = c

\* Unless the file is torn, it holds the text written last, if there is one.
LastIsInFile ==
  Unlocked /\ excuse # "torn" => file = last_dlist \/ last_dlist = NoPackages

\* What a step does to phase and no more: a handler at work goes on.
Moves(c) ==
  /\ \/ Connected(c) /\ \E p \in Phases \ {"none"} : Goto(c, p)
     \/ UNCHANGED phase
  /\ UNCHANGED <<connections, client_id, subscriptions, subs_messages>>

\* What a step does that also pushes messages.
Pushes ==
  /\ \E t \in Topics : Push(t)
  /\ \/ \E c \in Conns, p \in Phases \ {"none"} : Connected(c) /\ Goto(c, p)
     \/ UNCHANGED phase
  /\ UNCHANGED <<connections, client_id, subscriptions>>

\* A client's subscriptions and queue change by its own command or sending.
Serves(c) ==
  /\ Connected(c)
  /\ \/ \E t \in Topics : subscriptions' = [subscriptions EXCEPT ![c] = @ \cup {t}]
                           /\ UNCHANGED subs_messages
     \/ \E t \in Topics : Unsubscribed(c, t)
     \/ /\ subs_messages[c] # <<>>
        /\ subs_messages' = [subs_messages EXCEPT ![c] = Tail(@)]
        /\ UNCHANGED subscriptions
  /\ (\E p \in Phases \ {"none"} : Goto(c, p)) \/ UNCHANGED phase
  /\ UNCHANGED <<connections, client_id>>

\* Every step is of one of these kinds, as far as the connections go.
LEMMA SessionSteps ==
  ASSUME SessionTypes, WriterIsDumping, [Next]_vars
  PROVE  \/ \E c \in Conns : Accept(c) \/ Disconnect(c) \/ Moves(c) \/ Serves(c)
         \/ Pushes \/ Restart \/ UNCHANGED sessions
<1>1. "idle" \in Phases \ {"none"} /\ "recv" \in Phases \ {"none"}
      /\ "dump" \in Phases \ {"none"} /\ "left" \in Phases \ {"none"}
  BY DEF Phases
<1>2. CASE \E c \in Conns : Authenticate(c) \/ Await(c) \/ NoDumpCommand(c)
                            \/ OtherCommand(c)
  BY <1>1, <1>2 DEF Authenticate, Await, NoDumpCommand, OtherCommand, Moves,
                    Connected, fileVars
<1>3. CASE \E c \in Conns : SendMessage(c)
  BY <1>3 DEF SendMessage, Serves, Connected
<1>4. CASE \E c \in Conns, t \in Topics : Subscribe(c, t) \/ Unsubscribe(c, t)
  <2>1. PICK c \in Conns, t \in Topics : Subscribe(c, t) \/ Unsubscribe(c, t)
    BY <1>4
  <2>2. CASE Subscribe(c, t)
    BY <1>1, <2>2 DEF Subscribe, Serves, Connected
  <2>3. CASE Unsubscribe(c, t)
    BY <1>1, <2>3 DEF Unsubscribe, Serves, Connected
  <2> QED BY <2>1, <2>2, <2>3
<1>5. CASE \E c \in Conns : ListCommand(c) \/ SetVariable(c)
  <2>1. PICK c \in Conns : ListCommand(c) \/ SetVariable(c)
    BY <1>5
  <2>2. Connected(c) /\ \E p \in Phases \ {"none"} : Goto(c, p)
    BY <1>1, <2>1 DEF ListCommand, SetVariable, Connected
  <2>3. "SUBS_DOWNLOADS" \in Topics /\ "SUBS_CONFIG" \in Topics
    BY DEF Topics
  <2>4. \E t \in Topics : Push(t)
    BY <2>1, <2>3 DEF ListCommand, SetVariable
  <2> QED BY <2>1, <2>2, <2>4 DEF ListCommand, SetVariable, Pushes
<1>6. CASE \E c \in Conns : StartDump(c)
  BY <1>1, <1>6 DEF StartDump, Moves, Connected
<1>7. CASE \E c \in Conns : FinishDump(c)
  BY <1>1, <1>7 DEF FinishDump, Write, Moves, Connected, WriterIsDumping
<1>8. CASE Progress
  <2>1. "SUBS_DOWNLOADS" \in Topics
    BY DEF Topics
  <2> QED BY <1>8, <2>1 DEF Progress, Pushes
<1>9. CASE SaverStarts \/ SaverFinishes \/ UNCHANGED vars
  BY <1>9 DEF SaverStarts, SaverFinishes, vars
<1> QED BY <1>2, <1>3, <1>4, <1>5, <1>6, <1>7, <1>8, <1>9
        DEF Next, HandlerNext, Receive

--------------------------------------------------------------------------------
(* Clients come and go.                                                      *)

\* del_client destroys the object of the handler that calls it.
LEMMA DeletedFacts ==
  ASSUME SessionTypes, IdsGrow,
         NEW k \in DOMAIN connections
  PROVE  Deleted(client_id[connections[k]]) = RemoveAt(connections, k)
<1> DEFINE with == {j \in DOMAIN connections :
                      client_id[connections[j]] = client_id[connections[k]]}
<1>1. /\ DOMAIN connections = 1 .. Len(connections) /\ Len(connections) \in Nat
      /\ \A j \in DOMAIN connections : connections[j] \in Conns
  BY LenProperties DEF SessionTypes
<1>2. \A j \in DOMAIN connections : client_id[connections[j]] \in Nat
  BY <1>1, ManagementAssumption DEF SessionTypes
<1>3. with = {k}
  BY <1>1, <1>2 DEF IdsGrow
<1>4. (CHOOSE j \in with : \A l \in with : j <= l) = k
  BY <1>1, <1>3
<1> QED BY <1>3, <1>4 DEF Deleted

\* The next id is a new one, greater than the others.
LEMMA NextIdFacts ==
  ASSUME SessionTypes, IdsGrow, NextClientId <= MaxClient
  PROVE  /\ NextClientId \in 0 .. MaxClient
         /\ \A i \in DOMAIN connections : client_id[connections[i]] < NextClientId
<1>1. /\ DOMAIN connections = 1 .. Len(connections) /\ Len(connections) \in Nat
      /\ \A j \in DOMAIN connections : connections[j] \in Conns
  BY LenProperties DEF SessionTypes
<1>2. \A j \in DOMAIN connections : client_id[connections[j]] \in 0 .. MaxClient
  BY <1>1 DEF SessionTypes
<1>3. MaxClient \in Nat
  BY ManagementAssumption
<1>4. CASE connections = <<>>
  <2>1. NextClientId = 0
    BY <1>4 DEF NextClientId
  <2>2. DOMAIN connections = {}
    BY <1>4
  <2> QED BY <1>3, <2>1, <2>2
<1>5. CASE connections # <<>>
  <2>1. Len(connections) \in DOMAIN connections
    BY <1>1, <1>5, EmptySeq DEF SessionTypes
  <2>2. NextClientId = client_id[connections[Len(connections)]] + 1
    BY <1>5 DEF NextClientId, Last
  <2>3. ASSUME NEW i \in DOMAIN connections
        PROVE  client_id[connections[i]] <= client_id[connections[Len(connections)]]
    BY <1>1, <1>2, <2>1 DEF IdsGrow
  <2> QED BY <1>2, <1>3, <2>1, <2>2, <2>3
<1> QED BY <1>4, <1>5

SessionInv ==
  SessionTypes /\ IdsGrow /\ HandlersAreListed /\ OnlySubscribedIsQueued

\* A connection is accepted: a handler with a client of its own, not subscribed.
LEMMA AcceptKeepsSessions ==
  ASSUME SessionInv, NEW c \in Conns, Accept(c)
  PROVE  SessionInv'
<1> USE DEF SessionInv
<1>1. /\ DOMAIN connections = 1 .. Len(connections) /\ Len(connections) \in Nat
      /\ \A j \in DOMAIN connections : connections[j] \in Conns /\ connections[j] # c
  BY LenProperties DEF SessionTypes, Accept, ToSet
<1>2. /\ connections' \in Seq(Conns)
      /\ DOMAIN connections' = 1 .. Len(connections) + 1
      /\ \A i \in 1 .. Len(connections) : connections'[i] = connections[i]
      /\ connections'[Len(connections) + 1] = c
  <2>1. connections' = Append(connections, c) /\ connections \in Seq(Conns)
    BY DEF Accept, SessionTypes
  <2> QED BY <2>1, AppendProperties, LenProperties
<1>3. /\ NextClientId \in 0 .. MaxClient
      /\ \A i \in DOMAIN connections : client_id[connections[i]] < NextClientId
  BY NextIdFacts DEF Accept
<1>4. /\ client_id' \in [Conns -> 0 .. MaxClient]
      /\ client_id'[c] = NextClientId
      /\ \A i \in DOMAIN connections :
           client_id'[connections[i]] = client_id[connections[i]]
  BY <1>1, <1>3 DEF Accept, SessionTypes
<1>5. PICK p \in {"auth", "idle", "left"} : Goto(c, p)
  BY DEF Accept
<1>6. SessionTypes'
  <2>1. phase' \in [Conns -> Phases]
    BY <1>5 DEF SessionTypes, Goto, Phases
  <2>2. subscriptions' \in [Conns -> SUBSET Topics]
    BY DEF SessionTypes, Accept
  <2>3. subs_messages' \in [Conns -> Seq(Topics)]
    BY EmptySeq DEF SessionTypes, Accept
  <2> QED BY <1>2, <1>4, <2>1, <2>2, <2>3 DEF SessionTypes
<1>7. IdsGrow'
  <2> SUFFICES ASSUME NEW i \in DOMAIN connections', NEW j \in DOMAIN connections',
                      i < j
               PROVE  client_id'[connections'[i]] < client_id'[connections'[j]]
    BY DEF IdsGrow
  <2>1. CASE j \in DOMAIN connections
    BY <1>1, <1>2, <1>4, <2>1 DEF IdsGrow
  <2>2. CASE j = Len(connections) + 1
    BY <1>1, <1>2, <1>3, <1>4, <2>2
  <2> QED BY <1>1, <1>2, <2>1, <2>2
<1>8. HandlersAreListed'
  <2> SUFFICES ASSUME NEW d \in Conns, Connected(d)'
               PROVE  \E i \in DOMAIN connections' : connections'[i] = d
    BY DEF HandlersAreListed
  <2>1. CASE d = c
    BY <1>1, <1>2, <2>1
  <2>2. CASE d # c
    <3>1. Connected(d)
      BY <1>5, <2>2 DEF Connected, Goto, SessionTypes
    <3> QED BY <1>1, <1>2, <3>1 DEF HandlersAreListed
  <2> QED BY <2>1, <2>2
<1>9. OnlySubscribedIsQueued'
  <2> SUFFICES ASSUME NEW d \in Conns, Connected(d)'
               PROVE  ToSet(subs_messages'[d]) \subseteq subscriptions'[d]
    BY DEF OnlySubscribedIsQueued
  <2>1. CASE d = c
    <3>1. subs_messages'[d] = <<>>
      BY <2>1 DEF Accept, SessionTypes
    <3>2. ToSet(<<>>) = {}
      BY DEF ToSet
    <3> QED BY <3>1, <3>2
  <2>2. CASE d # c
    <3>1. Connected(d)
      BY <1>5, <2>2 DEF Connected, Goto, SessionTypes
    <3>2. subs_messages'[d] = subs_messages[d] /\ subscriptions'[d] = subscriptions[d]
      BY <2>2 DEF Accept, SessionTypes
    <3> QED BY <3>1, <3>2 DEF OnlySubscribedIsQueued
  <2> QED BY <2>1, <2>2
<1> QED BY <1>6, <1>7, <1>8, <1>9

\* A connection ends: its handler goes through the clients to remove its own.
LEMMA DisconnectKeepsSessions ==
  ASSUME SessionInv, NEW c \in Conns, Disconnect(c)
  PROVE  SessionInv'
<1> USE DEF SessionInv
<1> DEFINE n == Len(connections)
<1>1. /\ DOMAIN connections = 1 .. n /\ n \in Nat
      /\ \A j \in DOMAIN connections : connections[j] \in Conns
  BY LenProperties DEF SessionTypes
<1>2. Connected(c)
  BY DEF Disconnect, Connected
<1>3. PICK k \in DOMAIN connections : connections[k] = c
  BY <1>2 DEF HandlersAreListed
<1>4. connections' = RemoveAt(connections, k)
  BY <1>3, DeletedFacts DEF Disconnect
<1>5. /\ connections' \in Seq(Conns)
      /\ Len(connections') = n - 1
      /\ \A i \in 1 .. n - 1 :
           connections'[i] = connections[IF i < k THEN i ELSE i + 1]
  BY <1>3, <1>4, RemoveAtFacts DEF SessionTypes
<1>6. DOMAIN connections' = 1 .. n - 1
  BY <1>5, LenProperties
<1> DEFINE kept == ToSet(connections')
<1>7. /\ client_id' = [d \in Conns |-> IF d \in kept THEN client_id[d] ELSE 0]
      /\ subscriptions' = [d \in Conns |-> IF d \in kept THEN subscriptions[d] ELSE {}]
      /\ subs_messages' = [d \in Conns |-> IF d \in kept THEN subs_messages[d] ELSE <<>>]
  BY DEF Disconnect
<1>8. \A i \in DOMAIN connections' : connections'[i] \in kept
  BY DEF ToSet
<1>9. ASSUME NEW d \in Conns, Connected(d)'
      PROVE  Connected(d) /\ d # c /\ \E i \in DOMAIN connections' : connections'[i] = d
  <2>1. Goto(c, "none")
    BY DEF Disconnect
  <2>2. d # c /\ Connected(d)
    BY <1>9, <2>1 DEF Connected, Goto, SessionTypes
  <2>3. PICK j \in DOMAIN connections : connections[j] = d
    BY <2>2 DEF HandlersAreListed
  <2>4. j # k
    BY <1>3, <2>2, <2>3
  <2>5. CASE j < k
    <3>1. j \in 1 .. n - 1
      BY <1>1, <1>3, <2>5
    <3> QED BY <1>5, <1>6, <2>2, <2>3, <2>5, <3>1
  <2>6. CASE k < j
    <3>1. j - 1 \in 1 .. n - 1 /\ ~ (j - 1 < k) /\ (j - 1) + 1 = j
      BY <1>1, <1>3, <2>6
    <3> QED BY <1>5, <1>6, <2>2, <2>3, <3>1
  <2> QED BY <1>1, <1>3, <2>4, <2>5, <2>6
<1> HIDE DEF kept
<1>10. SessionTypes'
  <2>1. client_id' \in [Conns -> 0 .. MaxClient]
    BY <1>7, ManagementAssumption DEF SessionTypes
  <2>2. phase' \in [Conns -> Phases]
    BY DEF SessionTypes, Disconnect, Goto, Phases
  <2>3. subscriptions' \in [Conns -> SUBSET Topics]
    BY <1>7 DEF SessionTypes
  <2>4. subs_messages' \in [Conns -> Seq(Topics)]
    BY <1>7, EmptySeq DEF SessionTypes
  <2> QED BY <1>5, <2>1, <2>2, <2>3, <2>4 DEF SessionTypes
<1>11. IdsGrow'
  <2> SUFFICES ASSUME NEW i \in DOMAIN connections', NEW j \in DOMAIN connections',
                      i < j
               PROVE  client_id'[connections'[i]] < client_id'[connections'[j]]
    BY DEF IdsGrow
  <2> DEFINE old(m) == IF m < k THEN m ELSE m + 1
  <2>1. old(i) \in DOMAIN connections /\ old(j) \in DOMAIN connections /\ old(i) < old(j)
    BY <1>1, <1>3, <1>6
  <2>2. connections'[i] = connections[old(i)] /\ connections'[j] = connections[old(j)]
    BY <1>5, <1>6
  <2>3. client_id[connections[old(i)]] < client_id[connections[old(j)]]
    BY <2>1 DEF IdsGrow
  <2>4. /\ client_id'[connections'[i]] = client_id[connections'[i]]
        /\ client_id'[connections'[j]] = client_id[connections'[j]]
    BY <1>1, <1>7, <1>8, <2>1, <2>2
  <2> QED BY <2>2, <2>3, <2>4
<1>12. HandlersAreListed'
  BY <1>9 DEF HandlersAreListed
<1>13. OnlySubscribedIsQueued'
  <2> SUFFICES ASSUME NEW d \in Conns, Connected(d)'
               PROVE  ToSet(subs_messages'[d]) \subseteq subscriptions'[d]
    BY DEF OnlySubscribedIsQueued
  <2>1. Connected(d) /\ d \in kept
    BY <1>8, <1>9
  <2>2. subs_messages'[d] = subs_messages[d] /\ subscriptions'[d] = subscriptions[d]
    BY <1>7, <2>1
  <2> QED BY <2>1, <2>2 DEF OnlySubscribedIsQueued
<1> QED BY <1>10, <1>11, <1>12, <1>13

--------------------------------------------------------------------------------
(* Clients at work.                                                          *)

\* Where connections and the ids stay, and a handler at work stays at work, the
\* handlers keep their clients.
LEMMA ListedStay ==
  ASSUME IdsGrow, HandlersAreListed, UNCHANGED <<connections, client_id>>,
         \A d \in Conns : Connected(d)' => Connected(d)
  PROVE  IdsGrow' /\ HandlersAreListed'
BY DEF IdsGrow, HandlersAreListed

\* A handler that moves on was connected before.
LEMMA ConnectedStay ==
  ASSUME SessionTypes,
         \/ \E c \in Conns, p \in Phases \ {"none"} : Connected(c) /\ Goto(c, p)
         \/ UNCHANGED phase
  PROVE  /\ phase' \in [Conns -> Phases]
         /\ \A d \in Conns : Connected(d)' => Connected(d)
BY DEF SessionTypes, Goto, Connected

\* A handler takes a step that leaves the clients where they are.
LEMMA MovesKeepsSessions ==
  ASSUME SessionInv, NEW c \in Conns, Moves(c)
  PROVE  SessionInv'
<1> USE DEF SessionInv
<1>1. /\ phase' \in [Conns -> Phases]
      /\ \A d \in Conns : Connected(d)' => Connected(d)
  BY ConnectedStay DEF Moves
<1>2. IdsGrow' /\ HandlersAreListed'
  BY <1>1, ListedStay DEF Moves
<1>3. SessionTypes' /\ OnlySubscribedIsQueued'
  BY <1>1 DEF Moves, SessionTypes, OnlySubscribedIsQueued
<1> QED BY <1>2, <1>3

\* A handler serves a command.
LEMMA ServesKeepsSessions ==
  ASSUME SessionInv, NEW c \in Conns, Serves(c)
  PROVE  SessionInv'
<1> USE DEF SessionInv
<1>1. /\ phase' \in [Conns -> Phases]
      /\ \A d \in Conns : Connected(d)' => Connected(d)
  BY ConnectedStay DEF Serves
<1>2. IdsGrow' /\ HandlersAreListed'
  BY <1>1, ListedStay DEF Serves
<1>3. /\ subs_messages[c] \in Seq(Topics) /\ subscriptions[c] \in SUBSET Topics
      /\ subs_messages[c] \in Seq(subscriptions[c])
  BY ToSetFacts DEF SessionTypes, Serves, OnlySubscribedIsQueued
<1>4. /\ subscriptions' = [subscriptions EXCEPT ![c] = subscriptions'[c]]
      /\ subs_messages' = [subs_messages EXCEPT ![c] = subs_messages'[c]]
      /\ subscriptions'[c] \in SUBSET Topics
      /\ subs_messages'[c] \in Seq(subscriptions'[c])
  <2>1. CASE \E t \in Topics : /\ subscriptions' = [subscriptions EXCEPT ![c] = @ \cup {t}]
                               /\ UNCHANGED subs_messages
    <3>1. PICK t \in Topics : /\ subscriptions' = [subscriptions EXCEPT ![c] = @ \cup {t}]
                              /\ UNCHANGED subs_messages
      BY <2>1
    <3>2. subscriptions[c] \subseteq subscriptions'[c]
          /\ subscriptions'[c] = subscriptions[c] \cup {t}
      BY <3>1 DEF SessionTypes
    <3>3. subs_messages[c] \in Seq(subscriptions'[c])
      BY <1>3, <3>2, SeqMonotonic
    <3> QED BY <1>3, <3>1, <3>2, <3>3 DEF SessionTypes
  <2>2. CASE \E t \in Topics : Unsubscribed(c, t)
    <3>1. PICK t \in Topics : Unsubscribed(c, t)
      BY <2>2
    <3>2. /\ subscriptions'[c] = subscriptions[c] \ {t}
          /\ subs_messages'[c] = Kept(subs_messages[c], Topics \ {t})
      BY <3>1 DEF Unsubscribed, SessionTypes
    <3>3. Kept(subs_messages[c], Topics \ {t}) \in Seq(subscriptions[c] \ {t})
      <4>1. Kept(subs_messages[c], Topics \ {t})
              \in Seq(subscriptions[c] \cap (Topics \ {t}))
        BY <1>3, KeptFacts
      <4>2. subscriptions[c] \cap (Topics \ {t}) = subscriptions[c] \ {t}
        BY <1>3
      <4> QED BY <4>1, <4>2
    <3> QED BY <1>3, <3>1, <3>2, <3>3 DEF Unsubscribed, SessionTypes
  <2>3. CASE /\ subs_messages[c] # <<>>
             /\ subs_messages' = [subs_messages EXCEPT ![c] = Tail(@)]
             /\ UNCHANGED subscriptions
    <3>1. subs_messages'[c] = Tail(subs_messages[c])
      BY <2>3 DEF SessionTypes
    <3>2. Tail(subs_messages[c]) \in Seq(subscriptions[c])
      BY <1>3, <2>3, QueueFacts
    <3> QED BY <1>3, <2>3, <3>1, <3>2 DEF SessionTypes
  <2> QED BY <2>1, <2>2, <2>3 DEF Serves
<1>5. subs_messages'[c] \in Seq(Topics)
  BY <1>4, SeqMonotonic
<1>6. SessionTypes'
  BY <1>1, <1>4, <1>5 DEF Serves, SessionTypes
<1>7. OnlySubscribedIsQueued'
  <2> SUFFICES ASSUME NEW d \in Conns, Connected(d)'
               PROVE  ToSet(subs_messages'[d]) \subseteq subscriptions'[d]
    BY DEF OnlySubscribedIsQueued
  <2>1. CASE d = c
    BY <1>4, <1>5, <2>1, ToSetFacts
  <2>2. CASE d # c
    <3>1. subs_messages'[d] = subs_messages[d] /\ subscriptions'[d] = subscriptions[d]
      BY <1>4, <2>2 DEF SessionTypes
    <3> QED BY <1>1, <3>1 DEF OnlySubscribedIsQueued
  <2> QED BY <2>1, <2>2
<1> QED BY <1>2, <1>6, <1>7

\* An update is queued for the clients that subscribed to it.
LEMMA PushesKeepsSessions ==
  ASSUME SessionInv, Pushes
  PROVE  SessionInv'
<1> USE DEF SessionInv
<1>1. /\ phase' \in [Conns -> Phases]
      /\ \A d \in Conns : Connected(d)' => Connected(d)
  BY ConnectedStay DEF Pushes
<1>2. IdsGrow' /\ HandlersAreListed'
  BY <1>1, ListedStay DEF Pushes
<1>3. PICK t \in Topics : Push(t)
  BY DEF Pushes
<1>4. ASSUME NEW d \in Conns
      PROVE  /\ subs_messages'[d] = subs_messages[d] \/
                  /\ t \in subscriptions[d]
                  /\ subs_messages'[d] = Append(subs_messages[d], t)
             /\ subs_messages'[d] \in Seq(Topics)
  <2>1. subs_messages'[d] = subs_messages[d] \/
          /\ t \in subscriptions[d]
          /\ subs_messages'[d] = Append(subs_messages[d], t)
    BY <1>3 DEF Push
  <2>2. subs_messages[d] \in Seq(Topics)
    BY DEF SessionTypes
  <2>3. Append(subs_messages[d], t) \in Seq(Topics)
    BY <2>2, QueueFacts
  <2> QED BY <2>1, <2>2, <2>3
<1>5. SessionTypes'
  <2>1. subs_messages' = [d \in Conns |-> subs_messages'[d]]
    BY <1>3 DEF Push
  <2>2. subs_messages' \in [Conns -> Seq(Topics)]
    BY <1>4, <2>1
  <2> QED BY <1>1, <2>2 DEF Pushes, SessionTypes
<1>6. OnlySubscribedIsQueued'
  <2> SUFFICES ASSUME NEW d \in Conns, Connected(d)'
               PROVE  ToSet(subs_messages'[d]) \subseteq subscriptions'[d]
    BY DEF OnlySubscribedIsQueued
  <2>1. subs_messages[d] \in Seq(subscriptions[d]) /\ subscriptions' = subscriptions
    BY <1>1, ToSetFacts DEF SessionTypes, Pushes, OnlySubscribedIsQueued
  <2>2. subs_messages'[d] \in Seq(subscriptions[d])
    BY <1>4, <2>1, QueueFacts
  <2> QED BY <1>4, <2>1, <2>2, ToSetFacts
<1> QED BY <1>2, <1>5, <1>6

\* A new process has no clients.
NoSessions ==
  /\ connections = <<>>
  /\ client_id = [c \in Conns |-> 0]
  /\ phase = [c \in Conns |-> "none"]
  /\ subscriptions = [c \in Conns |-> {}]
  /\ subs_messages = [c \in Conns |-> <<>>]

\* A daemon without connections has nothing to keep.
LEMMA NoSessionsLemma == NoSessions => SessionInv
<1> SUFFICES ASSUME NoSessions PROVE SessionInv
  OBVIOUS
<1>1. connections \in Seq(Conns) /\ DOMAIN connections = {}
  BY EmptySeq DEF NoSessions
<1>2. \A c \in Conns : ~ Connected(c)
  BY DEF Connected, NoSessions
<1>3. subs_messages \in [Conns -> Seq(Topics)]
  BY EmptySeq DEF NoSessions
<1>4. 0 \in 0 .. MaxClient
  BY ManagementAssumption
<1> QED BY <1>1, <1>2, <1>3, <1>4
        DEF NoSessions, SessionInv, SessionTypes, IdsGrow, HandlersAreListed,
            OnlySubscribedIsQueued, Phases

\* No step of the daemon breaks the invariant of the sessions.
LEMMA SessionStep ==
  ASSUME SessionInv, WriterIsDumping, [Next]_vars
  PROVE  SessionInv'
<1>1. CASE \E c \in Conns : Accept(c) \/ Disconnect(c) \/ Moves(c) \/ Serves(c)
  BY <1>1, AcceptKeepsSessions, DisconnectKeepsSessions, MovesKeepsSessions,
     ServesKeepsSessions
<1>2. CASE Pushes
  BY <1>2, PushesKeepsSessions
<1>3. CASE Restart
  <2>1. NoSessions'
    BY <1>3 DEF Restart, NoSessions
  <2> QED BY <2>1, NoSessionsLemma, PTL
<1>4. CASE UNCHANGED sessions
  BY <1>4 DEF sessions, SessionInv, SessionTypes, IdsGrow, HandlersAreListed,
              OnlySubscribedIsQueued, Connected
<1> QED BY <1>1, <1>2, <1>3, <1>4, SessionSteps DEF SessionInv

--------------------------------------------------------------------------------
(* The list and its file.                                                    *)

FileInv == FileTypeOK /\ WriterIsDumping /\ LastIsInFile /\ NothingUnsaved

\* Steps that leave the list and its file alone, and end no dump, keep it.
LEMMA FileStays ==
  ASSUME FileInv, SessionTypes, UNCHANGED fileVars,
         \A d \in Conns : phase'[d] = phase[d] \/ phase[d] # "dump"
  PROVE  FileInv'
BY DEF FileInv, FileTypeOK, WriterIsDumping, LastIsInFile, NothingUnsaved, Settled,
       Unlocked, fileVars

\* A step that changes the list and has no dump to follow is excused.
LEMMA FileStep ==
  ASSUME FileInv, SessionTypes, [Next]_vars
  PROVE  FileInv'
<1> USE DEF FileInv
<1>1. ASSUME NEW c \in Conns,
             Accept(c) \/ Authenticate(c) \/ SendMessage(c) \/ Await(c) \/ Disconnect(c)
             \/ NoDumpCommand(c) \/ OtherCommand(c) \/ SetVariable(c)
             \/ \E t \in Topics : Subscribe(c, t) \/ Unsubscribe(c, t)
      PROVE  FileInv'
  <2>1. UNCHANGED fileVars
    BY <1>1 DEF Accept, Authenticate, SendMessage, Await, Disconnect, NoDumpCommand,
                OtherCommand, SetVariable, Subscribe, Unsubscribe
  <2>2. \A d \in Conns : phase'[d] = phase[d] \/ phase[d] # "dump"
    BY <1>1 DEF Accept, Authenticate, SendMessage, Await, Disconnect, NoDumpCommand,
                OtherCommand, SetVariable, Subscribe, Unsubscribe, Goto, SessionTypes
  <2> QED BY <2>1, <2>2, FileStays
<1>2. ASSUME NEW c \in Conns, ListCommand(c) PROVE FileInv'
  <2>1. /\ Unlocked /\ list' \in Lists /\ UNCHANGED <<file, last_dlist, dumping>>
        /\ excuse' = excuse \/ excuse' = Owed
    BY <1>2 DEF ListCommand, Change
  <2>2. phase'[c] = "dump" \/ excuse' = Owed
    BY <1>2 DEF ListCommand, Goto, SessionTypes
  <2> QED BY <2>1, <2>2, ListFileAssumption, ManagementAssumption
          DEF FileTypeOK, WriterIsDumping, LastIsInFile, NothingUnsaved, Settled,
              Unlocked, Owed, Excuses
<1>3. CASE Progress
  BY <1>3 DEF Progress, BackgroundChange, FileTypeOK, WriterIsDumping, LastIsInFile,
              NothingUnsaved, Settled, Unlocked, Owed, Excuses
<1>4. ASSUME NEW t \in Dumpers, DumpAtOnce PROVE FileInv'
  <2>1. Unlocked /\ UNCHANGED <<list, file, last_dlist, dumping>>
    BY <1>4 DEF DumpAtOnce, DumpSkipped, DumpFails
  <2>2. excuse' \in Excuses /\ (excuse' # "torn" => excuse # "torn")
        /\ (excuse' = "none" => last_dlist = list)
    BY <1>4 DEF DumpAtOnce, DumpSkipped, DumpFails, FileTypeOK, Excuses, Owed
  <2> QED BY <2>1, <2>2, ListFileAssumption, ManagementAssumption
          DEF FileTypeOK, WriterIsDumping, LastIsInFile, NothingUnsaved, Settled,
              Unlocked
<1>5. ASSUME NEW t \in Dumpers, Open(t), UNCHANGED phase, t \in Conns => phase[t] = "dump"
      PROVE  FileInv'
  BY <1>5, ListFileAssumption DEF Open, FileTypeOK, WriterIsDumping, LastIsInFile,
     NothingUnsaved, Settled, Unlocked
<1>6. ASSUME NEW t \in Dumpers, Write(t) PROVE FileInv'
  BY <1>6, ListFileAssumption, ManagementAssumption
     DEF Write, FileTypeOK, WriterIsDumping, LastIsInFile, NothingUnsaved, Settled,
         Unlocked, Excuses
<1>7. CASE Restart
  BY <1>7, ListFileAssumption, ManagementAssumption
     DEF Restart, FileRestart, FileTypeOK, WriterIsDumping, LastIsInFile,
         NothingUnsaved, Settled, Unlocked, Excuses
<1>8. CASE UNCHANGED vars
  BY <1>8, FileStays DEF vars, sessions
<1>9. \A c \in Conns : c \in Dumpers
  BY ManagementAssumption
<1>10. ASSUME NEW c \in Conns, StartDump(c) PROVE FileInv'
  BY <1>4, <1>5, <1>9, <1>10 DEF StartDump
<1>11. ASSUME NEW c \in Conns, FinishDump(c) PROVE FileInv'
  BY <1>6, <1>9, <1>11 DEF FinishDump
<1>12. CASE SaverStarts \/ SaverFinishes
  BY <1>4, <1>5, <1>6, <1>12, ManagementAssumption DEF SaverStarts, SaverFinishes, sessions
<1> QED BY <1>1, <1>2, <1>3, <1>7, <1>8, <1>10, <1>11, <1>12
        DEF Next, HandlerNext, Receive

--------------------------------------------------------------------------------
(* The theorems.                                                             *)

\* The daemon starts without sessions, and with the list that its file holds.
LEMMA InitSatisfies == Init => SessionInv /\ FileInv
<1> SUFFICES ASSUME Init PROVE SessionInv /\ FileInv
  OBVIOUS
<1>1. SessionInv
  BY NoSessionsLemma DEF Init, NoSessions
<1>2. FileInv
  BY ListFileAssumption, ManagementAssumption
     DEF Init, FileInit, FileInv, FileTypeOK, Excuses, WriterIsDumping, LastIsInFile,
         NothingUnsaved
<1> QED BY <1>1, <1>2

\* The inductive invariants of the sessions and of the list file, together.
THEOREM ManagementInvariant == Spec => [](SessionInv /\ FileInv)
<1>1. SessionInv /\ FileInv /\ [Next]_vars => (SessionInv /\ FileInv)'
  BY SessionStep, FileStep DEF SessionInv, FileInv
<1> QED BY <1>1, InitSatisfies, PTL DEF Spec

\* The variables keep their types: ids within their bound, and only topics in a
\* queue, whatever unsubscribe takes out of it; and a handler holds the mutex of
\* the list in its dump only.
THEOREM ManagementTypes == Spec => []TypeOK
<1>1. SessionInv /\ FileInv => TypeOK
  BY DEF SessionInv, SessionTypes, FileInv, TypeOK
<1> QED BY <1>1, ManagementInvariant, PTL

\* However changes and dumps overlap, and after any restart and any dump that
\* failed, the file holds the list once the handlers are done, but for the
\* changes named by excuse.
THEOREM ListIsSaved == Spec => []NothingUnsaved
<1>1. SessionInv /\ FileInv => NothingUnsaved
  BY DEF FileInv
<1> QED BY <1>1, ManagementInvariant, PTL

\* No del_client destroys the client of another handler: ids grow along the list
\* of connections, also after clients in the middle of it have left.
THEOREM ClientsOutliveHandlers == Spec => []HandlersHaveClients
<1>1. SessionInv /\ FileInv => HandlersHaveClients
  <2> SUFFICES ASSUME SessionInv, NEW c \in Conns, Connected(c)
               PROVE  /\ c \in ToSet(connections)
                      /\ \A d \in ToSet(connections) : client_id[d] = client_id[c] => d = c
    BY DEF HandlersHaveClients
  <2> USE DEF SessionInv
  <2>1. /\ DOMAIN connections = 1 .. Len(connections) /\ Len(connections) \in Nat
        /\ \A j \in DOMAIN connections : client_id[connections[j]] \in 0 .. MaxClient
    BY LenProperties DEF SessionTypes
  <2>2. PICK i \in DOMAIN connections : connections[i] = c
    BY DEF HandlersAreListed
  <2>3. ASSUME NEW j \in DOMAIN connections, client_id[connections[j]] = client_id[c]
        PROVE  j = i
    BY <2>1, <2>2, <2>3, ManagementAssumption DEF IdsGrow
  <2> QED BY <2>2, <2>3 DEF ToSet
<1> QED BY <1>1, ManagementInvariant, PTL

\* A client is not sent what it has unsubscribed from, and nothing is queued for
\* it that it did not subscribe to.
THEOREM SubscriptionsAreKept == Spec => []OnlySubscribedIsQueued
<1>1. SessionInv /\ FileInv => OnlySubscribedIsQueued
  BY DEF SessionInv
<1> QED BY <1>1, ManagementInvariant, PTL

--------------------------------------------------------------------------------
(* What the threads that use a file owe each other.                         *)

Calls == [op : {"get", "set", "lookup", "remember", "clear"}, id : Ids, value : Values]
CleanLines == [Ids -> {Trimmed[v] : v \in Values} \cup {NoLine}]
AccountId(i) == IF i = 1 THEN UserId ELSE PasswordId

FileTypes ==
  /\ lines \in CleanLines /\ latest \in CleanLines
  /\ stream \in {"good", "atEnd", "ended", "closed"}
  /\ terminated \in BOOLEAN /\ spoilt \in BOOLEAN
  /\ cfg_cache \in [Ids -> Values \cup {NotCached}]
  /\ cfgOwner \in Users \cup {NoUser}
  /\ written \in [Users -> [id : Ids, value : Values, over : CleanLines,
                            newline : BOOLEAN, open : BOOLEAN, nested : BOOLEAN]]
ThreadTypes ==
  /\ pluginOwner \in Users \cup {NoUser}
  /\ place \in [Users -> {"ready", "reopen", "again", "write", "reload"}]
  /\ script \in [Users -> Seq(Calls)]
  /\ account \in [Users -> Seq(Values)]
  /\ plugin_cache # NotCached => plugin_cache \in Seq(Values) /\ Len(plugin_cache) = 2

\* Who is between two steps of set_cfg_value has the mutex, ...
OwnerWrites == \A t \in Users : cfgOwner = t <=> place[t] = "write"

\* ... and is in the call that its script says; a default value is set for what
\* is not cached.
WritesItsCall(t) ==
  LET w == written[t]
  IN  /\ Calling(t, {"get", "set"}) /\ w.id = Head(script[t]).id
      /\ w.nested <=> Calling(t, {"get"})
      /\ w.nested => cfg_cache[w.id] = NotCached
PlaceFits(t) == /\ place[t] = "write" => WritesItsCall(t)
                /\ place[t] = "reload" => Calling(t, {"set"})

\* What a script may still be. Clearing what is known of a plugin comes last, and
\* an account is set only in front of it.
IsCommand(s) ==
  /\ \A i \in 1 .. Len(s) : s[i].op \in {"get", "set", "clear"}
  /\ \A i \in 1 .. Len(s) : s[i] = ClearCall => i = Len(s)
  /\ \/ \E i \in 1 .. Len(s) : s[i] = ClearCall
     \/ \A i \in 1 .. Len(s) : s[i].op = "set" => s[i].id \notin {UserId, PasswordId}

\* get_info has read as much of the account as it has got on.
Asks(t) ==
  LET s == script[t]
      n == Len(account[t])
  IN  \/ /\ Len(s) = 3 /\ n = 0
         /\ s[1] = GetCall(UserId) /\ s[2] = GetCall(PasswordId) /\ s[3] = RememberCall
      \/ Len(s) = 2 /\ n = 1 /\ s[1] = GetCall(PasswordId) /\ s[2] = RememberCall
      \/ Len(s) = 1 /\ n = 2 /\ s[1] = RememberCall
ScriptFits(t) == IF pluginOwner = t THEN Asks(t)
                 ELSE script[t] = GetInfo \/ IsCommand(script[t])

Fits == OwnerWrites /\ \A t \in Users : PlaceFits(t) /\ ScriptFits(t)

\* While nothing has gone wrong with the file, a writer writes over what was set
\* last, and what is cached is that.
WritersHaveLatest ==
  \A t \in Users : place[t] = "write" => written[t].open /\ written[t].over = latest
CacheIsLatest ==
  \A id \in Ids : cfg_cache[id] # NotCached => Trimmed[cfg_cache[id]] = TextOf(latest[id])
LineInv == ~spoilt => /\ stream # "closed" /\ WritersHaveLatest /\ CacheIsLatest
                      /\ cfgOwner = NoUser => lines = latest

\* An account that was asked with is the one that is set, unless one is being
\* set. What was read is cached, so that no default value comes in between.
NoneClears == \A t \in Users : \A i \in 1 .. Len(script[t]) : script[t][i] # ClearCall
IsSet(v, id) == cfg_cache[id] # NotCached /\ Trimmed[v] = TextOf(latest[id])
AccountsAreSet ==
  \A t \in Users : pluginOwner = t =>
    \A i \in 1 .. Len(account[t]) : IsSet(account[t][i], AccountId(i))
KnownIsSet ==
  plugin_cache # NotCached => \A i \in 1 .. 2 : IsSet(plugin_cache[i], AccountId(i))
FreshInv == NoneClears /\ ~spoilt => AccountsAreSet /\ KnownIsSet

SettingsInv == FileTypes /\ ThreadTypes /\ Fits /\ LineInv /\ FreshInv

--------------------------------------------------------------------------------
\* What is left of a sequence when its head is taken away.
LEMMA TailFacts ==
  ASSUME NEW S, NEW s \in Seq(S), s # <<>>
  PROVE  /\ Tail(s) \in Seq(S) /\ Len(s) \in Nat /\ Len(s) >= 1
         /\ Head(s) = s[1] /\ Head(s) \in S
         /\ Len(Tail(s)) = Len(s) - 1
         /\ \A i \in 1 .. Len(s) - 1 : Tail(s)[i] = s[i + 1]
BY HeadTailProperties, EmptySeq, LenProperties

\* What is left of a command's calls is a command's calls.
LEMMA CommandTail ==
  ASSUME NEW s \in Seq(Calls), s # <<>>, IsCommand(s),
         NEW r, Len(r) = Len(s) - 1, \A i \in 1 .. Len(s) - 1 : r[i] = s[i + 1]
  PROVE  IsCommand(r)
<1>1. Len(s) \in Nat /\ Len(s) >= 1
  BY LenProperties, EmptySeq
<1>2. CASE s[1] = ClearCall
  <2>1. Len(s) = 1
    BY <1>1, <1>2 DEF IsCommand
  <2> QED BY <1>1, <2>1 DEF IsCommand
<1>3. CASE s[1] # ClearCall
  <2>1. \A i \in 1 .. Len(s) :
          i = 1 \/ (i - 1 \in 1 .. Len(s) - 1 /\ s[i] = r[i - 1])
    BY <1>1
  <2>2. \A i \in 1 .. Len(s) - 1 : i + 1 \in 1 .. Len(s) /\ s[i + 1] = r[i]
    BY <1>1
  <2> QED BY <1>1, <1>3, <2>1, <2>2 DEF IsCommand
<1> QED BY <1>2, <1>3

\* The four calls a plugin's information is read with.
LEMMA GetInfoFacts ==
  /\ GetInfo \in Seq(Calls) /\ Len(GetInfo) = 4
  /\ GetInfo[1] = LookUpCall /\ GetInfo[2] = GetCall(UserId)
  /\ GetInfo[3] = GetCall(PasswordId) /\ GetInfo[4] = RememberCall
BY SettingsAssumption DEF GetInfo, Calls, LookUpCall, GetCall, RememberCall

\* No other command reads or remembers a plugin's information.
LEMMA CommandFacts ==
  ASSUME NEW c \in Commands, c # GetInfo
  PROVE  c \in Seq(Calls) /\ IsCommand(c)
<1> USE SettingsAssumption DEF Calls, IsCommand, GetCall, SetCall, ClearCall
<1>1. CASE \E id \in Ids : c = <<GetCall(id)>>
  BY <1>1
<1>2. CASE \E id \in Ids, v \in NewValues :
             (c = <<SetCall(id, v)>> \/ c = <<GetCall(id), SetCall(id, v)>>) /\ SetsNoAccount(c)
  <2>1. PICK id \in Ids, v \in NewValues :
          (c = <<SetCall(id, v)>> \/ c = <<GetCall(id), SetCall(id, v)>>) /\ SetsNoAccount(c)
    BY <1>2
  <2>2. v \in Values
    OBVIOUS
  <2>3. CASE c = <<SetCall(id, v)>>
    BY <2>1, <2>2, <2>3 DEF SetsNoAccount
  <2>4. CASE c = <<GetCall(id), SetCall(id, v)>>
    <3>1. Len(c) = 2 /\ c[1] = GetCall(id) /\ c[2] = SetCall(id, v) /\ DOMAIN c = 1 .. 2
      BY <2>4
    <3> QED BY <2>1, <2>2, <2>4, <3>1 DEF SetsNoAccount
  <2> QED BY <2>1, <2>3, <2>4
<1>3. CASE c \in PremiumSet
  <2>1. PICK a \in Accounts :
          c = <<SetCall(UserId, a[1]), SetCall(PasswordId, a[2]), ClearCall>>
    BY <1>3 DEF PremiumSet
  <2>2. a[1] \in Values /\ a[2] \in Values
    OBVIOUS
  <2>3. Len(c) = 3 /\ c[1] = SetCall(UserId, a[1]) /\ c[2] = SetCall(PasswordId, a[2])
        /\ c[3] = ClearCall
    BY <2>1
  <2> QED BY <2>1, <2>2, <2>3
<1>4. (\E id \in Ids : c = <<GetCall(id)>>) \/ c \in PremiumSet
      \/ (c \in VarSet \cup RouterSet /\ SetsNoAccount(c))
  BY DEF Commands, VarGet, RouterGet, PremiumGet, RouterSetModel
<1> HIDE DEF IsCommand, Calls
<1> QED
  BY <1>1, <1>2, <1>3, <1>4
  DEF VarGet, RouterGet, PremiumGet, VarSet, RouterSet, RouterSetModel

--------------------------------------------------------------------------------
(* What the parts of a step do.                                             *)

\* A call returns: the script loses its first call.
LEMMA ReturnFacts ==
  ASSUME ThreadTypes, NEW t \in Users, script[t] # <<>>, Returns(t)
  PROVE  /\ script' \in [Users -> Seq(Calls)]
         /\ \A u \in Users : u # t => script'[u] = script[u]
         /\ Len(script[t]) \in Nat /\ Len(script[t]) >= 1
         /\ Head(script[t]) = script[t][1] /\ Head(script[t]) \in Calls
         /\ Len(script'[t]) = Len(script[t]) - 1
         /\ \A i \in 1 .. Len(script[t]) - 1 : script'[t][i] = script[t][i + 1]
<1>1. script[t] \in Seq(Calls)
  BY DEF ThreadTypes
<1>2. script'[t] = Tail(script[t]) /\ \A u \in Users : u # t => script'[u] = script[u]
  BY DEF ThreadTypes, Returns
<1>3. script' \in [Users -> Seq(Calls)]
  BY <1>1, TailFacts DEF ThreadTypes, Returns
<1>4. /\ Len(script[t]) \in Nat /\ Len(script[t]) >= 1
      /\ Head(script[t]) = script[t][1] /\ Head(script[t]) \in Calls
      /\ Len(script'[t]) = Len(script[t]) - 1
      /\ \A i \in 1 .. Len(script[t]) - 1 : script'[t][i] = script[t][i + 1]
  BY <1>1, <1>2, TailFacts
<1> QED BY <1>2, <1>3, <1>4

\* A thread that is done with a call still has only calls of its command before it.
LEMMA CommandReturns ==
  ASSUME ThreadTypes, NEW t \in Users, script[t] # <<>>, Returns(t), IsCommand(script[t])
  PROVE  IsCommand(script'[t])
<1>1. script[t] \in Seq(Calls)
  BY DEF ThreadTypes
<1> QED BY <1>1, ReturnFacts, CommandTail

\* Of a thread that is not in get_info, any call that is not a clearing one
\* leaves none.
LEMMA ReturnsClearNothing ==
  ASSUME ThreadTypes, NEW t \in Users, script[t] # <<>>, Returns(t),
         Head(script[t]) # ClearCall
  PROVE  NoneClears' => NoneClears
<1> SUFFICES ASSUME NoneClears', NEW u \in Users, NEW i \in 1 .. Len(script[u])
             PROVE  script[u][i] # ClearCall
  BY DEF NoneClears
<1>1. CASE u # t
  BY <1>1, ReturnFacts DEF NoneClears
<1>2. CASE u = t /\ i = 1
  BY <1>2, ReturnFacts
<1>3. CASE u = t /\ i # 1
  <2>1. i - 1 \in 1 .. Len(script'[t]) /\ script[t][i] = script'[t][i - 1]
    BY <1>3, ReturnFacts
  <2> QED BY <1>3, <2>1 DEF NoneClears
<1> QED BY <1>1, <1>2, <1>3

\* A value is received: get_info keeps it, and gets on.
LEMMA ReceiveFacts ==
  ASSUME ThreadTypes, NEW t \in Users, Calling(t, {"get"}), ScriptFits(t),
         NEW v \in Values, Receives(t, v), UNCHANGED pluginOwner
  PROVE  /\ script' \in [Users -> Seq(Calls)] /\ account' \in [Users -> Seq(Values)]
         /\ place' = [place EXCEPT ![t] = "ready"]
         /\ \A u \in Users : u # t => script'[u] = script[u] /\ account'[u] = account[u]
         /\ ScriptFits(t)'
         /\ pluginOwner = t =>
              /\ Len(account[t]) \in 0 .. 1 /\ account'[t] = Append(account[t], v)
              /\ Head(script[t]).id = AccountId(Len(account[t]) + 1)
         /\ pluginOwner # t => UNCHANGED account
         /\ NoneClears' => NoneClears
<1>1. script[t] # <<>> /\ Head(script[t]).op = "get" /\ Returns(t)
  BY DEF Calling, Receives
<1>2. account[t] \in Seq(Values) /\ Append(account[t], v) \in Seq(Values)
      /\ Len(Append(account[t], v)) = Len(account[t]) + 1
  BY AppendProperties DEF ThreadTypes
<1>3. account' \in [Users -> Seq(Values)]
      /\ (\A u \in Users : u # t => account'[u] = account[u])
      /\ account'[t] = IF pluginOwner = t THEN Append(account[t], v) ELSE account[t]
  BY <1>2 DEF ThreadTypes, Receives
<1>4. Head(script[t]) # ClearCall
  BY <1>1 DEF ClearCall
<1>5. NoneClears' => NoneClears
  BY <1>1, <1>4, ReturnsClearNothing
<1>6. CASE pluginOwner = t
  <2>1. Asks(t)
    BY <1>6 DEF ScriptFits
  <2>2. script[t][1].op = "get"
    BY <1>1, ReturnFacts
  <2>3. \/ Len(script[t]) = 3 /\ Len(account[t]) = 0 /\ script[t][1] = GetCall(UserId)
        \/ Len(script[t]) = 2 /\ Len(account[t]) = 1 /\ script[t][1] = GetCall(PasswordId)
    <3>1. RememberCall.op # "get"
      BY DEF RememberCall
    <3> QED BY <2>1, <2>2, <3>1 DEF Asks
  <2>4. Asks(t)'
    <3>1. Len(script'[t]) = Len(script[t]) - 1
      BY <1>1, ReturnFacts
    <3>2. Len(account'[t]) = Len(account[t]) + 1
      BY <1>2, <1>3, <1>6
    <3>3. \A i \in 1 .. Len(script[t]) - 1 : script'[t][i] = script[t][i + 1]
      BY <1>1, ReturnFacts
    <3>4. CASE Len(script[t]) = 3 /\ Len(account[t]) = 0
      <4>1. script[t][2] = GetCall(PasswordId) /\ script[t][3] = RememberCall
        BY <2>1, <3>4 DEF Asks
      <4>2. 1 \in 1 .. Len(script[t]) - 1 /\ 2 \in 1 .. Len(script[t]) - 1
        BY <3>4
      <4>3. script'[t][1] = script[t][2] /\ script'[t][2] = script[t][3]
        BY <3>3, <4>2
      <4> QED BY <3>1, <3>2, <3>4, <4>1, <4>3 DEF Asks
    <3>5. CASE Len(script[t]) = 2 /\ Len(account[t]) = 1
      <4>1. script[t][2] = RememberCall
        BY <2>1, <3>5 DEF Asks
      <4>2. 1 \in 1 .. Len(script[t]) - 1
        BY <3>5
      <4>3. script'[t][1] = script[t][2]
        BY <3>3, <4>2
      <4> QED BY <3>1, <3>2, <3>5, <4>1, <4>3 DEF Asks
    <3> QED BY <2>3, <3>4, <3>5
  <2>5. ScriptFits(t)'
    BY <1>6, <2>4 DEF ScriptFits
  <2>6. Len(account[t]) \in 0 .. 1 /\ Head(script[t]).id = AccountId(Len(account[t]) + 1)
    <3>1. /\ GetCall(UserId).id = AccountId(0 + 1)
          /\ GetCall(PasswordId).id = AccountId(1 + 1)
      BY DEF GetCall, AccountId
    <3>2. Len(account[t]) = 0 \/ Len(account[t]) = 1
      BY <2>3
    <3>3. script[t][1].id = AccountId(Len(account[t]) + 1)
      BY <2>3, <3>1
    <3>4. Head(script[t]) = script[t][1]
      BY <1>1, ReturnFacts
    <3> QED BY <3>2, <3>3, <3>4
  <2>7. account'[t] = Append(account[t], v)
    BY <1>3, <1>6
  <2>8. place' = [place EXCEPT ![t] = "ready"]
    BY DEF Receives, MovesTo
  <2> QED BY <1>1, <1>3, <1>5, <1>6, <2>5, <2>6, <2>7, <2>8, ReturnFacts
<1>7. CASE pluginOwner # t
  <2>1. script[t] # GetInfo
    <3>1. GetInfo[1].op = "lookup"
      BY GetInfoFacts DEF LookUpCall
    <3>2. script[t][1].op = "get"
      BY <1>1, ReturnFacts
    <3> QED BY <3>1, <3>2
  <2>2. IsCommand(script'[t])
    BY <1>1, <1>7, <2>1, CommandReturns DEF ScriptFits
  <2>3. account' = account
    BY <1>7 DEF Receives
  <2> QED BY <1>1, <1>3, <1>5, <1>7, <2>2, <2>3, ReturnFacts DEF ScriptFits, Receives, MovesTo
<1> QED BY <1>6, <1>7

\* What a step of one thread leaves of what the others are in.
LEMMA OthersFit ==
  ASSUME FileTypes, ThreadTypes, Fits, NEW t \in Users,
         \A u \in Users : u # t =>
            /\ place'[u] = place[u] /\ script'[u] = script[u]
            /\ written'[u] = written[u] /\ account'[u] = account[u]
            /\ pluginOwner' = u <=> pluginOwner = u,
         UNCHANGED cfg_cache \/ cfgOwner \in {NoUser, t},
         UNCHANGED cfgOwner \/ (cfgOwner \in {NoUser, t} /\ cfgOwner' \in {NoUser, t}),
         cfgOwner' = t <=> place'[t] = "write",
         PlaceFits(t)', ScriptFits(t)'
  PROVE  Fits'
<1>1. OwnerWrites'
  BY SettingsAssumption DEF Fits, OwnerWrites
<1>2. ASSUME NEW u \in Users, u # t
      PROVE  PlaceFits(u)' /\ ScriptFits(u)'
  <2>1. place[u] = "write" => UNCHANGED cfg_cache
    BY <1>2, SettingsAssumption DEF Fits, OwnerWrites
  <2>2. PlaceFits(u) /\ ScriptFits(u)
    BY DEF Fits
  <2>3. PlaceFits(u)'
    BY <1>2, <2>1, <2>2 DEF PlaceFits, WritesItsCall, Calling
  <2>4. Asks(u)' <=> Asks(u)
    BY <1>2 DEF Asks
  <2>5. ScriptFits(u)'
    BY <1>2, <2>2, <2>4 DEF ScriptFits
  <2> QED BY <2>3, <2>5
<1> QED BY <1>1, <1>2 DEF Fits

WillBeSet(v, id) == cfg_cache'[id] # NotCached /\ Trimmed[v] = TextOf(latest'[id])

\* What is known of an account stays right when nothing is set that was read, and
\* what a thread reads in the step is what is set.
LEMMA FreshStays ==
  ASSUME FreshInv, ThreadTypes, UNCHANGED plugin_cache,
         (NoneClears /\ ~spoilt)' => NoneClears /\ ~spoilt,
         (NoneClears /\ ~spoilt)' => \A id \in {UserId, PasswordId} : cfg_cache[id] # NotCached =>
            cfg_cache'[id] # NotCached /\ latest'[id] = latest[id],
         ASSUME NEW u \in Users, pluginOwner' = u, (NoneClears /\ ~spoilt)'
         PROVE  \/ account'[u] = <<>>
                \/ pluginOwner = u /\ account'[u] = account[u]
                \/ \E v \in Values :
                     /\ pluginOwner = u /\ account'[u] = Append(account[u], v)
                     /\ WillBeSet(v, AccountId(Len(account[u]) + 1))
  PROVE  FreshInv'
<1> SUFFICES ASSUME NoneClears', ~spoilt'
             PROVE  AccountsAreSet' /\ KnownIsSet'
  BY DEF FreshInv
<1>1. AccountsAreSet /\ KnownIsSet
  BY DEF FreshInv
<1>2. \A i : AccountId(i) \in {UserId, PasswordId}
  BY DEF AccountId
<1>3. \A v, i : IsSet(v, AccountId(i)) => WillBeSet(v, AccountId(i))
  BY <1>2 DEF IsSet, WillBeSet
<1>4. KnownIsSet'
  BY <1>1, <1>3 DEF KnownIsSet, WillBeSet, IsSet
<1>5. ASSUME NEW u \in Users, pluginOwner' = u, NEW i \in 1 .. Len(account'[u])
      PROVE  WillBeSet(account'[u][i], AccountId(i))
  <2>1. CASE account'[u] = <<>>
    BY <1>5, <2>1
  <2>2. CASE pluginOwner = u /\ account'[u] = account[u]
    BY <1>1, <1>3, <1>5, <2>2 DEF AccountsAreSet
  <2>3. ASSUME NEW v \in Values, pluginOwner = u, account'[u] = Append(account[u], v),
               WillBeSet(v, AccountId(Len(account[u]) + 1))
        PROVE  WillBeSet(account'[u][i], AccountId(i))
    <3>1. account[u] \in Seq(Values)
      BY DEF ThreadTypes
    <3>2. /\ Len(account[u]) \in Nat /\ Len(account'[u]) = Len(account[u]) + 1
          /\ \A j \in 1 .. Len(account[u]) : account'[u][j] = account[u][j]
          /\ account'[u][Len(account[u]) + 1] = v
      BY <2>3, <3>1, AppendProperties
    <3>3. CASE i = Len(account[u]) + 1
      BY <2>3, <3>2, <3>3
    <3>4. CASE i # Len(account[u]) + 1
      <4>1. i \in 1 .. Len(account[u])
        BY <1>5, <3>2, <3>4
      <4>2. IsSet(account[u][i], AccountId(i))
        BY <1>1, <2>3, <4>1 DEF AccountsAreSet
      <4> QED BY <1>3, <3>2, <4>1, <4>2
    <3> QED BY <3>3, <3>4
  <2> QED BY <1>5, <2>1, <2>2, <2>3
<1> QED BY <1>4, <1>5 DEF AccountsAreSet, WillBeSet, IsSet

--------------------------------------------------------------------------------
(* The steps, one after the other.                                          *)

\* What a line says has no blanks around it.
LEMMA LineFacts ==
  ASSUME NEW text \in CleanLines, NEW id \in Ids
  PROVE  /\ text[id] # NoLine => text[id] \in Values /\ Trimmed[text[id]] = TextOf(text[id])
         /\ text[id] = NoLine => Trimmed[Empty] = TextOf(text[id])
         /\ Empty \in Values
BY SettingsAssumption DEF CleanLines, TextOf

\* A line written with a value has no blanks around it, and is read as it is written.
LEMMA NewLineFacts ==
  ASSUME NEW text \in CleanLines, NEW id \in Ids, NEW v \in Values
  PROVE  /\ [text EXCEPT ![id] = Trimmed[v]] \in CleanLines
         /\ TextOf(Trimmed[v]) = Trimmed[v]
BY SettingsAssumption DEF CleanLines, TextOf

\* What can be read of the file, which is all of it while the stream is good.
LEMMA ReadableFacts ==
  ASSUME FileTypes
  PROVE  /\ Readable \in CleanLines
         /\ stream \in {"good", "atEnd"} => Readable = lines
BY DEF Readable, NoLines, CleanLines, FileTypes

\* What becomes of the stream when the file is opened.
LEMMA OpenedFacts ==
  ASSUME FileTypes, OpenedStream
  PROVE  /\ stream' \in {"good", "closed"} /\ spoilt' \in BOOLEAN
         /\ ~spoilt' => ~spoilt /\ stream' = "good"
BY DEF FileTypes, OpenedStream

\* What becomes of the file when ofstream opens it, which empties it.
LEMMA EmptiesFacts ==
  ASSUME FileTypes, NEW t \in Users, NEW id \in Ids, NEW value \in Values,
         NEW over \in CleanLines, NEW nested \in BOOLEAN,
         EmptiesFile(t, id, value, over, nested)
  PROVE  /\ written' \in [Users -> [id : Ids, value : Values, over : CleanLines,
                            newline : BOOLEAN, open : BOOLEAN, nested : BOOLEAN]]
         /\ \A u \in Users : u # t => written'[u] = written[u]
         /\ written'[t].id = id /\ written'[t].over = over /\ written'[t].nested = nested
         /\ lines' \in CleanLines /\ terminated' \in BOOLEAN /\ spoilt' \in BOOLEAN
         /\ place' = [place EXCEPT ![t] = "write"]
         /\ ~spoilt' => ~spoilt /\ stream # "ended" /\ written'[t].open
<1>1. PICK opens \in BOOLEAN :
        /\ written' = [written EXCEPT ![t] = [id |-> id, value |-> value, over |-> over,
                        newline |-> terminated, open |-> opens, nested |-> nested]]
        /\ lines' = IF opens THEN NoLines ELSE lines
        /\ terminated' = (opens \/ terminated)
        /\ spoilt' = (SpoiltNow \/ ~opens)
        /\ MovesTo(t, "write")
  BY DEF EmptiesFile
<1>2. terminated \in BOOLEAN /\ spoilt \in BOOLEAN
  BY DEF FileTypes
<1>3. [id |-> id, value |-> value, over |-> over, newline |-> terminated,
       open |-> opens, nested |-> nested]
        \in [id : Ids, value : Values, over : CleanLines,
             newline : BOOLEAN, open : BOOLEAN, nested : BOOLEAN]
  BY <1>2
<1>4. /\ written' \in [Users -> [id : Ids, value : Values, over : CleanLines,
                            newline : BOOLEAN, open : BOOLEAN, nested : BOOLEAN]]
      /\ \A u \in Users : u # t => written'[u] = written[u]
      /\ written'[t].id = id /\ written'[t].over = over /\ written'[t].nested = nested
      /\ written'[t].open = opens
  BY <1>1, <1>3 DEF FileTypes
<1>5. lines' \in CleanLines
  BY <1>1 DEF NoLines, CleanLines, FileTypes
<1>6. terminated' \in BOOLEAN /\ spoilt' \in BOOLEAN
  BY <1>1
<1>7. ~spoilt' => ~spoilt /\ stream # "ended" /\ opens
  BY <1>1 DEF SpoiltNow
<1> QED BY <1>1, <1>4, <1>5, <1>6, <1>7 DEF MovesTo

\* A thread gives the mutex up.
LEMMA GivesUpMutexKeeps ==
  ASSUME SettingsInv, NEW t \in Users, GivesUpMutex(t)
  PROVE  SettingsInv'
<1> USE DEF SettingsInv
<1>1. /\ place' = [place EXCEPT ![t] = "reopen"] /\ place[t] = "ready"
      /\ UNCHANGED <<cfgVars, plugin_cache, pluginOwner, script, account>>
  BY DEF GivesUpMutex, MovesTo
<1>2. FileTypes' /\ ThreadTypes'
  BY <1>1 DEF FileTypes, ThreadTypes, cfgVars
<1>3. place'[t] = "reopen" /\ \A u \in Users : u # t => place'[u] = place[u]
  BY <1>1 DEF ThreadTypes
<1>4. PlaceFits(t)' /\ ScriptFits(t)'
  BY <1>1, <1>3 DEF PlaceFits, ScriptFits, Asks, Fits
<1>5. Fits'
  BY <1>1, <1>3, <1>4, OthersFit DEF cfgVars, Fits, OwnerWrites
<1>6. LineInv'
  BY <1>1, <1>3 DEF LineInv, WritersHaveLatest, CacheIsLatest, cfgVars
<1>7. FreshInv'
  BY <1>1 DEF FreshInv, NoneClears, AccountsAreSet, KnownIsSet, IsSet, cfgVars
<1> QED BY <1>2, <1>5, <1>6, <1>7

\* cfgfile::reload_file, which opens the file anew.
LEMMA ReloadFileKeeps ==
  ASSUME SettingsInv, NEW t \in Users, ReloadFile(t)
  PROVE  SettingsInv'
<1> USE DEF SettingsInv
<1>1. /\ place[t] \in {"reopen", "reload"} /\ cfgOwner = NoUser /\ OpenedStream
      /\ UNCHANGED <<lines, terminated, cfg_cache, cfgOwner, written, latest,
                     plugin_cache, pluginOwner, account>>
      /\ \/ place' = [place EXCEPT ![t] = "again"] /\ UNCHANGED script
         \/ /\ place[t] = "reload"
            /\ place' = [place EXCEPT ![t] = "ready"] /\ Returns(t)
  BY DEF ReloadFile, MovesTo
<1>2. /\ stream' \in {"good", "closed"} /\ spoilt' \in BOOLEAN
      /\ ~spoilt' => ~spoilt /\ stream' = "good"
  BY <1>1, OpenedFacts
<1>3. place'[t] \in {"again", "ready"} /\ \A u \in Users : u # t => place'[u] = place[u]
  BY <1>1 DEF ThreadTypes
<1>4. place[t] = "reload" =>
        script[t] # <<>> /\ Head(script[t]).op = "set" /\ Head(script[t]) # ClearCall
  BY DEF Fits, PlaceFits, Calling, ClearCall
<1>5. CASE UNCHANGED script
  <2>1. FileTypes' /\ ThreadTypes'
    BY <1>1, <1>2, <1>3, <1>5 DEF FileTypes, ThreadTypes
  <2>2. PlaceFits(t)' /\ ScriptFits(t)'
    BY <1>1, <1>3, <1>5 DEF PlaceFits, ScriptFits, Asks, Fits
  <2>3. Fits'
    BY <1>1, <1>3, <1>5, <2>2, OthersFit, SettingsAssumption
  <2>4. FreshInv'
    BY <1>1, <1>2, <1>5 DEF FreshInv, NoneClears, AccountsAreSet, KnownIsSet, IsSet
  <2>5. LineInv'
    BY <1>1, <1>2, <1>3 DEF LineInv, WritersHaveLatest, CacheIsLatest
  <2> QED BY <2>1, <2>3, <2>4, <2>5
<1>6. CASE place[t] = "reload" /\ Returns(t)
  <2>1. FileTypes' /\ ThreadTypes'
    <3>1. script' \in [Users -> Seq(Calls)]
      BY <1>4, <1>6, ReturnFacts
    <3> QED BY <1>1, <1>2, <1>3, <3>1 DEF FileTypes, ThreadTypes
  <2>2. pluginOwner # t /\ IsCommand(script[t])
    <3>1. script[t][1].op = "set"
      BY <1>4, <1>6, ReturnFacts
    <3>2. ~Asks(t) /\ script[t] # GetInfo
      BY <3>1, GetInfoFacts DEF Asks, GetCall, RememberCall, LookUpCall
    <3> QED BY <3>2 DEF Fits, ScriptFits
  <2>3. IsCommand(script'[t])
    BY <1>4, <1>6, <2>2, CommandReturns
  <2>4. PlaceFits(t)' /\ ScriptFits(t)'
    BY <1>1, <1>3, <2>2, <2>3 DEF PlaceFits, ScriptFits
  <2>5. \A u \in Users : u # t => script'[u] = script[u]
    BY <1>4, <1>6, ReturnFacts
  <2>6. Fits'
    BY <1>1, <1>3, <2>4, <2>5, OthersFit, SettingsAssumption
  <2>7. NoneClears' => NoneClears
    BY <1>4, <1>6, ReturnsClearNothing
  <2>8. FreshInv'
    BY <1>1, <1>2, <2>7 DEF FreshInv, AccountsAreSet, KnownIsSet, IsSet
  <2>9. LineInv'
    BY <1>1, <1>2, <1>3 DEF LineInv, WritersHaveLatest, CacheIsLatest
  <2> QED BY <2>1, <2>6, <2>8, <2>9
<1> QED BY <1>1, <1>5, <1>6

\* The call that a command is at.
LEMMA CallFacts ==
  ASSUME ThreadTypes, NEW t \in Users, NEW ops, Calling(t, ops)
  PROVE  /\ script[t] # <<>> /\ Head(script[t]) = script[t][1]
         /\ Head(script[t]).op \in ops
         /\ Head(script[t]).id \in Ids /\ Head(script[t]).value \in Values
<1>1. script[t] # <<>> /\ script[t] \in Seq(Calls)
  BY DEF Calling, ThreadTypes
<1>2. Head(script[t]) \in Calls /\ Head(script[t]) = script[t][1]
  BY <1>1, TailFacts
<1> QED BY <1>1, <1>2 DEF Calling, Calls

\* What comes of a call that leaves its thread in the middle of writing.
LEMMA EmptiesKeeps ==
  ASSUME SettingsInv, NEW t \in Users, Calling(t, {"get", "set"}), cfgOwner = NoUser,
         NEW value \in Values, NEW over \in CleanLines, NEW nested \in BOOLEAN,
         EmptiesFile(t, Head(script[t]).id, value, over, nested),
         nested <=> Calling(t, {"get"}),
         nested => cfg_cache[Head(script[t]).id] = NotCached,
         stream \in {"good", "atEnd"} => over = lines,
         cfgOwner' = t,
         UNCHANGED <<stream, cfg_cache, latest, plugin_cache, pluginOwner, script, account>>
  PROVE  SettingsInv'
<1> USE DEF SettingsInv
<1> DEFINE id == Head(script[t]).id
<1>1. id \in Ids
  BY CallFacts
<1>2. /\ written' \in [Users -> [id : Ids, value : Values, over : CleanLines,
                            newline : BOOLEAN, open : BOOLEAN, nested : BOOLEAN]]
      /\ \A u \in Users : u # t => written'[u] = written[u]
      /\ written'[t].id = id /\ written'[t].over = over /\ written'[t].nested = nested
      /\ lines' \in CleanLines /\ terminated' \in BOOLEAN /\ spoilt' \in BOOLEAN
      /\ place' = [place EXCEPT ![t] = "write"]
      /\ ~spoilt' => ~spoilt /\ stream # "ended" /\ written'[t].open
  BY <1>1, EmptiesFacts
<1> HIDE DEF id
<1>3. place'[t] = "write" /\ \A u \in Users : u # t => place'[u] = place[u]
  BY <1>2 DEF ThreadTypes
<1>4. FileTypes'
  BY <1>2 DEF FileTypes
<1>5. ThreadTypes'
  BY <1>2 DEF ThreadTypes
<1>6. PlaceFits(t)'
  BY <1>2, <1>3 DEF PlaceFits, WritesItsCall, Calling, id
<1>7. ScriptFits(t)'
  BY DEF Fits, ScriptFits, Asks
<1>8. Fits'
  BY <1>2, <1>3, <1>6, <1>7, OthersFit, SettingsAssumption
<1>9. LineInv'
  <2> SUFFICES ASSUME ~spoilt'
               PROVE  /\ stream' # "closed" /\ WritersHaveLatest' /\ CacheIsLatest'
                      /\ (cfgOwner = NoUser => lines = latest)'
    BY DEF LineInv
  <2>1. /\ stream # "closed" /\ WritersHaveLatest /\ CacheIsLatest /\ lines = latest
        /\ stream # "ended"
    BY <1>2 DEF LineInv
  <2>2. over = latest
    BY <2>1 DEF FileTypes
  <2> QED BY <1>2, <1>3, <2>1, <2>2, SettingsAssumption DEF WritersHaveLatest, CacheIsLatest
<1>10. FreshInv'
  BY <1>2 DEF FreshInv, NoneClears, AccountsAreSet, KnownIsSet, IsSet
<1> QED BY <1>4, <1>5, <1>8, <1>9, <1>10

\* cfgfile::set_value up to where it empties the file.
LEMMA SetValueKeeps ==
  ASSUME SettingsInv, NEW t \in Users, SetValue(t)
  PROVE  SettingsInv'
<1> USE DEF SettingsInv
<1>1. Calling(t, {"set"}) /\ Calling(t, {"get", "set"}) /\ ~Calling(t, {"get"})
  BY DEF SetValue, Calling
<1>2. Head(script[t]).value \in Values
  BY <1>1, CallFacts
<1>3. /\ cfgOwner = NoUser /\ cfgOwner' = t
      /\ EmptiesFile(t, Head(script[t]).id, Head(script[t]).value, Readable, FALSE)
      /\ UNCHANGED <<stream, cfg_cache, latest, plugin_cache, pluginOwner, script, account>>
  BY DEF SetValue, Enters
<1> QED BY <1>1, <1>2, <1>3, ReadableFacts, EmptiesKeeps

\* What comes of a call of get_cfg_value that returns what is set, and cached.
LEMMA ReceiveKeeps ==
  ASSUME SettingsInv, NEW t \in Users, Calling(t, {"get"}), cfgOwner \in {NoUser, t},
         NEW v \in Values, Receives(t, v), UNCHANGED <<pluginOwner, plugin_cache>>,
         FileTypes', LineInv', cfgOwner' = NoUser,
         \A u \in Users : u # t => written'[u] = written[u],
         ~spoilt' => ~spoilt /\ WillBeSet(v, Head(script[t]).id),
         \A i \in Ids : cfg_cache[i] # NotCached =>
            cfg_cache'[i] # NotCached /\ latest'[i] = latest[i]
  PROVE  SettingsInv'
<1> USE DEF SettingsInv
<1>1. ScriptFits(t)
  BY DEF Fits
<1>2. /\ script' \in [Users -> Seq(Calls)] /\ account' \in [Users -> Seq(Values)]
      /\ place' = [place EXCEPT ![t] = "ready"]
      /\ \A u \in Users : u # t => script'[u] = script[u] /\ account'[u] = account[u]
      /\ ScriptFits(t)'
      /\ pluginOwner = t =>
           /\ Len(account[t]) \in 0 .. 1 /\ account'[t] = Append(account[t], v)
           /\ Head(script[t]).id = AccountId(Len(account[t]) + 1)
      /\ pluginOwner # t => UNCHANGED account
      /\ NoneClears' => NoneClears
  BY <1>1, ReceiveFacts
<1>3. place'[t] = "ready" /\ \A u \in Users : u # t => place'[u] = place[u]
  BY <1>2 DEF ThreadTypes
<1>4. ThreadTypes'
  BY <1>2 DEF ThreadTypes
<1>5. PlaceFits(t)'
  BY <1>3 DEF PlaceFits
<1>6. Fits'
  BY <1>2, <1>3, <1>5, OthersFit, SettingsAssumption
<1>7. ASSUME NEW u \in Users, pluginOwner' = u, (NoneClears /\ ~spoilt)'
      PROVE  \/ account'[u] = <<>>
             \/ pluginOwner = u /\ account'[u] = account[u]
             \/ \E x \in Values :
                  /\ pluginOwner = u /\ account'[u] = Append(account[u], x)
                  /\ WillBeSet(x, AccountId(Len(account[u]) + 1))
  BY <1>2, <1>7
<1>8. FreshInv'
  <2>1. (NoneClears /\ ~spoilt)' => NoneClears /\ ~spoilt
    BY <1>2
  <2>2. \A id \in {UserId, PasswordId} : cfg_cache[id] # NotCached =>
            cfg_cache'[id] # NotCached /\ latest'[id] = latest[id]
    BY SettingsAssumption
  <2> QED BY <1>7, <2>1, <2>2, FreshStays
<1> QED BY <1>4, <1>6, <1>8

\* A value that is found in the cache.
LEMMA GetCachedKeeps ==
  ASSUME SettingsInv, NEW t \in Users, GetCached(t)
  PROVE  SettingsInv'
<1> USE DEF SettingsInv
<1> DEFINE id == Head(script[t]).id
<1>1. /\ Calling(t, {"get"}) /\ cfgOwner = NoUser
      /\ cfg_cache[id] # NotCached /\ Receives(t, cfg_cache[id])
      /\ UNCHANGED <<cfgVars, plugin_cache, pluginOwner>>
  BY DEF GetCached, Enters
<1>2. id \in Ids
  BY <1>1, CallFacts
<1> HIDE DEF id
<1>3. cfg_cache[id] \in Values
  BY <1>1, <1>2 DEF FileTypes
<1>4. FileTypes'
  BY <1>1 DEF FileTypes, cfgVars
<1>5. LineInv'
  BY <1>1, SettingsAssumption
  DEF LineInv, WritersHaveLatest, CacheIsLatest, cfgVars, Fits, OwnerWrites, Receives, MovesTo, ThreadTypes
<1>6. ~spoilt' => ~spoilt /\ WillBeSet(cfg_cache[id], id)
  BY <1>1, <1>2 DEF LineInv, CacheIsLatest, WillBeSet, cfgVars
<1>7. /\ UNCHANGED <<pluginOwner, plugin_cache>> /\ cfgOwner' = NoUser /\ cfgOwner \in {NoUser, t}
      /\ \A u \in Users : u # t => written'[u] = written[u]
      /\ \A i \in Ids : cfg_cache[i] # NotCached =>
            cfg_cache'[i] # NotCached /\ latest'[i] = latest[i]
  BY <1>1 DEF cfgVars
<1> QED BY <1>1, <1>3, <1>4, <1>5, <1>6, <1>7, ReceiveKeeps DEF id

\* A value that is read from the file.
LEMMA GetLineKeeps ==
  ASSUME SettingsInv, NEW t \in Users, GetLine(t)
  PROVE  SettingsInv'
<1> USE DEF SettingsInv
<1> DEFINE id == Head(script[t]).id
           v == Readable[id]
<1>1. /\ Calling(t, {"get"}) /\ cfgOwner = NoUser
      /\ cfg_cache[id] = NotCached /\ v # NoLine
      /\ cfg_cache' = [cfg_cache EXCEPT ![id] = v]
      /\ Receives(t, v)
      /\ stream' \in {"good", "atEnd"}
      /\ UNCHANGED <<lines, terminated, cfgOwner, written, latest, spoilt, plugin_cache,
                     pluginOwner>>
  BY DEF GetLine, Enters
<1>2. id \in Ids
  BY <1>1, CallFacts
<1>3. v = lines[id] /\ v \in Values /\ Trimmed[v] = TextOf(v)
  <2>1. Readable = lines
    BY <1>1, <1>2 DEF Readable, NoLines
  <2> QED BY <1>1, <1>2, <2>1, LineFacts DEF FileTypes
<1> HIDE DEF id, v
<1>4. FileTypes'
  BY <1>1, <1>2, <1>3 DEF FileTypes
<1>5. ~spoilt => v = latest[id] /\ Trimmed[v] = TextOf(latest[id])
  BY <1>1, <1>3 DEF LineInv
<1>6. LineInv'
  <2> SUFFICES ASSUME ~spoilt
               PROVE  /\ stream' # "closed" /\ WritersHaveLatest' /\ CacheIsLatest'
                      /\ (cfgOwner = NoUser => lines = latest)'
    BY <1>1 DEF LineInv
  <2>1. WritersHaveLatest'
    BY <1>1 DEF LineInv, WritersHaveLatest, Receives, MovesTo, ThreadTypes
  <2>2. CacheIsLatest'
    BY <1>1, <1>2, <1>5 DEF LineInv, CacheIsLatest, FileTypes
  <2> QED BY <1>1, <2>1, <2>2 DEF LineInv
<1>7. ~spoilt' => ~spoilt /\ WillBeSet(v, id)
  BY <1>1, <1>2, <1>3, <1>5, SettingsAssumption DEF WillBeSet, FileTypes
<1>8. /\ UNCHANGED <<pluginOwner, plugin_cache>> /\ cfgOwner' = NoUser /\ cfgOwner \in {NoUser, t}
      /\ \A u \in Users : u # t => written'[u] = written[u]
      /\ \A i \in Ids : cfg_cache[i] # NotCached =>
            cfg_cache'[i] # NotCached /\ latest'[i] = latest[i]
  BY <1>1, <1>2, <1>3, SettingsAssumption DEF FileTypes
<1> QED BY <1>1, <1>3, <1>4, <1>6, <1>7, <1>8, ReceiveKeeps DEF id

\* A value that is taken from the defaults.
LEMMA GetDefaultKeeps ==
  ASSUME SettingsInv, NEW t \in Users, GetDefault(t)
  PROVE  SettingsInv'
<1> USE DEF SettingsInv
<1> DEFINE id == Head(script[t]).id
<1>1. /\ Calling(t, {"get"}) /\ cfgOwner = NoUser
      /\ cfg_cache[id] = NotCached /\ Readable[id] = NoLine
      /\ UNCHANGED <<latest, plugin_cache, pluginOwner>>
      /\ \/ /\ Default[id] = Empty
            /\ cfg_cache' = [cfg_cache EXCEPT ![id] = Empty]
            /\ stream' = StreamAtEnd
            /\ Receives(t, Empty)
            /\ spoilt' = SpoiltNow
            /\ UNCHANGED <<lines, terminated, cfgOwner, written>>
         \/ /\ cfgOwner' = t
            /\ EmptiesFile(t, id, Default[id], lines, TRUE)
            /\ UNCHANGED <<stream, cfg_cache, script, account>>
  BY DEF GetDefault, Enters
<1>2. id \in Ids
  BY <1>1, CallFacts
<1>3. Empty \in Values /\ Default[id] \in Values /\ Trimmed[Empty] = Empty
  BY <1>2, SettingsAssumption
<1>4. CASE /\ cfgOwner' = t
           /\ EmptiesFile(t, id, Default[id], lines, TRUE)
           /\ UNCHANGED <<stream, cfg_cache, script, account>>
  <2>1. lines \in CleanLines
    BY DEF FileTypes
  <2>2. Calling(t, {"get", "set"})
    BY <1>1 DEF Calling
  <2> QED BY <1>1, <1>3, <1>4, <2>1, <2>2, EmptiesKeeps
<1>5. CASE /\ cfg_cache' = [cfg_cache EXCEPT ![id] = Empty]
           /\ stream' = StreamAtEnd
           /\ Receives(t, Empty)
           /\ spoilt' = SpoiltNow
           /\ UNCHANGED <<lines, terminated, cfgOwner, written>>
  <2> HIDE DEF id
  <2>1. /\ stream' \in {"ended", "closed", "atEnd"} /\ spoilt' \in BOOLEAN
        /\ stream \notin {"ended", "closed"} => stream' # "closed"
    BY <1>5 DEF StreamAtEnd, SpoiltNow, FileTypes
  <2>2. FileTypes'
    BY <1>1, <1>2, <1>3, <1>5, <2>1 DEF FileTypes
  <2>3. ~spoilt' => ~spoilt /\ stream \in {"good", "atEnd"} /\ lines = latest
    BY <1>1, <1>5 DEF SpoiltNow, LineInv, FileTypes
  <2>4. ~spoilt' => latest[id] = NoLine /\ TextOf(latest[id]) = Empty
    BY <1>1, <2>3, ReadableFacts DEF TextOf
  <2>5. LineInv'
    <3> SUFFICES ASSUME ~spoilt'
                 PROVE  /\ stream' # "closed" /\ WritersHaveLatest' /\ CacheIsLatest'
                        /\ (cfgOwner = NoUser => lines = latest)'
      BY DEF LineInv
    <3>1. WritersHaveLatest'
      BY <1>1, <1>5, <2>3 DEF LineInv, WritersHaveLatest, Receives, MovesTo, ThreadTypes
    <3>2. CacheIsLatest'
      BY <1>1, <1>2, <1>3, <1>5, <2>3, <2>4 DEF LineInv, CacheIsLatest, FileTypes
    <3> QED BY <1>1, <1>5, <2>1, <2>3, <3>1, <3>2
  <2>6. ~spoilt' => ~spoilt /\ WillBeSet(Empty, id)
    BY <1>1, <1>2, <1>3, <1>5, <2>3, <2>4, SettingsAssumption DEF WillBeSet, FileTypes
  <2>7. /\ UNCHANGED <<pluginOwner, plugin_cache>> /\ cfgOwner' = NoUser /\ cfgOwner \in {NoUser, t}
        /\ \A u \in Users : u # t => written'[u] = written[u]
        /\ \A i \in Ids : cfg_cache[i] # NotCached =>
              cfg_cache'[i] # NotCached /\ latest'[i] = latest[i]
    BY <1>1, <1>2, <1>3, <1>5, SettingsAssumption DEF FileTypes
  <2> QED BY <1>1, <1>3, <1>5, <2>2, <2>5, <2>6, <2>7, ReceiveKeeps DEF id
<1> QED BY <1>1, <1>4, <1>5

\* The lines are written, the rest of set_value.
LEMMA WriteLinesKeeps ==
  ASSUME SettingsInv, NEW t \in Users, WriteLines(t)
  PROVE  SettingsInv'
<1> USE DEF SettingsInv
<1> DEFINE w == written[t]
           text == [w.over EXCEPT ![w.id] = Trimmed[w.value]]
<1>1. /\ place[t] = "write"
      /\ lines' = IF w.open THEN text ELSE lines
      /\ terminated' = IF w.open THEN w.newline /\ w.over[w.id] # NoLine ELSE terminated
      /\ latest' = [latest EXCEPT ![w.id] = Trimmed[w.value]]
      /\ cfg_cache' = [cfg_cache EXCEPT ![w.id] = w.value]
      /\ IF w.nested THEN OpenedStream /\ Receives(t, w.value)
         ELSE /\ stream' = IF w.open THEN "good" ELSE "closed"
              /\ MovesTo(t, "reload")
              /\ UNCHANGED <<script, account, spoilt>>
      /\ cfgOwner' = NoUser
      /\ written' = [written EXCEPT ![t] = NothingWritten]
      /\ UNCHANGED <<plugin_cache, pluginOwner>>
  BY DEF WriteLines
<1>2. cfgOwner = t /\ WritesItsCall(t)
  BY <1>1 DEF Fits, OwnerWrites, PlaceFits
<1>3. w \in [id : Ids, value : Values, over : CleanLines,
             newline : BOOLEAN, open : BOOLEAN, nested : BOOLEAN]
  BY DEF FileTypes
<1>4. NothingWritten \in [id : Ids, value : Values, over : CleanLines,
                          newline : BOOLEAN, open : BOOLEAN, nested : BOOLEAN]
  BY SettingsAssumption DEF NothingWritten, NoLines, CleanLines
<1>5. text \in CleanLines /\ latest' \in CleanLines /\ lines' \in CleanLines
      /\ TextOf(Trimmed[w.value]) = Trimmed[w.value]
  BY <1>1, <1>3, NewLineFacts DEF FileTypes
<1> HIDE DEF text
<1>6. stream' \in {"good", "atEnd", "ended", "closed"} /\ spoilt' \in BOOLEAN
      /\ (~spoilt' => ~spoilt /\ (w.open => stream' # "closed"))
  BY <1>1, OpenedFacts DEF FileTypes
<1>7. terminated' \in BOOLEAN
  <2>1. (w.newline /\ w.over[w.id] # NoLine) \in BOOLEAN
    OBVIOUS
  <2> QED BY <1>1, <2>1 DEF FileTypes
<1>8. written' \in [Users -> [id : Ids, value : Values, over : CleanLines,
                              newline : BOOLEAN, open : BOOLEAN, nested : BOOLEAN]]
      /\ \A u \in Users : u # t => written'[u] = written[u]
  BY <1>1, <1>4 DEF FileTypes
<1>9. FileTypes'
  BY <1>1, <1>3, <1>5, <1>6, <1>7, <1>8 DEF FileTypes
<1>10. place'[t] # "write" /\ \A u \in Users : u # t => place'[u] = place[u]
  BY <1>1 DEF Receives, MovesTo, ThreadTypes
<1>11. latest'[w.id] = Trimmed[w.value] /\ cfg_cache'[w.id] = w.value
       /\ \A i \in Ids : i # w.id => latest'[i] = latest[i] /\ cfg_cache'[i] = cfg_cache[i]
  <2>1. w.id \in Ids /\ DOMAIN latest = Ids /\ DOMAIN cfg_cache = Ids
    BY <1>3 DEF FileTypes, CleanLines
  <2> HIDE DEF w
  <2> QED BY <1>1, <2>1
<1>12. LineInv'
  <2> SUFFICES ASSUME ~spoilt'
               PROVE  stream' # "closed" /\ WritersHaveLatest' /\ CacheIsLatest' /\ lines' = latest'
    BY DEF LineInv
  <2>1. w.open /\ w.over = latest /\ CacheIsLatest
    BY <1>1, <1>6 DEF LineInv, WritersHaveLatest
  <2>2. lines' = latest'
    BY <1>1, <2>1 DEF text
  <2>3. CacheIsLatest'
    BY <1>3, <1>5, <1>11, <2>1 DEF CacheIsLatest
  <2>4. WritersHaveLatest'
    <3>1. \A u \in Users : place'[u] # "write"
      BY <1>2, <1>10, SettingsAssumption DEF Fits, OwnerWrites
    <3> QED BY <3>1 DEF WritersHaveLatest
  <2> QED BY <1>6, <2>1, <2>2, <2>3, <2>4
<1>13. CASE w.nested
  <2>1. Calling(t, {"get"}) /\ w.id = Head(script[t]).id /\ cfg_cache[w.id] = NotCached
    BY <1>2, <1>13 DEF WritesItsCall
  <2>2. WillBeSet(w.value, w.id)
    BY <1>3, <1>5, <1>11, SettingsAssumption DEF WillBeSet
  <2>3. \A i \in Ids : cfg_cache[i] # NotCached =>
          cfg_cache'[i] # NotCached /\ latest'[i] = latest[i]
    BY <1>11, <2>1
  <2>4. w.value \in Values /\ Receives(t, w.value) /\ UNCHANGED <<pluginOwner, plugin_cache>>
    BY <1>1, <1>3, <1>13
  <2>5. cfgOwner \in {NoUser, t} /\ cfgOwner' = NoUser
    BY <1>1, <1>2
  <2>6. ~spoilt' => ~spoilt /\ WillBeSet(w.value, Head(script[t]).id)
    BY <1>6, <2>1, <2>2
  <2> HIDE DEF w
  <2> QED BY <1>8, <1>9, <1>12, <2>1, <2>3, <2>4, <2>5, <2>6, ReceiveKeeps
<1>14. CASE ~w.nested
  <2>1. Calling(t, {"set"}) /\ w.id = Head(script[t]).id
    BY <1>2, <1>14 DEF WritesItsCall, Calling
  <2>2. place' = [place EXCEPT ![t] = "reload"] /\ UNCHANGED <<script, account, spoilt>>
    BY <1>1, <1>14 DEF MovesTo
  <2>3. ThreadTypes'
    BY <1>1, <2>2 DEF ThreadTypes
  <2>4. PlaceFits(t)'
    BY <2>1, <2>2 DEF PlaceFits, Calling, ThreadTypes
  <2>5. ScriptFits(t)'
    BY <1>1, <2>2 DEF Fits, ScriptFits, Asks
  <2>6. Fits'
    BY <1>1, <1>2, <1>8, <1>10, <2>2, <2>4, <2>5, OthersFit, SettingsAssumption
  <2>7. FreshInv'
    <3> SUFFICES ASSUME NoneClears, ~spoilt
                 PROVE  AccountsAreSet' /\ KnownIsSet'
      BY <2>2 DEF FreshInv, NoneClears
    <3>1. w.id \notin {UserId, PasswordId}
      <4>1. script[t][1] = Head(script[t]) /\ Head(script[t]).op = "set" /\ script[t] # <<>>
        BY <2>1, CallFacts
      <4>2. ~Asks(t) /\ script[t] # GetInfo
        BY <4>1, GetInfoFacts DEF Asks, GetCall, RememberCall, LookUpCall
      <4>3. IsCommand(script[t])
        BY <4>2 DEF Fits, ScriptFits
      <4>4. 1 \in 1 .. Len(script[t])
        BY <4>1, TailFacts DEF ThreadTypes
      <4> QED BY <2>1, <4>1, <4>3, <4>4 DEF IsCommand, NoneClears
    <3>2. \A i : AccountId(i) \in {UserId, PasswordId}
      BY DEF AccountId
    <3>3. \A v, i : IsSet(v, AccountId(i)) => WillBeSet(v, AccountId(i))
      BY <1>11, <3>1, <3>2, SettingsAssumption DEF IsSet, WillBeSet
    <3>4. AccountsAreSet /\ KnownIsSet
      BY DEF FreshInv
    <3>5. AccountsAreSet'
      <4> SUFFICES ASSUME NEW u \in Users, pluginOwner' = u, NEW i \in 1 .. Len(account'[u])
                   PROVE  WillBeSet(account'[u][i], AccountId(i))
        BY DEF AccountsAreSet, IsSet, WillBeSet
      <4>1. pluginOwner = u /\ account' = account
        BY <1>1, <2>2
      <4> QED BY <3>3, <3>4, <4>1 DEF AccountsAreSet
    <3>6. KnownIsSet'
      <4>1. UNCHANGED plugin_cache
        BY <1>1
      <4> QED BY <3>3, <3>4, <4>1 DEF KnownIsSet, IsSet, WillBeSet
    <3> QED BY <3>5, <3>6
  <2> QED BY <1>9, <1>12, <2>3, <2>6, <2>7
<1> QED BY <1>13, <1>14

\* The steps of plugin_container, and of beginning a command, leave the file alone.
LEMMA FileUntouched ==
  ASSUME SettingsInv, NEW t \in Users, UNCHANGED cfgVars, UNCHANGED place,
         place[t] \notin {"write", "reload"},
         \A u \in Users : u # t =>
            /\ script'[u] = script[u] /\ account'[u] = account[u]
            /\ pluginOwner' = u <=> pluginOwner = u,
         ScriptFits(t)'
  PROVE  FileTypes' /\ Fits' /\ LineInv'
<1> USE DEF SettingsInv
<1>1. FileTypes'
  BY DEF FileTypes, cfgVars
<1>2. LineInv'
  BY DEF LineInv, WritersHaveLatest, CacheIsLatest, cfgVars
<1>3. PlaceFits(t)'
  BY DEF PlaceFits
<1>4. /\ \A u \in Users : u # t =>
            /\ place'[u] = place[u] /\ script'[u] = script[u]
            /\ written'[u] = written[u] /\ account'[u] = account[u]
            /\ pluginOwner' = u <=> pluginOwner = u
      /\ UNCHANGED cfg_cache /\ UNCHANGED cfgOwner
      /\ cfgOwner' = t <=> place'[t] = "write"
  BY DEF cfgVars, Fits, OwnerWrites
<1>5. Fits'
  BY <1>3, <1>4, OthersFit
<1> QED BY <1>1, <1>2, <1>5

\* A plugin's information is looked up among what is remembered.
LEMMA LookUpKeeps ==
  ASSUME SettingsInv, NEW t \in Users, LookUp(t)
  PROVE  SettingsInv'
<1> USE DEF SettingsInv
<1>1. /\ Calling(t, {"lookup"}) /\ pluginOwner = NoUser
      /\ account' = [account EXCEPT ![t] = <<>>]
      /\ \/ pluginOwner' = t /\ Returns(t)
         \/ script' = [script EXCEPT ![t] = <<>>] /\ UNCHANGED pluginOwner
      /\ UNCHANGED <<cfgVars, plugin_cache, place>>
  BY DEF LookUp
<1>2. script[t] # <<>> /\ script[t][1] = Head(script[t]) /\ script[t][1].op = "lookup"
  BY <1>1, CallFacts
<1>3. place[t] \notin {"write", "reload"}
  <2>1. ~Calling(t, {"set"}) /\ ~Calling(t, {"get", "set"})
    BY <1>2 DEF Calling
  <2> QED BY <2>1 DEF Fits, PlaceFits, WritesItsCall
<1>4. script[t] = GetInfo
  <2>1. 1 \in 1 .. Len(script[t])
    BY <1>2, TailFacts DEF ThreadTypes
  <2>2. ~IsCommand(script[t])
    BY <1>2, <2>1 DEF IsCommand
  <2>3. pluginOwner # t
    BY <1>1, SettingsAssumption
  <2> QED BY <2>2, <2>3 DEF Fits, ScriptFits
<1>5. account' \in [Users -> Seq(Values)] /\ account'[t] = <<>>
      /\ \A u \in Users : u # t => account'[u] = account[u]
  BY <1>1 DEF ThreadTypes
<1>6. /\ script' \in [Users -> Seq(Calls)] /\ ScriptFits(t)'
      /\ \A u \in Users : u # t => script'[u] = script[u]
      /\ NoneClears' => NoneClears
  <2>1. \A i \in 1 .. Len(script[t]) : script[t][i] # ClearCall
    <3>1. LookUpCall.op # "clear" /\ GetCall(UserId).op # "clear"
          /\ GetCall(PasswordId).op # "clear" /\ RememberCall.op # "clear"
          /\ ClearCall.op = "clear"
      BY DEF LookUpCall, GetCall, RememberCall, ClearCall
    <3> QED BY <1>4, <3>1, GetInfoFacts
  <2>2. CASE pluginOwner' = t /\ Returns(t)
    <3>1. script[t] # <<>>
      BY <1>2
    <3>2. /\ Len(script'[t]) = Len(script[t]) - 1
          /\ \A i \in 1 .. Len(script[t]) - 1 : script'[t][i] = script[t][i + 1]
          /\ script' \in [Users -> Seq(Calls)]
          /\ \A u \in Users : u # t => script'[u] = script[u]
      BY <2>2, <3>1, ReturnFacts
    <3>3. Len(script'[t]) = 3 /\ 1 \in 1 .. Len(script[t]) - 1
          /\ 2 \in 1 .. Len(script[t]) - 1 /\ 3 \in 1 .. Len(script[t]) - 1
      BY <1>4, <3>2, GetInfoFacts
    <3>4. script'[t][1] = GetCall(UserId) /\ script'[t][2] = GetCall(PasswordId)
          /\ script'[t][3] = RememberCall
      BY <1>4, <3>2, <3>3, GetInfoFacts
    <3>5. ScriptFits(t)'
      BY <1>5, <2>2, <3>3, <3>4 DEF ScriptFits, Asks
    <3>6. Head(script[t]) # ClearCall
      BY <1>2 DEF ClearCall
    <3>7. NoneClears' => NoneClears
      BY <2>2, <3>1, <3>6, ReturnsClearNothing
    <3> QED BY <3>2, <3>5, <3>7
  <2>3. CASE script' = [script EXCEPT ![t] = <<>>] /\ UNCHANGED pluginOwner
    <3>1. script' \in [Users -> Seq(Calls)] /\ script'[t] = <<>>
          /\ \A u \in Users : u # t => script'[u] = script[u]
      BY <2>3 DEF ThreadTypes
    <3>2. ScriptFits(t)'
      BY <1>1, <2>3, <3>1, SettingsAssumption DEF ScriptFits, IsCommand
    <3>3. NoneClears' => NoneClears
      BY <2>1, <3>1 DEF NoneClears
    <3> QED BY <3>1, <3>2, <3>3
  <2> QED BY <1>1, <2>2, <2>3
<1>7. pluginOwner' \in {NoUser, t}
  BY <1>1
<1>8. ThreadTypes'
  BY <1>1, <1>5, <1>6, <1>7 DEF ThreadTypes
<1>9. FileTypes' /\ Fits' /\ LineInv'
  BY <1>1, <1>3, <1>5, <1>6, <1>7, FileUntouched, SettingsAssumption
<1>10. FreshInv'
  <2> SUFFICES ASSUME NoneClears', ~spoilt'
               PROVE  AccountsAreSet' /\ KnownIsSet'
    BY DEF FreshInv
  <2>1. AccountsAreSet /\ KnownIsSet /\ UNCHANGED <<cfg_cache, latest, plugin_cache>>
    BY <1>1, <1>6 DEF FreshInv, cfgVars
  <2>2. KnownIsSet'
    BY <2>1 DEF KnownIsSet, IsSet
  <2>3. \A u \in Users : pluginOwner' = u => account'[u] = <<>>
    BY <1>5, <1>7, SettingsAssumption
  <2>4. AccountsAreSet'
    BY <2>3 DEF AccountsAreSet
  <2> QED BY <2>2, <2>4
<1> QED BY <1>8, <1>9, <1>10

\* A plugin's information is remembered.
LEMMA RememberKeeps ==
  ASSUME SettingsInv, NEW t \in Users, Remember(t)
  PROVE  SettingsInv'
<1> USE DEF SettingsInv
<1>1. /\ Calling(t, {"remember"})
      /\ plugin_cache' = account[t] /\ pluginOwner' = NoUser
      /\ account' = [account EXCEPT ![t] = <<>>]
      /\ Returns(t)
      /\ UNCHANGED <<cfgVars, place>>
  BY DEF Remember
<1>2. script[t] # <<>> /\ script[t][1] = Head(script[t]) /\ script[t][1].op = "remember"
  BY <1>1, CallFacts
<1>3. place[t] \notin {"write", "reload"}
  <2>1. ~Calling(t, {"set"}) /\ ~Calling(t, {"get", "set"})
    BY <1>2 DEF Calling
  <2> QED BY <2>1 DEF Fits, PlaceFits, WritesItsCall
<1>4. pluginOwner = t /\ Len(script[t]) = 1 /\ Len(account[t]) = 2
  <2>1. 1 \in 1 .. Len(script[t])
    BY <1>2, TailFacts DEF ThreadTypes
  <2>2. ~IsCommand(script[t])
    BY <1>2, <2>1 DEF IsCommand
  <2>3. script[t] # GetInfo
    BY <1>2, GetInfoFacts DEF LookUpCall
  <2>4. Asks(t) /\ pluginOwner = t
    BY <2>2, <2>3 DEF Fits, ScriptFits
  <2>5. GetCall(UserId).op # "remember" /\ GetCall(PasswordId).op # "remember"
    BY DEF GetCall
  <2> QED BY <1>2, <2>4, <2>5 DEF Asks
<1>5. /\ script' \in [Users -> Seq(Calls)] /\ Len(script'[t]) = 0
      /\ \A u \in Users : u # t => script'[u] = script[u]
  BY <1>1, <1>2, <1>4, ReturnFacts
<1>6. account' \in [Users -> Seq(Values)] /\ account[t] \in Seq(Values)
      /\ \A u \in Users : u # t => account'[u] = account[u]
  BY <1>1 DEF ThreadTypes
<1>7. ThreadTypes'
  BY <1>1, <1>4, <1>5, <1>6 DEF ThreadTypes
<1>8. ScriptFits(t)'
  BY <1>1, <1>5, SettingsAssumption DEF ScriptFits, IsCommand
<1>9. FileTypes' /\ Fits' /\ LineInv'
  BY <1>1, <1>3, <1>4, <1>5, <1>6, <1>8, FileUntouched, SettingsAssumption
<1>10. FreshInv'
  <2> SUFFICES ASSUME NoneClears', ~spoilt'
               PROVE  AccountsAreSet' /\ KnownIsSet'
    BY DEF FreshInv
  <2>1. NoneClears
    <3>1. Head(script[t]) # ClearCall
      BY <1>2 DEF ClearCall
    <3> QED BY <1>1, <1>2, <3>1, ReturnsClearNothing
  <2>2. AccountsAreSet /\ UNCHANGED <<cfg_cache, latest>>
    BY <1>1, <2>1 DEF FreshInv, cfgVars
  <2>3. KnownIsSet'
    <3>1. \A i \in 1 .. 2 : IsSet(account[t][i], AccountId(i))
      BY <1>4, <2>2 DEF AccountsAreSet
    <3> QED BY <1>1, <2>2, <3>1 DEF KnownIsSet, IsSet
  <2>4. AccountsAreSet'
    BY <1>1, SettingsAssumption DEF AccountsAreSet
  <2> QED BY <2>3, <2>4
<1> QED BY <1>7, <1>9, <1>10

\* All that is remembered is forgotten.
LEMMA ClearCacheKeeps ==
  ASSUME SettingsInv, NEW t \in Users, ClearCache(t)
  PROVE  SettingsInv'
<1> USE DEF SettingsInv
<1>1. /\ Calling(t, {"clear"}) /\ pluginOwner = NoUser
      /\ plugin_cache' = NotCached /\ Returns(t)
      /\ UNCHANGED <<cfgVars, pluginOwner, place, account>>
  BY DEF ClearCache
<1>2. script[t] # <<>> /\ script[t][1] = Head(script[t]) /\ script[t][1].op = "clear"
  BY <1>1, CallFacts
<1>3. place[t] \notin {"write", "reload"}
  <2>1. ~Calling(t, {"set"}) /\ ~Calling(t, {"get", "set"})
    BY <1>2 DEF Calling
  <2> QED BY <2>1 DEF Fits, PlaceFits, WritesItsCall
<1>4. IsCommand(script[t])
  <2>1. script[t] # GetInfo
    BY <1>2, GetInfoFacts DEF LookUpCall
  <2> QED BY <1>1, <2>1, SettingsAssumption DEF Fits, ScriptFits
<1>5. /\ script' \in [Users -> Seq(Calls)]
      /\ \A u \in Users : u # t => script'[u] = script[u]
  BY <1>1, <1>2, ReturnFacts
<1>6. IsCommand(script'[t])
  BY <1>1, <1>2, <1>4, CommandReturns
<1>7. ThreadTypes'
  BY <1>1, <1>5 DEF ThreadTypes
<1>8. ScriptFits(t)'
  BY <1>1, <1>6, SettingsAssumption DEF ScriptFits
<1>9. FileTypes' /\ Fits' /\ LineInv'
  BY <1>1, <1>3, <1>5, <1>8, FileUntouched
<1>10. FreshInv'
  BY <1>1, SettingsAssumption DEF FreshInv, AccountsAreSet, KnownIsSet
<1> QED BY <1>7, <1>9, <1>10

\* A thread begins a command.
LEMMA BeginsKeeps ==
  ASSUME SettingsInv, NEW t \in Users, Begins(t)
  PROVE  SettingsInv'
<1> USE DEF SettingsInv
<1>1. PICK c \in Commands : script' = [script EXCEPT ![t] = c]
  BY DEF Begins
<1>2. script[t] = <<>> /\ UNCHANGED <<cfgVars, plugin_cache, pluginOwner, place, account>>
  BY DEF Begins
<1>3. place[t] \notin {"write", "reload"}
  <2>1. ~Calling(t, {"set"}) /\ ~Calling(t, {"get", "set"})
    BY <1>2 DEF Calling
  <2> QED BY <2>1 DEF Fits, PlaceFits, WritesItsCall
<1>4. pluginOwner # t
  BY <1>2 DEF Fits, ScriptFits, Asks
<1>5. c \in Seq(Calls) /\ (c = GetInfo \/ IsCommand(c))
  BY CommandFacts, GetInfoFacts
<1>6. /\ script' \in [Users -> Seq(Calls)] /\ script'[t] = c
      /\ \A u \in Users : u # t => script'[u] = script[u]
  BY <1>1, <1>5 DEF ThreadTypes
<1>7. ThreadTypes'
  BY <1>2, <1>6 DEF ThreadTypes
<1>8. ScriptFits(t)'
  BY <1>2, <1>4, <1>5, <1>6 DEF ScriptFits
<1>9. FileTypes' /\ Fits' /\ LineInv'
  BY <1>2, <1>3, <1>6, <1>8, FileUntouched
<1>10. FreshInv'
  <2>1. NoneClears' => NoneClears
    <3> SUFFICES ASSUME NoneClears', NEW u \in Users, NEW i \in 1 .. Len(script[u])
                 PROVE  script[u][i] # ClearCall
      BY DEF NoneClears
    <3>1. u # t
      BY <1>2
    <3> QED BY <1>6, <3>1 DEF NoneClears
  <2> QED BY <1>2, <2>1 DEF FreshInv, AccountsAreSet, KnownIsSet, IsSet, cfgVars
<1> QED BY <1>7, <1>9, <1>10

\* A process begins with what is in the file.
ProcessBegins ==
  /\ lines \in CleanLines /\ latest = lines /\ terminated \in BOOLEAN /\ stream = "good"
  /\ cfg_cache = [i \in Ids |-> NotCached]
  /\ cfgOwner = NoUser /\ pluginOwner = NoUser /\ plugin_cache = NotCached
  /\ script = [t \in Users |-> <<>>] /\ place = [t \in Users |-> "ready"]
  /\ written = [t \in Users |-> NothingWritten] /\ account = [t \in Users |-> <<>>]
  /\ spoilt = FALSE
\* A new process has asked nobody and remembers nothing.
LEMMA ProcessBeginsFits == ProcessBegins => SettingsInv
<1> SUFFICES ASSUME ProcessBegins PROVE SettingsInv
  OBVIOUS
<1> USE DEF ProcessBegins
<1>1. NothingWritten \in [id : Ids, value : Values, over : CleanLines,
                          newline : BOOLEAN, open : BOOLEAN, nested : BOOLEAN]
  BY SettingsAssumption DEF NothingWritten, NoLines, CleanLines
<1>2. FileTypes
  BY <1>1 DEF FileTypes
<1>3. ThreadTypes
  BY DEF ThreadTypes
<1>4. Fits
  BY SettingsAssumption DEF Fits, OwnerWrites, PlaceFits, ScriptFits, IsCommand
<1>5. LineInv /\ FreshInv
  BY SettingsAssumption
  DEF LineInv, WritersHaveLatest, CacheIsLatest, FreshInv, AccountsAreSet, KnownIsSet
<1> QED BY <1>2, <1>3, <1>4, <1>5 DEF SettingsInv

\* That is how the daemon starts,
LEMMA SettingsInitially == SettingsInit => SettingsInv
<1>1. InitialLines \in CleanLines
  BY SettingsAssumption DEF CleanLines
<1> QED BY <1>1, ProcessBeginsFits DEF SettingsInit, ProcessBegins

\* and how it starts again, with the file as it was left.
LEMMA RestartKeeps == SettingsInv /\ SettingsRestart => SettingsInv'
<1> SUFFICES ASSUME SettingsInv, SettingsRestart
             PROVE  SettingsInv'
  OBVIOUS
<1>1. ProcessBegins'
  BY DEF SettingsInv, FileTypes, SettingsRestart, ProcessBegins
<1> QED BY <1>1, ProcessBeginsFits, PTL

--------------------------------------------------------------------------------
(* The theorems.                                                            *)

\* However commands of any number of threads overlap, and whenever the program is
\* killed, what the threads owe each other is kept up.
THEOREM SettingsInvariant == SettingsSpec => []SettingsInv
<1>1. SettingsInv /\ [SettingsNext]_settingsVars => SettingsInv'
  <2> SUFFICES ASSUME SettingsInv, [SettingsNext]_settingsVars
               PROVE  SettingsInv'
    OBVIOUS
  <2>1. CASE UNCHANGED settingsVars
    BY <2>1 DEF settingsVars, cfgVars, SettingsInv, FileTypes, ThreadTypes, Fits, OwnerWrites,
                PlaceFits, WritesItsCall, Calling, ScriptFits, Asks, LineInv,
                WritersHaveLatest, CacheIsLatest, FreshInv, NoneClears, AccountsAreSet,
                KnownIsSet, IsSet
  <2>2. ASSUME NEW t \in Users, UserStep(t)
        PROVE  SettingsInv'
    BY <2>2, GivesUpMutexKeeps, ReloadFileKeeps, SetValueKeeps, GetCachedKeeps,
       GetLineKeeps, GetDefaultKeeps, WriteLinesKeeps, LookUpKeeps, RememberKeeps,
       ClearCacheKeeps, BeginsKeeps DEF UserStep, CfgStep
  <2> QED BY <2>1, <2>2, RestartKeeps DEF SettingsNext
<1> QED BY <1>1, SettingsInitially, PTL DEF SettingsSpec

\* The types, and that the one who holds cfgfile::mx, or the mutex of the plugins, is
\* in the middle of what it guards.
THEOREM SettingsTypes == SettingsSpec => []SettingsTypeOK
<1>1. SettingsInv => SettingsTypeOK
  <2> SUFFICES ASSUME SettingsInv PROVE SettingsTypeOK
    OBVIOUS
  <2>1. CleanLines \subseteq [Ids -> Values \cup {NoLine}]
    BY SettingsAssumption DEF CleanLines
  <2>2. ASSUME NEW t \in Users, pluginOwner = t
        PROVE  Calling(t, {"get", "remember"}) /\ Len(account[t]) + Len(script[t]) = 3
    <3>1. Asks(t) /\ script[t] \in Seq(Calls)
      BY <2>2 DEF SettingsInv, Fits, ScriptFits, ThreadTypes
    <3>2. script[t] # <<>> /\ Head(script[t]) = script[t][1]
      <4>1. script[t] # <<>>
        BY <3>1 DEF Asks
      <4> QED BY <3>1, <4>1, TailFacts
    <3>3. GetCall(UserId).op = "get" /\ GetCall(PasswordId).op = "get"
          /\ RememberCall.op = "remember"
      BY DEF GetCall, RememberCall
    <3>4. Calling(t, {"get", "remember"})
      BY <3>1, <3>2, <3>3 DEF Asks, Calling
    <3>5. Len(account[t]) + Len(script[t]) = 3
      <4>1. \/ Len(script[t]) = 3 /\ Len(account[t]) = 0
            \/ Len(script[t]) = 2 /\ Len(account[t]) = 1
            \/ Len(script[t]) = 1 /\ Len(account[t]) = 2
        BY <3>1 DEF Asks
      <4>2. 0 + 3 = 3 /\ 1 + 2 = 3 /\ 2 + 1 = 3
        OBVIOUS
      <4> QED BY <4>1, <4>2
    <3> QED BY <3>4, <3>5
  <2> QED BY <2>1, <2>2 DEF SettingsInv, FileTypes, ThreadTypes, Fits, OwnerWrites, SettingsTypeOK
<1> QED BY <1>1, SettingsInvariant, PTL

\* No setting is lost between threads that read and set the same file: the lines and
\* the cache hold what was set last (NoUpdateIsLost).
THEOREM SettingsAreKept == SettingsSpec => []NoUpdateIsLost
<1>1. SettingsInv => NoUpdateIsLost
  BY DEF SettingsInv, Fits, OwnerWrites, FileTypes, LineInv, CacheIsLatest, NoUpdateIsLost,
         Undisturbed, NobodyWrites
<1> QED BY <1>1, SettingsInvariant, PTL

\* What is remembered of a plugin was asked with the account that is set now
\* (PluginInfoIsFresh), as it is forgotten after both lines are written.
THEOREM PluginsAreAskedAnew == SettingsSpec => []PluginInfoIsFresh
<1>1. SettingsInv => PluginInfoIsFresh
  <2> SUFFICES ASSUME SettingsInv, Undisturbed, plugin_cache # NotCached,
                      \A t \in Users : \A i \in DOMAIN script[t] : script[t][i] # ClearCall,
                      NEW i \in 1 .. 2
               PROVE  Trimmed[plugin_cache[i]] = TextOf(lines[<<UserId, PasswordId>>[i]])
    BY DEF PluginInfoIsFresh
  <2>1. NoneClears
    <3>1. \A t \in Users : DOMAIN script[t] = 1 .. Len(script[t])
      BY LenProperties DEF SettingsInv, ThreadTypes
    <3> QED BY <3>1 DEF NoneClears
  <2>2. IsSet(plugin_cache[i], AccountId(i))
    BY <2>1 DEF SettingsInv, FreshInv, KnownIsSet, Undisturbed
  <2>3. lines = latest
    BY DEF SettingsInv, Fits, OwnerWrites, FileTypes, LineInv, Undisturbed, NobodyWrites
  <2>4. <<UserId, PasswordId>>[i] = AccountId(i)
    BY DEF AccountId
  <2> QED BY <2>2, <2>3, <2>4 DEF IsSet
<1> QED BY <1>1, SettingsInvariant, PTL

--------------------------------------------------------------------------------
(* Captchas: an answer that was given to the image on show is not counted as the *)
(* answer to another one. What has to be kept up is that p_mutex separates the   *)
(* downloads, and that there is no answer at hand while one is polled for but to *)
(* the image of the moment.                                                      *)

Places == {"outside", "plugin", "asks", "offers", "announces", "polls"}
PlacesOK == step_of \in [Solvers -> Places]

\* p_mutex: who is inside of the plugin is user_of.
OneInside == \A d \in Solvers : step_of[d] # "outside" => user_of = d

\* Between the reset of the result and the end of the loop, the image is the
\* one that any answer arrives at.
Waiting(d) == step_of[d] \in {"offers", "announces", "polls"}
ResultIsFresh ==
  (\E d \in Solvers : Waiting(d)) /\ result # NoAnswerYet => result.at = image

CaptchaInv == PlacesOK /\ OneInside /\ ResultIsFresh /\ AnswerFitsTheImage

USE DEF At, GoesTo, Doing, Handles, Places, PlacesOK, Waiting, pluginVars,
        objectVars, offerVars, clientVars

--------------------------------------------------------------------------------
\* At first nobody solves a captcha.
LEMMA CaptchaInitially == CaptchaInit => CaptchaInv
  <1> SUFFICES ASSUME CaptchaInit PROVE CaptchaInv
    OBVIOUS
  <1> QED
    BY DEF CaptchaInit, CaptchaInv, OneInside, ResultIsFresh, AnswerFitsTheImage

\* Entering, leaving and using the plugin. An image is fetched by the download
\* that is inside, so that no other one waits for the answer to the last one.
LEMMA PluginPreserves ==
  ASSUME CaptchaInv, NEW d \in Solvers,
         PluginExec(d) \/ PluginReturns(d) \/ ProcessImage(d)
  PROVE  CaptchaInv'
  <1> USE DEF CaptchaInv, OneInside
  <1>1. CASE PluginExec(d)
    BY <1>1, CaptchaAssumption DEF PluginExec, ResultIsFresh, AnswerFitsTheImage
  <1>2. CASE PluginReturns(d)
    BY <1>2 DEF PluginReturns, ResultIsFresh, AnswerFitsTheImage
  <1>3. CASE ProcessImage(d)
    <2>1. /\ At(d, "plugin")
          /\ UNCHANGED <<result, accepted>>
          /\ \/ UNCHANGED <<user_of, step_of>>
             \/ user_of' = Nobody /\ GoesTo(d, "outside")
             \/ UNCHANGED user_of /\ GoesTo(d, "asks")
      BY <1>3 DEF ProcessImage, SolveAutomatic, GiveUpCaptcha, SolveManually
    <2>2. PlacesOK' /\ OneInside'
      BY <2>1
    <2>3. \A e \in Solvers : ~Waiting(e)'
      BY <2>1, <2>2
    <2> QED
      BY <2>1, <2>2, <2>3 DEF ResultIsFresh, AnswerFitsTheImage
  <1> QED
    BY <1>1, <1>2, <1>3

\* solve_captcha. What is taken is looked at while the image is still on show.
LEMMA SolverPreserves ==
  ASSUME CaptchaInv, NEW d \in Solvers, SolverStep(d)
  PROVE  CaptchaInv'
  <1> USE DEF CaptchaInv, OneInside
  <1>1. CASE ClearResult(d)
    BY <1>1 DEF ClearResult, ResultIsFresh, AnswerFitsTheImage
  <1>2. CASE SetCaptcha(d)
    BY <1>2 DEF SetCaptcha, ResultIsFresh, AnswerFitsTheImage
  <1>3. CASE Announce(d)
    BY <1>3 DEF Announce, ResultIsFresh, AnswerFitsTheImage
  <1>4. CASE Poll(d)
    <2>1. At(d, "polls") /\ UNCHANGED <<result, image>>
      BY <1>4 DEF Poll
    <2>2. result # NoAnswerYet => result.at = image
      BY <2>1 DEF ResultIsFresh
    <2>3. CASE Expires(d)
      BY <2>1, <2>3 DEF Expires, ResultIsFresh, AnswerFitsTheImage
    <2>4. CASE TakesAnswer(d)
      <3>1. PlacesOK' /\ OneInside'
        BY <2>1, <2>4 DEF TakesAnswer
      <3>2. ResultIsFresh'
        BY <2>1, <2>2 DEF ResultIsFresh
      <3>3. AnswerFitsTheImage'
        BY <2>1, <2>2, <2>4 DEF TakesAnswer, AnswerFitsTheImage
      <3> QED
        BY <3>1, <3>2, <3>3
    <2>5. CASE PollsOn
      BY <2>1, <2>5 DEF PollsOn, ResultIsFresh, AnswerFitsTheImage
    <2> QED
      BY <1>4, <2>3, <2>4, <2>5 DEF Poll
  <1> QED
    BY <1>1, <1>2, <1>3, <1>4 DEF SolverStep

\* The handlers. An answer arrives at the image that is there.
LEMMA HandlerPreserves ==
  ASSUME CaptchaInv, NEW h \in Typists,
         \/ \E d \in Solvers : CaptchaCommand(h, d)
         \/ HandlerMoves(h)
  PROVE  CaptchaInv'
  <1>1. UNCHANGED <<user_of, step_of, image, accepted>>
    BY DEF CaptchaCommand, HandlerMoves, GetsPointer, ReadsImage, SetsResult
  <1>2. UNCHANGED result \/ result'.at = image
    BY DEF CaptchaCommand, HandlerMoves, GetsPointer, ReadsImage, SetsResult
  <1> QED
    BY <1>1, <1>2 DEF CaptchaInv, OneInside, ResultIsFresh, AnswerFitsTheImage

--------------------------------------------------------------------------------
\* An answer that was given to the image the plugin was showing is counted for
\* that image only (AnswerFitsTheImage), whatever answers are late and whichever
\* downloads of the host follow each other into the plugin.
THEOREM AnswersFit == CaptchaSpec => []AnswerFitsTheImage
  <1>1. CaptchaInit => CaptchaInv
    BY CaptchaInitially
  <1>2. CaptchaInv /\ [CaptchaNext]_captchaVars => CaptchaInv'
    <2> SUFFICES ASSUME CaptchaInv, [CaptchaNext]_captchaVars
                 PROVE  CaptchaInv'
      OBVIOUS
    <2>1. CASE UNCHANGED captchaVars
      BY <2>1 DEF captchaVars, CaptchaInv, OneInside, ResultIsFresh,
                  AnswerFitsTheImage
    <2>2. ASSUME NEW d \in Solvers,
                 PluginExec(d) \/ PluginReturns(d) \/ ProcessImage(d)
          PROVE  CaptchaInv'
      BY <2>2, PluginPreserves
    <2>3. ASSUME NEW d \in Solvers, SolverStep(d)
          PROVE  CaptchaInv'
      BY <2>3, SolverPreserves
    <2>4. ASSUME NEW h \in Typists,
                 (\E d \in Solvers : CaptchaCommand(h, d)) \/ HandlerMoves(h)
          PROVE  CaptchaInv'
      BY <2>4, HandlerPreserves
    <2> QED
      BY <2>1, <2>2, <2>3, <2>4 DEF CaptchaNext
  <1>3. CaptchaInv => AnswerFitsTheImage
    BY DEF CaptchaInv
  <1> QED
    BY <1>1, <1>2, <1>3, PTL DEF CaptchaSpec

--------------------------------------------------------------------------------
(* The window in which the settings are changed (module ConfigureDialog).    *)

Names == Vars \cup RouterVars
PanelNames == Panels \cup {EnableReconnect} \cup RouterVars
Writes == [id : Names, value : Texts]

DialogTypes ==
  /\ config \in [Names -> Texts] /\ theirs \in [Names -> Texts]
  /\ all_variables \in [Vars -> Texts \cup {NotListed}]
  /\ panel \in [PanelNames -> Texts]
  /\ advanced \in [Vars -> Texts \cup {NotListed}]
  /\ unread \in Seq(Names) /\ left \in Seq(Writes)

\* Until ok is pressed, this client has set nothing.
SetsNothing == stage \in {"listing", "filling", "open"} => config = theirs

\* The list is what the program was set to when the window was opened, of
\* whatever nobody else has set since.
ReadAsIs ==
  stage \in {"listing", "filling", "open", "saving", "saved"} =>
    \A v \in Vars \ disturbed : all_variables[v] \in {theirs[v], NotListed}

\* What is to be read, and that nothing can be changed before it is.
ReadsInOrder ==
  /\ stage = "listing" => unread \in Seq(Vars) /\ touched = {}
  /\ stage = "filling" => unread \in Seq(RouterVars)

\* The fields show the list where the user has not changed them.
FieldsAreShown ==
  stage \in {"filling", "open", "saving", "saved"} =>
    /\ \A v : <<"panel", v>> \in touched => v \in PanelNames
    /\ \A v \in Panels : <<"panel", v>> \in touched \/ panel[v] = Shown(v)
    /\ \A v \in Vars :
         IF <<"advanced", v>> \in touched
         THEN all_variables[v] # NotListed /\ advanced[v] \in Texts
         ELSE advanced[v] = all_variables[v]

\* What ok writes for v, once or twice.
Differs(v) == v \in Panels /\ panel[v] # Known(v)
Wanted(v) == {x \in Texts : \/ Differs(v) /\ x = panel[v]
                            \/ advanced[v] # all_variables[v] /\ x = advanced[v]}

\* While ok writes: it writes only what is wanted, leaves alone what is not, and
\* what is wanted of a variable is set or has still to be.
Plain == Vars \ {EnableReconnect}
OkWrites ==
  stage \in {"saving", "saved"} =>
    /\ \A w \in ToSet(left) : w.id \in Plain => w.value \in Wanted(w.id)
    /\ \A v \in Plain :
         /\ Wanted(v) = {} => config[v] = theirs[v]
         /\ \A x : Wanted(v) = {x} /\ standing /\ v \notin disturbed /\ <<v, x>> \notin Refusals =>
              config[v] = x \/ \E w \in ToSet(left) : w.id = v
OkIsDone == stage = "saved" => left = <<>>

\* The inductive invariant.
DialogInv == /\ DialogTypes /\ SetsNothing /\ ReadAsIs /\ ReadsInOrder /\ FieldsAreShown
             /\ OkWrites /\ OkIsDone

\* Which texts there are, and which variables.
LEMMA TextsAreThere ==
  /\ On \in Texts /\ Off \in Texts /\ NoText \in Texts /\ Lines \subseteq Texts
  /\ FirstLine \in Texts /\ NotListed \notin Texts
  /\ Panels \subseteq Vars /\ EnableReconnect \in Vars /\ EnableReconnect \notin Panels
  /\ RouterVars \cap Vars = {} /\ RouterShown \subseteq RouterVars
  /\ Panels = Boxes \cup Selections \cup Fields
<1>1. Panels \subseteq Vars
  BY DialogAssumption, ToSetFacts DEF Panels
<1> QED BY <1>1, DialogAssumption DEF RouterVars

\* What a panel shows is a text.
LEMMA ShownIsText ==
  ASSUME DialogTypes, NEW v \in Panels
  PROVE  Known(v) \in Texts /\ Shown(v) \in Texts
<1>1. Known(v) \in Texts
  BY TextsAreThere DEF DialogTypes, Known
<1>2. /\ RetryText(Known(v)) \in Texts /\ BoxText(Known(v)) \in Texts
      /\ ChoiceText(Known(v)) \in Texts /\ FieldText(Known(v)) \in Texts
  BY <1>1, TextsAreThere DEF RetryText, BoxText, ChoiceText, FieldText
<1>3. v \in Boxes \/ v \in Selections \/ v \in Fields
  BY TextsAreThere
<1> QED BY <1>1, <1>2, <1>3 DEF Shown

\* The members of a sequence made of a set.
LEMMA SetToSeqIsSeq ==
  ASSUME NEW S, IsFiniteSet(S)
  PROVE  SetToSeq(S) \in Seq(S)
<1>1. PICK n : n = Cardinality(S)
  OBVIOUS
<1>2. n \in Nat /\ ExistsBijection(1 .. n, S)
  BY <1>1, FS_CardinalityType
<1>3. \E f \in [1 .. n -> S] : IsInjective(f)
  BY <1>2 DEF ExistsBijection, Bijection, Injection, IsInjective
<1>4. SetToSeq(S) \in [1 .. n -> S]
  BY <1>1, <1>3 DEF SetToSeq
<1> QED BY <1>2, <1>4, IsASeq

\* The settings made of a sequence of names, and of what is shown for them.
ShownFor(m, s, f) == m = [i \in DOMAIN s |-> Setting(s[i], f[s[i]])]
Gives(f, S, T) == \A v \in S : f[v] \in T
\* What is shown for a sequence of names is a sequence of settings.
LEMMA SettingsOf ==
  ASSUME NEW S, NEW T, NEW s \in Seq(S), NEW f, Gives(f, S, T), NEW m, ShownFor(m, s, f)
  PROVE  m \in Seq([id : S, value : T])
<1>1. Len(s) \in Nat /\ DOMAIN s = 1 .. Len(s) /\ \A i \in 1 .. Len(s) : s[i] \in S
  BY LenProperties
<1>2. /\ DOMAIN m = DOMAIN s
      /\ \A i \in DOMAIN s : m[i] = [id |-> s[i], value |-> f[s[i]]]
  BY DEF Setting, ShownFor
<1>3. ASSUME NEW i \in 1 .. Len(s) PROVE m[i] \in [id : S, value : T]
  <2>1. s[i] \in S /\ f[s[i]] \in T
    BY <1>1 DEF Gives
  <2> QED BY <1>1, <1>2, <2>1
<1>4. m = [i \in 1 .. Len(s) |-> m[i]]
  BY <1>1, <1>2 DEF ShownFor
<1> QED BY <1>1, <1>3, <1>4, IsASeq

\* It has a setting for each of the names and for no other.
LEMMA SettingsAre ==
  ASSUME NEW s, NEW f, NEW m, ShownFor(m, s, f)
  PROVE  /\ \A w \in ToSet(m) : w.id \in ToSet(s) /\ w.value = f[w.id]
         /\ \A v \in ToSet(s) : \E w \in ToSet(m) : w.id = v
<1>1. /\ DOMAIN m = DOMAIN s
      /\ \A i \in DOMAIN s : m[i].id = s[i] /\ m[i].value = f[s[i]]
  BY DEF Setting, ShownFor
<1>2. /\ \A w \in ToSet(m) : \E i \in DOMAIN s : w = m[i]
      /\ \A i \in DOMAIN s : m[i] \in ToSet(m)
      /\ \A v \in ToSet(s) : \E i \in DOMAIN s : v = s[i]
      /\ \A i \in DOMAIN s : s[i] \in ToSet(s)
  BY <1>1 DEF ToSet
<1>3. ASSUME NEW w \in ToSet(m) PROVE w.id \in ToSet(s) /\ w.value = f[w.id]
  <2>1. PICK i \in DOMAIN s : w = m[i]
    BY <1>2
  <2>2. w.id = s[i] /\ w.value = f[s[i]] /\ s[i] \in ToSet(s)
    BY <1>1, <1>2, <2>1
  <2> QED BY <2>2
<1>4. ASSUME NEW v \in ToSet(s) PROVE \E w \in ToSet(m) : w.id = v
  <2>1. PICK i \in DOMAIN s : v = s[i]
    BY <1>2
  <2>2. m[i] \in ToSet(m) /\ m[i].id = v
    BY <1>1, <1>2, <2>1
  <2> QED BY <2>2
<1> QED BY <1>3, <1>4

\* A sequence is its head and what follows.
LEMMA HeadAndTail ==
  ASSUME NEW S, NEW s \in Seq(S), s # <<>>
  PROVE  /\ Head(s) \in S /\ Tail(s) \in Seq(S)
         /\ ToSet(s) = {Head(s)} \cup ToSet(Tail(s))
<1>1. PICK n \in Nat : n = Len(s)
  BY LenProperties
<1>2. DOMAIN s = 1 .. n /\ n # 0 /\ \A i \in 1 .. n : s[i] \in S
  BY <1>1, LenProperties, EmptySeq
<1>3. PICK r : r = Tail(s)
  OBVIOUS
<1>4. /\ r \in Seq(S) /\ Len(r) = n - 1 /\ \A i \in 1 .. n - 1 : r[i] = s[i + 1]
      /\ Head(s) = s[1]
  BY <1>1, <1>3, HeadTailProperties
<1>5. DOMAIN r = 1 .. n - 1
  BY <1>4, LenProperties
<1>6. \A x : x \in ToSet(s) <=> \E i \in 1 .. n : x = s[i]
  BY <1>2 DEF ToSet
<1>7. \A x : x \in ToSet(r) <=> \E i \in 1 .. n - 1 : x = r[i]
  BY <1>5 DEF ToSet
<1>8. \A i \in 1 .. n : i = 1 \/ (i - 1 \in 1 .. n - 1 /\ (i - 1) + 1 = i)
  OBVIOUS
<1>9. \A i \in 1 .. n - 1 : i + 1 \in 1 .. n
  OBVIOUS
<1>10. 1 \in 1 .. n
  BY <1>2
<1>11. \A x : x \in ToSet(s) <=> x = Head(s) \/ x \in ToSet(r)
  <2>1. ASSUME NEW x, x \in ToSet(s) PROVE x = Head(s) \/ x \in ToSet(r)
    <3>1. PICK i \in 1 .. n : x = s[i]
      BY <1>6, <2>1
    <3>2. CASE i = 1
      BY <1>4, <3>1, <3>2
    <3>3. CASE i # 1
      <4>1. PICK k \in 1 .. n - 1 : k + 1 = i
        BY <1>8, <3>3
      <4> QED BY <1>4, <1>7, <3>1, <4>1
    <3> QED BY <3>2, <3>3
  <2>2. ASSUME NEW x, x = Head(s) \/ x \in ToSet(r) PROVE x \in ToSet(s)
    <3>1. CASE x = Head(s)
      BY <1>4, <1>6, <1>10, <3>1
    <3>2. CASE x \in ToSet(r)
      <4>1. PICK i \in 1 .. n - 1 : x = r[i]
        BY <1>7, <3>2
      <4> QED BY <1>4, <1>6, <1>9, <4>1
    <3> QED BY <2>2, <3>1, <3>2
  <2> QED BY <2>1, <2>2
<1> QED BY <1>2, <1>3, <1>4, <1>10, <1>11

\* A sequence over a part of a set.
LEMMA WiderSeq ==
  ASSUME NEW S, NEW T, S \subseteq T, NEW s \in Seq(S)
  PROVE  s \in Seq(T)
<1>1. ToSet(s) \subseteq T
  BY ToSetFacts
<1>2. Len(s) \in Nat /\ s = [i \in 1 .. Len(s) |-> s[i]] /\ \A i \in 1 .. Len(s) : s[i] \in T
  BY LenProperties, ElementOfSeq
<1> QED BY <1>2, IsASeq

\* What is to be written when ok is pressed.
LEMMA OkIsPressed ==
  ASSUME DialogInv, PressOk
  PROVE  /\ left' \in Seq(Writes)
         /\ \A w \in ToSet(left') : w.id \in Plain => w.value \in Wanted(w.id)
         /\ \A v \in Plain : Wanted(v) # {} => \E w \in ToSet(left') : w.id = v
<1> DEFINE D == {v \in Panels : panel[v] # Known(v)}
           F == {v \in Vars : advanced[v] # all_variables[v]}
           always == <<Setting(EnableReconnect, panel[EnableReconnect])>>
           order == SetToSeq(RouterVars)
           routers == IF panel[EnableReconnect] = On
                      THEN [i \in DOMAIN order |-> Setting(order[i], panel[order[i]])]
                      ELSE <<>>
<1>1. DialogTypes /\ FieldsAreShown /\ stage = "open"
  BY DEF DialogInv, PressOk
<1>2. /\ D \subseteq Names /\ F \subseteq Names /\ RouterVars \subseteq Names
      /\ D \subseteq Vars /\ EnableReconnect \in Names /\ EnableReconnect \in PanelNames
      /\ RouterVars \subseteq PanelNames /\ Panels \subseteq PanelNames
  BY TextsAreThere DEF Names, PanelNames
<1>3. \A v \in PanelNames : panel[v] \in Texts
  BY <1>1 DEF DialogTypes
<1>4. \A v \in F : advanced[v] \in Texts
  BY <1>1 DEF FieldsAreShown
<1>5. /\ PanelWrites \in Seq(Writes)
      /\ \A w \in ToSet(PanelWrites) : w.id \in D /\ w.value = panel[w.id]
      /\ \A v \in D : \E w \in ToSet(PanelWrites) : w.id = v
  <2>1. PICK d : d = Kept(PanelOrder, D)
    OBVIOUS
  <2>2. PanelWrites = [i \in DOMAIN d |-> Setting(d[i], panel[d[i]])]
    BY <2>1 DEF PanelWrites
  <2>3. d \in Seq(Vars \cap D) /\ ToSet(d) = Panels \cap D
    BY <2>1, KeptFacts, DialogAssumption DEF Panels
  <2>4. Vars \cap D = D /\ Panels \cap D = D
    BY <1>2
  <2>5. d \in Seq(D) /\ ToSet(d) = D
    BY <2>3, <2>4
  <2>6. Gives(panel, D, Texts) /\ ShownFor(PanelWrites, d, panel)
    BY <1>2, <1>3, <2>2 DEF Gives, ShownFor
  <2> HIDE DEF D
  <2>7. PICK m : m = PanelWrites
    OBVIOUS
  <2>8. ShownFor(m, d, panel)
    BY <2>6, <2>7
  <2>9. /\ m \in Seq([id : D, value : Texts])
        /\ \A w \in ToSet(m) : w.id \in ToSet(d) /\ w.value = panel[w.id]
        /\ \A v \in ToSet(d) : \E w \in ToSet(m) : w.id = v
    <3>1. d \in Seq(D) /\ Gives(panel, D, Texts) /\ ShownFor(m, d, panel)
      BY <2>5, <2>6, <2>8
    <3>2. m \in Seq([id : D, value : Texts])
      BY <3>1, SettingsOf
    <3>3. /\ \A w \in ToSet(m) : w.id \in ToSet(d) /\ w.value = panel[w.id]
          /\ \A v \in ToSet(d) : \E w \in ToSet(m) : w.id = v
      BY <3>1, SettingsAre
    <3> QED BY <3>2, <3>3
  <2>10. [id : D, value : Texts] \subseteq Writes
    BY <1>2 DEF Writes
  <2>11. m \in Seq(Writes)
    BY <2>9, <2>10, WiderSeq
  <2> QED BY <2>5, <2>7, <2>9, <2>11
<1>6. /\ AdvancedWrites \in Seq(Writes)
      /\ \A w \in ToSet(AdvancedWrites) : w.id \in F /\ w.value = advanced[w.id]
      /\ \A v \in F : \E w \in ToSet(AdvancedWrites) : w.id = v
  <2>1. PICK d : d = Kept(ListOrder, F)
    OBVIOUS
  <2>2. AdvancedWrites = [i \in DOMAIN d |-> Setting(d[i], advanced[d[i]])]
    BY <2>1 DEF AdvancedWrites
  <2>3. d \in Seq(Vars \cap F) /\ ToSet(d) = Vars \cap F
    BY <2>1, KeptFacts, DialogAssumption
  <2>4. Vars \cap F = F
    OBVIOUS
  <2>5. d \in Seq(F) /\ ToSet(d) = F
    BY <2>3, <2>4
  <2>6. Gives(advanced, F, Texts) /\ ShownFor(AdvancedWrites, d, advanced)
    BY <1>4, <2>2 DEF Gives, ShownFor
  <2> HIDE DEF F
  <2>7. PICK m : m = AdvancedWrites
    OBVIOUS
  <2>8. ShownFor(m, d, advanced)
    BY <2>6, <2>7
  <2>9. /\ m \in Seq([id : F, value : Texts])
        /\ \A w \in ToSet(m) : w.id \in ToSet(d) /\ w.value = advanced[w.id]
        /\ \A v \in ToSet(d) : \E w \in ToSet(m) : w.id = v
    <3>1. d \in Seq(F) /\ Gives(advanced, F, Texts) /\ ShownFor(m, d, advanced)
      BY <2>5, <2>6, <2>8
    <3>2. m \in Seq([id : F, value : Texts])
      BY <3>1, SettingsOf
    <3>3. /\ \A w \in ToSet(m) : w.id \in ToSet(d) /\ w.value = advanced[w.id]
          /\ \A v \in ToSet(d) : \E w \in ToSet(m) : w.id = v
      BY <3>1, SettingsAre
    <3> QED BY <3>2, <3>3
  <2>10. [id : F, value : Texts] \subseteq Writes
    BY <1>2 DEF Writes
  <2>11. m \in Seq(Writes)
    BY <2>9, <2>10, WiderSeq
  <2> QED BY <2>5, <2>7, <2>9, <2>11
<1>7. /\ ReconnectWrites \in Seq(Writes)
      /\ \A w \in ToSet(ReconnectWrites) : w.id \notin Plain
  <2> DEFINE Others == {w \in Writes : w.id \notin Plain}
  <2>1. always \in Seq(Others)
    <3>1. Setting(EnableReconnect, panel[EnableReconnect]) \in Others
      BY <1>2, <1>3 DEF Setting, Writes, Plain
    <3> QED BY <3>1
  <2>2. routers \in Seq(Others)
    <3>1. order \in Seq(RouterVars)
      BY SetToSeqIsSeq, DialogAssumption
    <3>2. Gives(panel, RouterVars, Texts)
      BY <1>2, <1>3 DEF Gives
    <3>3. PICK m : m = [i \in DOMAIN order |-> Setting(order[i], panel[order[i]])]
      OBVIOUS
    <3>4. m \in Seq([id : RouterVars, value : Texts])
      <4>1. PICK o \in Seq(RouterVars) : o = order
        BY <3>1
      <4>2. ShownFor(m, o, panel)
        BY <3>3, <4>1 DEF ShownFor
      <4> QED BY <3>2, <4>2, SettingsOf
    <3>5. [id : RouterVars, value : Texts] \subseteq Others
      BY <1>2, TextsAreThere DEF Writes, Plain
    <3> HIDE DEF Others
    <3>6. m \in Seq(Others)
      BY <3>4, <3>5, WiderSeq
    <3>7. <<>> \in Seq(Others)
      OBVIOUS
    <3> QED BY <3>3, <3>6, <3>7
  <2>3. ReconnectWrites = always \o routers
    BY DEF ReconnectWrites
  <2>4. Others \subseteq Writes /\ \A w \in Others : w.id \notin Plain
    OBVIOUS
  <2> HIDE DEF Others, always, routers
  <2>5. ReconnectWrites \in Seq(Others)
    BY <2>1, <2>2, <2>3, ConcatProperties
  <2>6. ToSet(ReconnectWrites) \subseteq Others
    BY <2>5, ToSetFacts
  <2> QED BY <2>4, <2>5, <2>6, WiderSeq
<1>8. left' = PanelWrites \o ReconnectWrites \o AdvancedWrites
  BY DEF PressOk
<1>9. /\ left' \in Seq(Writes)
      /\ ToSet(left') = ToSet(PanelWrites) \cup ToSet(ReconnectWrites) \cup ToSet(AdvancedWrites)
  <2>1. PICK q : q = PanelWrites \o ReconnectWrites
    OBVIOUS
  <2>2. q \in Seq(Writes) /\ ToSet(q) = ToSet(PanelWrites) \cup ToSet(ReconnectWrites)
    BY <1>5, <1>7, <2>1, ConcatFacts
  <2>3. left' = q \o AdvancedWrites
    BY <1>8, <2>1
  <2>4. left' \in Seq(Writes) /\ ToSet(left') = ToSet(q) \cup ToSet(AdvancedWrites)
    BY <1>6, <2>2, <2>3, ConcatFacts
  <2> QED BY <2>2, <2>4
<1>10. \A v \in D : v \in Panels /\ Differs(v) /\ panel[v] \in Wanted(v)
  BY <1>2, <1>3 DEF Differs, Wanted
<1>11. \A v \in F : advanced[v] \in Wanted(v)
  BY <1>4 DEF Wanted
<1>12. \A v \in Plain : Wanted(v) # {} => v \in D \/ v \in F
  BY DEF Wanted, Differs, Plain
<1> HIDE DEF D, F
<1>13. \A w \in ToSet(left') : w.id \in Plain => w.value \in Wanted(w.id)
  BY <1>5, <1>6, <1>7, <1>9, <1>10, <1>11
<1>14. \A v \in Plain : Wanted(v) # {} => \E w \in ToSet(left') : w.id = v
  BY <1>5, <1>6, <1>9, <1>12
<1> QED BY <1>9, <1>13, <1>14

\* What the fields show, and what ok would write, depends on the fields only.
LEMMA FieldsUnchanged ==
  ASSUME UNCHANGED <<all_variables, panel, advanced>>
  PROVE  \A v : Shown(v)' = Shown(v) /\ Wanted(v)' = Wanted(v)
BY DEF Shown, Known, Wanted, Differs, RetryText, BoxText, ChoiceText, FieldText

\* The window is opened, and reads.
LEMMA ReadingSteps ==
  ASSUME DialogInv, OpenDialog \/ ListVariable \/ FillPanels \/ ReadRouter \/ DialogShown
  PROVE  DialogInv'
<1>1. /\ DialogTypes /\ SetsNothing /\ ReadAsIs /\ ReadsInOrder /\ FieldsAreShown
      /\ \A v \in Vars : v \in Names /\ config[v] \in Texts
      /\ \A v \in RouterVars : v \in Names /\ v \in PanelNames /\ config[v] \in Texts
      /\ DOMAIN panel = PanelNames
  BY DEF DialogInv, DialogTypes, Names, PanelNames
<1>2. ASSUME stage' \in {"listing", "filling", "open"}
      PROVE  OkWrites' /\ OkIsDone'
  BY <1>2 DEF OkWrites, OkIsDone
<1>3. <<>> \in Seq(Names)
  OBVIOUS
<1>4. CASE OpenDialog
  <2>1. /\ stage' = "listing" /\ unread' = ListOrder /\ touched' = {} /\ theirs' = config
        /\ all_variables' = NothingListed /\ advanced' = NothingListed /\ panel' = Blank
        /\ config' = config /\ left' = left
    BY <1>4 DEF OpenDialog
  <2>2. NothingListed \in [Vars -> Texts \cup {NotListed}] /\ \A v \in Vars : NothingListed[v] = NotListed
    BY DEF NothingListed
  <2>3. Blank \in [PanelNames -> Texts]
    BY TextsAreThere DEF Blank, PanelNames
  <2>4. ListOrder \in Seq(Vars)
    BY DialogAssumption
  <2>5. ListOrder \in Seq(Names)
    BY <2>4, WiderSeq DEF Names
  <2>6. DialogTypes'
    BY <1>1, <2>1, <2>2, <2>3, <2>5 DEF DialogTypes
  <2>7. SetsNothing' /\ ReadsInOrder' /\ FieldsAreShown'
    BY <2>1, <2>4 DEF SetsNothing, ReadsInOrder, FieldsAreShown
  <2>8. ReadAsIs'
    BY <2>1, <2>2 DEF ReadAsIs
  <2> QED BY <1>2, <2>1, <2>6, <2>7, <2>8 DEF DialogInv
<1>5. CASE ListVariable
  <2>1. /\ stage = "listing" /\ stage' = stage /\ unread # <<>>
        /\ UNCHANGED <<config, theirs, disturbed, panel, advanced, touched, left>>
    BY <1>5 DEF ListVariable, serverVars, fieldVars
  <2>2. unread \in Seq(Vars) /\ touched = {} /\ config = theirs
    BY <1>1, <2>1 DEF ReadsInOrder, SetsNothing
  <2>3. Head(unread) \in Vars /\ Tail(unread) \in Seq(Vars)
    BY <2>1, <2>2, HeadAndTail
  <2>4. unread' \in Seq(Vars)
    <3>1. unread' = Tail(unread) \/ unread' = <<>>
      BY <1>5 DEF ListVariable
    <3>2. <<>> \in Seq(Vars)
      OBVIOUS
    <3> QED BY <2>3, <3>1, <3>2
  <2>5. PICK h \in Vars : h = Head(unread)
    BY <2>3
  <2>6. \/ all_variables' = [all_variables EXCEPT ![h] = config[h]]
        \/ all_variables' = NothingListed
    BY <1>5, <2>5 DEF ListVariable
  <2>7. \A v \in Vars : all_variables'[v] \in {all_variables[v], NotListed} \/ all_variables'[v] = config[v]
    BY <1>1, <2>6 DEF NothingListed, DialogTypes
  <2>8. all_variables' \in [Vars -> Texts \cup {NotListed}]
    BY <1>1, <2>6 DEF NothingListed, DialogTypes
  <2>9. unread' \in Seq(Names)
    BY <2>4, WiderSeq DEF Names
  <2>10. DialogTypes'
    BY <1>1, <2>1, <2>8, <2>9 DEF DialogTypes
  <2>11. ReadAsIs'
    BY <1>1, <2>1, <2>2, <2>7 DEF ReadAsIs
  <2>12. SetsNothing' /\ ReadsInOrder' /\ FieldsAreShown'
    BY <2>1, <2>2, <2>4 DEF SetsNothing, ReadsInOrder, FieldsAreShown
  <2> QED BY <1>2, <2>1, <2>10, <2>11, <2>12 DEF DialogInv
<1>6. CASE FillPanels
  <2>1. /\ stage = "listing" /\ stage' = "filling" /\ unread' = SetToSeq(RouterShown)
        /\ advanced' = all_variables
        /\ panel' = [v \in PanelNames |-> IF v \in RouterVars THEN NoText ELSE Shown(v)]
        /\ UNCHANGED <<config, theirs, disturbed, all_variables, touched, left>>
    BY <1>1, <1>6 DEF FillPanels, serverVars
  <2>2. config = theirs /\ touched = {}
    BY <1>1, <2>1 DEF SetsNothing, ReadsInOrder
  <2>3. unread' \in Seq(RouterVars)
    <3>1. IsFiniteSet(RouterShown)
      BY TextsAreThere, DialogAssumption, FS_Subset
    <3>2. SetToSeq(RouterShown) \in Seq(RouterShown)
      BY <3>1, SetToSeqIsSeq
    <3> QED BY <2>1, <3>2, TextsAreThere, WiderSeq
  <2>4. unread' \in Seq(Names)
    BY <2>3, WiderSeq DEF Names
  <2>5. Shown(EnableReconnect) \in Texts
    <3>1. EnableReconnect # RetryBox
      BY TextsAreThere, DialogAssumption
    <3>2. /\ EnableReconnect \notin Selections
          /\ EnableReconnect \notin Fields
      BY TextsAreThere
    <3>3. Shown(EnableReconnect) = BoxText(Known(EnableReconnect))
      BY <3>1, <3>2 DEF Shown
    <3> QED BY <3>3, TextsAreThere DEF BoxText
  <2>6. \A v \in PanelNames : v \notin RouterVars => Shown(v) \in Texts
    BY <1>1, <2>5, ShownIsText DEF PanelNames
  <2>7. panel' \in [PanelNames -> Texts]
    BY <2>1, <2>6, TextsAreThere
  <2>8. DialogTypes'
    BY <1>1, <2>1, <2>4, <2>7 DEF DialogTypes
  <2>9. \A v \in Panels : panel'[v] = Shown(v)
    BY <2>1, TextsAreThere DEF PanelNames
  <2>10. \A v : Shown(v)' = Shown(v)
    BY <2>1 DEF Shown, Known, RetryText, BoxText, ChoiceText, FieldText
  <2>11. FieldsAreShown'
    BY <2>1, <2>2, <2>9, <2>10 DEF FieldsAreShown
  <2>12. SetsNothing' /\ ReadsInOrder' /\ ReadAsIs'
    BY <1>1, <2>1, <2>2, <2>3 DEF SetsNothing, ReadsInOrder, ReadAsIs
  <2> QED BY <1>2, <2>1, <2>8, <2>11, <2>12 DEF DialogInv
<1>7. CASE ReadRouter
  <2>1. /\ stage = "filling" /\ stage' = stage /\ unread # <<>> /\ unread' = Tail(unread)
        /\ UNCHANGED <<config, theirs, disturbed, all_variables, advanced, touched, left>>
    BY <1>7 DEF ReadRouter, serverVars
  <2>2. unread \in Seq(RouterVars)
    BY <1>1, <2>1 DEF ReadsInOrder
  <2>3. Head(unread) \in RouterVars /\ unread' \in Seq(RouterVars)
    BY <2>1, <2>2, HeadAndTail
  <2>4. PICK h \in RouterVars : h = Head(unread)
    BY <2>3
  <2>5. PICK x \in Texts : panel' = [panel EXCEPT ![h] = x]
    <3>1. panel' = [panel EXCEPT ![h] = IF standing THEN config[h] ELSE NoText]
      BY <1>7, <2>4 DEF ReadRouter
    <3> QED BY <1>1, <3>1, TextsAreThere
  <2>6. panel' \in [PanelNames -> Texts]
    BY <1>1, <2>5 DEF DialogTypes
  <2>7. unread' \in Seq(Names)
    BY <2>3, WiderSeq DEF Names
  <2>8. DialogTypes'
    BY <1>1, <2>1, <2>6, <2>7 DEF DialogTypes
  <2>9. \A v \in Panels : panel'[v] = panel[v]
    BY <1>1, <2>5, TextsAreThere DEF PanelNames
  <2>10. \A v : Shown(v)' = Shown(v)
    BY <2>1 DEF Shown, Known, RetryText, BoxText, ChoiceText, FieldText
  <2>11. FieldsAreShown'
    BY <1>1, <2>1, <2>9, <2>10 DEF FieldsAreShown
  <2>12. SetsNothing' /\ ReadsInOrder' /\ ReadAsIs'
    BY <1>1, <2>1, <2>3 DEF SetsNothing, ReadsInOrder, ReadAsIs
  <2> QED BY <1>2, <2>1, <2>8, <2>11, <2>12 DEF DialogInv
<1>8. CASE DialogShown
  <2>1. /\ stage = "filling" /\ stage' = "open"
        /\ UNCHANGED <<config, theirs, disturbed, unread, all_variables, panel, advanced, touched, left>>
    BY <1>8 DEF DialogShown, serverVars, fieldVars
  <2>2. \A v : Shown(v)' = Shown(v)
    BY <2>1 DEF Shown, Known, RetryText, BoxText, ChoiceText, FieldText
  <2>3. FieldsAreShown'
    BY <1>1, <2>1, <2>2 DEF FieldsAreShown
  <2>4. SetsNothing' /\ ReadsInOrder' /\ ReadAsIs' /\ DialogTypes'
    BY <1>1, <2>1 DEF SetsNothing, ReadsInOrder, ReadAsIs, DialogTypes
  <2> QED BY <1>2, <2>1, <2>3, <2>4 DEF DialogInv
<1> QED BY <1>4, <1>5, <1>6, <1>7, <1>8

\* The user.
LEMMA UserSteps ==
  ASSUME DialogInv, EditPanel \/ EditAdvanced \/ CloseWindow
  PROVE  DialogInv'
<1>1. /\ DialogTypes /\ SetsNothing /\ ReadAsIs /\ FieldsAreShown /\ stage = "open"
      /\ DOMAIN panel = PanelNames
  BY DEF DialogInv, DialogTypes, EditPanel, EditAdvanced, CloseWindow, Edit
<1>2. CASE EditPanel
  <2>1. PICK v \in PanelNames, x \in Texts :
          /\ panel' = [panel EXCEPT ![v] = x] /\ touched' = touched \cup {<<"panel", v>>}
    <3>1. \A v : Enterable(v) \subseteq Texts
      BY TextsAreThere DEF Enterable
    <3> QED BY <1>1, <1>2, <3>1 DEF EditPanel
  <2>2. /\ stage' = stage
        /\ UNCHANGED <<config, theirs, disturbed, unread, all_variables, advanced, left>>
    BY <1>2 DEF EditPanel, Edit, serverVars
  <2>4. DialogTypes'
    BY <1>1, <2>1, <2>2 DEF DialogTypes
  <2>5. \A u \in Panels : u \in PanelNames /\ (u # v => panel'[u] = panel[u])
    BY <1>1, <2>1 DEF PanelNames
  <2>6. \A u : Shown(u)' = Shown(u)
    BY <2>2 DEF Shown, Known, RetryText, BoxText, ChoiceText, FieldText
  <2>7. /\ \A u : <<"panel", u>> \in touched' <=> <<"panel", u>> \in touched \/ u = v
        /\ \A u : <<"advanced", u>> \in touched' <=> <<"advanced", u>> \in touched
    BY <2>1
  <2>8. FieldsAreShown'
    BY <1>1, <2>2, <2>5, <2>6, <2>7 DEF FieldsAreShown
  <2>9. SetsNothing' /\ ReadAsIs' /\ ReadsInOrder' /\ OkWrites' /\ OkIsDone'
    BY <1>1, <2>2 DEF SetsNothing, ReadAsIs, ReadsInOrder, OkWrites, OkIsDone
  <2> QED BY <2>4, <2>8, <2>9 DEF DialogInv
<1>3. CASE EditAdvanced
  <2>1. PICK v \in Vars, x \in Texts :
          /\ all_variables[v] # NotListed
          /\ advanced' = [advanced EXCEPT ![v] = x] /\ touched' = touched \cup {<<"advanced", v>>}
    BY <1>3 DEF EditAdvanced
  <2>2. /\ stage' = stage
        /\ UNCHANGED <<config, theirs, disturbed, unread, all_variables, panel, left>>
    BY <1>3 DEF EditAdvanced, Edit, serverVars
  <2>3. DialogTypes'
    BY <1>1, <2>1, <2>2 DEF DialogTypes
  <2>4. advanced'[v] = x /\ \A u \in Vars : u # v => advanced'[u] = advanced[u]
    BY <1>1, <2>1 DEF DialogTypes
  <2>5. \A u : Shown(u)' = Shown(u)
    BY <2>2 DEF Shown, Known, RetryText, BoxText, ChoiceText, FieldText
  <2>6. /\ \A u : <<"advanced", u>> \in touched' <=> <<"advanced", u>> \in touched \/ u = v
        /\ \A u : <<"panel", u>> \in touched' <=> <<"panel", u>> \in touched
    BY <2>1
  <2>7. FieldsAreShown'
    BY <1>1, <2>1, <2>2, <2>4, <2>5, <2>6 DEF FieldsAreShown
  <2>8. SetsNothing' /\ ReadAsIs' /\ ReadsInOrder' /\ OkWrites' /\ OkIsDone'
    BY <1>1, <2>2 DEF SetsNothing, ReadAsIs, ReadsInOrder, OkWrites, OkIsDone
  <2> QED BY <2>3, <2>7, <2>8 DEF DialogInv
<1>4. CASE CloseWindow
  <2>1. /\ stage' = "dropped"
        /\ UNCHANGED <<config, theirs, unread, all_variables, panel, advanced, left>>
    BY <1>4 DEF CloseWindow, serverVars, fieldVars
  <2> QED BY <1>1, <2>1 DEF DialogInv, DialogTypes, SetsNothing, ReadAsIs, ReadsInOrder,
                            FieldsAreShown, OkWrites, OkIsDone
<1> QED BY <1>2, <1>3, <1>4

\* ok.
LEMMA OkSteps ==
  ASSUME DialogInv, PressOk \/ SetVar \/ DialogDone
  PROVE  DialogInv'
<1>1. /\ DialogTypes /\ SetsNothing /\ ReadAsIs /\ FieldsAreShown /\ OkWrites
      /\ stage \in {"open", "saving"} /\ stage' \in {"saving", "saved"}
      /\ UNCHANGED <<theirs, disturbed, standing, unread, all_variables, panel, advanced, touched>>
  BY DEF DialogInv, PressOk, SetVar, DialogDone, serverVars, fieldVars
<1>2. \A v : Shown(v)' = Shown(v) /\ Wanted(v)' = Wanted(v)
  BY <1>1, FieldsUnchanged
<1>3. ReadAsIs' /\ FieldsAreShown' /\ SetsNothing' /\ ReadsInOrder'
  <2> QED BY <1>1, <1>2 DEF ReadAsIs, FieldsAreShown, SetsNothing, ReadsInOrder
<1>4. CASE PressOk
  <2>1. /\ left' \in Seq(Writes)
        /\ \A w \in ToSet(left') : w.id \in Plain => w.value \in Wanted(w.id)
        /\ \A v \in Plain : Wanted(v) # {} => \E w \in ToSet(left') : w.id = v
    BY <1>4, OkIsPressed
  <2>2. config' = config /\ stage = "open" /\ stage' = "saving"
    BY <1>4 DEF PressOk, serverVars
  <2>3. config = theirs
    BY <1>1, <2>2 DEF SetsNothing
  <2>4. DialogTypes' /\ OkIsDone'
    BY <1>1, <2>1, <2>2 DEF DialogTypes, OkIsDone
  <2>5. OkWrites'
    BY <1>1, <1>2, <2>1, <2>2, <2>3 DEF OkWrites
  <2> QED BY <1>3, <2>4, <2>5 DEF DialogInv
<1>5. CASE SetVar
  <2>1. stage = "saving" /\ stage' = stage /\ left # <<>> /\ left' = Tail(left)
    BY <1>5 DEF SetVar
  <2>2. PICK w \in Writes : w = Head(left)
    BY <1>1, <2>1, HeadAndTail DEF DialogTypes
  <2>3. left' \in Seq(Writes) /\ ToSet(left) = {w} \cup ToSet(left')
    BY <1>1, <2>1, <2>2, HeadAndTail DEF DialogTypes
  <2>4. w.id \in Names /\ w.value \in Texts
    BY <2>2 DEF Writes
  <2>5. config' = IF standing /\ <<w.id, w.value>> \notin Refusals
                  THEN [config EXCEPT ![w.id] = w.value] ELSE config
    BY <1>5, <2>2 DEF SetVar
  <2>6. \A v \in Names : v # w.id => config'[v] = config[v]
    BY <1>1, <2>4, <2>5 DEF DialogTypes
  <2>7. standing /\ <<w.id, w.value>> \notin Refusals => config'[w.id] = w.value
    BY <1>1, <2>4, <2>5 DEF DialogTypes
  <2>8. DialogTypes' /\ OkIsDone'
    <3>1. config' \in [Names -> Texts]
      BY <1>1, <2>4, <2>5 DEF DialogTypes
    <3> QED BY <1>1, <2>1, <2>3, <3>1 DEF DialogTypes, OkIsDone
  <2>9. \A v \in Plain : v \in Names
    BY DEF Plain, Names
  <2>10. w.id \in Plain => w.value \in Wanted(w.id)
    BY <1>1, <2>1, <2>3 DEF OkWrites
  <2>11. \A u \in ToSet(left') : u.id \in Plain => u.value \in Wanted(u.id)
    BY <1>1, <2>1, <2>3 DEF OkWrites
  <2>12. ASSUME NEW v \in Plain, Wanted(v) = {} PROVE config'[v] = theirs[v]
    BY <1>1, <2>1, <2>6, <2>9, <2>10, <2>12 DEF OkWrites
  <2>13. ASSUME NEW v \in Plain, NEW x, Wanted(v) = {x}, standing, v \notin disturbed,
                <<v, x>> \notin Refusals
         PROVE  config'[v] = x \/ \E u \in ToSet(left') : u.id = v
    <3>1. CASE v = w.id
      <4>1. w.value = x
        BY <2>10, <2>13, <3>1
      <4> QED BY <2>7, <2>13, <3>1, <4>1
    <3>2. CASE v # w.id
      <4>1. config[v] = x \/ \E u \in ToSet(left) : u.id = v
        BY <1>1, <2>1, <2>13 DEF OkWrites
      <4>2. config'[v] = config[v]
        BY <2>6, <2>9, <3>2
      <4> QED BY <2>3, <3>2, <4>1, <4>2
    <3> QED BY <3>1, <3>2
  <2>14. OkWrites'
    BY <1>1, <1>2, <2>11, <2>12, <2>13 DEF OkWrites
  <2> QED BY <1>3, <2>8, <2>14 DEF DialogInv
<1>6. CASE DialogDone
  <2>1. stage = "saving" /\ left = <<>> /\ UNCHANGED <<config, left>>
    BY <1>6 DEF DialogDone, serverVars
  <2>2. DialogTypes' /\ OkIsDone'
    BY <1>1, <2>1 DEF DialogTypes, OkIsDone
  <2>3. OkWrites'
    BY <1>1, <1>2, <2>1 DEF OkWrites
  <2> QED BY <1>3, <2>2, <2>3 DEF DialogInv
<1> QED BY <1>4, <1>5, <1>6

\* Other clients, and the connection.
LEMMA OtherSteps ==
  ASSUME DialogInv, SetByOthers \/ ConnectionLost \/ Reconnected
  PROVE  DialogInv'
<1>1. /\ DialogTypes /\ SetsNothing /\ ReadAsIs /\ ReadsInOrder /\ FieldsAreShown
      /\ OkWrites /\ OkIsDone
      /\ UNCHANGED <<unread, all_variables, panel, advanced, touched, left>>
  BY DEF DialogInv, SetByOthers, ConnectionLost, Reconnected, serverVars, fieldVars
<1>2. \A v : Shown(v)' = Shown(v) /\ Wanted(v)' = Wanted(v)
  BY <1>1, FieldsUnchanged
<1>3. CASE SetByOthers
  <2>1. PICK u \in Names, x \in Texts :
          /\ config' = [config EXCEPT ![u] = x] /\ theirs' = [theirs EXCEPT ![u] = x]
          /\ disturbed' = disturbed \cup {u}
    BY <1>1, <1>3 DEF SetByOthers, DialogTypes
  <2>2. stage' = stage /\ standing' = standing
    BY <1>3 DEF SetByOthers
  <2>3. /\ config' \in [Names -> Texts] /\ theirs' \in [Names -> Texts]
        /\ config'[u] = theirs'[u]
        /\ \A v \in Names : v # u => config'[v] = config[v] /\ theirs'[v] = theirs[v]
    BY <1>1, <2>1 DEF DialogTypes
  <2>4. config = theirs => config' = theirs'
    BY <2>1
  <2>5. DialogTypes' /\ SetsNothing' /\ ReadsInOrder' /\ FieldsAreShown' /\ OkIsDone'
    BY <1>1, <1>2, <2>2, <2>3, <2>4 DEF DialogTypes, SetsNothing, ReadsInOrder, FieldsAreShown, OkIsDone
  <2>6. Vars \subseteq Names /\ Plain \subseteq Names
    BY DEF Names, Plain
  <2>7. ReadAsIs'
    BY <1>1, <2>1, <2>2, <2>3, <2>6 DEF ReadAsIs
  <2>8. OkWrites'
    BY <1>1, <1>2, <2>1, <2>2, <2>3, <2>6 DEF OkWrites
  <2> QED BY <2>5, <2>7, <2>8 DEF DialogInv
<1>4. CASE ConnectionLost
  <2>1. stage' = stage /\ ~standing' /\ UNCHANGED <<config, theirs, disturbed>>
    BY <1>4 DEF ConnectionLost, serverVars
  <2>2. DialogTypes' /\ SetsNothing' /\ ReadsInOrder' /\ FieldsAreShown' /\ OkIsDone' /\ ReadAsIs'
    BY <1>1, <1>2, <2>1 DEF DialogTypes, SetsNothing, ReadsInOrder, FieldsAreShown, OkIsDone, ReadAsIs
  <2>3. OkWrites'
    BY <1>1, <1>2, <2>1 DEF OkWrites
  <2> QED BY <2>2, <2>3 DEF DialogInv
<1>5. CASE Reconnected
  <2>1. stage' \in {"closed", "dropped"} /\ UNCHANGED <<config, theirs>>
    BY <1>5 DEF Reconnected, serverVars
  <2> QED BY <1>1, <2>1 DEF DialogInv, DialogTypes, SetsNothing, ReadAsIs, ReadsInOrder,
                            FieldsAreShown, OkWrites, OkIsDone
<1> QED BY <1>3, <1>4, <1>5

\* The dialog starts closed.
LEMMA DialogInitially == DialogInit => DialogInv
<1> SUFFICES ASSUME DialogInit PROVE DialogInv
  OBVIOUS
<1>1. config \in [Names -> Texts] /\ theirs = config
  BY DialogAssumption DEF DialogInit, Names
<1>2. NothingListed \in [Vars -> Texts \cup {NotListed}] /\ Blank \in [PanelNames -> Texts]
  BY TextsAreThere DEF NothingListed, Blank, PanelNames
<1>3. <<>> \in Seq(Names) /\ <<>> \in Seq(Writes)
  OBVIOUS
<1>4. DialogTypes
  BY <1>1, <1>2, <1>3 DEF DialogInit, DialogTypes
<1> QED BY <1>4 DEF DialogInit, DialogInv, SetsNothing, ReadAsIs, ReadsInOrder,
                    FieldsAreShown, OkWrites, OkIsDone

\* What is read into the window, shown in two places, edited, lost and written
\* while other clients set variables as well: what has been saved is what the
\* user has entered, and what the others have set.
LEMMA SavedIsEntered == DialogInv => OnlyEditsAreSaved
<1> SUFFICES ASSUME DialogInv, stage = "saved", NEW v \in Vars \ {EnableReconnect}, Expressible(v)
             PROVE  /\ Entered(v) = {} => config[v] = theirs[v]
                    /\ \A x \in Entered(v) :
                         standing /\ v \notin disturbed /\ Entered(v) = {x}
                         /\ <<v, x>> \notin Refusals => config[v] = x
  BY DEF OnlyEditsAreSaved
<1>1. /\ DialogTypes /\ ReadAsIs /\ FieldsAreShown /\ OkWrites /\ left = <<>> /\ v \in Plain
  BY DEF DialogInv, OkIsDone, Plain
<1>2. v \in Panels => Shown(v) = all_variables[v] /\ Shown(v) = Known(v)
  <2> SUFFICES ASSUME v \in Panels PROVE Shown(v) = all_variables[v] /\ Shown(v) = Known(v)
    OBVIOUS
  <2>1. v \in DOMAIN panel
    BY <1>1 DEF DialogTypes, PanelNames
  <2>2. Shown(v) = all_variables[v]
    BY <2>1 DEF Expressible
  <2>3. Shown(v) # NotListed
    BY <1>1, ShownIsText, TextsAreThere
  <2> QED BY <2>2, <2>3 DEF Known
<1>3. /\ v \in Panels => <<"panel", v>> \in touched \/ panel[v] = Shown(v)
      /\ IF <<"advanced", v>> \in touched
         THEN all_variables[v] # NotListed /\ advanced[v] \in Texts
         ELSE advanced[v] = all_variables[v]
  BY <1>1 DEF FieldsAreShown
<1>4. /\ <<"panel", v>> \in touched => panel[v] \in Entered(v)
      /\ <<"advanced", v>> \in touched => advanced[v] \in Entered(v)
      /\ \A x \in Entered(v) : \/ <<"panel", v>> \in touched /\ x = panel[v]
                               \/ <<"advanced", v>> \in touched /\ x = advanced[v]
  BY DEF Entered
<1>5. Wanted(v) \subseteq Entered(v)
  BY <1>2, <1>3, <1>4 DEF Wanted, Differs
<1>6. ToSet(left) = {}
  BY <1>1 DEF ToSet
<1>7. Wanted(v) = {} => config[v] = theirs[v]
  BY <1>1 DEF OkWrites
<1>8. ASSUME NEW x \in Entered(v), standing, v \notin disturbed, Entered(v) = {x}, <<v, x>> \notin Refusals
      PROVE  config[v] = x
  <2>1. CASE Wanted(v) = {x}
    BY <1>1, <1>6, <1>8, <2>1 DEF OkWrites
  <2>2. CASE Wanted(v) = {}
    <3>1. all_variables[v] # NotListed => all_variables[v] = theirs[v]
      BY <1>1, <1>8 DEF ReadAsIs
    <3>2. all_variables[v] # NotListed /\ all_variables[v] = x
      <4>1. CASE <<"advanced", v>> \in touched /\ x = advanced[v]
        BY <1>3, <2>2, <4>1 DEF Wanted
      <4>2. CASE <<"panel", v>> \in touched /\ x = panel[v]
        <5>1. v \in Panels
          <6>1. v \in PanelNames
            BY <1>1, <4>2 DEF FieldsAreShown
          <6>2. v \notin RouterVars /\ v # EnableReconnect
            BY <1>1, TextsAreThere DEF Plain
          <6> QED BY <6>1, <6>2 DEF PanelNames
        <5>2. panel[v] \in Texts
          BY <1>1, <5>1 DEF DialogTypes, PanelNames
        <5>3. panel[v] = Known(v)
          BY <2>2, <5>1, <5>2 DEF Wanted, Differs
        <5>4. Known(v) \in Texts
          BY <1>1, <5>1, ShownIsText
        <5> QED BY <1>2, <4>2, <5>1, <5>3, <5>4, TextsAreThere
      <4> QED BY <1>4, <1>8, <4>1, <4>2
    <3> QED BY <1>7, <2>2, <3>1, <3>2
  <2> QED BY <1>5, <1>8, <2>1, <2>2
<1> QED BY <1>5, <1>7, <1>8

\* The window sets what the user has entered and nothing else, however it is
\* opened, edited, closed or cut off, and whatever other clients set meanwhile.
THEOREM EditsAreSaved == DialogSpec => []OnlyEditsAreSaved
<1>1. DialogInv /\ [DialogNext]_dialogVars => DialogInv'
  <2> SUFFICES ASSUME DialogInv, [DialogNext]_dialogVars PROVE DialogInv'
    OBVIOUS
  <2>1. CASE OpenDialog \/ ListVariable \/ FillPanels \/ ReadRouter \/ DialogShown
    BY <2>1, ReadingSteps
  <2>2. CASE EditPanel \/ EditAdvanced \/ CloseWindow \/ SavePassword
    BY <2>2, UserSteps DEF SavePassword
  <2>3. CASE PressOk \/ SetVar \/ DialogDone
    BY <2>3, OkSteps
  <2>4. CASE SetByOthers \/ ConnectionLost \/ Reconnected
    BY <2>4, OtherSteps
  <2>5. CASE UNCHANGED dialogVars
    <3>1. UNCHANGED <<config, standing, stage, unread, all_variables, panel, advanced,
                      left, edits, others, touched, theirs, disturbed>>
      BY <2>5 DEF dialogVars
    <3>2. \A v : Shown(v)' = Shown(v) /\ Wanted(v)' = Wanted(v)
      BY <3>1, FieldsUnchanged
    <3> QED BY <3>1, <3>2 DEF DialogInv, DialogTypes, SetsNothing, ReadAsIs, ReadsInOrder,
                              FieldsAreShown, OkWrites, OkIsDone
  <2> QED BY <2>1, <2>2, <2>3, <2>4, <2>5 DEF DialogNext
<1> QED BY <1>1, DialogInitially, SavedIsEntered, PTL DEF DialogSpec
================================================================================
