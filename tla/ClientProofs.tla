----------------------------- MODULE ClientProofs -----------------------------
(***************************************************************************)
(* The way of a command, from a slot of the client to its answer, for any  *)
(* number of slots, connections, changes and breaks.                       *)
(*                                                                         *)
(* The socket, mx and old_updates together implement RemoteCalls.  What    *)
(* has to be kept up is that a connection on which no command was answered *)
(* twice carries at most one answer, to the request that the owner of mx   *)
(* waits with.                                                             *)
(*                                                                         *)
(* Below that, messages are bytes after a header, on a stream that is cut  *)
(* anywhere (module Socket), and recv returns the messages that were given *)
(* to send.  The argument is a tape of all that was said with the headers: *)
(* what was read, what arrived, what is under way and what is left to send *)
(* follow each other on it without a gap.                                  *)
(*                                                                         *)
(* Above it, the rows of the window (module ListView) show the list row by *)
(* row, and every kind of update keeps that, a batch of messages by        *)
(* induction on how many of them are applied.                              *)
(***************************************************************************)
EXTENDS Client, Socket, ListView, DataFacts, SequenceTheorems, TLAPS

IsSequence(s) == \E S : s \in Seq(S)
RequestsOK(rs) == /\ IsSequence(rs)
                  /\ \A i \in DOMAIN rs :
                       /\ rs[i].command # "none"
                       /\ rs[i].command = "EXISTS" => i + 1 \in DOMAIN rs

\* What is needed of the types.
CallTypes ==
  /\ mx \in Threads \cup {NoThread}
  /\ {sent, up, doubled} \subseteq BOOLEAN
  /\ DOMAIN got = Threads
  /\ IsSequence(queue)
  /\ \A i \in DOMAIN queue : ~IsAnswer(queue[i])
  /\ RequestsOK(todo)

\* mx is held from the first request to the last answer.
OwnerCalls == /\ mx = NoThread <=> todo = <<>>
              /\ sent => mx # NoThread

\* A request that is out is the one its sender waits with, and no answer is
\* there yet; and the one answer that may be there is to that request.
AnswersFit ==
  /\ ~up => request = NoRequest
  /\ ~doubled =>
       /\ IsSequence(channel)
       /\ request # NoRequest => sent /\ request = Head(todo)
       /\ \A i \in DOMAIN channel : IsAnswer(channel[i]) =>
            /\ sent /\ request = NoRequest
            /\ channel[i].command = Head(todo).command
            /\ \A j \in DOMAIN channel : IsAnswer(channel[j]) => i = j

CallInv == CallTypes /\ OwnerCalls /\ AnswersFit

--------------------------------------------------------------------------------
(* Sequences of anything.                                                   *)

\* What Append adds to a sequence of anything.
LEMMA AppendIsSequence ==
  ASSUME NEW s, IsSequence(s), NEW m
  PROVE  /\ IsSequence(Append(s, m))
         /\ DOMAIN Append(s, m) = 1..Len(s) + 1
         /\ \A i \in DOMAIN s : i \in DOMAIN Append(s, m) /\ Append(s, m)[i] = s[i]
         /\ \A i \in DOMAIN Append(s, m) : i \notin DOMAIN s => Append(s, m)[i] = m
  <1>1. PICK S : s \in Seq(S)
    BY DEF IsSequence
  <1>2. s \in Seq(S \cup {m})
    BY <1>1
  <1>3. Append(s, m) \in Seq(S \cup {m})
    BY <1>2
  <1> QED
    BY <1>2, <1>3 DEF IsSequence

\* What is left of a sequence when its head is taken away.
LEMMA TailIsSequence ==
  ASSUME NEW s, IsSequence(s), s # <<>>
  PROVE  /\ IsSequence(Tail(s))
         /\ 1 \in DOMAIN s /\ Head(s) = s[1]
         /\ Len(s) \in Nat
         /\ \A i \in DOMAIN Tail(s) : /\ i + 1 \in DOMAIN s /\ i + 1 # 1
                                      /\ Tail(s)[i] = s[i + 1]
         /\ \A i \in DOMAIN s : i # 1 => i - 1 \in DOMAIN Tail(s)
  <1>1. PICK S : s \in Seq(S)
    BY DEF IsSequence
  <1> QED
    BY <1>1 DEF IsSequence

\* Where the elements of two sequences are when one follows the other.
LEMMA ConcatIsSequence ==
  ASSUME NEW s, IsSequence(s), NEW r, IsSequence(r)
  PROVE  /\ IsSequence(s \o r)
         /\ Len(s) \in Nat
         /\ DOMAIN s = 1..Len(s)
         /\ DOMAIN (s \o r) = 1..(Len(s) + Len(r))
         /\ \A i \in DOMAIN s : i \in DOMAIN (s \o r) /\ (s \o r)[i] = s[i]
         /\ \A i \in DOMAIN (s \o r) : i \notin DOMAIN s =>
              i - Len(s) \in DOMAIN r /\ (s \o r)[i] = r[i - Len(s)]
  <1>1. PICK S, R : s \in Seq(S) /\ r \in Seq(R)
    BY DEF IsSequence
  <1>2. s \in Seq(S \cup R) /\ r \in Seq(S \cup R)
    BY <1>1
  <1>3. s \o r \in Seq(S \cup R)
    BY <1>2
  <1> QED
    BY <1>2, <1>3 DEF IsSequence

\* Nothing at all is a sequence, too.
LEMMA EmptyIsSequence ==
  ASSUME NEW s, s = <<>>
  PROVE  IsSequence(s) /\ DOMAIN s = {}
  <1>1. s \in Seq({})
    OBVIOUS
  <1> QED
    BY <1>1 DEF IsSequence

--------------------------------------------------------------------------------
(* The requests of a call.                                                  *)

Plain(c) == c \notin {"none", "EXISTS"}

\* Up to four plain requests in a row may be asked for.
LEMMA RequestLists ==
  ASSUME NEW c1, NEW c2, NEW c3, NEW c4, NEW i1, NEW i2, NEW i3, NEW i4,
         Plain(c1), Plain(c2), Plain(c3), Plain(c4)
  PROVE  /\ RequestsOK(<<Request(c1, i1)>>)
         /\ RequestsOK(<<Request(c1, i1), Request(c2, i2)>>)
         /\ RequestsOK(<<Request(c1, i1), Request(c2, i2), Request(c3, i3)>>)
         /\ RequestsOK(<<Request(c1, i1), Request(c2, i2), Request(c3, i3),
                         Request(c4, i4)>>)
  <1> DEFINE S == {Request(c1, i1), Request(c2, i2), Request(c3, i3),
                   Request(c4, i4)}
  <1>1. \A r \in S : Plain(r.command)
    BY DEF Request
  <1>2. \A rs \in Seq(S) : RequestsOK(rs)
    BY <1>1 DEF RequestsOK, IsSequence, Plain
  <1>3. /\ <<Request(c1, i1)>> \in Seq(S)
        /\ <<Request(c1, i1), Request(c2, i2)>> \in Seq(S)
        /\ <<Request(c1, i1), Request(c2, i2), Request(c3, i3)>> \in Seq(S)
        /\ <<Request(c1, i1), Request(c2, i2), Request(c3, i3),
             Request(c4, i4)>> \in Seq(S)
    OBVIOUS
  <1> QED
    BY <1>2, <1>3

\* Adding a download to a new package is three requests.
LEMMA AddDownloadIsRequests == RequestsOK(AddDownloadTo)
  <1>1. AddDownloadTo \in Seq({AddDownloadTo[1], AddDownloadTo[2], AddDownloadTo[3]})
    BY DEF AddDownloadTo
  <1>2. /\ DOMAIN AddDownloadTo = 1..3
        /\ AddDownloadTo[1].command = "EXISTS"
        /\ AddDownloadTo[2].command = "PACKAGE"
        /\ AddDownloadTo[3].command = "ADD"
    BY DEF AddDownloadTo, Request
  <1>3. \A i \in 1..3 : /\ AddDownloadTo[i].command # "none"
                        /\ i # 1 => AddDownloadTo[i].command # "EXISTS"
    BY <1>2
  <1> QED
    BY <1>1, <1>2, <1>3 DEF RequestsOK, IsSequence

\* Each call of the library sends one request at least, and only requests it may send.
LEMMA CallsAreRequests ==
  ASSUME NEW command, NEW id
  PROVE  RequestsOK(Calls(command, id)) /\ Calls(command, id) # <<>>
  <1>1. \A c \in {"ON", "OFF", "UP", "DOWN", "TOP", "BOTTOM", "ASK", "DEL", "PATH",
                 "FILE", "SET", "GET", "PACKAGES", "PACKAGE", "CONTAINER",
                 "CAPTCHA", "SOLVE"} : Plain(c)
    BY DEF Plain
  <1>2. RequestsOK(Calls(command, id))
    BY <1>1, RequestLists, AddDownloadIsRequests, ZenonT(40)
    DEF Calls, ActivateDownload, DeactivateDownload, PriorityUp, PriorityDown,
        PriorityTop, PriorityBottom, DeleteIfNoFile, DeleteWithFile,
        DeleteButFile, DeleteFile, SetDownloadVar, GetPackageVar,
        SetPackageVar, GetVarList, GetVar, GetPackages, AddPackage,
        PkgContainer, GetCaptcha, CaptchaResolve, SetVar
  <1>3. Calls(command, id) # <<>>
    BY DEF Calls, ActivateDownload, DeactivateDownload, PriorityUp, PriorityDown,
        PriorityTop, PriorityBottom, DeleteIfNoFile, DeleteWithFile,
        DeleteButFile, DeleteFile, SetDownloadVar, GetPackageVar,
        SetPackageVar, GetVarList, GetVar, GetPackages, AddPackage,
        PkgContainer, GetCaptcha, CaptchaResolve, SetVar, AddDownloadTo
  <1> QED
    BY <1>2, <1>3

\* What is left of a call after an answer are requests of it.
LEMMA RestIsRequests ==
  ASSUME NEW rs, RequestsOK(rs), rs # <<>>, NEW value
  PROVE  RequestsOK(AfterAnswer(rs, value))
  <1>1. PICK S : rs \in Seq(S)
    BY DEF RequestsOK, IsSequence
  <1>2. Tail(rs) \in Seq(S) /\ RequestsOK(Tail(rs))
    BY <1>1 DEF RequestsOK, IsSequence
  <1>3. Head(rs).command = "EXISTS" => RequestsOK(Tail(Tail(rs)))
    <2> SUFFICES ASSUME Head(rs).command = "EXISTS"
                 PROVE  RequestsOK(Tail(Tail(rs)))
      OBVIOUS
    <2>1. Tail(rs) # <<>>
      BY <1>1 DEF RequestsOK
    <2>2. Tail(Tail(rs)) \in Seq(S)
      BY <1>2, <2>1
    <2> QED
      BY <1>2, <2>1, <2>2 DEF RequestsOK, IsSequence
  <1>4. Last(rs).command = "DEL" => RequestsOK(<<Last(rs)>>)
    <2>1. <<Last(rs)>> \in Seq(S)
      BY <1>1 DEF Last
    <2> QED
      BY <2>1 DEF RequestsOK, IsSequence
  <1>5. RequestsOK(<<>>)
    BY EmptyIsSequence DEF RequestsOK
  <1> QED
    BY <1>2, <1>3, <1>4, <1>5 DEF AfterAnswer

--------------------------------------------------------------------------------
(* What the steps are to the calls: most of them none of their business.    *)

callVarsOnly == <<up, doubled, request, mx, sent, todo, got>>

Posts == \/ UNCHANGED queue
         \/ \E m : ~IsAnswer(m) /\ queue' = Append(queue, m)
Quiet == Posts /\ UNCHANGED <<callVarsOnly, channel>>

\* Somebody checks the connection, or fetches the messages that came.
Greets == Hello /\ UNCHANGED <<callVarsOnly, queue>>
Fetches == channel' \in {channel, <<>>} /\ UNCHANGED <<callVarsOnly, queue>>
Takes == mx = NoThread /\ (Greets \/ Fetches)

Begins(t) == \E command, id : /\ \/ Begin(t, Calls(command, id))
                                 \/ Begin(t, <<Request(command, id)>>)
                                    /\ Plain(command)
                              /\ UNCHANGED <<up, doubled, queue>>
Consumes(t) == /\ Returned(t)
               /\ Consume(t)
               /\ UNCHANGED <<up, doubled, request, mx, sent, todo, queue, channel>>
Joins == /\ mx = NoThread
         /\ up' = TRUE /\ doubled' = FALSE
         /\ queue' = <<>> /\ request' = NoRequest /\ channel' = <<>>
         /\ UNCHANGED callVars

CallStep == \/ Quiet
            \/ Takes
            \/ \E t \in Threads : \/ Begins(t) \/ SendNext(t) \/ Receive(t)
                                  \/ ReceiveNothing(t) \/ Consumes(t)
            \/ SendMessage
            \/ Serve
            \/ Break
            \/ Joins

\* A message the daemon posts to its subscribers answers nobody.
LEMMA PostIsQuiet ==
  ASSUME NEW kind, kind # "ANSWER", NEW id, NEW on, Post(Message(kind, id, on))
  PROVE  Posts
  BY DEF Post, Posts, Message, IsAnswer

\* What other clients and the daemon's threads do leaves this client's calls alone.
LEMMA OthersAreQuiet ==
  ASSUME Elsewhere \/ PurgeDownload
  PROVE  Quiet
  <1>1. Posts
    <2>1. CASE AddDownload
      BY <2>1, PostIsQuiet DEF AddDownload
    <2>2. CASE \E id \in Ids(list) : DeleteDownload(id)
      BY <2>2 DEF DeleteDownload, Posts
    <2>3. CASE \E id \in Ids(list) : \E on \in BOOLEAN : SwitchDownload(id, on)
      BY <2>3, PostIsQuiet DEF SwitchDownload
    <2>4. CASE \E id \in Ids(list) : \E d \in Directions : MoveDownload(id, d)
      BY <2>4, PostIsQuiet DEF MoveDownload, Directions
    <2>5. CASE PurgeDownload
      BY <2>5, PostIsQuiet DEF PurgeDownload
    <2> QED
      BY <2>1, <2>2, <2>3, <2>4, <2>5 DEF Elsewhere
  <1> QED
    BY <1>1 DEF Elsewhere, PurgeDownload, Quiet, callVarsOnly, callVars

\* A command that is carried out posts to its own sender, too.
LEMMA CarriedOutPosts ==
  ASSUME NEW r, CarryOut(r)
  PROVE  Posts
  <1>1. CASE AddDownload
    BY <1>1, PostIsQuiet DEF AddDownload
  <1>2. CASE DeleteDownload(r.id)
    BY <1>2 DEF DeleteDownload, Posts
  <1>3. CASE \E on \in BOOLEAN : SwitchDownload(r.id, on)
    BY <1>3, PostIsQuiet DEF SwitchDownload
  <1>4. CASE r.command \in Directions /\ MoveDownload(r.id, r.command)
    BY <1>4, PostIsQuiet DEF MoveDownload, Directions
  <1>5. CASE UNCHANGED queue
    BY <1>5 DEF Posts
  <1> QED
    BY <1>1, <1>2, <1>3, <1>4, <1>5 DEF CarryOut

USE DEF socketVars, callVars, callVarsOnly

\* A step of a thread of the client is one of the steps of a call, or none of a call's business.
LEMMA ThreadSteps ==
  ASSUME NEW t \in Threads, ThreadStep(t)
  PROVE  CallStep
  <1>1. CASE SendNext(t) \/ Receive(t) \/ ReceiveNothing(t)
    BY <1>1 DEF CallStep
  <1>2. CASE PrepareFullList(t)
    BY <1>2 DEF PrepareFullList, CallStep, Quiet, Posts
  <1>3. CASE RequestList(t)
    <2>1. CASE Begin(t, GetList)
      <3>1. Begins(t)
        BY <1>3, <2>1 DEF RequestList, Begins, GetList, Plain
      <3> QED
        BY <3>1 DEF CallStep
    <2>2. CASE Refused
      <3>1. Takes
        BY <1>3, <2>2 DEF RequestList, Takes, Greets, Refused
      <3> QED
        BY <3>1 DEF CallStep
    <2> QED
      BY <1>3, <2>1, <2>2 DEF RequestList
  <1>4. CASE ListReturns(t)
    BY <1>4 DEF ListReturns, CallStep, Consumes
  <1> QED
    BY <1>1, <1>2, <1>3, <1>4 DEF ThreadStep

\* So is a step of the update thread,
LEMMA UpdaterSteps == UpdaterStep => CallStep
  <1>1. CASE ThreadStep(Updater)
    BY <1>1, ThreadSteps DEF Threads
  <1>2. CASE FirstCheck \/ LoopChecks \/ EnterUpdates
    BY <1>2 DEF FirstCheck, LoopChecks, EnterUpdates, CallStep, Takes, Greets
  <1>3. CASE RequestSubscription
    <2>1. CASE Begin(Updater, AddSubscription)
      <3>1. Begins(Updater)
        BY <1>3, <2>1 DEF RequestSubscription, Begins, AddSubscription, Plain
      <3> QED
        BY <3>1 DEF CallStep, Threads
    <2>2. CASE Refused
      <3>1. Takes
        BY <1>3, <2>2 DEF RequestSubscription, Takes, Greets, Refused
      <3> QED
        BY <3>1 DEF CallStep
    <2> QED
      BY <1>3, <2>1, <2>2 DEF RequestSubscription
  <1>4. CASE SubscriptionReturns
    BY <1>4 DEF SubscriptionReturns, CallStep, Consumes, Threads
  <1>5. CASE GetUpdates
    BY <1>5 DEF GetUpdates, CallStep, Takes, Fetches
  <1>6. CASE LoopEnds \/ PrepareUpdates
    BY <1>6 DEF LoopEnds, PrepareUpdates, CallStep, Quiet, Posts
  <1> QED
    BY <1>1, <1>2, <1>3, <1>4, <1>5, <1>6 DEF UpdaterStep

\* and one of the graphical thread.
LEMMA GuiSteps == GuiStep => CallStep
  <1>1. CASE ThreadStep(Gui)
    BY <1>1, ThreadSteps DEF Threads
  <1>2. CASE HandleEvent
    BY <1>2 DEF HandleEvent, CallStep, Takes, Greets
  <1>3. CASE SendCommand
    <2>1. CASE \E id : Begin(Gui, Calls(slot.command, id))
      <3>1. Begins(Gui)
        BY <1>3, <2>1 DEF SendCommand, Begins
      <3> QED
        BY <3>1 DEF CallStep, Threads
    <2>2. CASE Refused
      <3>1. Takes
        BY <1>3, <2>2 DEF SendCommand, Takes, Greets, Refused
      <3> QED
        BY <3>1 DEF CallStep
    <2> QED
      BY <1>3, <2>1, <2>2 DEF SendCommand, CallRefused
  <1>4. CASE CommandReturns
    BY <1>4 DEF CommandReturns, CallStep, Consumes, Threads
  <1>5. CASE Connect
    BY <1>5 DEF Connect, CallStep, Quiet, Posts, Joins
  <1>6. CASE RowIsGone \/ Join \/ ResetTerm
    BY <1>6 DEF RowIsGone, Join, ResetTerm, CallStep, Quiet, Posts
  <1> QED
    BY <1>1, <1>2, <1>3, <1>4, <1>5, <1>6 DEF GuiStep

\* A slot begins with check_connection, and goes on without the connection
\* until it makes a call.
LEMMA UserSteps == UserStep => CallStep
  <1>1. ASSUME \E place, next, command : Choose(place, next, command)
        PROVE  CallStep
    BY <1>1 DEF Choose, CallStep, Quiet, Posts
  <1>2. CASE \/ ConfirmDelete \/ EnterText \/ ChooseFile \/ EnterCaptcha
             \/ DialogAccepted \/ DialogCancelled
    BY <1>1, <1>2 DEF ConfirmDelete, EnterText, ChooseFile, EnterCaptcha,
       DialogAccepted, DialogCancelled
  <1>3. CASE OnConnect
    BY <1>3 DEF OnConnect, CallStep, Quiet, Posts
  <1>4. ASSUME NEW pauses, NEW goesOn, StartSlot(pauses, goesOn)
        PROVE  CallStep
    BY <1>4 DEF StartSlot, CallStep, Takes, Greets
  <1>5. CASE \/ OnActivate \/ OnDeactivate \/ OnEnterCaptcha
             \/ OnPriorityUp \/ OnPriorityDown \/ OnPriorityTop
             \/ OnPriorityBottom \/ OnDelete \/ OnDeleteFile
    BY <1>4, <1>5 DEF OnActivate, OnDeactivate, OnEnterCaptcha, OnPriorityUp,
       OnPriorityDown, OnPriorityTop, OnPriorityBottom, OnDelete,
       OnDeleteFile, OnSelection, OnConfirmed
  <1>6. CASE \/ OnSetName \/ OnSetUrl \/ OnSetPassword \/ OnDeleteFinished
             \/ OnAdd \/ OnConfigure \/ OnPaste \/ OnLoadContainer \/ OnCopy
             \/ OnDownloadingActivate \/ OnDownloadingDeactivate
    BY <1>4, <1>6 DEF OnSetName, OnSetUrl, OnSetPassword, OnDeleteFinished,
       OnAdd, OnConfigure, OnPaste, OnLoadContainer, OnCopy,
       OnDownloadingActivate, OnDownloadingDeactivate, OnNamed
  <1> QED
    BY <1>2, <1>3, <1>5, <1>6 DEF UserStep

\* Every step of the client and the daemon is a step of a call or beside all calls.
LEMMA NextIsCallStep == [Next]_vars => CallStep
  <1>1. CASE UNCHANGED vars
    BY <1>1 DEF vars, CallStep, Quiet, Posts
  <1>2. CASE Elsewhere \/ PurgeDownload
    BY <1>2, OthersAreQuiet DEF CallStep
  <1>3. CASE HandlerStep \/ Break
    BY <1>3 DEF HandlerStep, CallStep
  <1> QED
    BY <1>1, <1>2, <1>3, UpdaterSteps, GuiSteps, UserSteps DEF Next

--------------------------------------------------------------------------------
(* The invariant.                                                           *)

\* The client starts without a call.
LEMMA CallInitially == Init => CallInv
  BY EmptyIsSequence
  DEF Init, CallInv, CallTypes, OwnerCalls, AnswersFit, RequestsOK

USE DEF CallInv

\* No answer is there to be taken for the one to the greeting.
LEMMA HelloClears ==
  ASSUME CallInv, Hello, ~doubled, mx = NoThread
  PROVE  channel' = <<>>
  <1>1. {i \in DOMAIN channel : IsAnswer(channel[i])} = {}
    BY DEF OwnerCalls, AnswersFit
  <1> QED
    BY <1>1 DEF Hello

\* Posting an update leaves only updates in the queue.
LEMMA PostsAreMessages ==
  ASSUME CallInv, Posts
  PROVE  IsSequence(queue') /\ \A i \in DOMAIN queue' : ~IsAnswer(queue'[i])
  <1>1. CASE UNCHANGED queue
    BY <1>1 DEF CallTypes
  <1>2. ASSUME NEW m, ~IsAnswer(m), queue' = Append(queue, m)
        PROVE  IsSequence(queue') /\ \A i \in DOMAIN queue' : ~IsAnswer(queue'[i])
    BY <1>2, AppendIsSequence DEF CallTypes
  <1> QED
    BY <1>1, <1>2 DEF Posts

\* What is beside all calls keeps the invariant of the calls.
LEMMA QuietPreserves == ASSUME CallInv, Quiet PROVE CallInv'
  <1>1. IsSequence(queue') /\ \A i \in DOMAIN queue' : ~IsAnswer(queue'[i])
    BY PostsAreMessages DEF Quiet
  <1> QED
    BY <1>1 DEF Quiet, CallTypes, OwnerCalls, AnswersFit

\* So does a check of the connection, and the messages that are fetched from it,
LEMMA TakesPreserves == ASSUME CallInv, Takes PROVE CallInv'
  <1>1. ~doubled => /\ IsSequence(channel')
                    /\ \A i \in DOMAIN channel' : ~IsAnswer(channel'[i])
    <2>1. CASE Hello
      BY <2>1, HelloClears, EmptyIsSequence DEF Takes
    <2>2. CASE Fetches
      BY <2>2, EmptyIsSequence DEF Takes, Fetches, OwnerCalls, AnswersFit
    <2> QED
      BY <2>1, <2>2 DEF Takes, Greets
  <1> QED
    BY <1>1 DEF Takes, Greets, Fetches, CallTypes, OwnerCalls, AnswersFit

\* the first request of a call,
LEMMA BeginsPreserves ==
  ASSUME CallInv, NEW t \in Threads, Begins(t) PROVE CallInv'
  <1>1. PICK rs : /\ RequestsOK(rs) /\ rs # <<>>
                  /\ Begin(t, rs)
                  /\ UNCHANGED <<up, doubled, queue>>
    BY CallsAreRequests, RequestLists DEF Begins
  <1>2. ~doubled => IsSequence(channel') /\ DOMAIN channel' = {}
    BY <1>1, HelloClears, EmptyIsSequence DEF Begin
  <1> QED
    BY <1>1, <1>2, ThreadAssumption
    DEF Begin, CallTypes, OwnerCalls, AnswersFit, Threads

\* the next request of the same call,
LEMMA SendNextPreserves ==
  ASSUME CallInv, NEW t \in Threads, SendNext(t) PROVE CallInv'
  BY ThreadAssumption DEF SendNext, CallTypes, OwnerCalls, AnswersFit, Threads

\* Whoever has read its answer has nothing more in the channel that is one.
LEMMA ReceivePreserves ==
  ASSUME CallInv, NEW t \in Threads, Receive(t) PROVE CallInv'
  <1>1. /\ mx = t /\ sent /\ t # NoThread /\ todo # <<>>
        /\ channel # <<>> /\ channel' = Tail(channel)
        /\ UNCHANGED <<up, doubled, queue, request>>
    BY ThreadAssumption DEF Receive, OwnerCalls, Threads
  <1>2. ~doubled =>
          /\ IsSequence(channel')
          /\ 1 \in DOMAIN channel /\ Head(channel) = channel[1]
          /\ \A i \in DOMAIN channel' : /\ i + 1 \in DOMAIN channel /\ i + 1 # 1
                                        /\ channel'[i] = channel[i + 1]
    BY <1>1, TailIsSequence DEF AnswersFit
  <1>3. CASE ~IsAnswer(Head(channel))
    <2>1. UNCHANGED <<mx, sent, todo, got>>
      BY <1>3 DEF Receive
    <2>2. ~doubled => \A i \in DOMAIN channel' : IsAnswer(channel'[i]) =>
            /\ sent /\ request = NoRequest
            /\ channel'[i].command = Head(todo).command
            /\ \A j \in DOMAIN channel' : IsAnswer(channel'[j]) => i = j
      <3> SUFFICES ASSUME ~doubled, NEW i \in DOMAIN channel', IsAnswer(channel'[i])
                   PROVE  /\ sent /\ request = NoRequest
                          /\ channel'[i].command = Head(todo).command
                          /\ \A j \in DOMAIN channel' : IsAnswer(channel'[j]) => i = j
        OBVIOUS
      <3>1. /\ sent /\ request = NoRequest
            /\ channel'[i].command = Head(todo).command
        BY <1>2 DEF AnswersFit
      <3>2. ASSUME NEW j \in DOMAIN channel', IsAnswer(channel'[j])
            PROVE  i + 1 = j + 1
        BY <1>2, <3>2 DEF AnswersFit
      <3>3. DOMAIN channel' \subseteq Int
        <4>1. PICK S : channel' \in Seq(S)
          BY <1>2 DEF IsSequence
        <4> QED
          BY <4>1
      <3> QED
        BY <3>1, <3>2, <3>3
    <2> QED
      BY <1>1, <1>2, <2>1, <2>2 DEF CallTypes, OwnerCalls, AnswersFit
  <1>4. CASE IsAnswer(Head(channel))
    <2>1. /\ sent' = FALSE
          /\ todo' = AfterAnswer(todo, Head(channel).value)
          /\ mx' = IF todo' = <<>> THEN NoThread ELSE t
          /\ DOMAIN got' = Threads
      BY <1>4 DEF Receive, CallTypes
    <2>2. RequestsOK(todo')
      BY <1>1, <2>1, RestIsRequests DEF CallTypes
    <2>3. ~doubled => /\ request = NoRequest
                      /\ \A i \in DOMAIN channel' : ~IsAnswer(channel'[i])
      BY <1>2, <1>4 DEF AnswersFit
    <2> QED
      BY <1>1, <1>2, <2>1, <2>2, <2>3 DEF CallTypes, OwnerCalls, AnswersFit
  <1> QED
    BY <1>3, <1>4

\* an answer that does not come,
LEMMA ReceiveNothingPreserves ==
  ASSUME CallInv, NEW t \in Threads, ReceiveNothing(t) PROVE CallInv'
  <1>1. RequestsOK(todo') /\ todo' = <<>> /\ DOMAIN channel = {}
    BY EmptyIsSequence DEF ReceiveNothing, RequestsOK
  <1> QED
    BY <1>1 DEF ReceiveNothing, CallTypes, OwnerCalls, AnswersFit

\* an answer put to use,
LEMMA ConsumesPreserves ==
  ASSUME CallInv, NEW t \in Threads, Consumes(t) PROVE CallInv'
  BY DEF Consumes, Consume, CallTypes, OwnerCalls, AnswersFit

\* an update the daemon sends,
LEMMA SendMessagePreserves == ASSUME CallInv, SendMessage PROVE CallInv'
  <1>1. /\ IsSequence(queue') /\ \A i \in DOMAIN queue' : ~IsAnswer(queue'[i])
        /\ ~IsAnswer(Head(queue))
    BY TailIsSequence DEF SendMessage, CallTypes
  <1>2. ~doubled => /\ IsSequence(channel')
                    /\ \A i \in DOMAIN channel' : IsAnswer(channel'[i]) =>
                         i \in DOMAIN channel /\ channel'[i] = channel[i]
    BY <1>1, AppendIsSequence DEF SendMessage, AnswersFit
  <1> QED
    BY <1>1, <1>2 DEF SendMessage, CallTypes, OwnerCalls, AnswersFit

\* The handler answers once, but for a captcha.
LEMMA Answers ==
  ASSUME NEW r, NEW a \in AnswersTo(r)
  PROVE  Len(a) > 1 \/ \E v : a = <<Answer(r.command, v)>>
  <1>1. \/ \E v : a = <<Answer(r.command, v)>>
        \/ \E v, w : a = <<Answer("CAPTCHA", v), Answer("CAPTCHA", w)>>
    BY DEF AnswersTo
  <1> QED
    BY <1>1

\* The daemon's answer is the only one under way, and it is to the request it read.
LEMMA ServeAnswers ==
  ASSUME CallInv, Serve, ~doubled'
  PROVE  /\ ~doubled
         /\ \A i \in DOMAIN channel : ~IsAnswer(channel[i])
         /\ IsSequence(channel')
         /\ Len(channel) + 1 \in DOMAIN channel'
         /\ IsAnswer(channel'[Len(channel) + 1])
         /\ \A i \in DOMAIN channel' : IsAnswer(channel'[i]) =>
              i = Len(channel) + 1 /\ channel'[i].command = request.command
  <1>1. PICK a \in AnswersTo(request) : /\ channel' = channel \o a
                                        /\ doubled' = (doubled \/ Len(a) > 1)
    BY DEF Serve
  <1>2. PICK v : a = <<Answer(request.command, v)>>
    BY <1>1, Answers
  <1>3. /\ ~doubled /\ IsSequence(channel)
        /\ \A i \in DOMAIN channel : ~IsAnswer(channel[i])
    BY <1>1 DEF Serve, AnswersFit
  <1>4. /\ IsSequence(a) /\ DOMAIN a = {1} /\ Len(a) = 1
        /\ a[1].command = request.command
        /\ IsAnswer(a[1])
    <2>1. /\ a \in Seq({a[1]}) /\ DOMAIN a = {1} /\ Len(a) = 1
          /\ a[1] = Answer(request.command, v)
      BY <1>2
    <2> QED
      BY <2>1 DEF IsSequence, Answer, IsAnswer
  <1>5. /\ Len(channel) \in Nat /\ DOMAIN channel = 1..Len(channel)
        /\ DOMAIN channel' = 1..(Len(channel) + 1)
        /\ IsSequence(channel')
        /\ \A i \in DOMAIN channel : channel'[i] = channel[i]
    <2>1. IsSequence(channel) /\ IsSequence(a)
      BY <1>3, <1>4
    <2>2. /\ Len(channel) \in Nat
          /\ DOMAIN (channel \o a) = 1..(Len(channel) + Len(a))
          /\ IsSequence(channel \o a)
          /\ \A i \in DOMAIN channel : (channel \o a)[i] = channel[i]
      BY <2>1, ConcatIsSequence
    <2>3. DOMAIN channel = 1..Len(channel)
      BY <1>3 DEF IsSequence
    <2> QED
      BY <1>1, <1>4, <2>2, <2>3
  <1>6. \A i \in DOMAIN channel' : i \notin DOMAIN channel =>
          i - Len(channel) \in DOMAIN a /\ channel'[i] = a[i - Len(channel)]
    BY <1>1, <1>3, <1>4, ConcatIsSequence
  <1>7. /\ Len(channel) + 1 \in DOMAIN channel'
        /\ channel'[Len(channel) + 1] = a[1]
        /\ \A i \in DOMAIN channel' : i \in DOMAIN channel \/ i = Len(channel) + 1
    BY <1>4, <1>5, <1>6
  <1> QED
    BY <1>3, <1>4, <1>5, <1>7

\* Hence an answer of the daemon keeps the invariant,
LEMMA ServePreserves == ASSUME CallInv, Serve PROVE CallInv'
  <1>1. /\ IsSequence(queue') /\ \A i \in DOMAIN queue' : ~IsAnswer(queue'[i])
        /\ doubled' \in BOOLEAN
    BY CarriedOutPosts, PostsAreMessages DEF Serve
  <1>2. CASE ~doubled'
    BY <1>1, <1>2, ServeAnswers DEF Serve, CallTypes, OwnerCalls, AnswersFit
  <1>3. CASE doubled'
    BY <1>1, <1>3 DEF Serve, CallTypes, OwnerCalls, AnswersFit
  <1> QED
    BY <1>2, <1>3

\* and so does a connection that breaks,
LEMMA BreakPreserves == ASSUME CallInv, Break PROVE CallInv'
  <1>1. IsSequence(queue') /\ DOMAIN queue' = {}
    BY EmptyIsSequence DEF Break
  <1>2. channel' = channel \/ (IsSequence(channel') /\ DOMAIN channel' = {})
    BY EmptyIsSequence DEF Break
  <1> QED
    BY <1>1, <1>2 DEF Break, CallTypes, OwnerCalls, AnswersFit

\* and one made anew.
LEMMA JoinsPreserves == ASSUME CallInv, Joins PROVE CallInv'
  <1>1. /\ IsSequence(queue') /\ DOMAIN queue' = {}
        /\ IsSequence(channel') /\ DOMAIN channel' = {}
    BY EmptyIsSequence DEF Joins
  <1> QED
    BY <1>1 DEF Joins, CallTypes, OwnerCalls, AnswersFit

\* No step of a call breaks the invariant.
LEMMA CallStepPreserves == ASSUME CallInv, CallStep PROVE CallInv'
  BY QuietPreserves, TakesPreserves, BeginsPreserves, SendNextPreserves,
     ReceivePreserves, ReceiveNothingPreserves, ConsumesPreserves,
     SendMessagePreserves, ServePreserves, BreakPreserves, JoinsPreserves
  DEF CallStep

--------------------------------------------------------------------------------
(* The refinement. What a thread's call is to RemoteCalls.                  *)

WaitingCalls ==
  \A t \in Threads : Waits(t) =>
    /\ doubled \/ AnswersThere = {} => CallOf(t) = Remote!Sent(Head(todo).command)
    /\ ~doubled => \A i \in AnswersThere :
         CallOf(t) = Remote!Executed(Head(todo).command, channel[i].value)
Result(g) == IF g = Nothing THEN Remote!Idle
             ELSE IF g.doubted THEN Remote!Answered(g.sent, NoAnswer)
                  ELSE Remote!Answered(g.command, g.value)
ReturnedCalls ==
  \A t \in Threads : ~Waits(t) => CallOf(t) = Result(got[t])
CallFacts == WaitingCalls /\ ReturnedCalls

\* What the refinement needs to know of the calls follows from the invariant.
LEMMA CallFactsHold == CallInv => CallFacts
  <1> SUFFICES ASSUME CallInv, NEW t \in Threads
               PROVE  /\ Waits(t) /\ (doubled \/ AnswersThere = {}) =>
                           CallOf(t) = Remote!Sent(Head(todo).command)
                      /\ Waits(t) /\ ~doubled => \A i \in AnswersThere :
                           CallOf(t) = Remote!Executed(Head(todo).command,
                                                       channel[i].value)
                      /\ ~Waits(t) => CallOf(t) = Result(got[t])
    BY DEF CallFacts, WaitingCalls, ReturnedCalls
  <1>1. ASSUME Waits(t), doubled \/ AnswersThere = {}
        PROVE  CallOf(t) = Remote!Sent(Head(todo).command)
    BY <1>1 DEF CallOf, Remote!Sent
  <1>2. ASSUME Waits(t), ~doubled, NEW i \in AnswersThere
        PROVE  CallOf(t) = Remote!Executed(Head(todo).command, channel[i].value)
    <2>1. AnswersThere = {i} /\ i <= i
      <3>1. PICK S : channel \in Seq(S)
        BY <1>2 DEF AnswersFit, IsSequence
      <3>2. i \in Int
        BY <3>1 DEF AnswersThere
      <3> QED
        BY <1>2, <3>2 DEF AnswersFit, AnswersThere
    <2>2. FirstAnswer = channel[i]
      BY <2>1 DEF FirstAnswer
    <2>3. channel[i].command = Head(todo).command
      BY <1>2 DEF AnswersFit, AnswersThere
    <2> QED
      BY <1>2, <2>1, <2>2, <2>3 DEF CallOf, Remote!Executed
  <1>3. ASSUME ~Waits(t)
        PROVE  CallOf(t) = Result(got[t])
    BY <1>3 DEF CallOf, Result, Remote!Idle, Remote!Answered
  <1> QED
    BY <1>1, <1>2, <1>3

\* What a thread has got is either nothing or an answer.
LEMMA ResultsRest ==
  ASSUME NEW g PROVE Result(g).state \in {"idle", "answered"}
  BY DEF Result, Remote!Idle, Remote!Answered

\* The same facts after a step.
LEMMA CallFactsNext == CallInv' => CallFacts'
  BY CallFactsHold, PTL

\* A step that changes nothing that a call is made of leaves it as it is.
SameAnswers ==
  \/ doubled
  \/ AnswersThere = {} /\ AnswersThere' = {}
  \/ \E i \in AnswersThere : \E j \in AnswersThere' :
       channel'[j].value = channel[i].value

\* A step that leaves a thread's request, lock and answer alone leaves its call alone.
LEMMA CallUnchanged ==
  ASSUME CallFacts, CallFacts', NEW t \in Threads,
         UNCHANGED <<mx, sent, todo, doubled>>, got'[t] = got[t], SameAnswers
  PROVE  UNCHANGED CallOf(t)
  <1>1. CASE Waits(t)
    <2>1. Waits(t)'
      BY <1>1 DEF Waits
    <2> QED
      BY <1>1, <2>1
      DEF CallFacts, WaitingCalls, SameAnswers, Remote!Sent, Remote!Executed
  <1>2. CASE ~Waits(t)
    <2>1. ~Waits(t)'
      BY <1>2 DEF Waits
    <2> QED
      BY <1>2, <2>1 DEF CallFacts, ReturnedCalls
  <1> QED
    BY <1>1, <1>2

\* The same of all threads at once.
LEMMA CallsUnchanged ==
  ASSUME CallFacts, CallFacts', UNCHANGED <<mx, sent, todo, got, doubled>>,
         SameAnswers
  PROVE  UNCHANGED CallsOf
  BY CallUnchanged DEF CallsOf

\* A step of one thread, or of the handler for it: the other one has no call
\* out, as it does not own mx.
LEMMA OneCallChanges ==
  ASSUME CallFacts, CallFacts', NEW t \in Threads, NEW c, CallOf(t)' = c,
         \A s \in Threads \ {t} : ~Waits(s) /\ ~Waits(s)' /\ got'[s] = got[s]
  PROVE  /\ CallsOf' = [CallsOf EXCEPT ![t] = c]
         /\ CallsOf[t] = CallOf(t) /\ CallsOf'[t] = c
         /\ \A s \in Threads \ {t} : Remote!Resting(s)
  <1>1. ASSUME NEW s \in Threads \ {t}
        PROVE  CallOf(s)' = CallOf(s) /\ CallOf(s).state \in {"idle", "answered"}
    BY <1>1, ResultsRest DEF CallFacts, ReturnedCalls
  <1> QED
    BY <1>1 DEF CallsOf, Remote!Resting

\* To send a request is to send one in the abstract specification.
LEMMA BeginsSends ==
  ASSUME CallInv, CallInv', CallFacts, CallFacts',
         NEW t \in Threads, Begins(t) \/ SendNext(t)
  PROVE  Remote!Send(t)
  <1>1. /\ \A s \in Threads : ~Waits(s)
        /\ Waits(t)' /\ \A s \in Threads \ {t} : ~Waits(s)'
        /\ UNCHANGED <<up, doubled, got>>
    BY ThreadAssumption DEF Begins, Begin, SendNext, Waits, Threads, CallTypes, OwnerCalls
  <1>2. doubled' \/ AnswersThere' = {}
    <2>1. CASE Begins(t)
      BY <2>1, HelloClears DEF Begins, Begin, AnswersThere
    <2>2. CASE SendNext(t)
      BY <2>2 DEF SendNext, AnswersFit, AnswersThere
    <2> QED
      BY <2>1, <2>2
  <1>3. CallOf(t)' = Remote!Sent(Head(todo').command)
    BY <1>1, <1>2 DEF CallFacts, WaitingCalls
  <1>4. /\ CallsOf' = [CallsOf EXCEPT ![t] = CallOf(t)']
        /\ CallsOf'[t] = CallOf(t)'
        /\ \A s \in Threads \ {t} : Remote!Resting(s)
    BY <1>1, OneCallChanges
  <1>5. Remote!Resting(t)
    BY <1>1, ResultsRest DEF CallFacts, ReturnedCalls, CallsOf, Remote!Resting
  <1>6. /\ CallsOf'[t].state = "sent"
        /\ CallOf(t)' = Remote!Sent(CallsOf'[t].command)
    BY <1>3, <1>4 DEF Remote!Sent
  <1> QED
    BY <1>1, <1>4, <1>5, <1>6
    DEF Remote!Send, Remote!Becomes, Answerable

\* An answer on a connection on which all are answered once is to the request
\* that is out. On another one it is worth no more than none.
LEMMA ReceiveAnswers ==
  ASSUME CallInv, CallInv', CallFacts, CallFacts', NEW t \in Threads, Receive(t)
  PROVE  \/ Remote!Answer(t) \/ Remote!Fail(t)
         \/ UNCHANGED <<CallsOf, Answerable>>
  <1>1. /\ Waits(t) /\ \A s \in Threads \ {t} : ~Waits(s)
        /\ channel # <<>> /\ channel' = Tail(channel)
        /\ UNCHANGED <<up, doubled>>
    BY DEF Receive, Waits
  <1>2. ~doubled =>
          /\ 1 \in DOMAIN channel /\ Head(channel) = channel[1]
          /\ \A i \in DOMAIN channel' : i + 1 \in DOMAIN channel /\ channel'[i] = channel[i + 1]
          /\ \A i \in DOMAIN channel : i # 1 =>
               i - 1 \in DOMAIN channel' /\ channel'[i - 1] = channel[i]
    BY <1>1, TailIsSequence DEF AnswersFit
  <1>3. CASE ~IsAnswer(Head(channel))
    <2>1. UNCHANGED <<mx, sent, todo, got>>
      BY <1>3 DEF Receive
    <2>2. SameAnswers
      BY <1>2, <1>3 DEF AnswersThere, SameAnswers
    <2> QED
      BY <1>1, <2>1, <2>2, CallsUnchanged DEF Answerable
  <1>4. CASE IsAnswer(Head(channel))
    <2> DEFINE m == Head(channel)
    <2>1. /\ got' = [got EXCEPT ![t] =
                       [sent |-> Head(todo).command, command |-> m.command,
                        value |-> m.value, doubted |-> doubled]]
          /\ sent' = FALSE
      BY <1>4 DEF Receive
    <2>2. /\ got'[t] = [sent |-> Head(todo).command, command |-> m.command,
                        value |-> m.value, doubted |-> doubled]
          /\ \A s \in Threads \ {t} : got'[s] = got[s]
          /\ \A s \in Threads : ~Waits(s)'
      BY <2>1 DEF CallTypes, Waits
    <2>3. got'[t] # Nothing
      <3>1. PICK S : todo \in Seq(S)
        BY DEF CallTypes, RequestsOK, IsSequence
      <3>2. Head(todo).command # "none"
        BY <1>1, <3>1 DEF CallTypes, OwnerCalls, RequestsOK, Waits
      <3> QED
        BY <2>2, <3>2 DEF Nothing
    <2>4. /\ CallsOf' = [CallsOf EXCEPT ![t] = CallOf(t)']
          /\ CallsOf[t] = CallOf(t) /\ CallsOf'[t] = CallOf(t)'
      BY <1>1, <2>2, OneCallChanges
    <2>5. CallOf(t)' = Result(got'[t])
      BY <2>2 DEF CallFacts, ReturnedCalls
    <2>6. CASE ~doubled
      <3>1. 1 \in AnswersThere /\ m.command = Head(todo).command
        BY <1>2, <1>4, <2>6 DEF AnswersThere, AnswersFit
      <3>2. CallOf(t) = Remote!Executed(m.command, m.value)
        BY <1>1, <1>2, <2>6, <3>1 DEF CallFacts, WaitingCalls
      <3>3. CallOf(t)' = Remote!Answered(m.command, m.value)
        <4>1. ~got'[t].doubted /\ got'[t].command = m.command /\ got'[t].value = m.value
          BY <2>2, <2>6
        <4> QED
          BY <2>3, <2>5, <4>1 DEF Result
      <3> QED
        BY <1>1, <2>4, <3>2, <3>3
        DEF Remote!Answer, Remote!Becomes, Remote!Executed, Answerable
    <2>7. CASE doubled
      <3>1. CallOf(t) = Remote!Sent(Head(todo).command)
        BY <1>1, <2>7 DEF CallFacts, WaitingCalls
      <3>2. CallOf(t)' = Remote!Answered(Head(todo).command, NoAnswer)
        <4>1. got'[t].doubted /\ got'[t].sent = Head(todo).command
          BY <2>2, <2>7
        <4> QED
          BY <2>3, <2>5, <4>1 DEF Result
      <3> QED
        BY <1>1, <2>4, <2>7, <3>1, <3>2
        DEF Remote!Fail, Remote!Resting, Remote!Becomes, Remote!Sent, Answerable
    <2> QED
      BY <2>6, <2>7
  <1> QED
    BY <1>3, <1>4

\* A request nobody answers fails there.
LEMMA ReceiveNothingFails ==
  ASSUME CallInv, CallInv', CallFacts, CallFacts',
         NEW t \in Threads, ReceiveNothing(t)
  PROVE  Remote!Fail(t)
  <1>1. /\ Waits(t) /\ \A s \in Threads \ {t} : ~Waits(s)
        /\ \A s \in Threads : ~Waits(s)'
        /\ ~up /\ UNCHANGED <<up, doubled>>
    BY DEF ReceiveNothing, Waits
  <1>2. /\ got'[t] = [sent |-> Head(todo).command,
                      command |-> Head(todo).command,
                      value |-> NoAnswer, doubted |-> FALSE]
        /\ \A s \in Threads \ {t} : got'[s] = got[s]
    BY DEF ReceiveNothing, CallTypes
  <1>3. Head(todo).command # "none"
    <2>1. PICK S : todo \in Seq(S)
      BY DEF CallTypes, RequestsOK, IsSequence
    <2> QED
      BY <1>1, <2>1 DEF CallTypes, OwnerCalls, RequestsOK, Waits
  <1>4. CallOf(t) = Remote!Sent(Head(todo).command)
    <2>1. AnswersThere = {}
      BY EmptyIsSequence DEF ReceiveNothing, AnswersThere
    <2> QED
      BY <1>1, <2>1 DEF CallFacts, WaitingCalls
  <1>5. CallOf(t)' = Remote!Answered(Head(todo).command, NoAnswer)
    <2>1. CallOf(t)' = Result(got'[t])
      BY <1>1 DEF CallFacts, ReturnedCalls
    <2> QED
      BY <1>2, <1>3, <2>1 DEF Result, Nothing
  <1>6. /\ CallsOf' = [CallsOf EXCEPT ![t] = CallOf(t)']
        /\ CallsOf[t] = CallOf(t)
    BY <1>1, <1>2, OneCallChanges
  <1> QED
    BY <1>1, <1>4, <1>5, <1>6
    DEF Remote!Fail, Remote!Resting, Remote!Becomes, Remote!Sent, Answerable

\* An answer put to use is consumed there.
LEMMA ConsumesConsumes ==
  ASSUME CallInv, CallFacts, CallFacts', NEW t \in Threads, Consumes(t)
  PROVE  Remote!Consume(t)
  <1>1. /\ ~Waits(t) /\ ~Waits(t)' /\ got[t] # Nothing
        /\ UNCHANGED <<mx, sent, todo, channel, up, doubled>>
    BY DEF Consumes, Returned, Waits
  <1>2. got'[t] = Nothing /\ \A s \in Threads \ {t} : got'[s] = got[s]
    BY DEF Consumes, Consume, CallTypes
  <1>3. SameAnswers
    BY <1>1 DEF SameAnswers, AnswersThere
  <1>4. \A s \in Threads \ {t} : UNCHANGED CallOf(s)
    BY <1>1, <1>2, <1>3, CallUnchanged
  <1>5. CallOf(t).state = "answered"
    <2>1. CallOf(t) = Result(got[t])
      BY <1>1 DEF CallFacts, ReturnedCalls
    <2> QED
      BY <1>1, <2>1 DEF Result, Remote!Answered
  <1>6. CallOf(t)' = Remote!Idle
    BY <1>1, <1>2 DEF CallFacts, ReturnedCalls, Result
  <1>7. CallsOf' = [CallsOf EXCEPT ![t] = Remote!Idle]
    BY <1>4, <1>6 DEF CallsOf
  <1> QED
    BY <1>1, <1>5, <1>7 DEF Remote!Consume, Remote!Becomes, Answerable, CallsOf

\* A connection made anew reconnects there.
LEMMA JoinsReconnects ==
  ASSUME CallInv, CallFacts, CallFacts', Joins
  PROVE  Remote!Reconnect
  <1>1. \A t \in Threads : ~Waits(t) /\ ~Waits(t)' /\ got'[t] = got[t]
    BY DEF Joins, Waits, OwnerCalls
  <1>2. \A t \in Threads : CallOf(t) = Result(got[t]) /\ CallOf(t)' = CallOf(t)
    BY <1>1 DEF CallFacts, ReturnedCalls
  <1> QED
    BY <1>2, ResultsRest DEF Joins, Remote!Reconnect, Remote!Resting, Answerable, CallsOf

\* The connection is gone, or no better than that.
LEMMA DisconnectOf ==
  ASSUME NEW L, L \subseteq {t \in Threads : CallsOf[t].state = "executed"},
         Answerable, Answerable' = FALSE,
         \A t \in Threads : CallOf(t)' = IF t \in L THEN Remote!Sent(CallOf(t).command)
                                        ELSE CallOf(t)
  PROVE  Remote!Disconnect
  <1>1. CallsOf' = [t \in Threads |-> IF t \in L THEN Remote!Sent(CallsOf[t].command)
                                      ELSE CallsOf[t]]
    BY DEF CallsOf
  <1> QED
    BY <1>1 DEF Remote!Disconnect

\* A connection that breaks disconnects there, or was of no use to a call.
LEMMA BreakDisconnects ==
  ASSUME CallInv, CallInv', CallFacts, CallFacts', Break
  PROVE  Remote!Disconnect \/ UNCHANGED <<CallsOf, Answerable>>
  <1>1. /\ up /\ ~up' /\ UNCHANGED <<mx, sent, todo, got, doubled>>
        /\ channel' = channel \/ AnswersThere' = {}
    BY EmptyIsSequence DEF Break, AnswersThere
  <1>2. CASE doubled
    <2>1. UNCHANGED CallsOf
      BY <1>1, <1>2, CallsUnchanged DEF SameAnswers
    <2> QED
      BY <1>2, <2>1, <1>1 DEF Answerable
  <1>3. CASE ~doubled
    <2>1. Answerable /\ Answerable' = FALSE
      BY <1>1, <1>3 DEF Answerable
    <2>2. CASE channel' = channel
      <3>1. UNCHANGED CallsOf
        BY <1>1, <2>2, CallsUnchanged DEF SameAnswers, AnswersThere
      <3>2. \A t \in Threads : UNCHANGED CallOf(t)
        BY <3>1 DEF CallsOf
      <3> DEFINE L == {}
      <3>3. L \subseteq {t \in Threads : CallsOf[t].state = "executed"}
        OBVIOUS
      <3>4. \A t \in Threads : CallOf(t)' = IF t \in L THEN Remote!Sent(CallOf(t).command)
                                           ELSE CallOf(t)
        BY <3>2
      <3> HIDE DEF L
      <3> QED
        BY <2>1, <3>3, <3>4, DisconnectOf
    <2>3. CASE AnswersThere' = {}
      <3> DEFINE L == {t \in Threads : CallsOf[t].state = "executed"}
      <3>1. ASSUME NEW t \in Threads
            PROVE  CallOf(t)' = IF t \in L THEN Remote!Sent(CallOf(t).command)
                                ELSE CallOf(t)
        <4>1. CASE Waits(t)
          <5>1. CallOf(t)' = Remote!Sent(Head(todo).command)
            BY <1>1, <2>3, <4>1 DEF CallFacts, WaitingCalls, Waits
          <5>2. CASE AnswersThere = {}
            BY <4>1, <5>1, <5>2
            DEF CallFacts, WaitingCalls, CallsOf, Remote!Sent
          <5>3. CASE AnswersThere # {}
            <6>1. PICK v : CallOf(t) = Remote!Executed(Head(todo).command, v)
              BY <1>3, <4>1, <5>3 DEF CallFacts, WaitingCalls
            <6> QED
              BY <5>1, <6>1 DEF CallsOf, Remote!Executed
          <5> QED
            BY <5>2, <5>3
        <4>2. CASE ~Waits(t)
          <5>1. CallOf(t) = Result(got[t]) /\ CallOf(t)' = CallOf(t)
            BY <1>1, <4>2 DEF CallFacts, ReturnedCalls, Waits
          <5> QED
            BY <5>1, ResultsRest DEF CallsOf
        <4> QED
          BY <4>1, <4>2
      <3> QED
        BY <2>1, <3>1, DisconnectOf
    <2> QED
      BY <1>1, <2>2, <2>3
  <1> QED
    BY <1>2, <1>3

\* The daemon's answer executes the request there.
LEMMA ServeExecutes ==
  ASSUME CallInv, CallInv', CallFacts, CallFacts', Serve
  PROVE  \/ \E t \in Threads : Remote!Execute(t)
         \/ Remote!Disconnect
         \/ UNCHANGED <<CallsOf, Answerable>>
  <1>1. /\ up /\ UNCHANGED <<up, mx, sent, todo, got>>
        /\ doubled => doubled'
    BY DEF Serve, AnswersFit
  <1>2. CASE doubled
    <2>1. UNCHANGED CallsOf
      BY <1>1, <1>2, CallsUnchanged DEF SameAnswers, CallTypes
    <2> QED
      BY <1>1, <1>2, <2>1 DEF Answerable
  <1>3. ~doubled => Waits(mx) /\ mx \in Threads /\ AnswersThere = {}
    BY DEF Serve, AnswersFit, OwnerCalls, CallTypes, Waits, AnswersThere
  <1>4. CASE ~doubled /\ doubled'
    <2>1. \A t \in Threads : UNCHANGED CallOf(t)
      BY <1>1, <1>3, <1>4 DEF CallFacts, WaitingCalls, ReturnedCalls, Waits
    <2> DEFINE L == {}
    <2>2. L \subseteq {t \in Threads : CallsOf[t].state = "executed"}
      OBVIOUS
    <2>3. \A t \in Threads : CallOf(t)' = IF t \in L THEN Remote!Sent(CallOf(t).command)
                                         ELSE CallOf(t)
      BY <2>1
    <2>4. Answerable /\ Answerable' = FALSE
      BY <1>1, <1>4 DEF Answerable
    <2> HIDE DEF L
    <2> QED
      BY <2>2, <2>3, <2>4, DisconnectOf
  <1>5. CASE ~doubled'
    <2>1. PICK i \in AnswersThere' : TRUE
      BY <1>5, ServeAnswers DEF AnswersThere
    <2> DEFINE t == mx
    <2>2. t \in Threads /\ Waits(t) /\ Waits(t)'
      BY <1>1, <1>3, <1>5 DEF Waits
    <2>3. \A s \in Threads \ {t} : ~Waits(s) /\ ~Waits(s)' /\ got'[s] = got[s]
      BY <1>1 DEF Waits
    <2>4. PICK u \in Threads : u = t
      BY <2>2
    <2>5. /\ CallOf(u) = Remote!Sent(Head(todo).command)
          /\ CallOf(u)' = Remote!Executed(Head(todo).command, channel'[i].value)
      BY <1>1, <1>3, <1>5, <2>1, <2>2, <2>4 DEF CallFacts, WaitingCalls, Waits
    <2>6. /\ CallsOf' = [CallsOf EXCEPT ![u] = CallOf(u)']
          /\ CallsOf[u] = CallOf(u) /\ CallsOf'[u] = CallOf(u)'
      BY <2>3, <2>4, OneCallChanges
    <2>7. UNCHANGED Answerable
      BY <1>1, <1>5 DEF Answerable
    <2>8. /\ CallsOf[u].state = "sent" /\ CallsOf'[u].state = "executed"
          /\ CallOf(u)' = Remote!Executed(CallsOf[u].command, CallsOf'[u].value)
      BY <2>5, <2>6 DEF Remote!Sent, Remote!Executed
    <2>9. Remote!Execute(u)
      BY <2>6, <2>7, <2>8 DEF Remote!Execute, Remote!Becomes
    <2> QED
      BY <2>9
  <1> QED
    BY <1>2, <1>4, <1>5

\* Every other step does nothing there.
LEMMA OthersStutter ==
  ASSUME CallInv, CallInv', CallFacts, CallFacts', Quiet \/ Takes \/ SendMessage
  PROVE  UNCHANGED <<CallsOf, Answerable>>
  <1>1. UNCHANGED <<up, mx, sent, todo, got, doubled>>
    BY DEF Quiet, Takes, Greets, Fetches, SendMessage
  <1>2. SameAnswers
    <2>1. CASE Quiet
      BY <2>1 DEF Quiet, SameAnswers, AnswersThere
    <2>2. CASE Takes
      <3>1. ~doubled => AnswersThere = {} /\ AnswersThere' = {}
        BY <1>1, <2>2 DEF Takes, AnswersThere, OwnerCalls, AnswersFit
      <3> QED
        BY <3>1 DEF SameAnswers
    <2>3. CASE SendMessage
      <3>1. ~IsAnswer(Head(queue))
        BY <2>3, TailIsSequence DEF SendMessage, CallTypes
      <3>2. ~doubled =>
              /\ \A i \in DOMAIN channel : i \in DOMAIN channel' /\ channel'[i] = channel[i]
              /\ \A i \in DOMAIN channel' : IsAnswer(channel'[i]) => i \in DOMAIN channel
        BY <2>3, <3>1, AppendIsSequence DEF SendMessage, AnswersFit
      <3> QED
        BY <3>2 DEF SameAnswers, AnswersThere
    <2> QED
      BY <2>1, <2>2, <2>3
  <1> QED
    BY <1>1, <1>2, CallsUnchanged DEF Answerable

\* Each step of the client is a step of the abstract specification or a stutter.
LEMMA StepRefines ==
  ASSUME CallInv, CallInv', CallStep
  PROVE  Remote!Next \/ UNCHANGED Remote!vars
  <1>1. CallFacts /\ CallFacts'
    BY CallFactsHold, CallFactsNext
  <1>2. CASE Quiet \/ Takes \/ SendMessage
    BY <1>1, <1>2, OthersStutter DEF Remote!vars
  <1>3. ASSUME NEW t \in Threads,
               Begins(t) \/ SendNext(t) \/ Receive(t) \/ ReceiveNothing(t) \/ Consumes(t)
        PROVE  Remote!Next \/ UNCHANGED Remote!vars
    BY <1>1, <1>3, BeginsSends, ReceiveAnswers, ReceiveNothingFails, ConsumesConsumes
    DEF Remote!Next, Remote!vars
  <1>4. CASE Serve
    BY <1>1, <1>4, ServeExecutes DEF Remote!Next, Remote!vars
  <1>5. CASE Break
    BY <1>1, <1>5, BreakDisconnects DEF Remote!Next, Remote!vars
  <1>6. CASE Joins
    BY <1>1, <1>6, JoinsReconnects DEF Remote!Next
  <1> QED
    BY <1>2, <1>3, <1>4, <1>5, <1>6 DEF CallStep

\* The client starts where the abstract specification starts.
LEMMA InitRefines == Init => Remote!Init
  <1> SUFFICES ASSUME Init PROVE Remote!Init
    OBVIOUS
  <1>1. CallInv
    BY CallInitially
  <1>2. \A t \in Threads : CallOf(t) = Remote!Idle
    BY <1>1, CallFactsHold DEF Init, CallFacts, ReturnedCalls, Result, Waits
  <1> QED
    BY <1>2 DEF Init, Remote!Init, CallsOf, Answerable

\* Each command of the library is carried out once between being sent and
\* being answered, and its sender gets what it produced then, or nothing when
\* the connection is lost.
THEOREM ClientImplementsRemoteCalls == Spec => CallsAreAnswered
  <1>1. CallInv /\ [Next]_vars => CallInv'
    BY NextIsCallStep, CallStepPreserves
  <1>2. CallInv /\ CallInv' /\ [Next]_vars => [Remote!Next]_(Remote!vars)
    BY NextIsCallStep, StepRefines
  <1> HIDE DEF CallInv
  <1> QED
    BY <1>1, <1>2, CallInitially, InitRefines, PTL
    DEF Spec, CallsAreAnswered, Remote!Spec

--------------------------------------------------------------------------------
(* Socket, for every set of bodies, number of messages and connections, and *)
(* however the stream is cut: there is a tape of all that was said on the   *)
(* connection, headers included; what recv has read, what has arrived, what *)
(* is under way and what send has left follow each other on it without a    *)
(* gap. So the first bytes that recv looks at are always a header.          *)

SocketTypes ==
  /\ said \in Seq(Bodies) /\ heard \in Seq(Bodies)
  /\ outgoing \in Seq(Bytes) /\ passed \in Int
  /\ wire \in Seq(Bytes) /\ inbox \in Seq(Bytes) /\ part \in Seq(Bytes)
  /\ missing \in Nat
  /\ sending => passed \in 0 .. Len(outgoing) - 1
  /\ {sending, receiving, senderValid, receiverValid, closed, broken} \subseteq BOOLEAN

\* tape is all that was said, with headers, and ends[i] where message i ends in it.
Recorded(tape, ends) ==
  /\ tape \in Seq(Bytes) /\ ends \in [0 .. Len(said) -> Nat]
  /\ ends[0] = 0 /\ ends[Len(said)] = Len(tape)
  /\ \A i \in 1 .. Len(said) :
       /\ ends[i] = ends[i - 1] + 2 + Len(said[i]) /\ ends[i] <= Len(tape)
       /\ tape[ends[i - 1] + 1] = DigitZero + Len(said[i])
       /\ tape[ends[i - 1] + 2] = ColonByte
       /\ \A j \in 1 .. Len(said[i]) : tape[ends[i - 1] + 2 + j] = said[i][j]

\* s is what is on the tape after its first bytes, as many as from says.
IsOnTape(s, tape, from) ==
  /\ from + Len(s) <= Len(tape)
  /\ \A j \in 1 .. Len(s) : s[j] = tape[from + j]

\* How far recv has taken on the tape.
Read(ends) == IF receiving THEN ends[Len(heard)] + 2 + Len(part) ELSE ends[Len(heard)]

HeardIsSaid ==
  /\ Len(heard) <= Len(said)
  /\ \A i \in 1 .. Len(heard) : heard[i] = said[i]

\* The message that recv is in.
PartIsSaid ==
  /\ receiving => /\ receiverValid /\ missing > 0 /\ Len(heard) < Len(said)
                  /\ Len(part) + missing = Len(said[Len(heard) + 1])
                  /\ \A j \in 1 .. Len(part) : part[j] = said[Len(heard) + 1][j]
  /\ ~receiving => part = <<>>

\* What has arrived and what is under way follow each other on the tape.
StreamIsOnTape(tape, ends) ==
  /\ IsOnTape(inbox, tape, Read(ends))
  /\ IsOnTape(wire, tape, Read(ends) + Len(inbox))

\* While the connection stands, what is not there yet has still to be sent.
Sent(ends) == Read(ends) + Len(inbox) + Len(wire)
RestIsOutgoing(tape, ends) ==
  ~broken /\ ~closed =>
    IF sending THEN /\ Sent(ends) - passed \in Nat
                    /\ IsOnTape(outgoing, tape, Sent(ends) - passed)
                    /\ Sent(ends) - passed + Len(outgoing) = Len(tape)
    ELSE Sent(ends) = Len(tape)

Follows(tape, ends) ==
  /\ Recorded(tape, ends)
  /\ receiverValid => StreamIsOnTape(tape, ends) /\ RestIsOutgoing(tape, ends)
SocketInv == /\ SocketTypes /\ HeardIsSaid /\ PartIsSaid
             /\ \E tape, ends : Follows(tape, ends)

--------------------------------------------------------------------------------
\* A piece of what is on the tape, and two pieces one after the other.
LEMMA PieceFacts ==
  ASSUME NEW s \in Seq(Bytes), NEW m \in 0 .. Len(s), NEW n \in m .. Len(s)
  PROVE  /\ SubSeq(s, m + 1, n) \in Seq(Bytes) /\ Len(SubSeq(s, m + 1, n)) = n - m
         /\ \A i \in 1 .. n - m : SubSeq(s, m + 1, n)[i] = s[m + i]
<1>1. Len(s) \in Nat /\ \A i \in 1 .. Len(s) : s[i] \in Bytes
  BY LenProperties, ElementOfSeq
<1>2. m \in Nat /\ n \in Nat /\ \A i \in m + 1 .. n : s[i] \in Bytes
  BY <1>1
<1>3. /\ SubSeq(s, m + 1, n) \in Seq(Bytes)
      /\ Len(SubSeq(s, m + 1, n)) = IF m + 1 <= n THEN n - (m + 1) + 1 ELSE 0
      /\ \A i \in 1 .. n - (m + 1) + 1 : SubSeq(s, m + 1, n)[i] = s[m + 1 + i - 1]
  <2>1. m + 1 \in Int /\ n \in Int
    BY <1>2
  <2> QED BY <1>2, <2>1, SubSeqProperties
<1>4. \A i \in 1 .. n - m : i \in 1 .. n - (m + 1) + 1 /\ m + 1 + i - 1 = m + i
  BY <1>2
<1>5. (IF m + 1 <= n THEN n - (m + 1) + 1 ELSE 0) = n - m
  BY <1>2
<1> QED BY <1>3, <1>4, <1>5

\* A piece of bytes that are on the tape is on the tape.
LEMMA PieceOnTape ==
  ASSUME NEW s \in Seq(Bytes), NEW tape \in Seq(Bytes), NEW from \in Nat, IsOnTape(s, tape, from),
         NEW m \in 0 .. Len(s), NEW n \in m .. Len(s)
  PROVE  IsOnTape(SubSeq(s, m + 1, n), tape, from + m)
<1>1. Len(s) \in Nat /\ Len(tape) \in Nat
  BY LenProperties
<1>2. /\ Len(SubSeq(s, m + 1, n)) = n - m
      /\ \A i \in 1 .. n - m : SubSeq(s, m + 1, n)[i] = s[m + i]
  BY PieceFacts
<1>3. from + m + Len(SubSeq(s, m + 1, n)) <= Len(tape)
  BY <1>1, <1>2 DEF IsOnTape
<1>4. ASSUME NEW j \in 1 .. Len(SubSeq(s, m + 1, n))
      PROVE  SubSeq(s, m + 1, n)[j] = tape[from + m + j]
  <2>1. m + j \in 1 .. Len(s) /\ from + (m + j) = from + m + j /\ j \in 1 .. n - m
    BY <1>1, <1>2
  <2> QED BY <1>2, <2>1 DEF IsOnTape
<1> QED BY <1>3, <1>4 DEF IsOnTape

\* Two pieces of the tape that follow each other are one.
LEMMA JoinFacts ==
  ASSUME NEW s \in Seq(Bytes), NEW r \in Seq(Bytes), NEW tape \in Seq(Bytes), NEW from \in Nat,
         IsOnTape(s, tape, from), IsOnTape(r, tape, from + Len(s))
  PROVE  /\ s \o r \in Seq(Bytes) /\ Len(s \o r) = Len(s) + Len(r)
         /\ IsOnTape(s \o r, tape, from)
<1>1. Len(s) \in Nat /\ Len(r) \in Nat /\ Len(tape) \in Nat
  BY LenProperties
<1>2. /\ s \o r \in Seq(Bytes) /\ Len(s \o r) = Len(s) + Len(r)
      /\ \A i \in 1 .. Len(s) + Len(r) : (s \o r)[i] = IF i <= Len(s) THEN s[i] ELSE r[i - Len(s)]
  BY ConcatProperties
<1>3. from + Len(s \o r) <= Len(tape)
  BY <1>1, <1>2 DEF IsOnTape
<1>4. ASSUME NEW j \in 1 .. Len(s \o r)
      PROVE  (s \o r)[j] = tape[from + j]
  <2>1. CASE j <= Len(s)
    BY <1>1, <1>2, <2>1 DEF IsOnTape
  <2>2. CASE ~(j <= Len(s))
    <3>1. j - Len(s) \in 1 .. Len(r) /\ from + Len(s) + (j - Len(s)) = from + j
          /\ (s \o r)[j] = r[j - Len(s)]
      BY <1>1, <1>2, <2>2
    <3> QED BY <3>1 DEF IsOnTape
  <2> QED BY <2>1, <2>2
<1> QED BY <1>2, <1>3, <1>4 DEF IsOnTape

\* Where the bytes of two strings are when one follows the other.
LEMMA JoinedBytes ==
  ASSUME NEW s \in Seq(Bytes), NEW r \in Seq(Bytes)
  PROVE  /\ s \o r \in Seq(Bytes) /\ Len(s \o r) = Len(s) + Len(r)
         /\ \A i \in 1 .. Len(s) : (s \o r)[i] = s[i]
         /\ \A i \in 1 .. Len(r) : (s \o r)[Len(s) + i] = r[i]
<1>1. Len(s) \in Nat /\ Len(r) \in Nat
  BY LenProperties
<1>2. /\ s \o r \in Seq(Bytes) /\ Len(s \o r) = Len(s) + Len(r)
      /\ \A i \in 1 .. Len(s) + Len(r) : (s \o r)[i] = IF i <= Len(s) THEN s[i] ELSE r[i - Len(s)]
  BY ConcatProperties
<1>3. \A i \in 1 .. Len(s) : i \in 1 .. Len(s) + Len(r) /\ i <= Len(s)
  BY <1>1
<1>4. \A i \in 1 .. Len(r) : Len(s) + i \in 1 .. Len(s) + Len(r) /\ ~(Len(s) + i <= Len(s))
                             /\ Len(s) + i - Len(s) = i
  BY <1>1
<1> QED BY <1>2, <1>3, <1>4

\* What is on the tape stays there when more is sent.
LEMMA LongerTape ==
  ASSUME NEW s \in Seq(Bytes), NEW tape \in Seq(Bytes), NEW longer \in Seq(Bytes), NEW from \in Nat,
         Len(tape) <= Len(longer), \A j \in 1 .. Len(tape) : longer[j] = tape[j],
         IsOnTape(s, tape, from)
  PROVE  IsOnTape(s, longer, from)
<1>1. Len(s) \in Nat /\ Len(tape) \in Nat /\ Len(longer) \in Nat
  BY LenProperties
<1>2. from + Len(s) <= Len(longer)
  BY <1>1 DEF IsOnTape
<1>3. ASSUME NEW j \in 1 .. Len(s)
      PROVE  s[j] = longer[from + j]
  <2>1. from + j \in 1 .. Len(tape)
    BY <1>1 DEF IsOnTape
  <2>2. s[j] = tape[from + j]
    BY DEF IsOnTape
  <2> QED BY <2>1, <2>2
<1> QED BY <1>2, <1>3 DEF IsOnTape

\* A body with its header.
LEMMA HeaderFacts ==
  ASSUME NEW body \in Bodies
  PROVE  /\ body \in Seq(Bytes) /\ Len(body) \in 0 .. 9
         /\ WithHeader(body) \in Seq(Bytes) /\ Len(WithHeader(body)) = 2 + Len(body)
         /\ WithHeader(body)[1] = DigitZero + Len(body) /\ WithHeader(body)[2] = ColonByte
         /\ \A j \in 1 .. Len(body) : WithHeader(body)[2 + j] = body[j]
<1>1. /\ body \in Seq(Bytes) /\ Len(body) \in Nat /\ Len(body) \in 0 .. 9
      /\ DigitZero + Len(body) \in Bytes /\ ColonByte \in Bytes
  <2>1. body \in Seq(Bytes) /\ Len(body) \in Nat /\ Len(body) < 10
    BY BodyAssumption, LenProperties
  <2>2. \A n \in Nat : n < 10 => n \in 0 .. 9 /\ DigitZero + n \in Bytes
    BY DEF DigitZero, Bytes
  <2>3. ColonByte \in Bytes
    BY DEF ColonByte, Bytes
  <2> QED BY <2>1, <2>2, <2>3
<1> DEFINE header == <<DigitZero + Len(body), ColonByte>>
<1>2. /\ header \in Seq(Bytes) /\ Len(header) = 2
      /\ header[1] = DigitZero + Len(body) /\ header[2] = ColonByte
  BY <1>1
<1>3. WithHeader(body) = header \o body
  BY DEF WithHeader
<1> HIDE DEF header
<1>4. /\ header \o body \in Seq(Bytes) /\ Len(header \o body) = 2 + Len(body)
      /\ \A i \in 1 .. 2 + Len(body) :
           (header \o body)[i] = IF i <= 2 THEN header[i] ELSE body[i - 2]
  <2>1. /\ header \o body \in Seq(Bytes) /\ Len(header \o body) = Len(header) + Len(body)
        /\ \A i \in 1 .. Len(header) + Len(body) :
             (header \o body)[i] = IF i <= Len(header) THEN header[i] ELSE body[i - Len(header)]
    BY <1>1, <1>2, ConcatProperties
  <2> QED BY <1>2, <2>1
<1>5. ASSUME NEW j \in 1 .. Len(body)
      PROVE  (header \o body)[2 + j] = body[j]
  <2>1. 2 + j \in 1 .. 2 + Len(body) /\ ~(2 + j <= 2) /\ 2 + j - 2 = j
    BY <1>1
  <2> QED BY <1>4, <2>1
<1>6. (header \o body)[1] = header[1] /\ (header \o body)[2] = header[2]
  BY <1>1, <1>4
<1> QED BY <1>1, <1>2, <1>3, <1>4, <1>5, <1>6

\* What is known of the numbers.
LEMMA TapeFacts ==
  ASSUME SocketTypes, HeardIsSaid, NEW tape, NEW ends, Recorded(tape, ends)
  PROVE  /\ Len(said) \in Nat /\ Len(heard) \in 0 .. Len(said)
         /\ Len(inbox) \in Nat /\ Len(wire) \in Nat /\ Len(part) \in Nat /\ Len(outgoing) \in Nat
         /\ Len(tape) \in Nat /\ ends[Len(heard)] \in Nat /\ Read(ends) \in Nat /\ Sent(ends) \in Nat
         /\ \A i \in 1 .. Len(said) : said[i] \in Bodies /\ Len(said[i]) \in 0 .. 9
<1>1. Len(said) \in Nat /\ Len(heard) \in Nat /\ Len(inbox) \in Nat /\ Len(wire) \in Nat
      /\ Len(part) \in Nat /\ Len(outgoing) \in Nat /\ Len(tape) \in Nat
  BY LenProperties DEF SocketTypes, Recorded
<1>2. Len(heard) \in 0 .. Len(said)
  BY <1>1 DEF HeardIsSaid
<1>3. ends[Len(heard)] \in Nat
  BY <1>2 DEF Recorded
<1>4. Read(ends) \in Nat
  BY <1>1, <1>3 DEF Read
<1>5. Sent(ends) \in Nat
  BY <1>1, <1>4 DEF Sent
<1>6. \A i \in 1 .. Len(said) : said[i] \in Bodies /\ Len(said[i]) \in 0 .. 9
  BY ElementOfSeq, HeaderFacts DEF SocketTypes
<1> QED BY <1>1, <1>2, <1>3, <1>4, <1>5, <1>6

--------------------------------------------------------------------------------
(* The sender.                                                              *)

\* A message is recorded at the end of the tape.
LEMMA SendBeginsKeeps == SocketInv /\ SendBegins => SocketInv'
<1> SUFFICES ASSUME SocketInv, SendBegins
             PROVE  SocketInv'
  OBVIOUS
<1> USE DEF SocketInv
<1>1. PICK body \in Bodies : outgoing' = WithHeader(body) /\ said' = Append(said, body)
  BY DEF SendBegins
<1>2. /\ ~sending /\ ~closed /\ passed' = 0 /\ sending' = TRUE
      /\ UNCHANGED <<part, missing, receiving, wire, inbox, closed, broken, senderValid,
                     receiverValid, heard>>
  BY DEF SendBegins, socketStream
<1>3. PICK tape, ends : Follows(tape, ends)
  OBVIOUS
<1>4. Recorded(tape, ends)
  BY <1>3 DEF Follows
<1>17. PICK n : n = Len(said)
  OBVIOUS
<1> DEFINE header == WithHeader(body)
           tape2 == tape \o header
           ends2 == [i \in 0 .. n + 1 |-> IF i = n + 1 THEN Len(tape) + 2 + Len(body) ELSE ends[i]]
<1>5. /\ header \in Seq(Bytes) /\ Len(header) = 2 + Len(body)
      /\ header[1] = DigitZero + Len(body) /\ header[2] = ColonByte
      /\ \A j \in 1 .. Len(body) : header[2 + j] = body[j]
      /\ Len(body) \in 0 .. 9
  BY HeaderFacts
<1>6. /\ n \in Nat /\ Len(heard) \in 0 .. n /\ Len(tape) \in Nat
      /\ Read(ends) \in Nat /\ Sent(ends) \in Nat
  BY <1>4, <1>17, TapeFacts
<1>7. /\ said' \in Seq(Bodies) /\ Len(said') = n + 1 /\ said'[n + 1] = body
      /\ \A i \in 1 .. n : said'[i] = said[i]
  BY <1>1, <1>17, AppendProperties DEF SocketTypes
<1> HIDE DEF header
<1>8. /\ tape2 \in Seq(Bytes) /\ Len(tape2) = Len(tape) + 2 + Len(body)
      /\ \A i \in 1 .. Len(tape) : tape2[i] = tape[i]
      /\ \A i \in 1 .. 2 + Len(body) : tape2[Len(tape) + i] = header[i]
  <2>1. tape \in Seq(Bytes)
    BY <1>4 DEF Recorded
  <2>2. /\ tape2 \in Seq(Bytes) /\ Len(tape2) = Len(tape) + Len(header)
        /\ \A i \in 1 .. Len(tape) : tape2[i] = tape[i]
        /\ \A i \in 1 .. Len(header) : tape2[Len(tape) + i] = header[i]
    BY <1>5, <2>1, JoinedBytes
  <2> HIDE DEF tape2
  <2>3. Len(tape) + (2 + Len(body)) = Len(tape) + 2 + Len(body)
    BY <1>5, <1>6
  <2> QED BY <1>5, <2>2, <2>3
<1> HIDE DEF tape2
<1>9. /\ ends2 \in [0 .. n + 1 -> Nat] /\ ends2[n + 1] = Len(tape) + 2 + Len(body)
      /\ \A i \in 0 .. n : ends2[i] = ends[i]
  BY <1>4, <1>5, <1>6, <1>17, SMTT(30) DEF Recorded
<1> HIDE DEF ends2
<1>10. Recorded(tape2, ends2)'
  <2>1. ends2[0] = 0 /\ ends2[n] = Len(tape)
    BY <1>4, <1>6, <1>9, <1>17 DEF Recorded
  <2>2. ASSUME NEW i \in 1 .. n + 1
        PROVE  /\ ends2[i] = ends2[i - 1] + 2 + Len(said'[i]) /\ ends2[i] <= Len(tape2)
               /\ tape2[ends2[i - 1] + 1] = DigitZero + Len(said'[i])
               /\ tape2[ends2[i - 1] + 2] = ColonByte
               /\ \A j \in 1 .. Len(said'[i]) : tape2[ends2[i - 1] + 2 + j] = said'[i][j]
    <3>1. CASE i = n + 1
      <4>1. ends2[i - 1] = Len(tape) /\ said'[i] = body
        BY <1>6, <1>7, <2>1, <3>1
      <4>2. /\ 1 \in 1 .. 2 + Len(body) /\ 2 \in 1 .. 2 + Len(body)
            /\ \A j \in 1 .. Len(body) : 2 + j \in 1 .. 2 + Len(body)
                 /\ Len(tape) + (2 + j) = Len(tape) + 2 + j
        BY <1>5, <1>6
      <4>3. tape2[Len(tape) + 1] = DigitZero + Len(body) /\ tape2[Len(tape) + 2] = ColonByte
        BY <1>5, <1>8, <4>2
      <4>4. ASSUME NEW j \in 1 .. Len(body)
            PROVE  tape2[Len(tape) + 2 + j] = body[j]
        BY <1>5, <1>8, <4>2
      <4>5. ends2[i] = Len(tape) + 2 + Len(body) /\ ends2[i] <= Len(tape2)
        BY <1>5, <1>6, <1>8, <1>9, <3>1
      <4> QED BY <4>1, <4>3, <4>4, <4>5
    <3>2. CASE i # n + 1
      <4>1. i \in 1 .. n /\ i \in 0 .. n /\ i - 1 \in 0 .. n
        BY <1>6, <3>2
      <4>2. ends2[i] = ends[i] /\ ends2[i - 1] = ends[i - 1] /\ said'[i] = said[i]
        BY <1>7, <1>9, <4>1
      <4>3. /\ ends[i] = ends[i - 1] + 2 + Len(said[i]) /\ ends[i] <= Len(tape)
            /\ tape[ends[i - 1] + 1] = DigitZero + Len(said[i])
            /\ tape[ends[i - 1] + 2] = ColonByte
            /\ \A j \in 1 .. Len(said[i]) : tape[ends[i - 1] + 2 + j] = said[i][j]
            /\ ends[i] \in Nat /\ ends[i - 1] \in Nat
        <5>1. i \in 1 .. Len(said) /\ i \in 0 .. Len(said) /\ i - 1 \in 0 .. Len(said)
          BY <1>17, <4>1
        <5> QED BY <1>4, <5>1 DEF Recorded
      <4>4. Len(said[i]) \in 0 .. 9
        BY <1>4, <1>17, <4>1, TapeFacts
      <4>5. /\ ends[i - 1] + 1 \in 1 .. Len(tape) /\ ends[i - 1] + 2 \in 1 .. Len(tape)
            /\ \A j \in 1 .. Len(said[i]) : ends[i - 1] + 2 + j \in 1 .. Len(tape)
            /\ ends[i] <= Len(tape2)
        <5>1. Len(tape) <= Len(tape2) /\ Len(tape2) \in Nat
          BY <1>5, <1>6, <1>8
        <5>2. \A a, b, t, u \in Nat, l \in 0 .. 9 : b = a + 2 + l /\ b <= t /\ t <= u =>
                /\ a + 1 \in 1 .. t /\ a + 2 \in 1 .. t /\ b <= u
                /\ \A j \in 1 .. l : a + 2 + j \in 1 .. t
          OBVIOUS
        <5> QED BY <1>6, <4>3, <4>4, <5>1, <5>2, ZenonT(40)
      <4> QED BY <1>8, <4>2, <4>3, <4>5
    <3> QED BY <3>1, <3>2
  <2>3. ends2[n + 1] = Len(tape2)
    BY <1>8, <1>9
  <2>4. n + 1 = Len(said')
    BY <1>7
  <2>5. /\ tape2 \in Seq(Bytes) /\ ends2 \in [0 .. Len(said') -> Nat]
        /\ ends2[0] = 0 /\ ends2[Len(said')] = Len(tape2)
    BY <1>8, <1>9, <2>1, <2>3, <2>4
  <2> QED BY <2>2, <2>4, <2>5 DEF Recorded
<1>11. Read(ends2)' = Read(ends) /\ Sent(ends2)' = Sent(ends)
  <2>1. ends2[Len(heard)] = ends[Len(heard)]
    BY <1>6, <1>9
  <2> QED BY <1>2, <2>1 DEF Read, Sent
<1>12. ASSUME receiverValid
       PROVE  StreamIsOnTape(tape2, ends2)' /\ RestIsOutgoing(tape2, ends2)'
  <2>1. StreamIsOnTape(tape, ends) /\ RestIsOutgoing(tape, ends)
    BY <1>3, <1>12 DEF Follows
  <2>2. \A s \in Seq(Bytes), from \in Nat : IsOnTape(s, tape, from) => IsOnTape(s, tape2, from)
    <3>1. Len(tape) <= Len(tape2) /\ tape \in Seq(Bytes)
      BY <1>4, <1>5, <1>6, <1>8 DEF Recorded
    <3> QED BY <1>8, <3>1, LongerTape
  <2>3. inbox \in Seq(Bytes) /\ wire \in Seq(Bytes) /\ Len(inbox) \in Nat
    BY LenProperties DEF SocketTypes
  <2>4. IsOnTape(inbox, tape2, Read(ends)) /\ IsOnTape(wire, tape2, Read(ends) + Len(inbox))
    BY <1>6, <2>1, <2>2, <2>3 DEF StreamIsOnTape
  <2>5. StreamIsOnTape(tape2, ends2)'
    BY <1>2, <1>11, <2>4 DEF StreamIsOnTape, IsOnTape
  <2>6. ~broken => Sent(ends) = Len(tape)
    BY <1>2, <2>1 DEF RestIsOutgoing
  <2>7. IsOnTape(outgoing', tape2, Len(tape))
    BY <1>1, <1>5, <1>6, <1>8 DEF IsOnTape, header
  <2>8. RestIsOutgoing(tape2, ends2)'
    <3> SUFFICES ASSUME ~broken
                 PROVE  /\ Sent(ends) - 0 \in Nat
                        /\ IsOnTape(outgoing', tape2, Sent(ends) - 0)
                        /\ Sent(ends) - 0 + Len(outgoing') = Len(tape2)
      BY <1>2, <1>11 DEF RestIsOutgoing, IsOnTape
    <3>1. Sent(ends) - 0 = Len(tape)
      BY <1>6, <2>6
    <3>2. Len(outgoing') = 2 + Len(body)
      BY <1>1, <1>5 DEF header
    <3>3. Len(tape) + (2 + Len(body)) = Len(tape) + 2 + Len(body)
      BY <1>5, <1>6
    <3> QED BY <1>6, <1>8, <2>7, <3>1, <3>2, <3>3
  <2> QED BY <2>5, <2>8
<1>13. Follows(tape2, ends2)'
  BY <1>2, <1>10, <1>12 DEF Follows
<1>14. SocketTypes'
  BY <1>1, <1>2, <1>5, <1>7 DEF SocketTypes, header
<1>15. HeardIsSaid'
  BY <1>2, <1>6, <1>7, <1>17 DEF HeardIsSaid
<1>16. PartIsSaid'
  <2>1. receiving => Len(heard) + 1 \in 1 .. n
    BY <1>6, <1>17 DEF PartIsSaid
  <2> QED BY <1>2, <1>6, <1>7, <1>17, <2>1 DEF PartIsSaid
<1> QED BY <1>13, <1>14, <1>15, <1>16

\* Bytes of the message go from the sender to the stream.
LEMMA SendSomeKeeps == SocketInv /\ SendSome => SocketInv'
<1> SUFFICES ASSUME SocketInv, SendSome
             PROVE  SocketInv'
  OBVIOUS
<1> USE DEF SocketInv
<1>1. PICK n \in 1 .. Len(outgoing) - passed :
        /\ wire' = wire \o SubSeq(outgoing, passed + 1, passed + n)
        /\ passed' = passed + n
  BY DEF SendSome
<1>2. /\ sending /\ ~broken /\ ~closed
      /\ sending' = (passed' < Len(outgoing))
      /\ UNCHANGED <<outgoing, part, missing, receiving, inbox, closed, broken, senderValid,
                     receiverValid, said, heard>>
  BY DEF SendSome, socketAux
<1>3. PICK tape, ends : Follows(tape, ends)
  OBVIOUS
<1>4. Recorded(tape, ends) /\ tape \in Seq(Bytes)
  BY <1>3 DEF Follows, Recorded
<1>5. /\ Len(inbox) \in Nat /\ Len(wire) \in Nat /\ Len(outgoing) \in Nat
      /\ Len(tape) \in Nat /\ Read(ends) \in Nat /\ Sent(ends) \in Nat
  BY <1>4, TapeFacts
<1>6. /\ outgoing \in Seq(Bytes) /\ wire \in Seq(Bytes) /\ passed \in Nat
      /\ n \in Nat /\ passed + n <= Len(outgoing)
      /\ passed \in 0 .. Len(outgoing) /\ passed + n \in passed .. Len(outgoing)
  <2>1. \A l \in Nat : \A p \in 0 .. l - 1 : \A k \in 1 .. l - p :
          p \in Nat /\ k \in Nat /\ p + k <= l /\ p \in 0 .. l /\ p + k \in p .. l
    OBVIOUS
  <2>2. outgoing \in Seq(Bytes) /\ wire \in Seq(Bytes) /\ passed \in 0 .. Len(outgoing) - 1
    BY <1>2 DEF SocketTypes
  <2> QED BY <1>5, <2>1, <2>2
<1> DEFINE piece == SubSeq(outgoing, passed + 1, passed + n)
<1>7. piece \in Seq(Bytes) /\ Len(piece) = n
  <2>1. PICK end : end = passed + n
    OBVIOUS
  <2>2. end \in passed .. Len(outgoing) /\ end - passed = n
    BY <1>6, <2>1
  <2>3. SubSeq(outgoing, passed + 1, end) \in Seq(Bytes) /\ Len(SubSeq(outgoing, passed + 1, end)) = end - passed
    BY <1>6, <2>2, PieceFacts
  <2> QED BY <2>1, <2>2, <2>3
<1>8. wire' \in Seq(Bytes) /\ Len(wire') = Len(wire) + n
  BY <1>1, <1>6, <1>7, ConcatProperties
<1>9. Read(ends)' = Read(ends) /\ Sent(ends)' = Sent(ends) + n
  <2>1. Read(ends)' = Read(ends)
    BY <1>2 DEF Read
  <2>2. Sent(ends)' = Read(ends) + Len(inbox) + (Len(wire) + n)
    BY <1>2, <1>8, <2>1 DEF Sent
  <2> QED BY <1>5, <1>6, <2>1, <2>2 DEF Sent
<1>10. ASSUME receiverValid
       PROVE  StreamIsOnTape(tape, ends)' /\ RestIsOutgoing(tape, ends)'
  <2>1. StreamIsOnTape(tape, ends) /\ RestIsOutgoing(tape, ends)
    BY <1>3, <1>10 DEF Follows
  <2>2. /\ IsOnTape(outgoing, tape, Sent(ends) - passed)
        /\ Sent(ends) - passed + Len(outgoing) = Len(tape)
    BY <1>2, <2>1 DEF RestIsOutgoing
  <2>3. PICK start : start = Sent(ends) - passed
    OBVIOUS
  <2>4. start \in Nat /\ start + passed = Sent(ends)
    <3>1. start \in Nat
      BY <1>2, <2>1, <2>3 DEF RestIsOutgoing
    <3> QED BY <1>5, <1>6, <2>3, <3>1
  <2>5. IsOnTape(piece, tape, Sent(ends))
    <3>1. IsOnTape(outgoing, tape, start)
      BY <2>2, <2>3
    <3>2. IsOnTape(piece, tape, start + passed)
      BY <1>4, <1>6, <2>4, <3>1, PieceOnTape
    <3> QED BY <2>4, <3>2
  <2> HIDE DEF piece
  <2>6. IsOnTape(wire \o piece, tape, Read(ends) + Len(inbox))
    <3>1. IsOnTape(wire, tape, Read(ends) + Len(inbox)) /\ Read(ends) + Len(inbox) \in Nat
      BY <1>5, <2>1 DEF StreamIsOnTape
    <3>2. IsOnTape(piece, tape, Read(ends) + Len(inbox) + Len(wire))
      BY <2>5 DEF Sent
    <3> QED BY <1>4, <1>6, <1>7, <3>1, <3>2, JoinFacts
  <2>7. StreamIsOnTape(tape, ends)'
    <3>1. wire' = wire \o piece
      BY <1>1 DEF piece
    <3> QED BY <1>2, <1>9, <2>1, <2>6, <3>1 DEF StreamIsOnTape, IsOnTape
  <2>8. RestIsOutgoing(tape, ends)'
    <3>1. Sent(ends) + n - (passed + n) = Sent(ends) - passed
      BY <1>5, <1>6
    <3>2. ~sending' => Sent(ends) + n = Len(tape)
      <4> SUFFICES ASSUME ~sending'
                   PROVE  Sent(ends) + n = Len(tape)
        OBVIOUS
      <4>1. ~(passed + n < Len(outgoing))
        BY <1>1, <1>2
      <4>2. \A x, p, k, l, t \in Nat :
              p + k <= l /\ ~(p + k < l) /\ x + l = t => x + p + k = t
        OBVIOUS
      <4>3. start + passed + n = Len(tape)
        <5>1. start + Len(outgoing) = Len(tape) /\ start \in Nat
          BY <2>2, <2>3, <2>4
        <5> QED BY <1>5, <1>6, <4>1, <4>2, <5>1
      <4> QED BY <2>4, <4>3
    <3>3. /\ Sent(ends)' - passed' \in Nat
          /\ IsOnTape(outgoing', tape, Sent(ends)' - passed')
          /\ Sent(ends)' - passed' + Len(outgoing') = Len(tape)
      <4>1. Sent(ends)' - passed' = Sent(ends) - passed
        <5>1. Sent(ends)' = Sent(ends) + n /\ passed' = passed + n
          BY <1>1, <1>9
        <5> QED BY <1>5, <1>6, <5>1
      <4> QED BY <1>2, <2>2, <2>3, <2>4, <4>1
    <3>4. ~sending' => Sent(ends)' = Len(tape)
      BY <1>9, <3>2
    <3> QED BY <3>3, <3>4 DEF RestIsOutgoing, IsOnTape
  <2> QED BY <2>7, <2>8
<1>11. Follows(tape, ends)'
  BY <1>2, <1>4, <1>10 DEF Follows, Recorded
<1>12. SocketTypes'
  <2>1. sending' \in BOOLEAN
    BY <1>2
  <2>2. sending' => passed' \in 0 .. Len(outgoing') - 1
    <3>1. \A p, k, l \in Nat : p + k < l => p + k \in 0 .. l - 1
      OBVIOUS
    <3>2. sending' => passed + n < Len(outgoing)
      BY <1>1, <1>2
    <3> QED BY <1>1, <1>2, <1>5, <1>6, <3>1, <3>2
  <2>3. passed' \in Int
    BY <1>1, <1>6
  <2> QED BY <1>2, <1>8, <2>1, <2>2, <2>3 DEF SocketTypes
<1>13. HeardIsSaid' /\ PartIsSaid'
  BY <1>2 DEF HeardIsSaid, PartIsSaid
<1> QED BY <1>11, <1>12, <1>13

\* What leaves the stream and the receiver alone, and what ends the connection.
LEMMA EndsKeep ==
  SocketInv /\ (SendFails \/ Close \/ LoseConnection) => SocketInv'
<1> SUFFICES ASSUME SocketInv, SendFails \/ Close \/ LoseConnection
             PROVE  SocketInv'
  OBVIOUS
<1> USE DEF SocketInv
<1>1. /\ UNCHANGED <<outgoing, part, missing, receiving, inbox, receiverValid, said, heard>>
      /\ broken' \/ closed'
      /\ wire' = wire \/ wire' = <<>>
  BY DEF SendFails, Close, LoseConnection, socketEnds, socketStream, socketAux
<1>2. PICK tape, ends : Follows(tape, ends)
  OBVIOUS
<1>3. Recorded(tape, ends)
  BY <1>2 DEF Follows
<1>4. Read(ends)' = Read(ends)
  BY <1>1 DEF Read
<1>5. ASSUME receiverValid
      PROVE  StreamIsOnTape(tape, ends)'
  <2>1. StreamIsOnTape(tape, ends)
    BY <1>2, <1>5 DEF Follows
  <2>2. Len(inbox) \in Nat /\ Len(wire) \in Nat /\ Read(ends) \in Nat /\ Len(tape) \in Nat
    BY <1>3, TapeFacts
  <2>3. IsOnTape(<<>>, tape, Read(ends) + Len(inbox))
    BY <2>1, <2>2 DEF StreamIsOnTape, IsOnTape
  <2> QED BY <1>1, <1>4, <2>1, <2>3 DEF StreamIsOnTape, IsOnTape
<1>6. Follows(tape, ends)'
  BY <1>1, <1>3, <1>5 DEF Follows, Recorded, RestIsOutgoing
<1>7. SocketTypes'
  <2>1. wire' \in Seq(Bytes)
    <3>1. <<>> \in Seq(Bytes) /\ wire \in Seq(Bytes)
      BY DEF SocketTypes
    <3> QED BY <1>1, <3>1
  <2>2. /\ passed' \in Int
        /\ sending' => passed' \in 0 .. Len(outgoing) - 1
        /\ sending' \in BOOLEAN /\ senderValid' \in BOOLEAN
        /\ closed' \in BOOLEAN /\ broken' \in BOOLEAN
    <3>1. Len(outgoing) \in Nat
      BY <1>3, TapeFacts
    <3>2. CASE SendFails
      <4>1. passed \in 0 .. Len(outgoing) - 1
        BY <3>2 DEF SendFails, SocketTypes
      <4>2. \A l \in Nat : \A p \in 0 .. l - 1 :
              p - 1 \in Int /\ (p - 1 >= 0 => p - 1 \in 0 .. l - 1)
        OBVIOUS
      <4>3. passed' \in Int /\ (passed' >= 0 => passed' \in 0 .. Len(outgoing) - 1)
        BY <3>1, <3>2, <4>1, <4>2 DEF SendFails
      <4>4. sending' \in BOOLEAN /\ senderValid' \in BOOLEAN
        BY <3>2 DEF SendFails
      <4> QED BY <3>2, <4>3, <4>4 DEF SendFails, SocketTypes, socketStream
    <3>3. CASE Close
      BY <3>3 DEF Close, SocketTypes
    <3>4. CASE LoseConnection
      <4>1. /\ UNCHANGED <<outgoing, passed, sending, closed, senderValid>>
            /\ broken' = TRUE
        BY <3>4 DEF LoseConnection, socketEnds
      <4> QED BY <4>1 DEF SocketTypes
    <3> QED BY <3>2, <3>3, <3>4
  <2> QED BY <1>1, <2>1, <2>2 DEF SocketTypes
<1>8. HeardIsSaid' /\ PartIsSaid'
  BY <1>1 DEF HeardIsSaid, PartIsSaid
<1> QED BY <1>6, <1>7, <1>8

\* Bytes arrive: they go from the front of the wire to the end of the inbox.
LEMMA ArriveKeeps == SocketInv /\ Arrive => SocketInv'
<1> SUFFICES ASSUME SocketInv, Arrive
             PROVE  SocketInv'
  OBVIOUS
<1> USE DEF SocketInv
<1>1. PICK n \in 1 .. Len(wire) : /\ inbox' = inbox \o SubSeq(wire, 1, n)
                                  /\ wire' = SubSeq(wire, n + 1, Len(wire))
  BY DEF Arrive
<1>2. UNCHANGED <<outgoing, passed, sending, part, missing, receiving, closed, broken,
                  senderValid, receiverValid, said, heard>>
  BY DEF Arrive, socketEnds, socketAux
<1>3. PICK tape, ends : Follows(tape, ends)
  OBVIOUS
<1>4. Recorded(tape, ends) /\ tape \in Seq(Bytes)
  BY <1>3 DEF Follows, Recorded
<1>5. /\ Len(inbox) \in Nat /\ Len(wire) \in Nat /\ Len(tape) \in Nat
      /\ Read(ends) \in Nat /\ n \in Nat /\ n <= Len(wire)
      /\ inbox \in Seq(Bytes) /\ wire \in Seq(Bytes)
  BY <1>4, TapeFacts DEF SocketTypes
<1> DEFINE front == SubSeq(wire, 1, n)
           rest == SubSeq(wire, n + 1, Len(wire))
<1>6. front \in Seq(Bytes) /\ Len(front) = n /\ rest \in Seq(Bytes) /\ Len(rest) = Len(wire) - n
  <2>1. 0 \in 0 .. Len(wire) /\ n \in 0 .. Len(wire) /\ Len(wire) \in n .. Len(wire)
    BY <1>5
  <2>2. SubSeq(wire, 0 + 1, n) \in Seq(Bytes) /\ Len(SubSeq(wire, 0 + 1, n)) = n - 0
    BY <1>5, <2>1, PieceFacts
  <2>3. rest \in Seq(Bytes) /\ Len(rest) = Len(wire) - n
    BY <1>5, <2>1, PieceFacts
  <2>4. 0 + 1 = 1 /\ n - 0 = n
    BY <1>5
  <2> QED BY <2>2, <2>3, <2>4
<1>7. inbox' \in Seq(Bytes) /\ Len(inbox') = Len(inbox) + n
  BY <1>1, <1>5, <1>6, ConcatProperties
<1>8. wire' \in Seq(Bytes) /\ Len(wire') = Len(wire) - n
  BY <1>1, <1>6
<1>9. Read(ends)' = Read(ends) /\ Sent(ends)' = Sent(ends)
  <2>1. Read(ends)' = Read(ends)
    BY <1>2 DEF Read
  <2>2. Sent(ends)' = Read(ends) + (Len(inbox) + n) + (Len(wire) - n)
    BY <1>7, <1>8, <2>1 DEF Sent
  <2> QED BY <1>5, <2>1, <2>2 DEF Sent
<1>10. ASSUME receiverValid
       PROVE  StreamIsOnTape(tape, ends)' /\ RestIsOutgoing(tape, ends)'
  <2>1. StreamIsOnTape(tape, ends) /\ RestIsOutgoing(tape, ends)
    BY <1>3, <1>10 DEF Follows
  <2>2. IsOnTape(wire, tape, Read(ends) + Len(inbox)) /\ Read(ends) + Len(inbox) \in Nat
    BY <1>5, <2>1 DEF StreamIsOnTape
  <2>3. IsOnTape(front, tape, Read(ends) + Len(inbox))
    <3>1. 0 \in 0 .. Len(wire) /\ n \in 0 .. Len(wire)
      BY <1>5
    <3>2. IsOnTape(SubSeq(wire, 0 + 1, n), tape, Read(ends) + Len(inbox) + 0)
      BY <1>4, <1>5, <2>2, <3>1, PieceOnTape
    <3>3. 0 + 1 = 1 /\ Read(ends) + Len(inbox) + 0 = Read(ends) + Len(inbox)
      BY <2>2
    <3> QED BY <3>2, <3>3
  <2>4. IsOnTape(rest, tape, Read(ends) + Len(inbox) + n)
    <3>1. n \in 0 .. Len(wire) /\ Len(wire) \in n .. Len(wire)
      BY <1>5
    <3> QED BY <1>4, <1>5, <2>2, <3>1, PieceOnTape
  <2> HIDE DEF front, rest
  <2>5. IsOnTape(inbox \o front, tape, Read(ends))
    <3>1. IsOnTape(inbox, tape, Read(ends))
      BY <2>1 DEF StreamIsOnTape
    <3> QED BY <1>4, <1>5, <1>6, <2>3, <3>1, JoinFacts
  <2>6. inbox' = inbox \o front /\ wire' = rest
    BY <1>1 DEF front, rest
  <2>7. Read(ends) + Len(inbox') = Read(ends) + Len(inbox) + n
    BY <1>5, <1>7
  <2>8. StreamIsOnTape(tape, ends)'
    BY <1>9, <2>4, <2>5, <2>6, <2>7 DEF StreamIsOnTape, IsOnTape
  <2>9. RestIsOutgoing(tape, ends)'
    BY <1>2, <1>9, <2>1 DEF RestIsOutgoing, IsOnTape
  <2> QED BY <2>8, <2>9
<1>11. Follows(tape, ends)'
  BY <1>2, <1>4, <1>10 DEF Follows, Recorded
<1>12. SocketTypes'
  BY <1>2, <1>7, <1>8 DEF SocketTypes
<1>13. HeardIsSaid' /\ PartIsSaid'
  BY <1>2 DEF HeardIsSaid, PartIsSaid
<1> QED BY <1>11, <1>12, <1>13

--------------------------------------------------------------------------------
(* The receiver.                                                            *)

\* It takes the next m bytes.
LEMMA TakingKeeps ==
  ASSUME SocketInv, receiverValid, NEW tape, NEW ends, Follows(tape, ends), NEW m \in 0 .. Len(inbox),
         inbox' = SubSeq(inbox, m + 1, Len(inbox)), Read(ends)' = Read(ends) + m,
         UNCHANGED <<outgoing, passed, sending, wire, closed, broken, receiverValid, said>>
  PROVE  inbox' \in Seq(Bytes) /\ Follows(tape, ends)'
<1>1. SocketTypes /\ HeardIsSaid
  BY DEF SocketInv
<1>2. Recorded(tape, ends) /\ tape \in Seq(Bytes) /\ StreamIsOnTape(tape, ends) /\ RestIsOutgoing(tape, ends)
  BY DEF Follows, Recorded
<1>3. /\ Len(inbox) \in Nat /\ Len(wire) \in Nat /\ Len(tape) \in Nat /\ Read(ends) \in Nat
      /\ inbox \in Seq(Bytes)
  BY <1>1, <1>2, TapeFacts DEF SocketTypes
<1>4. m \in Nat /\ Len(inbox) \in m .. Len(inbox)
  BY <1>3
<1>5. inbox' \in Seq(Bytes) /\ Len(inbox') = Len(inbox) - m
  BY <1>3, <1>4, PieceFacts
<1>6. IsOnTape(inbox', tape, Read(ends) + m)
  <2>1. IsOnTape(inbox, tape, Read(ends))
    BY <1>2 DEF StreamIsOnTape
  <2>2. IsOnTape(SubSeq(inbox, m + 1, Len(inbox)), tape, Read(ends) + m)
    BY <1>2, <1>3, <1>4, <2>1, PieceOnTape
  <2> QED BY <2>2
<1>7. Read(ends)' + Len(inbox)' = Read(ends) + Len(inbox)
  BY <1>3, <1>4, <1>5
<1>8. StreamIsOnTape(tape, ends)'
  BY <1>2, <1>6, <1>7 DEF StreamIsOnTape, IsOnTape
<1>9. Sent(ends)' = Sent(ends)
  BY <1>7 DEF Sent
<1>10. RestIsOutgoing(tape, ends)'
  BY <1>2, <1>9 DEF RestIsOutgoing, IsOnTape
<1> QED BY <1>2, <1>5, <1>8, <1>10 DEF Follows, Recorded

\* The message that comes next.
LEMMA NextMessage ==
  ASSUME SocketInv, NEW tape, NEW ends, Recorded(tape, ends), Len(heard) < Len(said)
  PROVE  LET h == Len(heard)
             next == said[Len(heard) + 1]
         IN  /\ h \in Nat /\ h + 1 \in 1 .. Len(said) /\ next \in Bodies /\ next \in Seq(Bytes)
             /\ Len(next) \in 0 .. 9 /\ ends[h] \in Nat /\ ends[h + 1] = ends[h] + 2 + Len(next)
             /\ tape[ends[h] + 1] = DigitZero + Len(next) /\ tape[ends[h] + 2] = ColonByte
             /\ \A j \in 1 .. Len(next) : tape[ends[h] + 2 + j] = next[j]
<1>1. /\ Len(said) \in Nat /\ Len(heard) \in 0 .. Len(said) /\ ends[Len(heard)] \in Nat
      /\ \A i \in 1 .. Len(said) : said[i] \in Bodies /\ Len(said[i]) \in 0 .. 9
  BY TapeFacts DEF SocketInv
<1>2. PICK h, i : h = Len(heard) /\ i = h + 1
  OBVIOUS
<1>3. h \in Nat /\ i \in 1 .. Len(said) /\ i - 1 = h
  BY <1>1, <1>2
<1>4. /\ ends[i] = ends[i - 1] + 2 + Len(said[i])
      /\ tape[ends[i - 1] + 1] = DigitZero + Len(said[i])
      /\ tape[ends[i - 1] + 2] = ColonByte
      /\ \A j \in 1 .. Len(said[i]) : tape[ends[i - 1] + 2 + j] = said[i][j]
  BY <1>3 DEF Recorded
<1>5. said[i] \in Bodies /\ Len(said[i]) \in 0 .. 9 /\ said[i] \in Seq(Bytes)
  BY <1>1, <1>3, BodyAssumption
<1> QED BY <1>1, <1>2, <1>3, <1>4, <1>5

\* tksock::recv reads the header of a message.
LEMMA RecvHeaderKeeps == SocketInv /\ RecvHeader => SocketInv'
<1> SUFFICES ASSUME SocketInv, RecvHeader
             PROVE  SocketInv'
  OBVIOUS
<1>1. /\ receiverValid /\ ~receiving /\ ColonByte \in ToSet(inbox)
      /\ inbox' = SubSeq(inbox, Colon + 1, Len(inbox))
      /\ UNCHANGED <<outgoing, passed, sending, wire, closed, broken, senderValid,
                     receiverValid, said>>
  BY DEF RecvHeader
<1>2. PICK tape, ends : Follows(tape, ends)
  BY DEF SocketInv
<1>3. Recorded(tape, ends) /\ tape \in Seq(Bytes) /\ StreamIsOnTape(tape, ends)
  BY <1>1, <1>2 DEF Follows, Recorded
<1>4. /\ Len(said) \in Nat /\ Len(heard) \in 0 .. Len(said) /\ Len(inbox) \in Nat
      /\ Len(tape) \in Nat /\ ends[Len(heard)] \in Nat
  BY <1>3, TapeFacts DEF SocketInv
<1>5. PICK h, start, next : h = Len(heard) /\ start = ends[h] /\ next = said[h + 1]
  OBVIOUS
<1>6. Read(ends) = start /\ part = <<>>
  BY <1>1, <1>5 DEF Read, SocketInv, PartIsSaid
<1>7. /\ start + Len(inbox) <= Len(tape)
      /\ \A j \in 1 .. Len(inbox) : inbox[j] = tape[start + j]
  BY <1>3, <1>6 DEF StreamIsOnTape, IsOnTape
<1>8. PICK c \in 1 .. Len(inbox) : inbox[c] = ColonByte
  <2>1. DOMAIN inbox = 1 .. Len(inbox)
    BY LenProperties DEF SocketInv, SocketTypes
  <2> QED BY <1>1, <2>1 DEF ToSet
<1>9. h < Len(said)
  <2> SUFFICES ASSUME h = Len(said)
               PROVE  FALSE
    BY <1>4, <1>5
  <2>1. start = Len(tape)
    BY <1>3, <1>5 DEF Recorded
  <2> QED BY <1>4, <1>7, <1>8, <2>1
<1>10. /\ h \in Nat /\ h + 1 \in 1 .. Len(said) /\ next \in Bodies /\ next \in Seq(Bytes)
       /\ Len(next) \in 0 .. 9 /\ start \in Nat /\ ends[h + 1] = start + 2 + Len(next)
       /\ tape[start + 1] = DigitZero + Len(next) /\ tape[start + 2] = ColonByte
  BY <1>3, <1>5, <1>9, NextMessage
<1>11. 1 \in 1 .. Len(inbox) /\ inbox[1] = DigitZero + Len(next)
  BY <1>4, <1>7, <1>8, <1>10
<1>12. inbox[1] # ColonByte /\ Number(inbox[1]) = Len(next)
  <2>1. \A k \in 0 .. 9 : DigitZero + k # ColonByte /\ Number(DigitZero + k) = k
    BY DEF ColonByte, DigitZero, Number
  <2> QED BY <1>10, <1>11, <2>1
<1>13. 2 \in 1 .. Len(inbox) /\ inbox[2] = ColonByte
  <2>1. c # 1
    BY <1>8, <1>12
  <2>2. 2 \in 1 .. Len(inbox)
    BY <1>4, <1>8, <2>1
  <2> QED BY <1>7, <1>10, <2>2
<1>14. Colon = 2
  <2>1. DOMAIN inbox = 1 .. Len(inbox)
    BY LenProperties DEF SocketInv, SocketTypes
  <2> DEFINE IsColon(i) == inbox[i] = ColonByte /\ \A j \in 1 .. i - 1 : inbox[j] # ColonByte
  <2>2. 2 \in DOMAIN inbox /\ IsColon(2)
    BY <1>12, <1>13, <2>1
  <2>3. \A i \in DOMAIN inbox : IsColon(i) => i = 2
    <3> SUFFICES ASSUME NEW i \in 1 .. Len(inbox), IsColon(i), i # 2
                 PROVE  FALSE
      BY <2>1
    <3>1. i # 1
      BY <1>12
    <3>2. 2 \in 1 .. i - 1
      BY <1>4, <3>1
    <3> QED BY <1>13, <3>2
  <2> HIDE DEF IsColon
  <2>4. (CHOOSE i \in DOMAIN inbox : IsColon(i)) = 2
    BY <2>2, <2>3
  <2> QED BY <2>4 DEF Colon, IsColon
<1>15. \/ /\ Len(next) = 0 /\ Returns(<<>>)
       \/ /\ Len(next) # 0 /\ missing' = Len(next) /\ receiving' = TRUE
          /\ UNCHANGED <<part, heard>>
  BY <1>12 DEF RecvHeader
<1>16. SocketTypes /\ HeardIsSaid
  BY DEF SocketInv
<1>17. /\ Read(ends)' = start + 2 /\ HeardIsSaid' /\ PartIsSaid'
       /\ heard' \in Seq(Bodies) /\ part' \in Seq(Bytes) /\ missing' \in Nat /\ receiving' \in BOOLEAN
  <2>1. CASE Len(next) = 0 /\ Returns(<<>>)
    <3>1. next = <<>>
      BY <1>10, <2>1, EmptySeq
    <3>2. /\ heard' = Append(heard, next) /\ part' = <<>> /\ missing' = 0 /\ receiving' = FALSE
      BY <2>1, <3>1 DEF Returns
    <3>3. /\ heard' \in Seq(Bodies) /\ Len(heard') = h + 1 /\ heard'[h + 1] = next
          /\ \A i \in 1 .. h : heard'[i] = heard[i]
      BY <1>5, <1>10, <1>16, <3>2, AppendProperties DEF SocketTypes
    <3>4. start + 2 + 0 = start + 2
      BY <1>10
    <3>5. Read(ends)' = start + 2
      BY <1>10, <2>1, <3>2, <3>3, <3>4 DEF Read
    <3>6. HeardIsSaid'
      <4>1. h + 1 <= Len(said) /\ \A i \in 1 .. h + 1 : i \in 1 .. h \/ i = h + 1
        BY <1>4, <1>10
      <4>2. \A i \in 1 .. h : heard[i] = said[i]
        BY <1>5, <1>16 DEF HeardIsSaid
      <4> QED BY <1>1, <1>5, <3>3, <4>1, <4>2 DEF HeardIsSaid
    <3>7. PartIsSaid'
      BY <3>2 DEF PartIsSaid
    <3>8. <<>> \in Seq(Bytes)
      OBVIOUS
    <3> QED BY <3>2, <3>3, <3>5, <3>6, <3>7, <3>8
  <2>2. CASE /\ Len(next) # 0 /\ missing' = Len(next) /\ receiving' = TRUE
             /\ UNCHANGED <<part, heard>>
    <3>1. part' = <<>> /\ Len(part') = 0
      BY <1>6, <2>2
    <3>2. start + 2 + 0 = start + 2
      BY <1>10
    <3>3. Read(ends)' = start + 2
      BY <1>5, <2>2, <3>1, <3>2 DEF Read
    <3>4. HeardIsSaid'
      BY <1>1, <1>16, <2>2 DEF HeardIsSaid
    <3>5. PartIsSaid'
      <4>1. missing' > 0 /\ Len(part') + missing' = Len(next) /\ missing' \in Nat
        BY <1>10, <2>2, <3>1
      <4> QED BY <1>1, <1>5, <1>9, <2>2, <3>1, <4>1 DEF PartIsSaid
    <3>6. <<>> \in Seq(Bytes)
      OBVIOUS
    <3> QED BY <1>10, <1>16, <2>2, <3>1, <3>3, <3>4, <3>5, <3>6 DEF SocketTypes
  <2> QED BY <1>15, <2>1, <2>2
<1>18. inbox' \in Seq(Bytes) /\ Follows(tape, ends)'
  <2>1. inbox' = SubSeq(inbox, 2 + 1, Len(inbox))
    BY <1>1, <1>14
  <2>2. 2 \in 0 .. Len(inbox) /\ Read(ends)' = Read(ends) + 2
    BY <1>4, <1>6, <1>13, <1>17
  <2> QED BY <1>1, <1>2, <2>1, <2>2, TakingKeeps
<1>19. SocketTypes'
  BY <1>1, <1>16, <1>17, <1>18 DEF SocketTypes
<1> QED BY <1>17, <1>18, <1>19 DEF SocketInv

\* tksock::recv reads what has arrived of a message.
LEMMA RecvSomeKeeps == SocketInv /\ RecvSome => SocketInv'
<1> SUFFICES ASSUME SocketInv, RecvSome
             PROVE  SocketInv'
  OBVIOUS
<1>1. /\ receiving
      /\ UNCHANGED <<outgoing, passed, sending, wire, closed, broken, senderValid,
                     receiverValid, said>>
  BY DEF RecvSome
<1>2. SocketTypes /\ HeardIsSaid /\ PartIsSaid
  BY DEF SocketInv
<1>3. receiverValid /\ missing \in Nat /\ missing > 0 /\ Len(heard) < Len(said)
  BY <1>1, <1>2 DEF PartIsSaid, SocketTypes
<1>4. PICK tape, ends : Follows(tape, ends)
  BY DEF SocketInv
<1>5. Recorded(tape, ends) /\ tape \in Seq(Bytes) /\ StreamIsOnTape(tape, ends)
  BY <1>3, <1>4 DEF Follows, Recorded
<1>6. PICK h, start, next, p :
        h = Len(heard) /\ start = ends[h] /\ next = said[h + 1] /\ p = Len(part)
  OBVIOUS
<1>7. /\ h \in Nat /\ h + 1 \in 1 .. Len(said) /\ next \in Bodies /\ next \in Seq(Bytes)
      /\ Len(next) \in Nat /\ start \in Nat /\ ends[h + 1] = start + 2 + Len(next)
      /\ \A j \in 1 .. Len(next) : tape[start + 2 + j] = next[j]
  BY <1>3, <1>5, <1>6, NextMessage
<1>8. /\ Len(said) \in Nat /\ Len(inbox) \in Nat /\ Len(tape) \in Nat /\ p \in Nat
  BY <1>2, <1>5, <1>6, TapeFacts
<1>9. p + missing = Len(next) /\ \A j \in 1 .. p : part[j] = next[j]
  BY <1>1, <1>2, <1>6 DEF PartIsSaid
<1>10. Read(ends) = start + 2 + p
  BY <1>1, <1>6 DEF Read
<1>11. PICK n \in 1 .. Len(inbox) :
         /\ n <= ToRecv
         /\ LET taken == part \o SubSeq(inbox, 1, n)
            IN  IF n >= missing THEN Returns(taken)
                ELSE /\ part' = taken
                     /\ missing' = missing - n
                     /\ UNCHANGED <<receiving, heard>>
         /\ inbox' = SubSeq(inbox, n + 1, Len(inbox))
  BY DEF RecvSome
<1>12. n \in Nat /\ n <= missing /\ n <= Len(inbox)
  BY <1>3, <1>8, <1>11, BodyAssumption DEF ToRecv
<1> DEFINE piece == SubSeq(inbox, 1, n)
           taken == part \o piece
<1>13. /\ piece \in Seq(Bytes) /\ Len(piece) = n
       /\ \A i \in 1 .. n : piece[i] = inbox[i]
  <2>1. 0 \in 0 .. Len(inbox) /\ n \in 0 .. Len(inbox) /\ inbox \in Seq(Bytes)
    BY <1>2, <1>8, <1>12 DEF SocketTypes
  <2>2. /\ SubSeq(inbox, 0 + 1, n) \in Seq(Bytes) /\ Len(SubSeq(inbox, 0 + 1, n)) = n - 0
        /\ \A i \in 1 .. n - 0 : SubSeq(inbox, 0 + 1, n)[i] = inbox[0 + i]
    BY <2>1, PieceFacts
  <2>3. 0 + 1 = 1 /\ n - 0 = n /\ \A i \in 1 .. n : 0 + i = i
    BY <1>12
  <2> QED BY <2>2, <2>3
<1> HIDE DEF piece
<1>14. \A i \in 1 .. n : piece[i] = next[p + i]
  <2> SUFFICES ASSUME NEW i \in 1 .. n
               PROVE  inbox[i] = next[p + i]
    BY <1>13
  <2>1. i \in 1 .. Len(inbox) /\ p + i \in 1 .. Len(next) /\ start + 2 + p + i = start + 2 + (p + i)
    BY <1>3, <1>7, <1>8, <1>9, <1>12
  <2>2. inbox[i] = tape[start + 2 + p + i]
    BY <1>5, <1>10, <2>1 DEF StreamIsOnTape, IsOnTape
  <2> QED BY <1>7, <2>1, <2>2
<1>15. /\ taken \in Seq(Bytes) /\ Len(taken) = p + n
       /\ \A j \in 1 .. p + n : taken[j] = next[j]
  <2>1. part \in Seq(Bytes)
    BY <1>2 DEF SocketTypes
  <2>2. /\ taken \in Seq(Bytes) /\ Len(taken) = p + n
        /\ \A i \in 1 .. p : taken[i] = part[i]
        /\ \A i \in 1 .. n : taken[p + i] = piece[i]
    BY <1>6, <1>13, <2>1, JoinedBytes
  <2> HIDE DEF taken
  <2>3. ASSUME NEW j \in 1 .. p + n
        PROVE  taken[j] = next[j]
    <3>1. CASE j \in 1 .. p
      BY <1>9, <2>2, <3>1
    <3>2. CASE j \notin 1 .. p
      <4>1. j - p \in 1 .. n /\ p + (j - p) = j
        BY <1>8, <1>12, <3>2
      <4> QED BY <1>14, <2>2, <4>1
    <3> QED BY <3>1, <3>2
  <2> QED BY <2>2, <2>3
<1> HIDE DEF taken
<1>16. IF n >= missing THEN Returns(taken)
       ELSE /\ part' = taken
            /\ missing' = missing - n
            /\ UNCHANGED <<receiving, heard>>
  BY <1>11 DEF taken, piece
<1>17. /\ Read(ends)' = start + 2 + p + n /\ HeardIsSaid' /\ PartIsSaid'
       /\ heard' \in Seq(Bodies) /\ part' \in Seq(Bytes) /\ missing' \in Nat /\ receiving' \in BOOLEAN
  <2>1. CASE n >= missing
    <3>1. p + n = Len(next)
      BY <1>3, <1>7, <1>8, <1>9, <1>12, <2>1
    <3>2. taken = next
      BY <1>7, <1>15, <3>1, SeqEqual
    <3>3. /\ heard' = Append(heard, next) /\ part' = <<>> /\ missing' = 0 /\ receiving' = FALSE
      BY <1>16, <2>1, <3>2 DEF Returns
    <3>4. /\ heard' \in Seq(Bodies) /\ Len(heard') = h + 1 /\ heard'[h + 1] = next
          /\ \A i \in 1 .. h : heard'[i] = heard[i]
      BY <1>2, <1>6, <1>7, <3>3, AppendProperties DEF SocketTypes
    <3>5. start + 2 + Len(next) = start + 2 + p + n
      BY <1>7, <1>8, <1>12, <3>1, SMTT(30)
    <3>6. Read(ends)' = start + 2 + p + n
      BY <1>7, <3>3, <3>4, <3>5 DEF Read
    <3>7. HeardIsSaid'
      <4>1. h + 1 <= Len(said) /\ \A i \in 1 .. h + 1 : i \in 1 .. h \/ i = h + 1
        BY <1>7, <1>8
      <4>2. \A i \in 1 .. h : heard[i] = said[i]
        BY <1>2, <1>6 DEF HeardIsSaid
      <4> QED BY <1>1, <1>6, <3>4, <4>1, <4>2 DEF HeardIsSaid
    <3>8. PartIsSaid'
      BY <3>3 DEF PartIsSaid
    <3>9. <<>> \in Seq(Bytes)
      OBVIOUS
    <3> QED BY <3>3, <3>4, <3>6, <3>7, <3>8, <3>9
  <2>2. CASE ~(n >= missing)
    <3>1. part' = taken /\ missing' = missing - n /\ UNCHANGED <<receiving, heard>>
      BY <1>16, <2>2
    <3>2. missing' \in Nat /\ missing' > 0 /\ p + n + missing' = Len(next)
      BY <1>3, <1>7, <1>8, <1>9, <1>12, <2>2, <3>1
    <3>3. start + 2 + (p + n) = start + 2 + p + n
      BY <1>7, <1>8, <1>12
    <3>4. Read(ends)' = start + 2 + p + n
      BY <1>1, <1>6, <1>15, <3>1, <3>3 DEF Read
    <3>5. HeardIsSaid'
      BY <1>1, <1>2, <3>1 DEF HeardIsSaid
    <3>6. PartIsSaid'
      BY <1>1, <1>3, <1>6, <1>15, <3>1, <3>2 DEF PartIsSaid
    <3> QED BY <1>2, <1>15, <3>1, <3>2, <3>4, <3>5, <3>6 DEF SocketTypes
  <2> QED BY <2>1, <2>2
<1>18. inbox' \in Seq(Bytes) /\ Follows(tape, ends)'
  <2>1. n \in 0 .. Len(inbox) /\ Read(ends)' = Read(ends) + n
    BY <1>8, <1>10, <1>12, <1>17
  <2> QED BY <1>1, <1>3, <1>4, <1>11, <2>1, TakingKeeps
<1>19. SocketTypes'
  BY <1>1, <1>2, <1>17, <1>18 DEF SocketTypes
<1> QED BY <1>17, <1>18, <1>19 DEF SocketInv

\* It gives the connection up.
LEMMA GivingUpKeeps == SocketInv /\ (RecvNoHeader \/ RecvFails) => SocketInv'
<1> SUFFICES ASSUME SocketInv, RecvNoHeader \/ RecvFails
             PROVE  SocketInv'
  OBVIOUS
<1>1. /\ part' = <<>> /\ missing' = 0 /\ receiving' = FALSE /\ receiverValid' = FALSE
      /\ UNCHANGED <<outgoing, passed, sending, wire, inbox, closed, broken, senderValid, said, heard>>
  BY DEF RecvNoHeader, RecvFails, Gives, socketStream
<1>2. <<>> \in Seq(Bytes)
  OBVIOUS
<1>3. PICK tape, ends : Recorded(tape, ends)
  BY DEF SocketInv, Follows
<1>4. Follows(tape, ends)'
  BY <1>1, <1>3 DEF Follows, Recorded
<1>5. SocketTypes' /\ HeardIsSaid' /\ PartIsSaid'
  BY <1>1, <1>2 DEF SocketInv, SocketTypes, HeardIsSaid, PartIsSaid
<1> QED BY <1>4, <1>5 DEF SocketInv

--------------------------------------------------------------------------------
(* The connection.                                                          *)

\* An empty tape, for a connection on which nothing was said.
LEMMA EmptyTape ==
  said = <<>> /\ heard = <<>> /\ ~receiving /\ ~sending /\ wire = <<>> /\ inbox = <<>> =>
    HeardIsSaid /\ \E tape, ends : Follows(tape, ends)
<1> SUFFICES ASSUME said = <<>>, heard = <<>>, ~receiving, ~sending, wire = <<>>, inbox = <<>>
             PROVE  HeardIsSaid /\ \E tape, ends : Follows(tape, ends)
  OBVIOUS
<1> DEFINE ends == [i \in 0 .. 0 |-> 0]
<1>1. Len(<<>>) = 0 /\ <<>> \in Seq(Bytes) /\ ends[0] = 0 /\ ends \in [0 .. 0 -> Nat]
  OBVIOUS
<1>2. Recorded(<<>>, ends)
  BY <1>1 DEF Recorded
<1>3. Read(ends) = 0
  BY <1>1 DEF Read
<1>4. Sent(ends) = 0
  BY <1>1, <1>3 DEF Sent
<1>5. StreamIsOnTape(<<>>, ends)
  BY <1>1, <1>3 DEF StreamIsOnTape, IsOnTape
<1>6. RestIsOutgoing(<<>>, ends)
  BY <1>1, <1>4 DEF RestIsOutgoing
<1> HIDE DEF ends
<1>7. Follows(<<>>, ends)
  BY <1>2, <1>5, <1>6 DEF Follows
<1> QED BY <1>1, <1>7 DEF HeardIsSaid

\* A new connection begins with nothing on its way.
LEMMA ConnectKeeps == SocketInv /\ ConnectAccept => SocketInv'
<1> SUFFICES ASSUME SocketInv, ConnectAccept
             PROVE  SocketInv'
  OBVIOUS
<1>1. /\ said' = <<>> /\ heard' = <<>> /\ ~receiving' /\ ~sending' /\ wire' = <<>> /\ inbox' = <<>>
      /\ senderValid' = TRUE /\ receiverValid' = TRUE /\ closed' = FALSE /\ broken' = FALSE
      /\ UNCHANGED <<outgoing, passed, part, missing, sending, receiving>>
  BY DEF ConnectAccept, socketEnds
<1>2. HeardIsSaid' /\ (\E tape, ends : Follows(tape, ends))'
  <2>1. (said = <<>> /\ heard = <<>> /\ ~receiving /\ ~sending /\ wire = <<>> /\ inbox = <<>> =>
           HeardIsSaid /\ \E tape, ends : Follows(tape, ends))'
    BY EmptyTape, PTL
  <2> QED BY <1>1, <2>1
<1>3. <<>> \in Seq(Bytes) /\ <<>> \in Seq(Bodies)
  OBVIOUS
<1>4. SocketTypes' /\ PartIsSaid'
  BY <1>1, <1>3 DEF SocketInv, SocketTypes, PartIsSaid
<1> QED BY <1>2, <1>4 DEF SocketInv

\* At first nothing is on its way either.
LEMMA SocketStarts == TkSockInit => SocketInv
<1> SUFFICES ASSUME TkSockInit
             PROVE  SocketInv
  OBVIOUS
<1>1. HeardIsSaid /\ \E tape, ends : Follows(tape, ends)
  BY EmptyTape DEF TkSockInit
<1>2. <<>> \in Seq(Bytes) /\ <<>> \in Seq(Bodies)
  OBVIOUS
<1>3. SocketTypes
  <2>1. said \in Seq(Bodies) /\ heard \in Seq(Bodies) /\ outgoing \in Seq(Bytes)
        /\ wire \in Seq(Bytes) /\ inbox \in Seq(Bytes) /\ part \in Seq(Bytes)
    BY <1>2 DEF TkSockInit
  <2>2. passed \in Int /\ missing \in Nat
    BY DEF TkSockInit
  <2>3. {sending, receiving, senderValid, receiverValid, closed, broken} \subseteq BOOLEAN /\ ~sending
    BY DEF TkSockInit
  <2> QED BY <2>1, <2>2, <2>3 DEF SocketTypes
<1>4. PartIsSaid
  BY DEF TkSockInit, PartIsSaid
<1> QED BY <1>1, <1>3, <1>4 DEF SocketInv

\* The invariant is about the connection alone.
LEMMA SocketStutters == SocketInv /\ UNCHANGED tkSockVars => SocketInv'
<1> SUFFICES ASSUME SocketInv, UNCHANGED tkSockVars
             PROVE  SocketInv'
  OBVIOUS
<1>1. UNCHANGED <<outgoing, passed, sending, wire, inbox, part, missing, receiving, senderValid,
                  receiverValid, closed, broken, said, heard>>
  BY DEF tkSockVars, socketEnds, socketStream, socketAux
<1>2. PICK tape, ends : Follows(tape, ends)
  BY DEF SocketInv
<1>3. Follows(tape, ends)'
  BY <1>1, <1>2 DEF Follows, Recorded, StreamIsOnTape, RestIsOutgoing, IsOnTape, Read, Sent
<1>4. SocketTypes' /\ HeardIsSaid' /\ PartIsSaid'
  BY <1>1 DEF SocketInv, SocketTypes, HeardIsSaid, PartIsSaid
<1> QED BY <1>3, <1>4 DEF SocketInv

\* The bytes received and those under way are what was sent, in its order, cut where the
\* sender's headers cut it: the inductive invariant of tksock.
THEOREM SocketInvariant == TkSockSpec => []SocketInv
<1>1. SocketInv /\ [TkSockNext]_tkSockVars => SocketInv'
  BY SendBeginsKeeps, SendSomeKeeps, EndsKeep, ArriveKeeps, RecvHeaderKeeps, RecvSomeKeeps,
     GivingUpKeeps, ConnectKeeps, SocketStutters
  DEF TkSockNext, SendStep, RecvStep
<1> QED BY <1>1, SocketStarts, PTL DEF TkSockSpec

\* recv returns what was given to send: whole, in order, and nothing else.
THEOREM MessagesAreWhole == TkSockSpec => []MessagesArriveWhole
<1>1. SocketInv => MessagesArriveWhole
  <2> SUFFICES ASSUME SocketInv
               PROVE  IsPrefix(heard, said)
    BY DEF MessagesArriveWhole
  <2>1. /\ heard \in Seq(Bodies) /\ said \in Seq(Bodies) /\ Len(heard) <= Len(said)
        /\ \A i \in 1 .. Len(heard) : heard[i] = said[i]
    BY DEF SocketInv, SocketTypes, HeardIsSaid
  <2>2. PICK l : l = Len(heard)
    OBVIOUS
  <2>3. l \in Nat /\ Len(said) \in Nat /\ l <= Len(said)
    BY <2>1, <2>2, LenProperties
  <2>4. SubSeq(heard, 1, l) = heard
    BY <2>1, <2>2, SubSeqFull
  <2>5. /\ SubSeq(said, 1, l) \in Seq(Bodies) /\ Len(SubSeq(said, 1, l)) = l
        /\ \A i \in 1 .. l : SubSeq(said, 1, l)[i] = said[i]
    <3>1. \A i \in 1 .. l : said[i] \in Bodies
      BY <2>1, <2>3, ElementOfSeq
    <3>2. 1 \in Int /\ l \in Int /\ l - 1 + 1 = l /\ (IF 1 <= l THEN l - 1 + 1 ELSE 0) = l
          /\ \A i \in 1 .. l : 1 + i - 1 = i
      BY <2>3
    <3>3. /\ SubSeq(said, 1, l) \in Seq(Bodies)
          /\ Len(SubSeq(said, 1, l)) = IF 1 <= l THEN l - 1 + 1 ELSE 0
          /\ \A i \in 1 .. l - 1 + 1 : SubSeq(said, 1, l)[i] = said[1 + i - 1]
      BY <3>1, <3>2, SubSeqProperties
    <3> QED BY <3>2, <3>3
  <2>6. SubSeq(said, 1, l) = heard
    BY <2>1, <2>2, <2>5, SeqEqual
  <2>7. Len(heard) <= Len(said) /\ SubSeq(heard, 1, Len(heard)) = SubSeq(said, 1, Len(heard))
    BY <2>1, <2>2, <2>4, <2>6
  <2> QED BY <2>7 DEF IsPrefix
<1> QED BY <1>1, SocketInvariant, PTL


--------------------------------------------------------------------------------
(* The rows of the window (module ListView).                                 *)

\* What is in a row, and beside what it is to be.
KidTypes == [id : {d.id : d \in Items}, title : {d.title : d \in Items},
             cell : {Cell(d) : d \in Items}, sel : BOOLEAN]
RowTypes == [id : PackageIds, name : PackageNames, key : BOOLEAN, open : BOOLEAN,
             sel : BOOLEAN, kids : Seq(KidTypes)]

\* Two sequences, element by element in a relation.
Matching(s, t, R) == Len(s) = Len(t) /\ \A i \in 1 .. Len(s) : <<s[i], t[i]>> \in R

KidShows(kid, d) == kid.id = d.id /\ kid.title = d.title /\ kid.cell = Cell(d)
KidPairs == {r \in KidTypes \X Items : KidShows(r[1], r[2])}
RowShows(row, p) == /\ row.id = p.id /\ row.name = p.name /\ row.key = p.password
                    /\ Matching(row.kids, p.dls, KidPairs)
RowPairs == {r \in RowTypes \X Packages : RowShows(r[1], r[2])}
Shows(shown) == /\ shown.content \in Seq(Packages) /\ shown.rows \in Seq(RowTypes)
                /\ Matching(shown.rows, shown.content, RowPairs)

\* A child row belongs to a download it shows, a row to a package it shows.
LEMMA PairsAre ==
  /\ \A kid, d : <<kid, d>> \in KidPairs <=> kid \in KidTypes /\ d \in Items /\ KidShows(kid, d)
  /\ \A row, p : <<row, p>> \in RowPairs <=> row \in RowTypes /\ p \in Packages /\ RowShows(row, p)
<1> USE DEF KidPairs, RowPairs
<1> HIDE DEF KidTypes
<1> QED OBVIOUS

\* What an addition, a replacement and a removal at the same place of both leave
\* in the relation.
LEMMA MatchingGrows ==
  ASSUME NEW S, NEW T, NEW R, NEW s \in Seq(S), NEW t \in Seq(T), Matching(s, t, R),
         NEW x \in S, NEW y \in T, <<x, y>> \in R
  PROVE  /\ Append(s, x) \in Seq(S) /\ Append(t, y) \in Seq(T)
         /\ Matching(Append(s, x), Append(t, y), R)
<1>1. PICK n \in Nat : n = Len(s) /\ n = Len(t)
  BY LenProperties DEF Matching
<1>2. \A i \in 1 .. n : <<s[i], t[i]>> \in R
  BY <1>1 DEF Matching
<1>3. PICK a : a = Append(s, x)
  OBVIOUS
<1>4. PICK b : b = Append(t, y)
  OBVIOUS
<1>5. /\ a \in Seq(S) /\ Len(a) = n + 1 /\ \A i \in 1 .. n : a[i] = s[i]
      /\ a[n + 1] = x
  <2>1. /\ a \in Seq(S) /\ Len(a) = Len(s) + 1 /\ \A i \in 1 .. Len(s) : a[i] = s[i]
        /\ a[Len(s) + 1] = x
    BY <1>3, AppendProperties
  <2> QED BY <1>1, <2>1
<1>6. /\ b \in Seq(T) /\ Len(b) = n + 1 /\ \A i \in 1 .. n : b[i] = t[i]
      /\ b[n + 1] = y
  <2>1. /\ b \in Seq(T) /\ Len(b) = Len(t) + 1 /\ \A i \in 1 .. Len(t) : b[i] = t[i]
        /\ b[Len(t) + 1] = y
    BY <1>4, AppendProperties
  <2> QED BY <1>1, <2>1
<1>7. \A i \in 1 .. n + 1 : i \in 1 .. n \/ i = n + 1
  OBVIOUS
<1> QED BY <1>2, <1>3, <1>4, <1>5, <1>6, <1>7 DEF Matching

\* An element replaced on both sides by a pair that matches leaves a match.
LEMMA MatchingStays ==
  ASSUME NEW S, NEW T, NEW R, NEW s \in Seq(S), NEW t \in Seq(T), Matching(s, t, R),
         NEW i \in 1 .. Len(t), NEW x \in S, NEW y \in T, <<x, y>> \in R
  PROVE  /\ [s EXCEPT ![i] = x] \in Seq(S) /\ [t EXCEPT ![i] = y] \in Seq(T)
         /\ Matching([s EXCEPT ![i] = x], [t EXCEPT ![i] = y], R)
<1>1. PICK n \in Nat : n = Len(s) /\ n = Len(t)
  BY LenProperties DEF Matching
<1>2. \A k \in 1 .. n : <<s[k], t[k]>> \in R
  BY <1>1 DEF Matching
<1>3. PICK a : a = [s EXCEPT ![i] = x]
  OBVIOUS
<1>4. PICK b : b = [t EXCEPT ![i] = y]
  OBVIOUS
<1>5. i \in 1 .. Len(s)
  BY <1>1
<1>6. a \in Seq(S) /\ Len(a) = n /\ \A k \in 1 .. n : a[k] = IF k = i THEN x ELSE s[k]
  <2>1. a \in Seq(S) /\ Len(a) = Len(s) /\ \A k \in 1 .. Len(s) : a[k] = IF k = i THEN x ELSE s[k]
    BY <1>3, <1>5, ExceptSeq
  <2> QED BY <1>1, <2>1
<1>7. b \in Seq(T) /\ Len(b) = n /\ \A k \in 1 .. n : b[k] = IF k = i THEN y ELSE t[k]
  <2>1. b \in Seq(T) /\ Len(b) = Len(t) /\ \A k \in 1 .. Len(t) : b[k] = IF k = i THEN y ELSE t[k]
    BY <1>4, ExceptSeq
  <2> QED BY <1>1, <2>1
<1> QED BY <1>2, <1>3, <1>4, <1>6, <1>7 DEF Matching

\* So does an element taken away on both sides.
LEMMA MatchingShrinks ==
  ASSUME NEW S, NEW T, NEW R, NEW s \in Seq(S), NEW t \in Seq(T), Matching(s, t, R),
         NEW i \in 1 .. Len(t)
  PROVE  /\ RemoveAt(s, i) \in Seq(S) /\ RemoveAt(t, i) \in Seq(T)
         /\ Matching(RemoveAt(s, i), RemoveAt(t, i), R)
<1>1. PICK n \in Nat : n = Len(s) /\ n = Len(t)
  BY LenProperties DEF Matching
<1>2. \A k \in 1 .. n : <<s[k], t[k]>> \in R
  BY <1>1 DEF Matching
<1>3. PICK a : a = RemoveAt(s, i)
  OBVIOUS
<1>4. PICK b : b = RemoveAt(t, i)
  OBVIOUS
<1>5. i \in 1 .. n /\ i \in DOMAIN s /\ i \in DOMAIN t
  BY <1>1, LenProperties
<1>6. a \in Seq(S) /\ Len(a) = n - 1 /\ \A k \in 1 .. n - 1 : a[k] = s[IF k < i THEN k ELSE k + 1]
  BY <1>1, <1>3, <1>5, RemoveAtFacts
<1>7. b \in Seq(T) /\ Len(b) = n - 1 /\ \A k \in 1 .. n - 1 : b[k] = t[IF k < i THEN k ELSE k + 1]
  BY <1>1, <1>4, <1>5, RemoveAtFacts
<1>8. \A k \in 1 .. n - 1 : (IF k < i THEN k ELSE k + 1) \in 1 .. n
  OBVIOUS
<1> QED BY <1>2, <1>3, <1>4, <1>6, <1>7, <1>8 DEF Matching

--------------------------------------------------------------------------------
\* A kid that is made anew, compared or updated shows the download.
LEMMA KidsAreRight ==
  ASSUME NEW d \in Items
  PROVE  /\ <<NewKid(d), d>> \in KidPairs /\ NewKid(d).sel = FALSE
         /\ \A kid, old : <<kid, old>> \in KidPairs => <<ComparedKid(kid, old, d), d>> \in KidPairs
         /\ \A kid, old : <<kid, old>> \in KidPairs /\ old.id = d.id =>
              /\ <<UpdatedKid(kid, old, d), d>> \in KidPairs
              /\ UpdatedKid(kid, old, d).sel = kid.sel
<1>1. d.id \in {e.id : e \in Items} /\ d.title \in {e.title : e \in Items} /\ Cell(d) \in {Cell(e) : e \in Items}
  OBVIOUS
<1>2. PICK I, L, C : I = {e.id : e \in Items} /\ L = {e.title : e \in Items} /\ C = {Cell(e) : e \in Items}
  OBVIOUS
<1>3. KidTypes = [id : I, title : L, cell : C, sel : BOOLEAN] /\ d.id \in I /\ d.title \in L /\ Cell(d) \in C
  BY <1>1, <1>2 DEF KidTypes
<1>4. <<NewKid(d), d>> \in KidPairs /\ NewKid(d).sel = FALSE
  <2>1. NewKid(d) \in KidTypes
    BY <1>3 DEF NewKid
  <2>2. KidShows(NewKid(d), d)
    BY DEF NewKid, KidShows
  <2> QED BY <2>1, <2>2, PairsAre DEF NewKid
<1>5. \A old : Facts(old) = Facts(d) => Cell(old) = Cell(d)
  BY DEF Facts, Cell
<1>6. ASSUME NEW kid, NEW old, <<kid, old>> \in KidPairs
      PROVE  <<ComparedKid(kid, old, d), d>> \in KidPairs
  <2>1. kid \in KidTypes /\ KidShows(kid, old)
    BY <1>6, PairsAre
  <2>2. PICK c : c = (IF Facts(old) # Facts(d) THEN Cell(d) ELSE kid.cell)
    OBVIOUS
  <2>3. c = Cell(d)
    BY <1>5, <2>1, <2>2 DEF KidShows
  <2>4. PICK b \in BOOLEAN : b = (d.id \in SelectedDownloads)
    <3>1. (d.id \in SelectedDownloads) \in BOOLEAN
      OBVIOUS
    <3> QED BY <3>1
  <2>5. ComparedKid(kid, old, d) = [id |-> d.id, title |-> d.title, cell |-> Cell(d), sel |-> b]
    BY <2>1, <2>2, <2>3, <2>4 DEF ComparedKid, Changed, KidShows
  <2>6. ComparedKid(kid, old, d) \in KidTypes
    BY <1>3, <2>5
  <2> QED BY <2>5, <2>6, PairsAre DEF KidShows
<1>7. ASSUME NEW kid, NEW old, <<kid, old>> \in KidPairs, old.id = d.id
      PROVE  /\ <<UpdatedKid(kid, old, d), d>> \in KidPairs
             /\ UpdatedKid(kid, old, d).sel = kid.sel
  <2>1. kid \in KidTypes /\ KidShows(kid, old)
    BY <1>7, PairsAre
  <2>2. PICK c : c = (IF Facts(old) # Facts(d) THEN Cell(d) ELSE kid.cell)
    OBVIOUS
  <2>3. c = Cell(d)
    BY <1>5, <2>1, <2>2 DEF KidShows
  <2>4. UpdatedKid(kid, old, d) = [kid EXCEPT !.title = d.title, !.cell = Cell(d)]
    BY <2>1, <2>2, <2>3 DEF UpdatedKid, Changed, KidShows
  <2>5. /\ UpdatedKid(kid, old, d) \in KidTypes
        /\ UpdatedKid(kid, old, d).id = kid.id /\ UpdatedKid(kid, old, d).title = d.title
        /\ UpdatedKid(kid, old, d).cell = Cell(d) /\ UpdatedKid(kid, old, d).sel = kid.sel
    BY <1>3, <2>1, <2>4
  <2> QED BY <1>7, <2>1, <2>5, PairsAre DEF KidShows
<1> QED BY <1>4, <1>6, <1>7

--------------------------------------------------------------------------------
\* Rows of kids.
LEMMA KidsCompared ==
  ASSUME NEW kids \in Seq(KidTypes), NEW old \in Seq(Items), Matching(kids, old, KidPairs),
         NEW new \in Seq(Items)
  PROVE  /\ ComparedKids(kids, old, new) \in Seq(KidTypes)
         /\ Matching(ComparedKids(kids, old, new), new, KidPairs)
<1>1. PICK n \in Nat : n = Len(new) /\ DOMAIN new = 1 .. n
  BY LenProperties
<1>2. \A j \in 1 .. n : new[j] \in Items
  BY <1>1, ElementOfSeq
<1>3. DOMAIN old = 1 .. Len(kids) /\ \A j \in 1 .. Len(kids) : <<kids[j], old[j]>> \in KidPairs
  BY LenProperties DEF Matching
<1>4. PICK c : c = ComparedKids(kids, old, new)
  OBVIOUS
<1>5. c = [j \in 1 .. n |-> IF j \in DOMAIN old THEN ComparedKid(kids[j], old[j], new[j]) ELSE NewKid(new[j])]
  BY <1>1, <1>4 DEF ComparedKids
<1>6. ASSUME NEW j \in 1 .. n PROVE <<c[j], new[j]>> \in KidPairs
  <2>1. new[j] \in Items
    BY <1>2
  <2>2. CASE j \in DOMAIN old
    <3>1. c[j] = ComparedKid(kids[j], old[j], new[j])
      BY <1>5, <2>2
    <3>2. <<kids[j], old[j]>> \in KidPairs
      BY <1>3, <2>2
    <3> QED BY <2>1, <3>1, <3>2, KidsAreRight
  <2>3. CASE j \notin DOMAIN old
    <3>1. c[j] = NewKid(new[j])
      BY <1>5, <2>3
    <3> QED BY <2>1, <3>1, KidsAreRight
  <2> QED BY <2>2, <2>3
<1>7. \A j \in 1 .. n : c[j] \in KidTypes
  BY <1>6, PairsAre
<1>8. c \in Seq(KidTypes)
  BY <1>5, <1>7, IsASeq
<1>9. DOMAIN c = 1 .. n
  BY <1>5
<1>10. Len(c) = n
  BY <1>8, <1>9, LenProperties
<1> QED BY <1>1, <1>4, <1>6, <1>8, <1>10 DEF Matching

\* The child rows made for a new list of downloads show them, none selected.
LEMMA KidsAnew ==
  ASSUME NEW new \in Seq(Items), NEW kids, kids = [j \in DOMAIN new |-> NewKid(new[j])]
  PROVE  kids \in Seq(KidTypes) /\ Matching(kids, new, KidPairs) /\ \A j \in DOMAIN new : kids[j].sel = FALSE
<1>1. PICK n \in Nat : n = Len(new) /\ DOMAIN new = 1 .. n
  BY LenProperties
<1>2. \A j \in 1 .. n : new[j] \in Items
  BY <1>1, ElementOfSeq
<1>3. \A j \in 1 .. n : kids[j] = NewKid(new[j])
  BY <1>1
<1>4. ASSUME NEW j \in 1 .. n
      PROVE  <<kids[j], new[j]>> \in KidPairs /\ kids[j].sel = FALSE
  <2>1. PICK d \in Items : d = new[j]
    BY <1>2
  <2>2. <<NewKid(d), d>> \in KidPairs /\ NewKid(d).sel = FALSE
    BY KidsAreRight
  <2> QED BY <1>3, <2>1, <2>2
<1>5. \A j \in 1 .. n : kids[j] \in KidTypes
  BY <1>4, PairsAre
<1>6. kids = [j \in 1 .. n |-> NewKid(new[j])]
  BY <1>1
<1>7. kids \in Seq(KidTypes)
  BY <1>5, <1>6, IsASeq
<1>8. Len(kids) = n
  BY <1>6, <1>7, LenProperties
<1> QED BY <1>1, <1>4, <1>7, <1>8 DEF Matching

\* A row that is made anew or compared shows the package.
LEMMA RowsAreRight ==
  ASSUME NEW p \in Packages
  PROVE  /\ <<WithKids(p), p>> \in RowPairs /\ WithKids(p).sel = FALSE
         /\ \A j \in DOMAIN p.dls : WithKids(p).kids[j].sel = FALSE
         /\ \A row, old : <<row, old>> \in RowPairs => <<ComparedRow(row, old, p), p>> \in RowPairs
<1>1. /\ p.id \in PackageIds /\ p.name \in PackageNames /\ p.password \in BOOLEAN
      /\ p.dls \in Seq(Items)
  BY DEF Packages
<1>2. /\ <<WithKids(p), p>> \in RowPairs /\ WithKids(p).sel = FALSE
      /\ \A j \in DOMAIN p.dls : WithKids(p).kids[j].sel = FALSE
  <2>1. PICK kids : kids = [j \in DOMAIN p.dls |-> NewKid(p.dls[j])]
    OBVIOUS
  <2>2. kids \in Seq(KidTypes) /\ Matching(kids, p.dls, KidPairs) /\ \A j \in DOMAIN p.dls : kids[j].sel = FALSE
    BY <1>1, <2>1, KidsAnew
  <2>3. WithKids(p) = [id |-> p.id, name |-> p.name, key |-> p.password, open |-> TRUE, sel |-> FALSE, kids |-> kids]
    BY <2>1 DEF WithKids, RowOf
  <2>4. WithKids(p) \in RowTypes
    BY <1>1, <2>2, <2>3 DEF RowTypes
  <2>5. RowShows(WithKids(p), p)
    BY <2>2, <2>3 DEF RowShows
  <2>6. WithKids(p).sel = FALSE /\ WithKids(p).kids = kids
    BY <2>3
  <2> QED BY <2>2, <2>4, <2>5, <2>6, PairsAre
<1>3. ASSUME NEW row, NEW old, <<row, old>> \in RowPairs
      PROVE  <<ComparedRow(row, old, p), p>> \in RowPairs
  <2>1. row \in RowTypes /\ old \in Packages /\ RowShows(row, old)
    BY <1>3, PairsAre
  <2>2. /\ row.kids \in Seq(KidTypes) /\ old.dls \in Seq(Items) /\ Matching(row.kids, old.dls, KidPairs)
        /\ old.password \in BOOLEAN /\ row.key = old.password /\ row.id = old.id /\ row.name = old.name
        /\ row.open \in BOOLEAN
    BY <2>1 DEF RowTypes, Packages, RowShows
  <2>3. PICK kids : kids = ComparedKids(row.kids, old.dls, p.dls)
    OBVIOUS
  <2>4. kids \in Seq(KidTypes) /\ Matching(kids, p.dls, KidPairs)
    BY <1>1, <2>2, <2>3, KidsCompared
  <2>6. PICK key : key = (IF (old.name # p.name \/ old.password # p.password) /\ (p.password \/ old.password)
                          THEN p.password ELSE row.key)
    OBVIOUS
  <2>7. key = p.password
    <3>1. CASE p.password = old.password
      BY <2>2, <2>6, <3>1
    <3>2. CASE p.password # old.password
      <4>1. p.password \/ old.password
        BY <1>1, <2>2, <3>2
      <4> QED BY <2>6, <3>2, <4>1
    <3> QED BY <3>1, <3>2
  <2>8. PICK name : name = (IF old.name # p.name \/ old.password # p.password THEN p.name ELSE row.name)
    OBVIOUS
  <2>9. name = p.name
    BY <2>2, <2>8
  <2>10. PICK open : open = (\/ row.open \/ p.id \in OpenPackages \/ Len(p.dls) > Len(old.dls))
    OBVIOUS
  <2>11. open \in BOOLEAN
    <3>1. (\/ row.open \/ p.id \in OpenPackages \/ Len(p.dls) > Len(old.dls)) \in BOOLEAN
      OBVIOUS
    <3> QED BY <2>10, <3>1
  <2>12. PICK sel : sel = (p.id \in SelectedPackages)
    OBVIOUS
  <2>13. sel \in BOOLEAN
    <3>1. (p.id \in SelectedPackages) \in BOOLEAN
      OBVIOUS
    <3> QED BY <2>12, <3>1
  <2>14. PICK id : id = Changed(old.id, p.id, row.id)
    OBVIOUS
  <2>15. id = p.id
    BY <2>2, <2>14 DEF Changed
  <2>16. ComparedRow(row, old, p) = [id |-> id, name |-> name, key |-> key, open |-> open, sel |-> sel, kids |-> kids]
    BY <2>3, <2>6, <2>8, <2>10, <2>12, <2>14, Zenon DEF ComparedRow
  <2>17. ComparedRow(row, old, p) \in RowTypes /\ RowShows(ComparedRow(row, old, p), p)
    BY <1>1, <2>4, <2>7, <2>9, <2>11, <2>13, <2>15, <2>16 DEF RowTypes, RowShows
  <2> QED BY <2>17, PairsAre
<1> QED BY <1>2, <1>3

--------------------------------------------------------------------------------
\* Whether a row of id x is selected, and that a change selects no other.
KidSelected(row, p, x) == \E j \in DOMAIN p.dls : row.kids[j].sel /\ p.dls[j].id = x
PackageSelected(shown, x) ==
  \E i \in DOMAIN shown.content : shown.rows[i].sel /\ shown.content[i].id = x
DownloadSelected(shown, x) ==
  \E i \in DOMAIN shown.content : KidSelected(shown.rows[i], shown.content[i], x)
RowSelectsNoMore(row, p, new, q) ==
  /\ new.sel => row.sel /\ q.id = p.id
  /\ \A x : KidSelected(new, q, x) => KidSelected(row, p, x)
SelectsNoMore(before, after) ==
  /\ \A x : PackageSelected(after, x) => PackageSelected(before, x)
  /\ \A x : DownloadSelected(after, x) => DownloadSelected(before, x)

\* What is had of two lists whose rows are those of before, or select no more.
LEMMA NoMoreOf ==
  ASSUME NEW before, NEW after,
         \A i \in DOMAIN after.content :
           \/ /\ after.rows[i].sel = FALSE
              /\ \A x : ~ KidSelected(after.rows[i], after.content[i], x)
           \/ \E k \in DOMAIN before.content :
                RowSelectsNoMore(before.rows[k], before.content[k], after.rows[i], after.content[i])
  PROVE  SelectsNoMore(before, after)
<1>1. ASSUME NEW x, PackageSelected(after, x) PROVE PackageSelected(before, x)
  <2>1. PICK i \in DOMAIN after.content : after.rows[i].sel /\ after.content[i].id = x
    BY <1>1 DEF PackageSelected
  <2>2. PICK k \in DOMAIN before.content :
          RowSelectsNoMore(before.rows[k], before.content[k], after.rows[i], after.content[i])
    BY <2>1
  <2>3. before.rows[k].sel /\ before.content[k].id = x
    BY <2>1, <2>2 DEF RowSelectsNoMore
  <2> QED BY <2>3 DEF PackageSelected
<1>2. ASSUME NEW x, DownloadSelected(after, x) PROVE DownloadSelected(before, x)
  <2>1. PICK i \in DOMAIN after.content : KidSelected(after.rows[i], after.content[i], x)
    BY <1>2 DEF DownloadSelected
  <2>2. PICK k \in DOMAIN before.content :
          RowSelectsNoMore(before.rows[k], before.content[k], after.rows[i], after.content[i])
    BY <2>1
  <2>3. KidSelected(before.rows[k], before.content[k], x)
    BY <2>1, <2>2 DEF RowSelectsNoMore
  <2> QED BY <2>3 DEF DownloadSelected
<1> QED BY <1>1, <1>2 DEF SelectsNoMore

\* A row added for a new package keeps the rows right and selects nothing more.
LEMMA AddedIsRight ==
  ASSUME NEW shown, Shows(shown), NEW row, NEW p, <<row, p>> \in RowPairs,
         row.sel = FALSE, p.dls = <<>>
  PROVE  Shows(RowAdded(shown, p, row)) /\ SelectsNoMore(shown, RowAdded(shown, p, row))
<1>1. row \in RowTypes /\ p \in Packages
  BY PairsAre
<1>2. PICK c \in Seq(Packages), r \in Seq(RowTypes) :
        c = shown.content /\ r = shown.rows /\ Matching(r, c, RowPairs)
  BY DEF Shows
<1>3. /\ Append(r, row) \in Seq(RowTypes) /\ Append(c, p) \in Seq(Packages)
      /\ Matching(Append(r, row), Append(c, p), RowPairs)
  BY <1>1, <1>2, MatchingGrows
<1>4. PICK after : after = RowAdded(shown, p, row)
  OBVIOUS
<1>5. after.content = Append(c, p) /\ after.rows = Append(r, row)
  BY <1>2, <1>4 DEF RowAdded
<1>6. PICK n \in Nat : n = Len(c) /\ n = Len(r) /\ DOMAIN c = 1 .. n
  BY <1>2, LenProperties DEF Matching
<1>7. /\ DOMAIN Append(c, p) = 1 .. n + 1
      /\ \A i \in 1 .. n : Append(c, p)[i] = c[i] /\ Append(r, row)[i] = r[i]
      /\ Append(c, p)[n + 1] = p /\ Append(r, row)[n + 1] = row
  <2>1. /\ Append(c, p) \in Seq(Packages)
        /\ Len(Append(c, p)) = Len(c) + 1 /\ \A i \in 1 .. Len(c) : Append(c, p)[i] = c[i]
        /\ Append(c, p)[Len(c) + 1] = p
    BY <1>1, <1>2, AppendProperties
  <2>2. /\ \A i \in 1 .. Len(r) : Append(r, row)[i] = r[i]
        /\ Append(r, row)[Len(r) + 1] = row
    BY <1>1, <1>2, AppendProperties
  <2>3. DOMAIN Append(c, p) = 1 .. Len(c) + 1
    BY <2>1, LenProperties
  <2> QED BY <1>6, <2>1, <2>2, <2>3
<1>8. ASSUME NEW i \in DOMAIN after.content
      PROVE  \/ /\ after.rows[i].sel = FALSE
                /\ \A x : ~ KidSelected(after.rows[i], after.content[i], x)
             \/ \E k \in DOMAIN shown.content :
                  RowSelectsNoMore(shown.rows[k], shown.content[k], after.rows[i], after.content[i])
  <2>1. i \in 1 .. n \/ i = n + 1
    BY <1>5, <1>6, <1>7
  <2>2. CASE i \in 1 .. n
    <3>1. after.rows[i] = shown.rows[i] /\ after.content[i] = shown.content[i] /\ i \in DOMAIN shown.content
      BY <1>2, <1>5, <1>6, <1>7, <2>2
    <3> QED BY <3>1 DEF RowSelectsNoMore
  <2>3. CASE i = n + 1
    <3>1. after.rows[i] = row /\ after.content[i] = p
      BY <1>5, <1>7, <2>3
    <3>2. \A x : ~ KidSelected(row, p, x)
      BY DEF KidSelected
    <3> QED BY <3>1, <3>2
  <2> QED BY <2>1, <2>2, <2>3
<1>9. Shows(after)
  BY <1>3, <1>5 DEF Shows
<1>10. SelectsNoMore(shown, after)
  BY <1>8, NoMoreOf
<1> QED BY <1>4, <1>9, <1>10

\* So does a row put in the place of another,
LEMMA ReplacedIsRight ==
  ASSUME NEW shown, Shows(shown), NEW i \in DOMAIN shown.content, NEW row, NEW p,
         <<row, p>> \in RowPairs,
         RowSelectsNoMore(shown.rows[i], shown.content[i], row, p)
  PROVE  Shows(RowReplaced(shown, i, p, row)) /\ SelectsNoMore(shown, RowReplaced(shown, i, p, row))
<1>1. row \in RowTypes /\ p \in Packages
  BY PairsAre
<1>2. PICK c \in Seq(Packages), r \in Seq(RowTypes) :
        c = shown.content /\ r = shown.rows /\ Matching(r, c, RowPairs)
  BY DEF Shows
<1>3. i \in 1 .. Len(c) /\ DOMAIN c = 1 .. Len(c) /\ DOMAIN r = 1 .. Len(c)
  BY <1>2, LenProperties DEF Matching
<1>4. /\ [r EXCEPT ![i] = row] \in Seq(RowTypes) /\ [c EXCEPT ![i] = p] \in Seq(Packages)
      /\ Matching([r EXCEPT ![i] = row], [c EXCEPT ![i] = p], RowPairs)
  BY <1>1, <1>2, <1>3, MatchingStays
<1>5. PICK after : after = RowReplaced(shown, i, p, row)
  OBVIOUS
<1>6. after.content = [c EXCEPT ![i] = p] /\ after.rows = [r EXCEPT ![i] = row]
  BY <1>2, <1>5 DEF RowReplaced
<1>7. ASSUME NEW k \in DOMAIN after.content
      PROVE  \E l \in DOMAIN shown.content :
               RowSelectsNoMore(shown.rows[l], shown.content[l], after.rows[k], after.content[k])
  <2>1. k \in DOMAIN shown.content /\ k \in DOMAIN c /\ k \in DOMAIN r
    BY <1>2, <1>3, <1>6
  <2>2. CASE k = i
    <3>1. after.rows[k] = row /\ after.content[k] = p
      BY <1>6, <2>1, <2>2
    <3> QED BY <2>1, <2>2, <3>1
  <2>3. CASE k # i
    <3>1. after.rows[k] = shown.rows[k] /\ after.content[k] = shown.content[k]
      BY <1>2, <1>6, <2>1, <2>3
    <3>2. RowSelectsNoMore(shown.rows[k], shown.content[k], after.rows[k], after.content[k])
      BY <3>1 DEF RowSelectsNoMore
    <3> QED BY <2>1, <3>2
  <2> QED BY <2>2, <2>3
<1>8. Shows(after)
  BY <1>4, <1>6 DEF Shows
<1>9. SelectsNoMore(shown, after)
  BY <1>7, NoMoreOf
<1> QED BY <1>5, <1>8, <1>9

\* and a row taken away.
LEMMA RemovedIsRight ==
  ASSUME NEW shown, Shows(shown), NEW i \in DOMAIN shown.content
  PROVE  Shows(RowRemoved(shown, i)) /\ SelectsNoMore(shown, RowRemoved(shown, i))
<1>1. PICK c \in Seq(Packages), r \in Seq(RowTypes) :
        c = shown.content /\ r = shown.rows /\ Matching(r, c, RowPairs)
  BY DEF Shows
<1>2. PICK n \in Nat : n = Len(c) /\ n = Len(r) /\ DOMAIN c = 1 .. n /\ DOMAIN r = 1 .. n
  BY <1>1, LenProperties DEF Matching
<1>3. i \in DOMAIN c /\ i \in DOMAIN r /\ i \in 1 .. n /\ i \in 1 .. Len(c)
  BY <1>1, <1>2
<1>4. /\ RemoveAt(r, i) \in Seq(RowTypes) /\ RemoveAt(c, i) \in Seq(Packages)
      /\ Matching(RemoveAt(r, i), RemoveAt(c, i), RowPairs)
  BY <1>1, <1>3, MatchingShrinks
<1>5. PICK after : after = RowRemoved(shown, i)
  OBVIOUS
<1>6. PICK a, b : a = RemoveAt(c, i) /\ b = RemoveAt(r, i)
  OBVIOUS
<1>7. after.content = a /\ after.rows = b
  BY <1>1, <1>5, <1>6 DEF RowRemoved
<1>8. /\ DOMAIN a = 1 .. n - 1
      /\ \A k \in 1 .. n - 1 : a[k] = c[IF k < i THEN k ELSE k + 1]
      /\ \A k \in 1 .. n - 1 : b[k] = r[IF k < i THEN k ELSE k + 1]
  <2>1. /\ RemoveAt(c, i) \in Seq(Packages) /\ Len(RemoveAt(c, i)) = Len(c) - 1
        /\ \A k \in 1 .. Len(c) - 1 : RemoveAt(c, i)[k] = c[IF k < i THEN k ELSE k + 1]
    BY <1>1, <1>3, RemoveAtFacts
  <2>2. \A k \in 1 .. Len(r) - 1 : RemoveAt(r, i)[k] = r[IF k < i THEN k ELSE k + 1]
    BY <1>1, <1>3, RemoveAtFacts
  <2>3. DOMAIN RemoveAt(c, i) = 1 .. Len(c) - 1
    BY <2>1, LenProperties
  <2> QED BY <1>2, <1>6, <2>1, <2>2, <2>3
<1>9. ASSUME NEW k \in DOMAIN after.content
      PROVE  \E l \in DOMAIN shown.content :
               RowSelectsNoMore(shown.rows[l], shown.content[l], after.rows[k], after.content[k])
  <2>1. PICK l : l = IF k < i THEN k ELSE k + 1
    OBVIOUS
  <2>2. k \in 1 .. n - 1 /\ l \in 1 .. n
    BY <1>2, <1>3, <1>7, <1>8, <2>1
  <2>3. after.rows[k] = shown.rows[l] /\ after.content[k] = shown.content[l] /\ l \in DOMAIN shown.content
    BY <1>1, <1>2, <1>7, <1>8, <2>1, <2>2
  <2>4. RowSelectsNoMore(shown.rows[l], shown.content[l], after.rows[k], after.content[k])
    BY <2>3 DEF RowSelectsNoMore
  <2> QED BY <2>3, <2>4
<1>10. Shows(after)
  BY <1>4, <1>6, <1>7 DEF Shows
<1>11. SelectsNoMore(shown, after)
  BY <1>9, NoMoreOf
<1> QED BY <1>5, <1>10, <1>11

--------------------------------------------------------------------------------
\* UpdateMessages.
LEMMA PlaceFacts ==
  ASSUME NEW S, NEW s \in Seq(S), NEW id
  PROVE  Place(s, id) # 0 => Place(s, id) \in DOMAIN s /\ s[Place(s, id)].id = id
<1> SUFFICES ASSUME Place(s, id) # 0 PROVE Place(s, id) \in DOMAIN s /\ s[Place(s, id)].id = id
  OBVIOUS
<1> DEFINE places == {i \in DOMAIN s : s[i].id = id}
<1>1. Place(s, id) = IF places = {} THEN 0 ELSE Min(places)
  BY DEF Place
<1>2. places # {}
  BY <1>1
<1>3. places \subseteq Nat
  BY LenProperties
<1>4. PICK i \in places : \A k \in places : i <= k
  <2> HIDE DEF places
  <2> QED BY <1>2, <1>3, LeastNatural
<1>5. Min(places) \in places
  BY <1>4 DEF Min
<1> QED BY <1>1, <1>2, <1>5

\* A row with other kids, of a package with other downloads.
LEMMA RowWithKids ==
  ASSUME NEW row, NEW p, <<row, p>> \in RowPairs,
         NEW kids \in Seq(KidTypes), NEW dls \in Seq(Items), Matching(kids, dls, KidPairs),
         NEW new \in RowTypes, new.id = row.id, new.name = row.name, new.key = row.key,
         new.sel = row.sel, new.kids = kids,
         \A x : (\E j \in DOMAIN dls : kids[j].sel /\ dls[j].id = x) => KidSelected(row, p, x),
         NEW q, q = [p EXCEPT !.dls = dls]
  PROVE  <<new, q>> \in RowPairs /\ RowSelectsNoMore(row, p, new, q)
<1>1. row \in RowTypes /\ p \in Packages /\ RowShows(row, p)
  BY PairsAre
<1>2. q \in Packages /\ q.id = p.id /\ q.name = p.name /\ q.password = p.password /\ q.dls = dls
  BY <1>1 DEF Packages
<1>3. RowShows(new, q)
  BY <1>1, <1>2 DEF RowShows
<1>4. <<new, q>> \in RowPairs
  BY <1>2, <1>3, PairsAre
<1>5. RowSelectsNoMore(row, p, new, q)
  BY <1>2 DEF RowSelectsNoMore, KidSelected
<1> QED BY <1>4, <1>5

\* An update about a package keeps the rows right.
LEMMA PackageMessages ==
  ASSUME NEW shown, Shows(shown), NEW m \in UpdateMessages, m.about = "package"
  PROVE  Shows(PackageMessage(shown, m)) /\ SelectsNoMore(shown, PackageMessage(shown, m))
<1>1. m.id \in PackageIds /\ m.name \in PackageNames /\ m.password \in BOOLEAN
  BY DEF UpdateMessages
<1>2. PICK c \in Seq(Packages) : c = shown.content
  BY DEF Shows
<1>3. PICK i : i = Place(c, m.id)
  OBVIOUS
<1>4. PICK p, row : p = shown.content[i] /\ row = shown.rows[i]
  OBVIOUS
<1>5. i # 0 => i \in DOMAIN shown.content /\ p.id = m.id /\ <<row, p>> \in RowPairs
  <2> SUFFICES ASSUME i # 0 PROVE i \in DOMAIN shown.content /\ p.id = m.id /\ <<row, p>> \in RowPairs
    OBVIOUS
  <2>1. i \in DOMAIN c /\ c[i].id = m.id
    BY <1>3, PlaceFacts
  <2>2. i \in 1 .. Len(shown.rows)
    BY <1>2, <2>1, LenProperties DEF Shows, Matching
  <2>3. <<shown.rows[i], shown.content[i]>> \in RowPairs
    BY <2>2 DEF Shows, Matching
  <2> QED BY <1>2, <1>4, <2>1, <2>3
<1>6. PICK new : new = [id |-> m.id, name |-> m.name, password |-> m.password, dls |-> <<>>]
  OBVIOUS
<1>7. PICK q : q = [p EXCEPT !.name = m.name, !.password = m.password]
  OBVIOUS
<1>8. PICK next : next = [row EXCEPT !.name = m.name, !.key = m.password]
  OBVIOUS
<1>9. \/ i = 0 /\ PackageMessage(shown, m) = RowAdded(shown, new, NewRow(new))
      \/ i # 0 /\ PackageMessage(shown, m) = RowReplaced(shown, i, q, next)
      \/ i # 0 /\ PackageMessage(shown, m) = RowRemoved(shown, i)
      \/ PackageMessage(shown, m) = shown
  BY <1>2, <1>3, <1>4, <1>6, <1>7, <1>8 DEF PackageMessage
<1>10. CASE i = 0 /\ PackageMessage(shown, m) = RowAdded(shown, new, NewRow(new))
  <2>1. new \in Packages /\ new.dls = <<>>
    BY <1>1, <1>6 DEF Packages
  <2>2. NewRow(new) = [id |-> new.id, name |-> new.name, key |-> new.password,
                       open |-> FALSE, sel |-> FALSE, kids |-> <<>>]
    BY DEF NewRow, RowOf
  <2>3. <<>> \in Seq(KidTypes) /\ Len(<<>>) = 0
    OBVIOUS
  <2>4. NewRow(new) \in RowTypes /\ NewRow(new).sel = FALSE
    BY <2>1, <2>2, <2>3 DEF RowTypes, Packages
  <2>5. RowShows(NewRow(new), new)
    BY <2>1, <2>2, <2>3 DEF RowShows, Matching
  <2>6. <<NewRow(new), new>> \in RowPairs
    BY <2>1, <2>4, <2>5, PairsAre
  <2> QED BY <1>10, <2>1, <2>4, <2>6, AddedIsRight
<1>11. CASE i # 0 /\ PackageMessage(shown, m) = RowReplaced(shown, i, q, next)
  <2>1. row \in RowTypes /\ p \in Packages /\ RowShows(row, p)
    BY <1>5, <1>11, PairsAre
  <2>2. q \in Packages /\ q.id = p.id /\ q.name = m.name /\ q.password = m.password /\ q.dls = p.dls
    BY <1>1, <1>7, <2>1 DEF Packages
  <2>3. /\ next \in RowTypes /\ next.id = row.id /\ next.name = m.name /\ next.key = m.password
        /\ next.sel = row.sel /\ next.kids = row.kids
    BY <1>1, <1>8, <2>1 DEF RowTypes
  <2>4. RowShows(next, q)
    BY <2>1, <2>2, <2>3 DEF RowShows
  <2>5. <<next, q>> \in RowPairs
    BY <2>2, <2>3, <2>4, PairsAre
  <2>6. RowSelectsNoMore(row, p, next, q)
    BY <2>2, <2>3 DEF RowSelectsNoMore, KidSelected
  <2> QED BY <1>4, <1>5, <1>11, <2>5, <2>6, ReplacedIsRight
<1>12. CASE i # 0 /\ PackageMessage(shown, m) = RowRemoved(shown, i)
  BY <1>5, <1>12, RemovedIsRight
<1>13. CASE PackageMessage(shown, m) = shown
  BY <1>13 DEF SelectsNoMore
<1> QED BY <1>9, <1>10, <1>11, <1>12, <1>13

\* An update about a download keeps the rows right.
LEMMA DownloadMessages ==
  ASSUME NEW shown, Shows(shown), NEW m \in UpdateMessages, m.about # "package"
  PROVE  Shows(DownloadMessage(shown, m)) /\ SelectsNoMore(shown, DownloadMessage(shown, m))
<1>1. m.dl \in Items
  BY DEF UpdateMessages
<1>2. PICK c \in Seq(Packages) : c = shown.content
  BY DEF Shows
<1>3. PICK i : i = Place(c, m.parent)
  OBVIOUS
<1>4. PICK p, row : p = shown.content[i] /\ row = shown.rows[i]
  OBVIOUS
<1>5. i # 0 => i \in DOMAIN shown.content /\ <<row, p>> \in RowPairs
  <2> SUFFICES ASSUME i # 0 PROVE i \in DOMAIN shown.content /\ <<row, p>> \in RowPairs
    OBVIOUS
  <2>1. i \in DOMAIN c
    BY <1>3, PlaceFacts
  <2>2. i \in 1 .. Len(shown.rows)
    BY <1>2, <2>1, LenProperties DEF Shows, Matching
  <2>3. <<shown.rows[i], shown.content[i]>> \in RowPairs
    BY <2>2 DEF Shows, Matching
  <2> QED BY <1>2, <1>4, <2>1, <2>3
<1>6. PICK j : j = IF i = 0 THEN 0 ELSE Place(p.dls, m.dl.id)
  OBVIOUS
<1>7. PICK kid : kid = UpdatedKid(row.kids[j], p.dls[j], m.dl)
  OBVIOUS
<1>8. \/ /\ i # 0
         /\ DownloadMessage(shown, m) =
              RowReplaced(shown, i, [p EXCEPT !.dls = Append(@, m.dl)],
                          [row EXCEPT !.kids = Append(@, NewKid(m.dl)), !.open = TRUE])
      \/ /\ i # 0 /\ j # 0
         /\ DownloadMessage(shown, m) =
              RowReplaced(shown, i, [p EXCEPT !.dls = [@ EXCEPT ![j] = m.dl]],
                          [row EXCEPT !.kids = [@ EXCEPT ![j] = kid]])
      \/ /\ i # 0 /\ j # 0
         /\ DownloadMessage(shown, m) =
              RowReplaced(shown, i, [p EXCEPT !.dls = RemoveAt(@, j)],
                          [row EXCEPT !.kids = RemoveAt(@, j)])
      \/ DownloadMessage(shown, m) = shown
  BY <1>2, <1>3, <1>4, <1>6, <1>7, Zenon DEF DownloadMessage
<1>9. ASSUME i # 0
      PROVE  /\ row \in RowTypes /\ p \in Packages /\ RowShows(row, p)
             /\ row.kids \in Seq(KidTypes) /\ p.dls \in Seq(Items) /\ Matching(row.kids, p.dls, KidPairs)
  BY <1>5, <1>9, PairsAre DEF RowTypes, Packages, RowShows
<1>10. ASSUME i # 0, NEW kids \in Seq(KidTypes), NEW dls \in Seq(Items), Matching(kids, dls, KidPairs),
              NEW new \in RowTypes, new.id = row.id, new.name = row.name, new.key = row.key,
              new.sel = row.sel, new.kids = kids,
              \A x : (\E k \in DOMAIN dls : kids[k].sel /\ dls[k].id = x) => KidSelected(row, p, x),
              NEW q, q = [p EXCEPT !.dls = dls],
              DownloadMessage(shown, m) = RowReplaced(shown, i, q, new)
       PROVE  Shows(DownloadMessage(shown, m)) /\ SelectsNoMore(shown, DownloadMessage(shown, m))
  <2>1. <<new, q>> \in RowPairs /\ RowSelectsNoMore(row, p, new, q)
    BY <1>5, <1>10, RowWithKids
  <2> QED BY <1>4, <1>5, <1>10, <2>1, ReplacedIsRight
<1>11. CASE /\ i # 0
            /\ DownloadMessage(shown, m) =
                 RowReplaced(shown, i, [p EXCEPT !.dls = Append(@, m.dl)],
                             [row EXCEPT !.kids = Append(@, NewKid(m.dl)), !.open = TRUE])
  <2>1. <<NewKid(m.dl), m.dl>> \in KidPairs /\ NewKid(m.dl).sel = FALSE /\ NewKid(m.dl) \in KidTypes
    BY <1>1, KidsAreRight, PairsAre
  <2>2. PICK x : x = NewKid(m.dl)
    OBVIOUS
  <2>3. PICK ks, ds : ks = row.kids /\ ds = p.dls
    OBVIOUS
  <2>4. ks \in Seq(KidTypes) /\ ds \in Seq(Items) /\ Matching(ks, ds, KidPairs)
    BY <1>9, <1>11, <2>3
  <2>5. PICK kids, dls : kids = Append(ks, x) /\ dls = Append(ds, m.dl)
    OBVIOUS
  <2>6. kids \in Seq(KidTypes) /\ dls \in Seq(Items) /\ Matching(kids, dls, KidPairs)
    BY <1>1, <2>1, <2>2, <2>4, <2>5, MatchingGrows
  <2>7. PICK n \in Nat : n = Len(ks) /\ n = Len(ds) /\ DOMAIN ds = 1 .. n
    BY <2>4, LenProperties DEF Matching
  <2>8. /\ DOMAIN dls = 1 .. n + 1 /\ kids[n + 1] = x
        /\ \A k \in 1 .. n : kids[k] = ks[k] /\ dls[k] = ds[k]
    <3>1. /\ dls \in Seq(Items) /\ Len(dls) = Len(ds) + 1 /\ \A k \in 1 .. Len(ds) : dls[k] = ds[k]
      BY <1>1, <2>4, <2>5, AppendProperties
    <3>2. kids[Len(ks) + 1] = x /\ \A k \in 1 .. Len(ks) : kids[k] = ks[k]
      BY <2>1, <2>2, <2>4, <2>5, AppendProperties
    <3>3. DOMAIN dls = 1 .. Len(dls)
      BY <3>1, LenProperties
    <3> QED BY <2>7, <3>1, <3>2, <3>3
  <2>9. ASSUME NEW y, NEW k \in DOMAIN dls, kids[k].sel, dls[k].id = y
        PROVE  KidSelected(row, p, y)
    <3>1. k \in 1 .. n
      BY <2>1, <2>2, <2>7, <2>8, <2>9
    <3> QED BY <2>3, <2>7, <2>8, <2>9, <3>1 DEF KidSelected
  <2>10. PICK new : new = [row EXCEPT !.kids = kids, !.open = TRUE]
    OBVIOUS
  <2>11. /\ new \in RowTypes /\ new.id = row.id /\ new.name = row.name /\ new.key = row.key
         /\ new.sel = row.sel /\ new.kids = kids
    BY <1>9, <1>11, <2>6, <2>10 DEF RowTypes
  <2>12. PICK q : q = [p EXCEPT !.dls = dls]
    OBVIOUS
  <2>13. DownloadMessage(shown, m) = RowReplaced(shown, i, q, new)
    BY <1>11, <2>2, <2>3, <2>5, <2>10, <2>12
  <2> QED BY <1>10, <1>11, <2>6, <2>9, <2>11, <2>12, <2>13
<1>12. CASE /\ i # 0 /\ j # 0
            /\ DownloadMessage(shown, m) =
                 RowReplaced(shown, i, [p EXCEPT !.dls = [@ EXCEPT ![j] = m.dl]],
                             [row EXCEPT !.kids = [@ EXCEPT ![j] = kid]])
  <2>1. PICK ks, ds : ks = row.kids /\ ds = p.dls
    OBVIOUS
  <2>2. ks \in Seq(KidTypes) /\ ds \in Seq(Items) /\ Matching(ks, ds, KidPairs)
    BY <1>9, <1>12, <2>1
  <2>3. j \in DOMAIN ds /\ ds[j].id = m.dl.id
    BY <1>6, <1>12, <2>1, <2>2, PlaceFacts
  <2>4. PICK n \in Nat : n = Len(ks) /\ n = Len(ds) /\ DOMAIN ds = 1 .. n /\ DOMAIN ks = 1 .. n
    BY <2>2, LenProperties DEF Matching
  <2>5. j \in 1 .. Len(ds) /\ <<ks[j], ds[j]>> \in KidPairs
    BY <2>2, <2>3, <2>4 DEF Matching
  <2>6. <<kid, m.dl>> \in KidPairs /\ kid.sel = ks[j].sel /\ kid \in KidTypes
    BY <1>1, <1>7, <2>1, <2>3, <2>5, KidsAreRight, PairsAre
  <2>7. PICK kids, dls : kids = [ks EXCEPT ![j] = kid] /\ dls = [ds EXCEPT ![j] = m.dl]
    OBVIOUS
  <2>8. kids \in Seq(KidTypes) /\ dls \in Seq(Items) /\ Matching(kids, dls, KidPairs)
    <3>1. PICK x \in KidTypes, y \in Items : x = kid /\ y = m.dl /\ <<x, y>> \in KidPairs
      BY <1>1, <2>6
    <3>2. PICK l : l = j /\ l \in 1 .. Len(ds)
      BY <2>5
    <3>3. /\ [ks EXCEPT ![l] = x] \in Seq(KidTypes) /\ [ds EXCEPT ![l] = y] \in Seq(Items)
          /\ Matching([ks EXCEPT ![l] = x], [ds EXCEPT ![l] = y], KidPairs)
      <4>1. PICK S, T, R : S = KidTypes /\ T = Items /\ R = KidPairs
        OBVIOUS
      <4>2. ks \in Seq(S) /\ ds \in Seq(T) /\ Matching(ks, ds, R) /\ x \in S /\ y \in T /\ <<x, y>> \in R
        BY <2>2, <3>1, <4>1
      <4>3. /\ [ks EXCEPT ![l] = x] \in Seq(S) /\ [ds EXCEPT ![l] = y] \in Seq(T)
            /\ Matching([ks EXCEPT ![l] = x], [ds EXCEPT ![l] = y], R)
        BY <3>2, <4>2, MatchingStays
      <4> QED BY <4>1, <4>3
    <3> QED BY <2>7, <3>1, <3>2, <3>3
  <2>9. ASSUME NEW y, NEW k \in DOMAIN dls, kids[k].sel, dls[k].id = y
        PROVE  KidSelected(row, p, y)
    <3>1. k \in DOMAIN ds /\ k \in DOMAIN ks
      BY <2>4, <2>7, <2>9
    <3>2. ks[k].sel /\ ds[k].id = y
      BY <2>3, <2>4, <2>6, <2>7, <2>9, <3>1
    <3> QED BY <2>1, <3>1, <3>2 DEF KidSelected
  <2>10. PICK new : new = [row EXCEPT !.kids = kids]
    OBVIOUS
  <2>11. /\ new \in RowTypes /\ new.id = row.id /\ new.name = row.name /\ new.key = row.key
         /\ new.sel = row.sel /\ new.kids = kids
    BY <1>9, <1>12, <2>8, <2>10 DEF RowTypes
  <2>12. PICK q : q = [p EXCEPT !.dls = dls]
    OBVIOUS
  <2>13. DownloadMessage(shown, m) = RowReplaced(shown, i, q, new)
    BY <1>12, <2>1, <2>7, <2>10, <2>12
  <2> QED BY <1>10, <1>12, <2>8, <2>9, <2>11, <2>12, <2>13
<1>13. CASE /\ i # 0 /\ j # 0
            /\ DownloadMessage(shown, m) =
                 RowReplaced(shown, i, [p EXCEPT !.dls = RemoveAt(@, j)],
                             [row EXCEPT !.kids = RemoveAt(@, j)])
  <2>1. PICK ks, ds : ks = row.kids /\ ds = p.dls
    OBVIOUS
  <2>2. ks \in Seq(KidTypes) /\ ds \in Seq(Items) /\ Matching(ks, ds, KidPairs)
    BY <1>9, <1>13, <2>1
  <2>3. j \in DOMAIN ds
    BY <1>6, <1>13, <2>1, <2>2, PlaceFacts
  <2>4. PICK n \in Nat : n = Len(ks) /\ n = Len(ds) /\ DOMAIN ds = 1 .. n /\ DOMAIN ks = 1 .. n
    BY <2>2, LenProperties DEF Matching
  <2>5. j \in 1 .. Len(ds) /\ j \in DOMAIN ks
    BY <2>3, <2>4
  <2>6. PICK kids, dls : kids = RemoveAt(ks, j) /\ dls = RemoveAt(ds, j)
    OBVIOUS
  <2>7. kids \in Seq(KidTypes) /\ dls \in Seq(Items) /\ Matching(kids, dls, KidPairs)
    BY <2>2, <2>5, <2>6, MatchingShrinks
  <2>8. /\ DOMAIN dls = 1 .. n - 1
        /\ \A k \in 1 .. n - 1 : dls[k] = ds[IF k < j THEN k ELSE k + 1]
        /\ \A k \in 1 .. n - 1 : kids[k] = ks[IF k < j THEN k ELSE k + 1]
    <3>1. Len(dls) = Len(ds) - 1 /\ \A k \in 1 .. Len(ds) - 1 : dls[k] = ds[IF k < j THEN k ELSE k + 1]
      BY <2>2, <2>3, <2>6, RemoveAtFacts
    <3>2. \A k \in 1 .. Len(ks) - 1 : kids[k] = ks[IF k < j THEN k ELSE k + 1]
      BY <2>2, <2>5, <2>6, RemoveAtFacts
    <3>3. DOMAIN dls = 1 .. Len(dls)
      BY <2>7, LenProperties
    <3> QED BY <2>4, <3>1, <3>2, <3>3
  <2>9. ASSUME NEW y, NEW k \in DOMAIN dls, kids[k].sel, dls[k].id = y
        PROVE  KidSelected(row, p, y)
    <3>1. PICK l : l = IF k < j THEN k ELSE k + 1
      OBVIOUS
    <3>2. k \in 1 .. n - 1 /\ l \in 1 .. n
      BY <2>4, <2>5, <2>8, <2>9, <3>1
    <3>3. ks[l].sel /\ ds[l].id = y /\ l \in DOMAIN ds
      BY <2>4, <2>8, <2>9, <3>1, <3>2
    <3> QED BY <2>1, <3>3 DEF KidSelected
  <2>10. PICK new : new = [row EXCEPT !.kids = kids]
    OBVIOUS
  <2>11. /\ new \in RowTypes /\ new.id = row.id /\ new.name = row.name /\ new.key = row.key
         /\ new.sel = row.sel /\ new.kids = kids
    BY <1>9, <1>13, <2>7, <2>10 DEF RowTypes
  <2>12. PICK q : q = [p EXCEPT !.dls = dls]
    OBVIOUS
  <2>13. DownloadMessage(shown, m) = RowReplaced(shown, i, q, new)
    BY <1>13, <2>1, <2>6, <2>10, <2>12
  <2> QED BY <1>10, <1>13, <2>7, <2>9, <2>11, <2>12, <2>13
<1>14. CASE DownloadMessage(shown, m) = shown
  BY <1>14 DEF SelectsNoMore
<1> QED BY <1>8, <1>11, <1>12, <1>13, <1>14

\* A msgs, message after message.
LEMMA BatchIsRight ==
  ASSUME NEW msgs \in Seq(UpdateMessages), ApplyAll(msgs),
         Shows([content |-> content, rows |-> rows])
  PROVE  /\ Shows([content |-> content', rows |-> rows'])
         /\ SelectsNoMore([content |-> content, rows |-> rows],
                          [content |-> content', rows |-> rows'])
<1>1. PICK n \in Nat : n = Len(msgs)
  BY LenProperties
<1>2. \A k \in 1 .. n : msgs[k] \in UpdateMessages
  BY <1>1, LenProperties
<1>3. PICK first : first = [content |-> content, rows |-> rows]
  OBVIOUS
<1> DEFINE From(g, k) == IF k = 0 THEN [content |-> content, rows |-> rows]
                         ELSE Apply(g[k - 1], msgs[k])
           IsShown(g, l) == g = [k \in 0 .. l |-> From(g, k)]
           Counted == {l \in Nat : \E g : IsShown(g, l)}
<1>4. 0 \in Counted
  <2> DEFINE g == [k \in 0 .. 0 |-> [content |-> content, rows |-> rows]]
  <2>1. IsShown(g, 0)
    OBVIOUS
  <2> QED BY <2>1
<1>5. ASSUME NEW l \in Nat, l \in Counted PROVE l + 1 \in Counted
  <2>1. PICK g : IsShown(g, l)
    BY <1>5
  <2> DEFINE h == [k \in 0 .. l + 1 |-> IF k <= l THEN g[k] ELSE From(g, l + 1)]
  <2>2. \A k \in 0 .. l : g[k] = From(g, k)
    BY <2>1
  <2>3. \A k \in 0 .. l + 1 : h[k] = From(h, k)
    BY <2>2
  <2>4. IsShown(h, l + 1)
    BY <2>3
  <2> HIDE DEF h, IsShown
  <2>5. \E f : IsShown(f, l + 1)
    BY <2>4
  <2> QED BY <2>5
<1>6. n \in Counted
  <2> HIDE DEF Counted
  <2> QED BY <1>4, <1>5, NaturalInduction
<1> DEFINE shown == CHOOSE g : IsShown(g, Len(msgs))
<1>7. IsShown(shown, Len(msgs))
  BY <1>1, <1>6
<1>8. content' = shown[Len(msgs)].content /\ rows' = shown[Len(msgs)].rows
  BY DEF ApplyAll
<1> HIDE DEF shown
<1>9. \A k \in 0 .. n : shown[k] = From(shown, k)
  BY <1>1, <1>7
<1>10. /\ shown[0] = first
       /\ \A k \in 1 .. n : shown[k] = Apply(shown[k - 1], msgs[k])
  BY <1>3, <1>9
<1> DEFINE Right == {k \in Nat : k <= n => Shows(shown[k]) /\ SelectsNoMore(first, shown[k])}
<1>11. 0 \in Right
  BY <1>3, <1>10 DEF SelectsNoMore
<1>12. ASSUME NEW k \in Nat, k \in Right PROVE k + 1 \in Right
  <2> SUFFICES ASSUME k + 1 <= n
               PROVE  Shows(shown[k + 1]) /\ SelectsNoMore(first, shown[k + 1])
    OBVIOUS
  <2>1. PICK before, m : before = shown[k] /\ m = msgs[k + 1]
    OBVIOUS
  <2>2. Shows(before) /\ SelectsNoMore(first, before)
    BY <1>12, <2>1
  <2>3. m \in UpdateMessages /\ shown[k + 1] = Apply(before, m)
    BY <1>2, <1>10, <2>1
  <2>4. Shows(Apply(before, m)) /\ SelectsNoMore(before, Apply(before, m))
    <3>1. CASE m.about = "package"
      BY <2>2, <2>3, <3>1, PackageMessages DEF Apply
    <3>2. CASE m.about # "package"
      BY <2>2, <2>3, <3>2, DownloadMessages DEF Apply
    <3> QED BY <3>1, <3>2
  <2> QED BY <2>2, <2>3, <2>4 DEF SelectsNoMore
<1>13. n \in Right
  <2> HIDE DEF Right
  <2> QED BY <1>11, <1>12, NaturalInduction
<1>14. Shows(shown[n]) /\ SelectsNoMore(first, shown[n])
  BY <1>13
<1>15. PICK last : last = shown[n]
  OBVIOUS
<1>16. content' = last.content /\ rows' = last.rows
  BY <1>1, <1>8, <1>15
<1>17. Shows([content |-> content', rows |-> rows'])
  BY <1>14, <1>15, <1>16 DEF Shows
<1>18. SelectsNoMore(first, [content |-> content', rows |-> rows'])
  BY <1>14, <1>15, <1>16 DEF SelectsNoMore, PackageSelected, DownloadSelected
<1> QED BY <1>3, <1>17, <1>18

--------------------------------------------------------------------------------
\* The whole list.
LEMMA ListIsRight ==
  ASSUME NEW new \in Seq(Packages), FullUpdate(new), Shows([content |-> content, rows |-> rows])
  PROVE  Shows([content |-> content', rows |-> rows'])
<1>1. /\ content \in Seq(Packages) /\ rows \in Seq(RowTypes) /\ Matching(rows, content, RowPairs)
  BY DEF Shows
<1>2. PICK n \in Nat : n = Len(new) /\ DOMAIN new = 1 .. n
  BY LenProperties
<1>3. \A i \in 1 .. n : new[i] \in Packages
  BY <1>2, ElementOfSeq
<1>4. \A i \in DOMAIN content : <<rows[i], content[i]>> \in RowPairs
  BY <1>1, LenProperties DEF Matching
<1>5. PICK r : r = rows'
  OBVIOUS
<1>6. /\ content' = new
      /\ r = [i \in 1 .. n |-> IF i \in DOMAIN content
                               THEN ComparedRow(rows[i], content[i], new[i])
                               ELSE WithKids(new[i])]
  BY <1>2, <1>5 DEF FullUpdate
<1>7. ASSUME NEW i \in 1 .. n PROVE <<r[i], new[i]>> \in RowPairs
  <2>1. PICK p \in Packages : p = new[i]
    BY <1>3
  <2>2. CASE i \in DOMAIN content
    <3>1. PICK row, old : row = rows[i] /\ old = content[i]
      OBVIOUS
    <3>2. r[i] = ComparedRow(row, old, p) /\ <<row, old>> \in RowPairs
      BY <1>4, <1>6, <2>1, <2>2, <3>1
    <3> QED BY <2>1, <3>2, RowsAreRight
  <2>3. CASE i \notin DOMAIN content
    <3>1. r[i] = WithKids(p)
      BY <1>6, <2>1, <2>3
    <3> QED BY <2>1, <3>1, RowsAreRight
  <2> QED BY <2>2, <2>3
<1>8. \A i \in 1 .. n : r[i] \in RowTypes
  BY <1>7, PairsAre
<1>9. r \in Seq(RowTypes)
  BY <1>6, <1>8, IsASeq
<1>10. DOMAIN r = 1 .. n
  BY <1>6
<1>11. Len(r) = n
  BY <1>9, <1>10, LenProperties
<1>12. Matching(r, new, RowPairs)
  BY <1>2, <1>7, <1>11 DEF Matching
<1> QED BY <1>5, <1>6, <1>9, <1>12 DEF Shows

\* The user changes how rows look, and not what they say.
LEMMA RowTouched ==
  ASSUME Shows([content |-> content, rows |-> rows]), NEW i \in DOMAIN rows,
         NEW row \in RowTypes, RowShows(row, content[i])
  PROVE  Shows([content |-> content, rows |-> [rows EXCEPT ![i] = row]])
<1>1. /\ content \in Seq(Packages) /\ rows \in Seq(RowTypes) /\ Matching(rows, content, RowPairs)
  BY DEF Shows
<1>2. i \in 1 .. Len(content) /\ DOMAIN content = 1 .. Len(content)
  BY <1>1, LenProperties DEF Matching
<1>3. PICK p \in Packages : p = content[i]
  BY <1>1, <1>2, ElementOfSeq
<1>4. <<row, p>> \in RowPairs
  BY <1>3, PairsAre
<1>5. /\ [rows EXCEPT ![i] = row] \in Seq(RowTypes)
      /\ Matching([rows EXCEPT ![i] = row], [content EXCEPT ![i] = p], RowPairs)
  BY <1>1, <1>2, <1>4, MatchingStays
<1>6. [content EXCEPT ![i] = p] = content
  <2>1. content = [k \in DOMAIN content |-> content[k]]
    BY <1>1
  <2> QED BY <1>2, <1>3, <2>1
<1> QED BY <1>1, <1>5, <1>6 DEF Shows

\* A click on a row selects or opens it and changes nothing it shows.
LEMMA RowsToggled ==
  ASSUME Shows([content |-> content, rows |-> rows]), ToggleRow \/ ToggleOpen
  PROVE  Shows([content |-> content', rows |-> rows'])
<1>1. /\ content \in Seq(Packages) /\ rows \in Seq(RowTypes) /\ Matching(rows, content, RowPairs)
      /\ content' = content
  BY DEF Shows, ToggleRow, ToggleOpen
<1>2. ASSUME NEW i \in DOMAIN rows
      PROVE  /\ rows[i] \in RowTypes /\ RowShows(rows[i], content[i]) /\ content[i] \in Packages
             /\ rows[i].kids \in Seq(KidTypes) /\ content[i].dls \in Seq(Items)
             /\ Matching(rows[i].kids, content[i].dls, KidPairs)
  <2>1. PICK row, p : row = rows[i] /\ p = content[i]
    OBVIOUS
  <2>2. <<row, p>> \in RowPairs
    BY <1>1, <2>1, LenProperties DEF Matching
  <2>3. row \in RowTypes /\ p \in Packages /\ RowShows(row, p)
    BY <2>2, PairsAre
  <2> QED BY <2>1, <2>3 DEF RowTypes, Packages, RowShows
<1>3. ASSUME NEW i \in DOMAIN rows, NEW row, rows' = [rows EXCEPT ![i] = row],
             \/ row = [rows[i] EXCEPT !.sel = ~ rows[i].sel]
             \/ row = [rows[i] EXCEPT !.open = ~ rows[i].open]
      PROVE  Shows([content |-> content', rows |-> rows'])
  <2>1. PICK a, b \in BOOLEAN : a = ~ rows[i].sel /\ b = ~ rows[i].open
    OBVIOUS
  <2>2. row = [rows[i] EXCEPT !.sel = a] \/ row = [rows[i] EXCEPT !.open = b]
    BY <1>3, <2>1
  <2>3. /\ row \in RowTypes /\ row.id = rows[i].id /\ row.name = rows[i].name
        /\ row.key = rows[i].key /\ row.kids = rows[i].kids
    BY <1>2, <2>2 DEF RowTypes
  <2>4. RowShows(row, content[i])
    BY <1>2, <2>3 DEF RowShows
  <2> QED BY <1>1, <1>3, <2>3, <2>4, RowTouched
<1>4. ASSUME NEW i \in DOMAIN rows, NEW j \in DOMAIN rows[i].kids,
             rows' = [rows EXCEPT ![i].kids[j].sel = ~@]
      PROVE  Shows([content |-> content', rows |-> rows'])
  <2>1. PICK ks, ds, kid, d : /\ ks = rows[i].kids /\ ds = content[i].dls
                              /\ kid = ks[j] /\ d = ds[j]
    OBVIOUS
  <2>2. ks \in Seq(KidTypes) /\ ds \in Seq(Items) /\ Matching(ks, ds, KidPairs)
    BY <1>2, <2>1
  <2>3. j \in 1 .. Len(ks) /\ j \in 1 .. Len(ds) /\ DOMAIN ds = 1 .. Len(ds)
    BY <1>4, <2>1, <2>2, LenProperties DEF Matching
  <2>4. <<kid, d>> \in KidPairs
    BY <2>1, <2>2, <2>3 DEF Matching
  <2>5. kid \in KidTypes /\ d \in Items /\ KidShows(kid, d)
    BY <2>4, PairsAre
  <2>6. PICK a \in BOOLEAN : a = ~ kid.sel
    OBVIOUS
  <2>7. PICK new : new = [kid EXCEPT !.sel = a]
    OBVIOUS
  <2>8. new \in KidTypes /\ KidShows(new, d)
    <3>1. PICK I, L, C : KidTypes = [id : I, title : L, cell : C, sel : BOOLEAN]
      BY DEF KidTypes
    <3>2. new \in KidTypes /\ new.id = kid.id /\ new.title = kid.title /\ new.cell = kid.cell
      BY <2>5, <2>6, <2>7, <3>1
    <3> QED BY <2>5, <3>2 DEF KidShows
  <2>9. <<new, d>> \in KidPairs
    BY <2>5, <2>8, PairsAre
  <2>10. /\ [ks EXCEPT ![j] = new] \in Seq(KidTypes)
         /\ Matching([ks EXCEPT ![j] = new], [ds EXCEPT ![j] = d], KidPairs)
    BY <2>2, <2>3, <2>5, <2>8, <2>9, MatchingStays
  <2>11. [ds EXCEPT ![j] = d] = ds
    <3>1. ds = [k \in DOMAIN ds |-> ds[k]]
      BY <2>2
    <3> QED BY <2>1, <2>3, <3>1
  <2>12. PICK row : row = [rows[i] EXCEPT !.kids = [ks EXCEPT ![j] = new]]
    OBVIOUS
  <2>13. /\ row \in RowTypes /\ row.id = rows[i].id /\ row.name = rows[i].name
         /\ row.key = rows[i].key /\ row.kids = [ks EXCEPT ![j] = new]
    BY <1>2, <2>10, <2>12 DEF RowTypes
  <2>14. RowShows(row, content[i])
    BY <1>2, <2>1, <2>10, <2>11, <2>13 DEF RowShows
  <2>15. rows' = [rows EXCEPT ![i] = row]
    BY <1>4, <2>1, <2>6, <2>7, <2>12
  <2> QED BY <1>1, <2>13, <2>14, <2>15, RowTouched
<1> QED BY <1>3, <1>4 DEF ToggleRow, ToggleOpen

\* Nor does a click that selects all rows, or none.
LEMMA RowsMarked ==
  ASSUME Shows([content |-> content, rows |-> rows]), SelectList \/ DeselectList
  PROVE  Shows([content |-> content', rows |-> rows'])
<1>1. /\ content \in Seq(Packages) /\ rows \in Seq(RowTypes) /\ Matching(rows, content, RowPairs)
      /\ content' = content
  BY DEF Shows, SelectList, DeselectList
<1>2. PICK selected \in BOOLEAN, open \in BOOLEAN : Mark(selected, open)
  BY DEF SelectList, DeselectList
<1>3. PICK n \in Nat : n = Len(rows) /\ n = Len(content) /\ DOMAIN rows = 1 .. n
  BY <1>1, LenProperties DEF Matching
<1>4. PICK r : r = rows'
  OBVIOUS
<1>5. r = [i \in DOMAIN rows |->
             [rows[i] EXCEPT !.sel = selected, !.open = @ \/ open,
                             !.kids = [j \in DOMAIN @ |-> [@[j] EXCEPT !.sel = selected]]]]
  BY <1>2, <1>4, Zenon DEF Mark
<1>6. ASSUME NEW i \in 1 .. n PROVE <<r[i], content[i]>> \in RowPairs
  <2>1. PICK row, p : row = rows[i] /\ p = content[i]
    OBVIOUS
  <2>2. <<row, p>> \in RowPairs
    BY <1>1, <1>3, <2>1 DEF Matching
  <2>3. row \in RowTypes /\ p \in Packages /\ RowShows(row, p)
    BY <2>2, PairsAre
  <2>4. PICK ks, ds : ks = row.kids /\ ds = p.dls
    OBVIOUS
  <2>5. ks \in Seq(KidTypes) /\ ds \in Seq(Items) /\ Matching(ks, ds, KidPairs) /\ row.open \in BOOLEAN
    BY <2>3, <2>4 DEF RowTypes, Packages, RowShows
  <2>6. PICK l \in Nat : l = Len(ks) /\ l = Len(ds) /\ DOMAIN ks = 1 .. l
    BY <2>5, LenProperties DEF Matching
  <2>7. PICK kids : kids = [j \in 1 .. l |-> [ks[j] EXCEPT !.sel = selected]]
    OBVIOUS
  <2>8. ASSUME NEW j \in 1 .. l PROVE <<kids[j], ds[j]>> \in KidPairs
    <3>1. PICK kid, d : kid = ks[j] /\ d = ds[j]
      OBVIOUS
    <3>2. <<kid, d>> \in KidPairs
      BY <2>5, <2>6, <3>1 DEF Matching
    <3>3. kid \in KidTypes /\ d \in Items /\ KidShows(kid, d)
      BY <3>2, PairsAre
    <3>4. PICK I, L, C : KidTypes = [id : I, title : L, cell : C, sel : BOOLEAN]
      BY DEF KidTypes
    <3>5. PICK new : new = [kid EXCEPT !.sel = selected]
      OBVIOUS
    <3>6. new \in KidTypes /\ new.id = kid.id /\ new.title = kid.title /\ new.cell = kid.cell
      BY <3>3, <3>4, <3>5
    <3>7. <<new, d>> \in KidPairs
      BY <3>3, <3>6, PairsAre DEF KidShows
    <3> QED BY <2>7, <3>1, <3>5, <3>7
  <2>9. \A j \in 1 .. l : kids[j] \in KidTypes
    BY <2>8, PairsAre
  <2>10. kids \in Seq(KidTypes)
    BY <2>7, <2>9, IsASeq
  <2>11. DOMAIN kids = 1 .. l
    BY <2>7
  <2>12. Len(kids) = l
    BY <2>10, <2>11, LenProperties
  <2>13. Matching(kids, ds, KidPairs)
    BY <2>6, <2>8, <2>12 DEF Matching
  <2>14. PICK o \in BOOLEAN : o = (row.open \/ open)
    <3>1. (row.open \/ open) \in BOOLEAN
      OBVIOUS
    <3> QED BY <3>1
  <2>15. PICK new : new = [row EXCEPT !.sel = selected, !.open = o, !.kids = kids]
    OBVIOUS
  <2>16. r[i] = new
    <3>1. r[i] = [row EXCEPT !.sel = selected, !.open = @ \/ open,
                             !.kids = [j \in DOMAIN @ |-> [@[j] EXCEPT !.sel = selected]]]
      BY <1>3, <1>5, <2>1
    <3>2. [j \in DOMAIN row.kids |-> [row.kids[j] EXCEPT !.sel = selected]] = kids
      BY <2>4, <2>6, <2>7
    <3> QED BY <2>14, <2>15, <3>1, <3>2, Zenon
  <2>17. new \in RowTypes /\ new.id = row.id /\ new.name = row.name /\ new.key = row.key /\ new.kids = kids
    BY <2>3, <2>10, <2>14, <2>15 DEF RowTypes
  <2>18. RowShows(new, p)
    BY <2>3, <2>4, <2>13, <2>17 DEF RowShows
  <2> QED BY <2>1, <2>3, <2>16, <2>17, <2>18, PairsAre
<1>7. \A i \in 1 .. n : r[i] \in RowTypes
  BY <1>6, PairsAre
<1>8. DOMAIN r = 1 .. n
  BY <1>3, <1>5
<1>9. r = [i \in 1 .. n |-> r[i]]
  BY <1>3, <1>5
<1>10. r \in Seq(RowTypes)
  BY <1>7, <1>9, IsASeq
<1>11. Len(r) = n
  BY <1>8, <1>10, LenProperties
<1>12. Matching(r, content, RowPairs)
  BY <1>6, <1>11, <1>3 DEF Matching
<1> QED BY <1>1, <1>4, <1>10, <1>12 DEF Shows

--------------------------------------------------------------------------------
RowsInv == Shows([content |-> content, rows |-> rows])

\* Rows and content agree in all that happens to the list.
LEMMA RowsInvariant == RowsSpec => []RowsInv
<1>1. RowsInit => RowsInv
  <2>1. <<>> \in Seq(Packages) /\ <<>> \in Seq(RowTypes) /\ Len(<<>>) = 0
    OBVIOUS
  <2> QED BY <2>1 DEF RowsInit, RowsInv, Shows, Matching
<1>2. RowsInv /\ [RowsNext]_rowVars => RowsInv'
  <2> SUFFICES ASSUME Shows([content |-> content, rows |-> rows]), [RowsNext]_rowVars
               PROVE  Shows([content |-> content', rows |-> rows'])
    BY DEF RowsInv
  <2>1. CASE ClearList
    <3>1. <<>> \in Seq(Packages) /\ <<>> \in Seq(RowTypes) /\ Len(<<>>) = 0
      OBVIOUS
    <3> QED BY <2>1, <3>1 DEF ClearList, Shows, Matching
  <2>2. CASE UpdateFullList
    BY <2>2, RowsAssumption, ListIsRight DEF UpdateFullList
  <2>3. CASE UpdateWithSubscriptions
    <3>1. PICK msgs \in Updates : UpdateFullList \/ ApplyAll(msgs)
      BY <2>3 DEF UpdateWithSubscriptions
    <3>2. msgs \in Seq(UpdateMessages)
      BY RowsAssumption
    <3> QED BY <2>2, <3>1, <3>2, BatchIsRight
  <2>4. CASE ToggleRow \/ ToggleOpen
    BY <2>4, RowsToggled
  <2>5. CASE SelectList \/ DeselectList
    BY <2>5, RowsMarked
  <2>6. CASE UNCHANGED rowVars
    BY <2>6 DEF rowVars
  <2> QED BY <2>1, <2>2, <2>3, <2>4, <2>5, <2>6 DEF RowsNext
<1> QED BY <1>1, <1>2, PTL DEF RowsSpec

\* Whatever is listed, told, clicked on or selected: the tree says what one built
\* anew from the list would say (list_handling writes single cells only).
THEOREM RowsAreTheContent == RowsSpec => []RowsShowContent
<1>1. RowsInv => RowsShowContent
  <2> SUFFICES ASSUME RowsInv PROVE RowsShowContent
    OBVIOUS
  <2>1. /\ content \in Seq(Packages) /\ rows \in Seq(RowTypes) /\ Matching(rows, content, RowPairs)
    BY DEF RowsInv, Shows
  <2>2. DOMAIN rows = 1 .. Len(rows) /\ DOMAIN content = DOMAIN rows
    BY <2>1, LenProperties DEF Matching
  <2>3. ASSUME NEW i \in DOMAIN rows PROVE Text(rows[i]) = Text(WithKids(content[i]))
    <3>1. PICK row, p : row = rows[i] /\ p = content[i]
      OBVIOUS
    <3>2. <<row, p>> \in RowPairs
      BY <2>1, <2>2, <3>1 DEF Matching
    <3>3. row \in RowTypes /\ p \in Packages /\ RowShows(row, p)
      BY <3>2, PairsAre
    <3>4. PICK new : new = WithKids(p)
      OBVIOUS
    <3>5. new \in RowTypes /\ RowShows(new, p)
      BY <3>3, <3>4, RowsAreRight, PairsAre
    <3>6. PICK n \in Nat : n = Len(p.dls) /\ DOMAIN row.kids = 1 .. n /\ DOMAIN new.kids = 1 .. n
                           /\ Len(row.kids) = n /\ Len(new.kids) = n
      <4>1. row.kids \in Seq(KidTypes) /\ new.kids \in Seq(KidTypes) /\ p.dls \in Seq(Items)
        BY <3>3, <3>5 DEF RowTypes, Packages
      <4>2. Len(row.kids) = Len(p.dls) /\ Len(new.kids) = Len(p.dls)
        BY <3>3, <3>5 DEF RowShows, Matching
      <4> QED BY <4>1, <4>2, LenProperties
    <3>7. ASSUME NEW j \in 1 .. n
          PROVE  row.kids[j].id = new.kids[j].id /\ row.kids[j].title = new.kids[j].title
                 /\ row.kids[j].cell = new.kids[j].cell
      <4>1. PICK a, b, d : a = row.kids[j] /\ b = new.kids[j] /\ d = p.dls[j]
        OBVIOUS
      <4>2. <<a, d>> \in KidPairs /\ <<b, d>> \in KidPairs
        BY <3>3, <3>5, <3>6, <4>1 DEF RowShows, Matching
      <4>3. KidShows(a, d) /\ KidShows(b, d)
        BY <4>2, PairsAre
      <4> QED BY <4>1, <4>3 DEF KidShows
    <3>8. [j \in DOMAIN row.kids |-> [id |-> row.kids[j].id, title |-> row.kids[j].title, cell |-> row.kids[j].cell]]
          = [j \in DOMAIN new.kids |-> [id |-> new.kids[j].id, title |-> new.kids[j].title, cell |-> new.kids[j].cell]]
      BY <3>6, <3>7
    <3>9. row.id = new.id /\ row.name = new.name /\ row.key = new.key
      BY <3>3, <3>5 DEF RowShows
    <3> QED BY <3>1, <3>4, <3>8, <3>9 DEF Text
  <2> QED BY <2>2, <2>3 DEF RowsShowContent
<1> QED BY <1>1, RowsInvariant, PTL

\* No update selects a row that the user has not selected: the next command is
\* for no other download.
THEOREM SelectionIsKept == RowsSpec => SelectionIsTheUsers
<1> DEFINE SelectsNothing == /\ SelectedPackages' \subseteq SelectedPackages
                             /\ SelectedDownloads' \subseteq SelectedDownloads
<1>1. /\ \A x : x \in SelectedPackages <=> PackageSelected([content |-> content, rows |-> rows], x)
      /\ \A x : x \in SelectedDownloads <=> DownloadSelected([content |-> content, rows |-> rows], x)
  BY DEF SelectedPackages, SelectedDownloads, PackageSelected, DownloadSelected, KidSelected
<1>2. /\ \A x : x \in SelectedPackages' <=> PackageSelected([content |-> content', rows |-> rows'], x)
      /\ \A x : x \in SelectedDownloads' <=> DownloadSelected([content |-> content', rows |-> rows'], x)
  BY DEF SelectedPackages, SelectedDownloads, PackageSelected, DownloadSelected, KidSelected
<1>3. RowsInv /\ [RowsNext]_rowVars => (content' # content => SelectsNothing)
  <2> SUFFICES ASSUME RowsInv, [RowsNext]_rowVars, content' # content PROVE SelectsNothing
    OBVIOUS
  <2>1. CASE ClearList
    <3>1. content' = <<>> /\ DOMAIN <<>> = {}
      BY <2>1 DEF ClearList
    <3>2. \A x : ~ PackageSelected([content |-> content', rows |-> rows'], x)
                 /\ ~ DownloadSelected([content |-> content', rows |-> rows'], x)
      BY <3>1 DEF PackageSelected, DownloadSelected
    <3> QED BY <1>2, <3>2
  <2>2. CASE UpdateFullList
    <3>1. PICK new \in Seq(Packages) : FullUpdate(new)
      BY <2>2, RowsAssumption DEF UpdateFullList
    <3>2. PICK r : r = rows'
      OBVIOUS
    <3>3. /\ content' = new
          /\ r = [i \in DOMAIN new |-> IF i \in DOMAIN content
                                       THEN ComparedRow(rows[i], content[i], new[i])
                                       ELSE WithKids(new[i])]
      BY <3>1, <3>2 DEF FullUpdate
    <3>4. ASSUME NEW i \in DOMAIN new
          PROVE  /\ r[i].sel => new[i].id \in SelectedPackages
                 /\ \A j \in DOMAIN new[i].dls : r[i].kids[j].sel => new[i].dls[j].id \in SelectedDownloads
      <4>1. PICK p, row, old : p = new[i] /\ row = rows[i] /\ old = content[i]
        OBVIOUS
      <4>2. p \in Packages
        BY <3>1, <4>1, LenProperties, ElementOfSeq
      <4>3. CASE i \in DOMAIN content
        <5>1. r[i] = ComparedRow(row, old, p)
          BY <3>3, <4>1, <4>3
        <5>2. r[i].sel = (p.id \in SelectedPackages) /\ r[i].kids = ComparedKids(row.kids, old.dls, p.dls)
          BY <5>1 DEF ComparedRow
        <5>3. ASSUME NEW j \in DOMAIN p.dls, r[i].kids[j].sel PROVE p.dls[j].id \in SelectedDownloads
          <6>1. PICK kid, a, b : kid = row.kids[j] /\ a = old.dls[j] /\ b = p.dls[j]
            OBVIOUS
          <6>2. r[i].kids[j] = IF j \in DOMAIN old.dls THEN ComparedKid(kid, a, b) ELSE NewKid(b)
            BY <5>2, <6>1 DEF ComparedKids
          <6>3. ComparedKid(kid, a, b).sel = (b.id \in SelectedDownloads) /\ NewKid(b).sel = FALSE
            BY DEF ComparedKid, NewKid
          <6> QED BY <5>3, <6>1, <6>2, <6>3
        <5> QED BY <4>1, <5>2, <5>3
      <4>4. CASE i \notin DOMAIN content
        <5>1. r[i] = WithKids(p)
          BY <3>3, <4>1, <4>4
        <5>2. r[i].sel = FALSE /\ \A j \in DOMAIN p.dls : r[i].kids[j].sel = FALSE
          BY <4>2, <5>1, RowsAreRight
        <5> QED BY <4>1, <5>2
      <4> QED BY <4>3, <4>4
    <3>5. ASSUME NEW x, PackageSelected([content |-> content', rows |-> rows'], x) PROVE x \in SelectedPackages
      <4>1. PICK i \in DOMAIN new : r[i].sel /\ new[i].id = x
        BY <3>2, <3>3, <3>5 DEF PackageSelected
      <4> QED BY <3>4, <4>1
    <3>6. ASSUME NEW x, DownloadSelected([content |-> content', rows |-> rows'], x) PROVE x \in SelectedDownloads
      <4>1. PICK i \in DOMAIN new : KidSelected(r[i], new[i], x)
        BY <3>2, <3>3, <3>6 DEF DownloadSelected
      <4>2. PICK j \in DOMAIN new[i].dls : r[i].kids[j].sel /\ new[i].dls[j].id = x
        BY <4>1 DEF KidSelected
      <4> QED BY <3>4, <4>2
    <3> QED BY <1>2, <3>5, <3>6
  <2>3. CASE UpdateWithSubscriptions
    <3>1. PICK msgs \in Updates : UpdateFullList \/ ApplyAll(msgs)
      BY <2>3 DEF UpdateWithSubscriptions
    <3>2. msgs \in Seq(UpdateMessages)
      BY RowsAssumption
    <3>3. CASE ApplyAll(msgs)
      <4>1. SelectsNoMore([content |-> content, rows |-> rows], [content |-> content', rows |-> rows'])
        BY <3>2, <3>3, BatchIsRight DEF RowsInv
      <4> QED BY <1>1, <1>2, <4>1 DEF SelectsNoMore
    <3> QED BY <2>2, <3>1, <3>3
  <2>4. CASE ToggleRow \/ ToggleOpen \/ SelectList \/ DeselectList \/ UNCHANGED rowVars
    BY <2>4 DEF ToggleRow, ToggleOpen, SelectList, DeselectList, rowVars
  <2> QED BY <2>1, <2>2, <2>3, <2>4 DEF RowsNext
<1>4. RowsInv /\ [RowsNext]_rowVars => [content' # content => SelectsNothing]_rowVars
  BY <1>3
<1> QED BY <1>4, RowsInvariant, PTL DEF RowsSpec, SelectionIsTheUsers
================================================================================
