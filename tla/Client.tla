------------------------------- MODULE Client -------------------------------
(* The graphical client: its two threads, the library downloadc they share, *)
(* and the connection to the program's handler (mgmt_thread.cpp), which     *)
(* sends answers and the messages the client subscribed to over one socket. *)
(* The list is one package; a download is its id and whether it is active.  *)
EXTENDS Integers, Sequences, SequencesExt, SubSequences

CONSTANTS Gui,          \* the thread of the windows
          Updater,      \* update_thread
          NoThread,     \* nobody holds a mutex
          NoRequest,    \* nothing to serve
          NoAnswer,     \* what recv yields when the connection is gone
          InitialList,  \* the list when the client connects
          MaxId,        \* bound: ids are 0..MaxId
          MaxChanges,   \* bound: changes made by others than this client
          MaxSlots,     \* bound: slots the user sets off
          MaxBreaks,    \* bound: times the connection is lost
          MaxEvents     \* bound: reloads waiting before one more is prepared

ASSUME ThreadAssumption == Gui # Updater /\ NoThread \notin {Gui, Updater}
ASSUME ListAssumption ==
  /\ InitialList \in Seq([id : 0..MaxId, on : BOOLEAN])
  /\ \A i, j \in DOMAIN InitialList :
       InitialList[i].id = InitialList[j].id => i = j
ASSUME BoundAssumption == MaxId \in Nat
\* NoAnswer is told from every list.
ASSUME AnswerAssumption == NoAnswer \notin Seq([id : 0..MaxId, on : BOOLEAN])

VARIABLES
  list, doomed,          \* the program's downloads, and ids not yet purged
  reordered,             \* auxiliary: an id was given again too early
  up, subscribed,        \* the connection; the handler's client::subscriptions
  doubled,               \* auxiliary: a command was answered twice on it
  queue,                 \* client::subs_messages of the handler
  request, channel,      \* the socket, in the two directions
  mx, sent, todo, got,   \* downloadc: the mutex, and the call of its owner
  stash,                 \* downloadc::old_updates
  term,                  \* downloadc::term
  lmx, view, newContent, newUpdates, required,   \* list_handling
  batch,                 \* tmp_updates of prepare_subscription_update
  events,                \* reloads queued for the window's thread
  updating, stop, told,  \* update_thread::update, term and told
  enabled,               \* update_thread::subscription_enabled
  at, slot,              \* where the threads are; what the slot is about
  missed,                \* auxiliary: something is known not to be shown
  changes, slots, breaks \* counters of the bounds

daemonVars == <<list, doomed, reordered>>
socketVars == <<up, subscribed, doubled, queue, request, channel>>
callVars == <<mx, sent, todo, got, stash>>
listVars == <<lmx, view, newContent, newUpdates, required, events>>
threadVars == <<batch, updating, stop, told, enabled, term, at, slot>>
boundVars == <<changes, slots, breaks>>
vars == <<daemonVars, socketVars, callVars, listVars, threadVars, missed,
          boundVars>>

Threads == {Gui, Updater}
Directions == {"UP", "DOWN", "TOP", "BOTTOM"}

-----------------------------------------------------------------------------
(* Lists.                                                                   *)

Ids(l) == {l[i].id : i \in DOMAIN l}
Entry(id, on) == [id |-> id, on |-> on]
Removed(l, id) == Kept(l, [id : (0..MaxId) \ {id}, on : BOOLEAN])
Switched(l, id, on) == [i \in DOMAIN l |-> IF l[i].id = id THEN Entry(id, on)
                                           ELSE l[i]]
Moved(l, id, direction) ==
  LET i == CHOOSE k \in DOMAIN l : l[k].id = id
      others == RemoveAt(l, i)
      place == [UP |-> i - 1, DOWN |-> i + 1, TOP |-> 1, BOTTOM |-> Len(l)]
  IN  InsertAt(others, place[direction], l[i])
CanMove(l, id, direction) ==
  id \in Ids(IF direction \in {"UP", "TOP"} THEN Tail(l) ELSE Front(l))

\* A message of SUBS_DOWNLOADS.
Message(kind, id, on) == [kind |-> kind, id |-> id, on |-> on]
MessageKinds == {"NEW", "UPDATE", "DELETE"} \cup Directions
Messages == [kind : MessageKinds, id : 0..MaxId, on : BOOLEAN]

-----------------------------------------------------------------------------
(* The program: what changes its list, and the handler of this client.      *)

\* push_message: only who has subscribed by now is told.
Post(m) == /\ queue' = IF subscribed THEN Append(queue, m) ELSE queue
           /\ missed' = (missed \/ ~subscribed)

\* package_container::get_next_download_id; ids are used again.
NextId == 1 + CHOOSE m \in Ids(list) \cup doomed \cup {-1} :
                \A k \in Ids(list) \cup doomed : k <= m

UnderWay == queue \o channel \o stash \o batch \o newUpdates
AddDownload == /\ NextId <= MaxId
               /\ list' = Append(list, Entry(NextId, TRUE))
               /\ reordered' = (reordered \/ \E i \in DOMAIN UnderWay :
                                  /\ UnderWay[i].kind = "DELETE"
                                  /\ UnderWay[i].id = NextId)
               /\ Post(Message("NEW", NextId, TRUE))
               /\ UNCHANGED doomed
\* A deleted download is announced when it is destroyed (PurgeDownload).
DeleteDownload(id) == /\ id \in Ids(list)
                      /\ list' = Removed(list, id)
                      /\ doomed' = doomed \cup {id}
                      /\ UNCHANGED <<queue, missed, reordered>>
SwitchDownload(id, on) == /\ Entry(id, ~on) \in {list[i] : i \in DOMAIN list}
                          /\ list' = Switched(list, id, on)
                          /\ Post(Message("UPDATE", id, on))
                          /\ UNCHANGED <<doomed, reordered>>
MoveDownload(id, direction) == /\ list # <<>>
                               /\ CanMove(list, id, direction)
                               /\ list' = Moved(list, id, direction)
                               /\ Post(Message(direction, id, TRUE))
                               /\ UNCHANGED <<doomed, reordered>>

\* Other clients, and the program itself.
Elsewhere == /\ changes < MaxChanges
             /\ changes' = changes + 1
             /\ \/ AddDownload
                \/ \E id \in Ids(list) :
                     \/ DeleteDownload(id)
                     \/ \E on \in BOOLEAN : SwitchDownload(id, on)
                     \/ \E d \in Directions : MoveDownload(id, d)
             /\ UNCHANGED <<up, doubled, subscribed, request, channel, callVars,
                            listVars, threadVars, slots, breaks>>

\* download::~download.
PurgeDownload == \E id \in doomed :
                   /\ doomed' = doomed \ {id}
                   /\ Post(Message("DELETE", id, TRUE))
                   /\ UNCHANGED <<list, reordered, up, doubled, subscribed, request, channel,
                                  callVars, listVars, threadVars, boundVars>>

\* connection_handler between two commands.
SendMessage == /\ queue # <<>>
               /\ queue' = Tail(queue)
               /\ channel' = Append(channel, Head(queue))
               /\ UNCHANGED <<daemonVars, up, doubled, subscribed, request, callVars,
                              listVars, threadVars, missed, boundVars>>

Answer(command, value) ==
  [kind |-> "ANSWER", command |-> command, value |-> value]
IsAnswer(m) == m.kind = "ANSWER"

\* What the handler sends back. A captcha that a download waits for is answered
\* twice: target_captcha_request sends the image and then the empty message.
AnswersTo(r) ==
  CASE r.command = "LIST" -> {<<Answer("LIST", list)>>}
    [] r.command \in {"ASK", "PATH", "EXISTS"} ->
         {<<Answer(r.command, value)>> : value \in {"there", "none"}}
    [] r.command = "CAPTCHA" ->
         {<<Answer("CAPTCHA", "none")>>,
          <<Answer("CAPTCHA", "image"), Answer("CAPTCHA", "none")>>}
    [] OTHER -> {<<Answer(r.command, "done")>>}

\* What a command does to the list; it may be refused.
CarryOut(r) ==
  LET Changes == \/ r.command = "ADD" /\ AddDownload
                 \/ r.command = "DEL" /\ DeleteDownload(r.id)
                 \/ r.command = "ON" /\ SwitchDownload(r.id, TRUE)
                 \/ r.command = "OFF" /\ SwitchDownload(r.id, FALSE)
                 \/ r.command \in Directions /\ MoveDownload(r.id, r.command)
      Applies == \/ r.command = "ADD" /\ NextId <= MaxId
                 \/ r.command = "DEL" /\ r.id \in Ids(list)
                 \/ \E i \in DOMAIN list :
                      list[i] = Entry(r.id, r.command = "OFF")
                      /\ r.command \in {"ON", "OFF"}
                 \/ /\ list # <<>> /\ r.command \in Directions
                    /\ CanMove(list, r.id, r.command)
  IN  \/ Changes
      \/ ~Applies /\ UNCHANGED <<daemonVars, queue, missed>>

\* One command of connection_handler.
Serve == /\ request # NoRequest
         /\ CarryOut(request)
         /\ subscribed' = (subscribed \/ request.command = "SUBSCRIBE")
         /\ \E a \in AnswersTo(request) :
              /\ channel' = channel \o a
              /\ doubled' = (doubled \/ Len(a) > 1)
         /\ request' = NoRequest
         /\ UNCHANGED <<up, callVars, listVars, threadVars, boundVars>>

\* The connection is lost, possibly with what is under way to the client.
Break == /\ up
         /\ breaks < MaxBreaks
         /\ breaks' = breaks + 1
         /\ up' = FALSE
         /\ subscribed' = FALSE
         /\ queue' = <<>>
         /\ request' = NoRequest
         /\ channel' \in {channel, <<>>}
         /\ missed' = TRUE
         /\ UNCHANGED <<daemonVars, doubled, callVars, listVars, threadVars,
                        changes, slots>>

-----------------------------------------------------------------------------
(* downloadc: every command holds mx from its check_connection to its last  *)
(* answer. Subscribed messages it meets on the way are kept in old_updates. *)

\* check_connection: "hello" is answered behind all that was sent before. If
\* an answer is there already, it is taken for the one to the greeting.
Hello ==
  LET early == {i \in DOMAIN channel : IsAnswer(channel[i])}
      first == CHOOSE i \in early : \A j \in early : i <= j
  IN  IF up /\ early # {}
      THEN /\ stash' = stash \o SubSeq(channel, 1, first - 1)
           /\ channel' = Append(SubSeq(channel, first + 1, Len(channel)),
                                Answer("HELLO", "done"))
      ELSE /\ stash' = stash \o Kept(channel, Messages)
           /\ channel' = <<>>

Request(command, id) == [command |-> command, id |-> id]
NoId == -1

\* The requests that each member function of downloadc sends.
GetList == <<Request("LIST", NoId)>>
AddSubscription == <<Request("SUBSCRIBE", NoId)>>
AddPackage == <<Request("PACKAGE", NoId)>>
AddDownloadTo == <<Request("EXISTS", NoId), Request("PACKAGE", NoId),
                   Request("ADD", NoId)>>
DeleteIfNoFile(id) == <<Request("ASK", id), Request("DEL", id)>>
DeleteWithFile(id) == <<Request("PATH", id), Request("OFF", id),
                        Request("FILE", id), Request("DEL", id)>>
DeleteButFile(id) == <<Request("PATH", id), Request("DEL", id)>>
DeleteFile(id) == <<Request("PATH", id), Request("OFF", id), Request("FILE", id)>>
ActivateDownload(id) == <<Request("ON", id)>>
DeactivateDownload(id) == <<Request("OFF", id)>>
PriorityUp(id) == <<Request("UP", id)>>
PriorityDown(id) == <<Request("DOWN", id)>>
PriorityTop(id) == <<Request("TOP", id)>>
PriorityBottom(id) == <<Request("BOTTOM", id)>>
SetDownloadVar(id) == <<Request("SET", id)>>
SetVar == <<Request("SET", NoId)>>
GetVar == <<Request("GET", NoId)>>
GetVarList == <<Request("GET", NoId)>>
GetPackages == <<Request("PACKAGES", NoId)>>
GetPackageVar == <<Request("GET", NoId)>>
SetPackageVar == <<Request("SET", NoId)>>
PkgContainer == <<Request("CONTAINER", NoId)>>
GetCaptcha(id) == <<Request("CAPTCHA", id)>>
CaptchaResolve(id) == <<Request("SOLVE", id)>>

\* What a call still has to send. Whether the file of a download is there makes
\* delete_download ask the user first (exception 7), or leave out the file;
\* add_download makes a package only if there is none.
AfterAnswer(requests, value) ==
  LET command == Head(requests).command
      rest == Tail(requests)
  IN  CASE command = "ASK" /\ value = "there" -> <<>>
        [] command = "PATH" /\ value # "there" ->
             IF Last(requests).command = "DEL" THEN <<Last(requests)>> ELSE <<>>
        [] command = "EXISTS" /\ value = "there" -> Tail(rest)
        [] OTHER -> rest

\* A call begins: the connection stands, and mx is free.
Begin(t, requests) == /\ mx = NoThread
                      /\ up
                      /\ Hello
                      /\ mx' = t
                      /\ todo' = requests
                      /\ request' = Head(requests)
                      /\ sent' = TRUE
                      /\ UNCHANGED got
\* check_connection throws.
Refused == /\ mx = NoThread
           /\ ~up
           /\ Hello
           /\ UNCHANGED <<mx, todo, request, sent, got>>

\* The next request of the same call.
SendNext(t) == /\ mx = t /\ ~sent
               /\ sent' = TRUE
               /\ request' = IF up THEN Head(todo) ELSE NoRequest
               /\ UNCHANGED <<daemonVars, up, doubled, subscribed, queue, channel, mx,
                              todo, got, stash, listVars, threadVars, missed,
                              boundVars>>

\* Fault: whatever comes is the answer.
ReceiveAnything(t) ==
  /\ mx = t /\ sent
  /\ channel # <<>>
  /\ channel' = Tail(channel)
  /\ LET m == Head(channel)
         value == IF IsAnswer(m) THEN m.value ELSE "done"
         rest == AfterAnswer(todo, value)
     IN  /\ got' = [got EXCEPT ![t] = [sent |-> Head(todo).command,
                     command |-> m.kind, value |-> value, doubted |-> doubled]]
         /\ todo' = rest
         /\ sent' = FALSE
         /\ mx' = IF rest = <<>> THEN NoThread ELSE t
  /\ UNCHANGED <<daemonVars, up, doubled, subscribed, queue, request, stash,
                 listVars, threadVars, missed, boundVars>>

\* check_correct_answer: a message is put aside, anything else is the answer.
Receive(t) ==
  /\ mx = t /\ sent
  /\ channel # <<>>
  /\ channel' = Tail(channel)
  /\ LET m == Head(channel)
         rest == AfterAnswer(todo, m.value)
     IN  IF ~IsAnswer(m)
         THEN stash' = Append(stash, m) /\ UNCHANGED <<mx, sent, todo, got>>
         ELSE /\ got' = [got EXCEPT ![t] =
                  [sent |-> Head(todo).command, command |-> m.command,
                   value |-> m.value, doubted |-> doubled]]
              /\ todo' = rest
              /\ sent' = FALSE
              /\ mx' = IF rest = <<>> THEN NoThread ELSE t
              /\ UNCHANGED stash
  /\ UNCHANGED <<daemonVars, up, doubled, subscribed, queue, request, listVars,
                 threadVars, missed, boundVars>>

\* recv fails: the empty answer passes for one, here and for what follows.
ReceiveNothing(t) ==
  /\ mx = t /\ sent
  /\ ~up /\ channel = <<>>
  /\ got' = [got EXCEPT ![t] = [sent |-> Head(todo).command,
                                command |-> Head(todo).command,
                                value |-> NoAnswer, doubted |-> FALSE]]
  /\ todo' = <<>>
  /\ sent' = FALSE
  /\ mx' = NoThread
  /\ UNCHANGED <<daemonVars, socketVars, stash, listVars, threadVars, missed,
                 boundVars>>

Nothing == [sent |-> "none", command |-> "none", value |-> NoAnswer, doubted |-> FALSE]
\* get_list parses what it got: "", or an answer to something else, is no list.
ListIn(answer) == IF answer.command = "LIST" /\ answer.value # NoAnswer
                  THEN answer.value ELSE <<>>
Returned(t) == mx # t /\ got[t] # Nothing
Consume(t) == got' = [got EXCEPT ![t] = Nothing]

\* Of several UPDATEs of one download, get_updates keeps the last.
Latest(ms) ==
  LET Superseded(i) == \E j \in DOMAIN ms : /\ j > i
                                            /\ ms[i].kind = "UPDATE"
                                            /\ ms[j].kind = "UPDATE"
                                            /\ ms[j].id = ms[i].id
  IN  KeptAt(ms, {i \in DOMAIN ms : ~Superseded(i)})

\* Fault: a new download is not looked for in the list.
AppliedUnseen(l, m) ==
  CASE m.kind = "NEW" -> Append(l, Entry(m.id, m.on))
    [] m.kind = "UPDATE" -> Switched(l, m.id, m.on)
    [] m.kind = "DELETE" -> Removed(l, m.id)
    [] OTHER -> l

\* update_packages: one message applied to the list that is shown.
Applied(l, m) ==
  CASE m.kind = "NEW" /\ m.id \notin Ids(l) -> Append(l, Entry(m.id, m.on))
    [] m.kind = "UPDATE" -> Switched(l, m.id, m.on)
    [] m.kind = "DELETE" -> Removed(l, m.id)
    [] OTHER -> l
AppliedAll(l, ms) ==
  LET shown[n \in 0..Len(ms)] ==
        IF n = 0 THEN l ELSE Applied(shown[n - 1], ms[n])
  IN  shown[Len(ms)]

\* check_full_list_update_required
HasMove(ms) == \E i \in DOMAIN ms : ms[i].kind \in Directions

-----------------------------------------------------------------------------
(* list_handling: a list or a batch is prepared under lmx by one thread, and *)
(* shown by the thread of the windows when it handles the event.             *)

Goto(t, place) == at' = [at EXCEPT ![t] = place]

\* prepare_full_list_update, and the like in prepare_subscription_update.
PrepareFullList(t) ==
  /\ at[t] = "reload"
  /\ lmx = NoThread
  /\ lmx' = t
  /\ newContent' = <<>>
  /\ Goto(t, "list")
  /\ UNCHANGED <<daemonVars, socketVars, callVars, view, newUpdates, required,
                 events, batch, updating, stop, told, enabled, term, slot,
                 missed, boundVars>>

\* Fault: lmx is not given back.
ListReadyLocked(t) ==
  /\ events' = Append(events, "full")
  /\ Goto(t, IF t = Gui THEN "idle" ELSE IF enabled THEN "loop" ELSE "subscribe")
  /\ UNCHANGED <<lmx, updating>>

\* The list is ready, or could not be had: the window's thread is told.
ListReady(t) ==
  /\ lmx' = NoThread
  /\ IF t = Updater
     THEN /\ events' = Append(events, IF enabled /\ ~told THEN "subs" ELSE "full")
          /\ Goto(t, IF enabled THEN "loop" ELSE "subscribe")
          /\ UNCHANGED updating
     ELSE /\ events' = Append(events, "full")
          /\ Goto(t, CASE slot.command = "CONNECT" -> "connecting"
                       [] slot.command = "CANCEL" -> "reset"
                       [] OTHER -> "idle")
          /\ updating' = (slot.command # "CONNECT")   \* start_updating

RequestList(t) ==
  /\ at[t] = "list"
  /\ \/ /\ Begin(t, GetList)
        /\ Goto(t, "listed")
        /\ UNCHANGED <<lmx, events, updating>>
     \/ Refused /\ ListReady(t)
  /\ UNCHANGED <<daemonVars, up, doubled, subscribed, queue, view, newContent,
                 newUpdates, required, batch, stop, told, enabled, term, slot,
                 missed, boundVars>>

ListReturns(t) ==
  /\ at[t] = "listed"
  /\ Returned(t)
  /\ newContent' = ListIn(got[t])
  /\ Consume(t)
  /\ ListReady(t)
  /\ UNCHANGED <<daemonVars, socketVars, mx, sent, todo, stash, view,
                 newUpdates, required, batch, stop, told, enabled, term, slot,
                 missed, boundVars>>

\* on_full_reload, on_subscription_reload and on_clear_list, each with
\* update_status_bar. Qt delivers them when the thread is idle or in a dialog.
InDialog == at[Gui] \in {"dialog", "confirm", "askFile", "captcha", "input"}
HandleEvent ==
  /\ at[Gui] = "idle" \/ InDialog
  /\ events # <<>>
  /\ lmx = NoThread /\ mx = NoThread
  /\ events' = Tail(events)
  /\ view' = CASE ~up \/ Head(events) = "clear" -> <<>>
               [] up /\ Head(events) = "subs" /\ ~required ->
                    AppliedAll(view, newUpdates)
               [] OTHER -> newContent
  /\ Hello
  /\ UNCHANGED <<daemonVars, up, doubled, subscribed, queue, request, mx, sent, todo,
                 got, lmx, newContent, newUpdates, required, threadVars,
                 missed, boundVars>>

-----------------------------------------------------------------------------
(* update_thread::run.                                                      *)

FirstCheck ==
  /\ at[Updater] = "first"
  /\ mx = NoThread
  /\ Hello
  /\ told' = ~up
  /\ Goto(Updater, "reload")
  /\ UNCHANGED <<daemonVars, up, doubled, subscribed, queue, request, mx, sent, todo,
                 got, listVars, batch, updating, stop, enabled, term, slot,
                 missed, boundVars>>

\* check_subscritpion; the thread ends if it cannot.
RequestSubscription ==
  /\ at[Updater] = "subscribe"
  /\ \/ Begin(Updater, AddSubscription) /\ Goto(Updater, "subscribed")
     \/ Refused /\ Goto(Updater, "ended")
  /\ UNCHANGED <<daemonVars, up, doubled, subscribed, queue, listVars, batch, updating,
                 stop, told, enabled, term, slot, missed, boundVars>>
SubscriptionReturns ==
  /\ at[Updater] = "subscribed"
  /\ Returned(Updater)
  /\ Consume(Updater)
  /\ enabled' = TRUE
  /\ Goto(Updater, "loop")
  /\ UNCHANGED <<daemonVars, socketVars, mx, sent, todo, stash, listVars,
                 batch, updating, stop, told, term, slot, missed, boundVars>>

\* The head of the loop. MaxEvents bounds how far it is ahead of the window.
LoopEnds == /\ at[Updater] = "loop"
            /\ stop
            /\ Goto(Updater, "ended")
            /\ UNCHANGED <<daemonVars, socketVars, callVars, listVars, batch,
                           updating, stop, told, enabled, term, slot, missed,
                           boundVars>>
LoopChecks ==
  /\ at[Updater] = "loop"
  /\ ~stop
  /\ mx = NoThread
  /\ Len(events) < MaxEvents
  /\ up \/ ~told
  /\ Hello
  /\ told' = ~up
  /\ Goto(Updater, IF up THEN "paused" ELSE "reload")
  /\ UNCHANGED <<daemonVars, up, doubled, subscribed, queue, request, mx, sent, todo,
                 got, listVars, batch, updating, stop, enabled, term, slot,
                 missed, boundVars>>

\* Fault: a thread that is paused does not see that it should end.
EnterUpdatesUnpaused ==
  /\ at[Updater] = "paused"
  /\ updating
  /\ mx = NoThread
  /\ Hello
  /\ Goto(Updater, IF up THEN "updates" ELSE "loop")
  /\ UNCHANGED <<daemonVars, up, doubled, subscribed, queue, request, mx, sent,
                 todo, got, listVars, batch, updating, stop, told, enabled, term,
                 slot, missed, boundVars>>

\* The thread goes on to get_updates, which checks the connection. If that
\* throws, lmx is not taken again: what follows is done without it.
EnterUpdates ==
  /\ at[Updater] = "paused"
  /\ updating \/ stop
  /\ mx = NoThread
  /\ Hello
  /\ IF up
     THEN Goto(Updater, "updates") /\ UNCHANGED <<newContent, events, required>>
     ELSE /\ required' = HasMove(newUpdates)
          /\ newContent' = IF required' THEN <<>> ELSE newContent
          /\ events' = Append(events, "subs")
          /\ Goto(Updater, "loop")
  /\ UNCHANGED <<daemonVars, up, doubled, subscribed, queue, request, mx, sent, todo,
                 got, lmx, view, newUpdates, batch, updating, stop, told,
                 enabled, term, slot, missed, boundVars>>

\* skip_update stays set after exception 7, until the next call.
SkipUpdate == \/ at[Gui] = "askFile"
              \/ at[Gui] = "command" /\ slot.command \in {"DEL+FILE", "DEL-FILE"}

\* One round of get_updates that finds something, or is told to stop.
GetUpdates ==
  /\ at[Updater] = "updates"
  /\ mx = NoThread
  /\ \/ term /\ batch' = <<>> /\ UNCHANGED <<stash, channel>>
     \/ /\ ~term /\ ~SkipUpdate
        /\ stash \o channel # <<>>
        /\ batch' = Latest(stash \o Kept(channel, Messages))
        /\ stash' = <<>>
        /\ channel' = <<>>
  /\ Goto(Updater, "prepare")
  /\ UNCHANGED <<daemonVars, up, doubled, subscribed, queue, request, mx, sent, todo,
                 got, listVars, updating, stop, told, enabled, term, slot,
                 missed, boundVars>>

\* The rest of prepare_subscription_update. A batch that the window has not
\* applied yet is replaced.
PrepareUpdates ==
  /\ at[Updater] = "prepare"
  /\ lmx = NoThread
  /\ newUpdates' = batch
  /\ batch' = <<>>
  /\ missed' = (missed \/ (newUpdates # <<>> /\ Contains(events, "subs")))
  /\ required' = HasMove(batch)
  /\ IF HasMove(batch)
     THEN /\ lmx' = Updater
          /\ newContent' = <<>>
          /\ Goto(Updater, "list")
          /\ UNCHANGED events
     ELSE /\ events' = Append(events, "subs")
          /\ Goto(Updater, "loop")
          /\ UNCHANGED <<lmx, newContent>>
  /\ UNCHANGED <<daemonVars, socketVars, callVars, view, updating, stop, told,
                 enabled, term, slot, boundVars>>

-----------------------------------------------------------------------------
(* The slots of ddclient_gui. Most pause the updates, do their work, reload  *)
(* the list and resume; where they return early, nothing is resumed.         *)

NoSlot == [command |-> "", row |-> 0, id |-> NoId]
SlotFor(command, row, id) == [command |-> command, row |-> row, id |-> id]

\* The functions of downloadc that a slot calls.
Calls(command, id) ==
  CASE command = "ON" -> ActivateDownload(id)
    [] command = "OFF" -> DeactivateDownload(id)
    [] command = "UP" -> PriorityUp(id)
    [] command = "DOWN" -> PriorityDown(id)
    [] command = "TOP" -> PriorityTop(id)
    [] command = "BOTTOM" -> PriorityBottom(id)
    [] command = "DEL" -> DeleteIfNoFile(id)
    [] command = "DEL+FILE" -> DeleteWithFile(id)
    [] command = "DEL-FILE" -> DeleteButFile(id)
    [] command = "FILE" -> DeleteFile(id)
    [] command \in {"NAME", "URL"} -> SetDownloadVar(id)
    [] command = "PASSWORD" -> GetPackageVar
    [] command = "SETPASSWORD" -> SetPackageVar
    [] command = "VARS" -> GetVarList
    [] command = "GET" -> GetVar
    [] command = "PACKAGES" -> GetPackages
    [] command \in {"PACKAGE", "PASTE"} -> AddPackage
    [] command = "CONTAINER" -> PkgContainer
    [] command = "CAPTCHA" -> GetCaptcha(id)
    [] command = "SOLVE" -> CaptchaResolve(id)
    [] command \in {"SET", "SWITCH"} -> SetVar
    [] OTHER -> AddDownloadTo

\* The beginning of a slot: check_connection, and the list cleared if there
\* is none; then the slot goes on at one of the places with what it is about.
StartSlot(pauses, goesOn) ==
  /\ at[Gui] = "idle"
  /\ slots < MaxSlots
  /\ mx = NoThread
  /\ Hello
  /\ slots' = slots + 1
  /\ updating' = (updating /\ ~pauses)
  /\ IF up THEN goesOn /\ UNCHANGED events
     ELSE events' = Append(events, "clear") /\ UNCHANGED <<at, slot>>
  /\ UNCHANGED <<daemonVars, up, doubled, subscribed, queue, request, mx, sent, todo,
                 got, lmx, view, newContent, newUpdates, required, batch, stop,
                 told, enabled, term, missed, changes, breaks>>

\* The selected row is kept as a row (get_selected_lines); without one the
\* slot returns, and updates stay paused.
WithSelection(command, place) ==
  \/ /\ \E row \in DOMAIN view : slot' = SlotFor(command, row, NoId)
     /\ Goto(Gui, place)
  \/ UNCHANGED <<at, slot>>
\* Other slots look up the id before they ask the user.
WithId(command, place) == /\ \E row \in DOMAIN view :
                               slot' = SlotFor(command, 0, view[row].id)
                          /\ Goto(Gui, place)
OnSelection(command) == StartSlot(TRUE, WithSelection(command, "command"))
OnConfirmed(command) == StartSlot(TRUE, WithSelection(command, "confirm"))
OnNamed(command) ==
  StartSlot(TRUE, WithId(command, "input") \/ UNCHANGED <<at, slot>>)
Without(command, place) == slot' = SlotFor(command, 0, NoId) /\ Goto(Gui, place)

OnActivate == OnSelection("ON")
OnDeactivate == OnSelection("OFF")
OnPriorityUp == OnSelection("UP")
OnPriorityDown == OnSelection("DOWN")
OnPriorityTop == OnSelection("TOP")
OnPriorityBottom == OnSelection("BOTTOM")
OnSetName == OnNamed("NAME")
OnSetUrl == OnNamed("URL")
OnSetPassword ==
  StartSlot(TRUE, Without("PASSWORD", "command") \/ UNCHANGED <<at, slot>>)
OnEnterCaptcha == OnSelection("CAPTCHA")
OnDelete == OnConfirmed("DEL")
OnDeleteFile == OnConfirmed("FILE")
\* A finished download, if there is one. Empty packages are not modelled.
OnDeleteFinished ==
  StartSlot(TRUE, WithId("DEL", "confirm") \/ Without("DEL", "reload"))
OnAdd == StartSlot(TRUE, Without("PACKAGES", "command"))
OnConfigure == StartSlot(TRUE, Without("VARS", "command"))
OnPaste == StartSlot(FALSE, Without("PASTE", "command"))
OnLoadContainer == StartSlot(FALSE, Without("CONTAINER", "input"))
OnCopy == StartSlot(FALSE, UNCHANGED <<at, slot>>)
OnDownloadingActivate == StartSlot(FALSE, Without("SWITCH", "command"))
OnDownloadingDeactivate == StartSlot(FALSE, Without("SWITCH", "command"))

\* on_connect does not ask for a connection.
OnConnect == /\ at[Gui] = "idle"
             /\ slots < MaxSlots
             /\ slots' = slots + 1
             /\ updating' = FALSE
             /\ Without("CONNECT", "dialog")
             /\ UNCHANGED <<daemonVars, socketVars, callVars, listVars, batch,
                            stop, told, enabled, term, missed, changes, breaks>>

\* What the user answers. The event loop runs meanwhile (HandleEvent).
Choose(place, next, command) ==
  /\ at[Gui] = place
  /\ Goto(Gui, next)
  /\ slot' = [slot EXCEPT !.command = command]
  /\ UNCHANGED <<daemonVars, socketVars, callVars, listVars, batch, updating,
                 stop, told, enabled, term, missed, boundVars>>
ConfirmDelete == \/ Choose("confirm", "command", slot.command)
                 \/ Choose("confirm", "idle", slot.command)
EnterText == \/ Choose("input", "command", slot.command)
             \/ Choose("input", "idle", slot.command)
ChooseFile == \E command \in {"DEL+FILE", "DEL-FILE"} :
                Choose("askFile", "command", command)
EnterCaptcha == \/ Choose("captcha", "command", "SOLVE")
                \/ Choose("captcha", "reload", slot.command)
\* add_dialog::ok makes a package unless it was given one.
DialogAccepted == \/ /\ slot.command # "CONNECT"
                     /\ \E command \in {slot.command} \cup
                          {"PACKAGE" : c \in {"ADD"} \cap {slot.command}} :
                          Choose("dialog", "command", command)
                  \/ /\ slot.command = "CONNECT"
                     /\ Len(events) < MaxEvents
                     /\ Choose("dialog", "reload", "CONNECT")
DialogCancelled ==
  Choose("dialog", "reload",
         IF slot.command = "CONNECT" THEN "CANCEL" ELSE slot.command)

\* Some slots make one call after the other, or ask the user in between.
Follow ==
  [PACKAGES |-> <<"dialog", "ADD">>,     VARS |-> <<"dialog", "GET">>,
   PACKAGE |-> <<"command", "ADD">>,     GET |-> <<"command", "SET">>,
   PASTE |-> <<"command", "PASTED">>,    PASSWORD |-> <<"input", "SETPASSWORD">>]
FollowUp == /\ Goto(Gui, Follow[slot.command][1])
            /\ slot' = [slot EXCEPT !.command = Follow[slot.command][2]]

\* These neither paused the updates nor reload the list.
EndCommand ==
  /\ Goto(Gui, IF slot.command \in {"PASTE", "PASTED", "SWITCH", "CONTAINER"}
               THEN "idle" ELSE "reload")
  /\ UNCHANGED slot

\* check_connection of the call throws: the dialogs catch that at once, the
\* other slots give up, and on_set_password does not catch it.
CallRefused ==
  /\ Refused
  /\ CASE slot.command \in {"PACKAGES", "VARS", "GET"} -> FollowUp
       [] slot.command = "PASSWORD" -> Goto(Gui, "crashed") /\ UNCHANGED slot
       [] OTHER -> EndCommand

\* The command is sent for the download that is in the selected row now.
SendCommand ==
  /\ at[Gui] = "command"
  /\ slot.row \in DOMAIN view \cup {0}
  /\ LET id == IF slot.row = 0 THEN slot.id ELSE view[slot.row].id
     IN  \/ /\ Begin(Gui, Calls(slot.command, id))
            /\ slot' = [slot EXCEPT !.id = id, !.row = 0]
            /\ Goto(Gui, "answered")
         \/ CallRefused
  /\ UNCHANGED <<daemonVars, up, doubled, subscribed, queue, listVars, batch, updating,
                 stop, told, enabled, term, missed, boundVars>>
\* vector::at throws, and nobody catches it.
RowIsGone == /\ at[Gui] = "command"
             /\ slot.row \notin DOMAIN view \cup {0}
             /\ Goto(Gui, "crashed")
             /\ UNCHANGED <<daemonVars, socketVars, callVars, listVars, batch,
                            updating, stop, told, enabled, term, slot, missed,
                            boundVars>>
CommandReturns ==
  /\ at[Gui] = "answered"
  /\ Returned(Gui)
  /\ CASE slot.command = "DEL" /\ got[Gui].value = "there" ->
              Goto(Gui, "askFile") /\ UNCHANGED slot
       [] slot.command = "CAPTCHA" /\ got[Gui].value = "image" ->
              Goto(Gui, "captcha") /\ UNCHANGED slot
       [] slot.command \in DOMAIN Follow -> FollowUp
       [] OTHER -> EndCommand
  /\ Consume(Gui)
  /\ UNCHANGED <<daemonVars, socketVars, mx, sent, todo, stash, listVars, batch,
                 updating, stop, told, enabled, term, missed, boundVars>>

\* connect_dialog::ok, after the reload by set_language; the old updates stay.
Connect ==
  /\ at[Gui] = "connecting"
  /\ mx = NoThread
  /\ term' = TRUE
  /\ \/ /\ Goto(Gui, "dialog")
        /\ UNCHANGED <<socketVars, stop, missed>>
     \/ /\ up' = TRUE
        /\ subscribed' = FALSE
        /\ doubled' = FALSE
        /\ queue' = <<>>
        /\ request' = NoRequest
        /\ channel' = <<>>
        /\ stop' = TRUE
        /\ missed' = TRUE
        /\ Goto(Gui, "joining")
  /\ UNCHANGED <<daemonVars, callVars, listVars, batch, updating, told, enabled,
                 slot, boundVars>>
\* on_connect when thread->wait() has returned: a new thread, and a reload.
Join ==
  /\ at[Gui] = "joining"
  /\ at[Updater] = "ended"
  /\ mx = NoThread
  /\ term' = FALSE
  /\ at' = [at EXCEPT ![Gui] = "reload", ![Updater] = "first"]
  /\ stop' = FALSE
  /\ told' = FALSE
  /\ enabled' = FALSE
  /\ updating' = TRUE
  /\ slot' = NoSlot
  /\ UNCHANGED <<daemonVars, socketVars, callVars, listVars, batch, missed,
                 boundVars>>
\* on_connect after a cancelled dialog.
ResetTerm == /\ at[Gui] = "reset"
             /\ mx = NoThread
             /\ term' = FALSE
             /\ Goto(Gui, "idle")
             /\ UNCHANGED <<daemonVars, socketVars, callVars, listVars, batch,
                            updating, stop, told, enabled, slot, missed,
                            boundVars>>

-----------------------------------------------------------------------------
Init ==
  /\ list = InitialList /\ doomed = {} /\ reordered = FALSE
  /\ up = TRUE /\ subscribed = FALSE /\ doubled = FALSE
  /\ queue = <<>> /\ request = NoRequest /\ channel = <<>>
  /\ mx = NoThread /\ sent = FALSE /\ todo = <<>>
  /\ got = [t \in Threads |-> Nothing]
  /\ stash = <<>> /\ batch = <<>>
  /\ term = FALSE /\ stop = FALSE /\ told = FALSE /\ enabled = FALSE
  /\ updating = TRUE
  /\ lmx = NoThread /\ view = <<>> /\ newContent = <<>> /\ newUpdates = <<>>
  /\ required = FALSE /\ events = <<>>
  /\ at = [t \in Threads |-> IF t = Gui THEN "idle" ELSE "first"]
  /\ slot = NoSlot
  /\ missed = FALSE
  /\ changes = 0 /\ slots = 0 /\ breaks = 0

ThreadStep(t) == \/ SendNext(t) \/ Receive(t) \/ ReceiveNothing(t)
                 \/ PrepareFullList(t) \/ RequestList(t) \/ ListReturns(t)
UpdaterStep == \/ ThreadStep(Updater)
               \/ FirstCheck \/ RequestSubscription \/ SubscriptionReturns
               \/ LoopEnds \/ LoopChecks \/ EnterUpdates \/ GetUpdates
               \/ PrepareUpdates
GuiStep == \/ ThreadStep(Gui)
           \/ HandleEvent \/ SendCommand \/ RowIsGone \/ CommandReturns
           \/ Connect \/ Join \/ ResetTerm
UserStep == \/ OnActivate \/ OnDeactivate \/ OnSetName \/ OnEnterCaptcha
            \/ OnPriorityUp \/ OnPriorityDown \/ OnPriorityTop
            \/ OnPriorityBottom \/ OnDelete \/ OnDeleteFile \/ OnAdd
            \/ OnConfigure \/ OnPaste \/ OnCopy \/ OnDownloadingActivate
            \/ OnDownloadingDeactivate \/ OnDeleteFinished \/ OnLoadContainer
            \/ OnSetUrl \/ OnSetPassword \/ OnConnect
            \/ ConfirmDelete \/ EnterText \/ ChooseFile \/ EnterCaptcha
            \/ DialogAccepted \/ DialogCancelled
HandlerStep == SendMessage \/ Serve

Next == \/ UpdaterStep \/ GuiStep \/ UserStep \/ HandlerStep
        \/ Elsewhere \/ PurgeDownload \/ Break

Spec == Init /\ [][Next]_vars

\* Threads that want a mutex compete for it, and get it in the end: who has mx
\* gives it back with every round. The handler answers. Users need not.
FairSpec == /\ Spec
            /\ WF_vars(HandlerStep)
            /\ SF_vars(UpdaterStep)
            /\ SF_vars(GuiStep)

-----------------------------------------------------------------------------
(* Properties.                                                              *)

\* Nothing is under way any more between the program and the window.
CaughtUp == /\ up /\ subscribed /\ doomed = {}
            /\ queue = <<>> /\ channel = <<>> /\ request = NoRequest
            /\ mx = NoThread /\ lmx = NoThread
            /\ stash = <<>> /\ batch = <<>> /\ events = <<>>
            /\ at[Gui] = "idle" /\ at[Updater] \in {"loop", "paused", "updates"}

\* The window shows the downloads of the list once all messages have come, in
\* spite of lists fetched meanwhile and of messages older than those; and in
\* its order, unless an id was given to a new download before the client had
\* heard that the old one is gone. What the client is known to miss is excepted.
ViewIsTheList == CaughtUp /\ ~missed /\ ~doubled =>
                                        /\ ToSet(view) = ToSet(list)
                                        /\ reordered \/ view = list

\* A slot comes to its end, or to a question to the user: the two threads do
\* not block each other, and on_connect finds the old thread ended.
Resting == {"idle", "confirm", "dialog", "askFile", "captcha", "input",
            "crashed"}
SlotsEnd == at[Gui] \notin Resting ~> at[Gui] \in Resting

\* The socket, the mutex and old_updates together are a RemoteCalls: each
\* command is carried out once between being sent and answered, and answered
\* with what it produced. A connection on which a command was answered twice is
\* as good as lost until the next one: what is received there says nothing.
Waits(t) == mx = t /\ sent
AnswersThere == {i \in DOMAIN channel : IsAnswer(channel[i])}
FirstAnswer ==
  channel[CHOOSE i \in AnswersThere : \A j \in AnswersThere : i <= j]
CallOf(t) ==
  CASE Waits(t) /\ (doubled \/ AnswersThere = {}) ->
         [state |-> "sent", command |-> Head(todo).command]
    [] Waits(t) /\ ~doubled /\ AnswersThere # {} ->
         [state |-> "executed", command |-> FirstAnswer.command,
          value |-> FirstAnswer.value]
    [] ~Waits(t) /\ got[t] # Nothing ->
         [state |-> "answered",
          command |-> IF got[t].doubted THEN got[t].sent ELSE got[t].command,
          value |-> IF got[t].doubted THEN NoAnswer ELSE got[t].value]
    [] OTHER -> [state |-> "idle"]
Answerable == up /\ ~doubled
CallsOf == [t \in Threads |-> CallOf(t)]
Remote == INSTANCE RemoteCalls WITH online <- Answerable, call <- CallsOf
CallsAreAnswered == Remote!Spec

\* The type invariant, with what the threads' places say of the mutexes: lmx
\* is held over exactly the steps that fetch a list.
Places == {"idle", "reload", "list", "listed", "command", "answered", "confirm",
           "dialog", "askFile", "captcha", "input", "connecting", "joining", "reset",
           "crashed", "first", "subscribe", "subscribed", "loop", "paused",
           "updates", "prepare", "ended"}
DownloadLists == Seq([id : 0..MaxId, on : BOOLEAN])
TypeOK ==
  /\ list \in DownloadLists /\ view \in DownloadLists
  /\ newContent \in DownloadLists
  /\ doomed \subseteq 0..MaxId
  /\ {up, subscribed, sent, required, term, updating, stop, told, enabled,
      missed, reordered, doubled} \subseteq BOOLEAN
  /\ queue \in Seq(Messages) /\ stash \in Seq(Messages)
  /\ batch \in Seq(Messages) /\ newUpdates \in Seq(Messages)
  /\ \A i \in DOMAIN channel : IsAnswer(channel[i]) \/ channel[i] \in Messages
  /\ mx \in Threads \cup {NoThread} /\ lmx \in Threads \cup {NoThread}
  /\ mx = NoThread <=> todo = <<>>
  /\ mx = NoThread => ~sent
  /\ events \in Seq({"full", "subs", "clear"})
  /\ at \in [Threads -> Places]
  /\ \A t \in Threads : lmx = t <=> at[t] \in {"list", "listed"}
  /\ \A t \in Threads :
       mx = t => at[t] \in {"listed", "answered", "subscribed"}
=============================================================================
