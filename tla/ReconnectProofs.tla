---------------------------- MODULE ReconnectProofs ----------------------------
(***************************************************************************)
(* What do_reconnect guarantees for every list, policy and number of       *)
(* threads: reconnects exclude each other, the status RECONNECTING does    *)
(* not outlive the reconnect that set it, a thread that starts a download  *)
(* under one hold of mx starts one that nobody else has, and no thread of  *)
(* the scheduler sleeps while there is one to start. And what the script   *)
(* of a reconnect says is what is sent to the router.                      *)
(***************************************************************************)
EXTENDS SchedulerProofs, RouterScript, LockOrder, DataFacts

\* The steps that are not do_reconnect's.
Outside == StartNext \/ WorkerNext \/ TickNext \/ ClockTurns \/ ClientNext

--------------------------------------------------------------------------------
(* One reconnect at a time.                                                  *)

\* A step outside do_reconnect leaves is_reconnecting alone, and at most
\* spawns a do_reconnect thread, which has not looked at it yet.
LEMMA OutsideLemma ==
  ASSUME TypeOK, Outside
  PROVE  /\ isReconnecting' = isReconnecting
         /\ \A t \in Reconnectors : Reconnecting(t)' <=> Reconnecting(t)
<1>1. CASE StartNext
  <2>1. PICK t \in Starters : StarterStep(t)
    BY <1>1 DEF StartNext, StarterStep
  <2>2. UNCHANGED <<rec, isReconnecting>>
    BY <2>1 DEF StarterStep, LockStart, EnterStart, PickNext, PickNone, DoDownload
  <2> QED BY <2>2 DEF Reconnecting
<1>2. CASE WorkerNext
  <2>1. PICK w \in Workers : WorkerProgress(w) \/ PluginSetsWait(w) \/ CaptchaFails(w)
    BY <1>2 DEF WorkerNext, WorkerProgress
  <2>2. CASE AskReconnect(w)
    <3>1. isReconnecting' = isReconnecting
      BY <2>2 DEF AskReconnect
    <3>2. rec' = rec \/ \E r \in Reconnectors : rec[r] = "idle" /\ rec' = [rec EXCEPT ![r] = "begin"]
      BY <2>2 DEF AskReconnect
    <3>3. CASE rec' = rec
      BY <3>1, <3>3 DEF Reconnecting
    <3>4. ASSUME NEW r \in Reconnectors, rec[r] = "idle", rec' = [rec EXCEPT ![r] = "begin"]
          PROVE  \A t \in Reconnectors : Reconnecting(t)' <=> Reconnecting(t)
      BY <3>4 DEF Reconnecting, TypeOK
    <3> QED BY <3>1, <3>2, <3>3, <3>4
  <2>3. CASE ~AskReconnect(w)
    <3>1. UNCHANGED <<rec, isReconnecting>>
      BY <2>1, <2>3 DEF WorkerProgress, WorkerStarts, PluginSetsWait, CaptchaFails, Prepared,
           CountdownOver, SetUp, TransferDone, PostProcessed, TransferFails, TransferAborted,
           Settle, FinishPackage, Release, WorkerEnds, ReleaseSlot, WorkerStep
    <3> QED BY <3>1 DEF Reconnecting
  <2> QED BY <2>2, <2>3
<1>3. CASE TickNext
  <2>1. UNCHANGED <<rec, isReconnecting>>
    BY <1>3, VisitLeaves DEF TickNext, PurgeOne, DecreaseBegins, DecreaseDone
  <2> QED BY <2>1 DEF Reconnecting
<1>4. CASE ClockTurns
  BY <1>4 DEF ClockTurns, Reconnecting
<1>5. CASE ClientNext
  <2>1. UNCHANGED <<rec, isReconnecting>>
    BY <1>5 DEF ClientNext, Activate, Deactivate, Delete, LookUp, CommandSetsStatus,
                CommandZeroesWait, Stop, Add, OtherCommand
  <2> QED BY <2>1 DEF Reconnecting
<1> QED BY <1>1, <1>2, <1>3, <1>4, <1>5 DEF Outside

\* do_reconnect sets the flag when it begins and clears it when it ends.
LEMMA InsideLemma ==
  ASSUME TypeOK, OneReconnect, NEW t \in Reconnectors, ReconnectStep(t)
  PROVE  OneReconnect'
<1>1. ASSUME NEW pc \in {"idle", "begin", "mark", "router", "unmark"},
             rec' = [rec EXCEPT ![t] = pc]
      PROVE  /\ Reconnecting(t)' <=> pc \in {"mark", "router", "unmark"}
             /\ \A u \in Reconnectors \ {t} : Reconnecting(u)' <=> Reconnecting(u)
  BY <1>1 DEF TypeOK, Reconnecting
<1>2. CASE BeginReconnect(t)
  <2>1. rec[t] = "begin" /\ ~Reconnecting(t)
    BY <1>2 DEF BeginReconnect, Reconnecting
  <2>2. CASE isReconnecting \/ ~RouterModelSet
    <3>1. rec' = [rec EXCEPT ![t] = "idle"] /\ isReconnecting' = isReconnecting
      BY <1>2, <2>2 DEF BeginReconnect
    <3>2. \A u \in Reconnectors : Reconnecting(u)' <=> Reconnecting(u)
      BY <1>1, <2>1, <3>1
    <3> QED BY <3>1, <3>2 DEF OneReconnect
  <2>3. CASE ~(isReconnecting \/ ~RouterModelSet)
    <3>1. rec' = [rec EXCEPT ![t] = "mark"] /\ isReconnecting'
      BY <1>2, <2>3 DEF BeginReconnect
    <3>2. \A u \in Reconnectors : ~Reconnecting(u)
      BY <2>3 DEF OneReconnect
    <3>3. \A u \in Reconnectors : Reconnecting(u)' <=> u = t
      BY <1>1, <3>1, <3>2
    <3> QED BY <3>1, <3>3 DEF OneReconnect
  <2> QED BY <2>2, <2>3
<1>3. CASE MarkDownloads(t) \/ RouterDone(t)
  <2>1. /\ rec[t] \in {"mark", "router"} /\ isReconnecting' = isReconnecting
        /\ \E pc \in {"router", "unmark"} : rec' = [rec EXCEPT ![t] = pc]
    BY <1>3 DEF MarkDownloads, RouterDone
  <2>2. \A u \in Reconnectors : Reconnecting(u)' <=> Reconnecting(u)
    BY <1>1, <2>1 DEF Reconnecting
  <2> QED BY <2>1, <2>2 DEF OneReconnect
<1>4. CASE UnmarkDownloads(t)
  <2>1. rec[t] = "unmark" /\ rec' = [rec EXCEPT ![t] = "idle"] /\ ~isReconnecting'
    BY <1>4 DEF UnmarkDownloads
  <2>2. \A u \in Reconnectors : Reconnecting(u) => u = t
    BY <2>1 DEF OneReconnect, Reconnecting
  <2>3. \A u \in Reconnectors : ~Reconnecting(u)'
    BY <1>1, <2>1, <2>2
  <2> QED BY <2>1, <2>3 DEF OneReconnect
<1> QED BY <1>2, <1>3, <1>4 DEF ReconnectStep

\* However many downloads reach their limits together, one do_reconnect thread
\* at a time gives the router a new address, and is_reconnecting, on which the
\* scheduler waits, is set for as long as that takes.
THEOREM ReconnectsAreExclusive == Spec => []OneReconnect
<1>1. Init => OneReconnect
  BY DEF Init, OneReconnect, Reconnecting
<1>2. TypeOK /\ OneReconnect /\ [Next]_vars => OneReconnect'
  <2> SUFFICES ASSUME TypeOK, OneReconnect, [Next]_vars PROVE OneReconnect'
    OBVIOUS
  <2>1. CASE Outside
    BY <2>1, OutsideLemma DEF OneReconnect
  <2>2. CASE ReconnectNext
    <3>1. PICK t \in Reconnectors : ReconnectStep(t)
      BY <2>2 DEF ReconnectNext, ReconnectStep
    <3> QED BY <3>1, InsideLemma
  <2>3. CASE UNCHANGED vars
    BY <2>3 DEF vars, OneReconnect, Reconnecting
  <2> QED BY <2>1, <2>2, <2>3 DEF Next, Outside
<1> QED BY <1>1, <1>2, TypeCorrect, PTL DEF Spec

--------------------------------------------------------------------------------
(* RECONNECTING is transient.                                                *)

\* A thread about to mark downloads has kept mx since it read their statuses.
MarkerHasMx ==
  \A t \in Reconnectors : rec[t] = "mark" =>
    mx = t /\ \A d \in Downloads : seen[d] # "DELETED" => d \in Listed

\* decrease_waits keeps mx to the end of the list.
TickerHasMx == tick.pc # "purge" => mx = Ticker

\* do_reconnect starts downloads only when it is through.
ReconnectFirst == \A t \in Reconnectors : rec[t] # "idle" => st[t].pc = "idle"

\* purge_deleted does not take a download that waits for a reconnect.
ReconnectingIsListed ==
  \A d \in Downloads : dl[d].status = "RECONNECTING" => d \in Listed

\* The inductive invariant.
ReconnectInv == /\ SlotInv
                /\ OneReconnect
                /\ MarkerHasMx
                /\ TickerHasMx
                /\ ReconnectFirst
                /\ ReconnectingIsListed
                /\ ReconnectingIsTransient

\* The downloads that become RECONNECTING in a step, and those that leave the
\* list although they are not deleted.
NoneMarked ==
  \A d \in Downloads : dl'[d].status = "RECONNECTING" => dl[d].status = "RECONNECTING"
NoneLost ==
  \A d \in Listed : d \in Downloads /\ dl[d].status # "DELETED" => d \in Listed'

--------------------------------------------------------------------------------
(* No operator on records but Reconnected makes a status RECONNECTING.       *)

\* The setter makes it only if it is asked to, the outcomes of
\* download_me_worker never do.
LEMMA NotMarkedLemma ==
  ASSUME NEW r \in Record
  PROVE  /\ \A s \in Status \ {"RECONNECTING"} : SetStatus(r, s).status # "RECONNECTING"
         /\ \A n \in ErrorWaits, e \in ErrorClass :
              /\ RetryLater(r, n, e).status # "RECONNECTING"
              /\ GiveUp(r, e).status # "RECONNECTING"
         /\ RetryWithProxy(r, Proxies).status # "RECONNECTING"
<1>1. ASSUME NEW s \in Status \ {"RECONNECTING"}
      PROVE  SetStatus(r, s).status # "RECONNECTING"
  BY <1>1 DEF SetStatus, Record, DownloadRecord
<1>2. ASSUME NEW n \in ErrorWaits, NEW e \in ErrorClass
      PROVE  /\ RetryLater(r, n, e).status # "RECONNECTING"
             /\ GiveUp(r, e).status # "RECONNECTING"
  BY <1>2 DEF RetryLater, GiveUp, Record, DownloadRecord
<1> QED BY <1>1, <1>2, ProxyLemma

\* A step of a download_me thread does not make its download RECONNECTING.
LEMMA WorkerMarksNone ==
  ASSUME SlotInv, NEW w \in Workers,
         WorkerProgress(w) \/ PluginSetsWait(w) \/ CaptchaFails(w)
  PROVE  NoneMarked
<1> DEFINE d == wk[w].dl
           Keeps(r) == r.status = "RECONNECTING" => dl[d].status = "RECONNECTING"
<1>1. ASSUME NEW pc, NEW r, WorkerStep(w, pc, r), Keeps(r)
      PROVE  NoneMarked
  <2>1. dl' = [dl EXCEPT ![d] = r]
    BY <1>1 DEF WorkerStep
  <2> QED BY <1>1, <2>1 DEF NoneMarked, SlotInv, TypeOK
<1>2. wk[w].pc # "free" => d \in Downloads /\ dl[d] \in Record
  BY DEF SlotInv, WorkerHasDownload, TypeOK, Record
<1>3. {"NONE", "LIMIT", "CONNECTION"} = ErrorClass
  BY DEF ErrorClass
<1>4. ASSUME NEW r \in Record
      PROVE  /\ \A b \in BOOLEAN : /\ [r EXCEPT !.running = b].status = r.status
                                   /\ [r EXCEPT !.needStop = b].status = r.status
                                   /\ [r EXCEPT !.needStop = b, !.running = FALSE].status = r.status
             /\ \A n : [r EXCEPT !.wait = n].status = r.status
             /\ \A n : [r EXCEPT !.error = n].status = r.status
             /\ \A n : [r EXCEPT !.proxy = n].status = r.status
             /\ \A n : [r EXCEPT !.status = n].status = n
             /\ \A n, e : [r EXCEPT !.status = n, !.error = e].status = n
             /\ \A n : [r EXCEPT !.status = n, !.running = TRUE].status = n
  BY <1>4 DEF Record, DownloadRecord
<1>5. CASE \/ WorkerStarts(w) \/ PluginSetsWait(w) \/ CountdownOver(w)
           \/ TransferAborted(w) \/ FinishPackage(w) \/ PostProcessed(w)
  <2>1. dl[d] \in Record
    BY <1>2, <1>5 DEF WorkerStarts, PluginSetsWait, CountdownOver, TransferAborted,
                      FinishPackage, PostProcessed
  <2>2. \/ \E pc : WorkerStep(w, pc, dl[d])
        \/ \E pc : WorkerStep(w, pc, [dl[d] EXCEPT !.needStop = FALSE])
        \/ \E pc : WorkerStep(w, pc, [dl[d] EXCEPT !.running = FALSE])
        \/ \E pc, n : WorkerStep(w, pc, [dl[d] EXCEPT !.wait = n])
    BY <1>5 DEF WorkerStarts, PluginSetsWait, CountdownOver, TransferAborted,
                FinishPackage, PostProcessed
  <2>3. \A n : /\ Keeps(dl[d])
               /\ Keeps([dl[d] EXCEPT !.needStop = FALSE])
               /\ Keeps([dl[d] EXCEPT !.running = FALSE])
               /\ Keeps([dl[d] EXCEPT !.wait = n])
    BY <1>4, <2>1
  <2> HIDE DEF Keeps
  <2> QED BY <1>1, <2>2, <2>3
<1>6. CASE CaptchaFails(w)
  <2>1. Keeps(SetStatus(dl[d], "INACTIVE")) /\ WorkerStep(w, "gaveup", SetStatus(dl[d], "INACTIVE"))
    BY <1>2, <1>6, NotMarkedLemma DEF CaptchaFails, Status
  <2> QED BY <1>1, <2>1
<1>7. CASE Prepared(w) \/ SetUp(w) \/ TransferFails(w)
  <2>1. dl[d] \in Record /\ dl[d].error \in ErrorClass
    BY <1>2, <1>7 DEF Prepared, SetUp, TransferFails, Record, DownloadRecord
  <2>2. \/ \E pc : WorkerStep(w, pc, dl[d])
        \/ \E n \in ErrorWaits, e \in ErrorClass :
             WorkerStep(w, "settle", RetryLater(dl[d], n, e))
        \/ \E e \in ErrorClass : WorkerStep(w, "settle", GiveUp(dl[d], e))
        \/ \E e : WorkerStep(w, "settle", [dl[d] EXCEPT !.status = "WAITING", !.error = e])
        \/ \E pc, e : WorkerStep(w, pc, [dl[d] EXCEPT !.error = e])
        \/ WorkerStep(w, "settle", [dl[d] EXCEPT !.status = "PENDING"])
    <3>1. CASE Prepared(w)
      BY <3>1, <1>3 DEF Prepared, Failures, PluginError, LimitReached
    <3>2. CASE SetUp(w)
      BY <3>2, <1>3 DEF SetUp, PluginError
    <3>3. CASE TransferFails(w)
      BY <3>3, <1>3, <2>1 DEF TransferFails, PluginError, Failures
    <3> QED BY <1>7, <3>1, <3>2, <3>3
  <2>3. \A e : /\ Keeps(dl[d])
               /\ Keeps([dl[d] EXCEPT !.status = "WAITING", !.error = e])
               /\ Keeps([dl[d] EXCEPT !.error = e])
               /\ Keeps([dl[d] EXCEPT !.status = "PENDING"])
    BY <1>4, <2>1
  <2>4. \A n \in ErrorWaits, e \in ErrorClass : Keeps(RetryLater(dl[d], n, e))
    BY <2>1, NotMarkedLemma
  <2>5. \A e \in ErrorClass : Keeps(GiveUp(dl[d], e))
    BY <2>1 DEF GiveUp, Record, DownloadRecord
  <2> HIDE DEF Keeps
  <2> QED BY <1>1, <2>2, <2>3, <2>4, <2>5
<1>8. CASE TransferDone(w)
  <2>1. dl[d] \in Record
    BY <1>2, <1>8 DEF TransferDone
  <2>2. \/ WorkerStep(w, "settle", [dl[d] EXCEPT !.status = "FINISHED"])
        \/ WorkerStep(w, "postproc", [dl[d] EXCEPT !.status = "FINISHED", !.running = TRUE])
    BY <1>8 DEF TransferDone
  <2>3. /\ Keeps([dl[d] EXCEPT !.status = "FINISHED"])
        /\ Keeps([dl[d] EXCEPT !.status = "FINISHED", !.running = TRUE])
    BY <1>4, <2>1
  <2> HIDE DEF Keeps
  <2> QED BY <1>1, <2>2, <2>3
<1>9. ASSUME NEW r \in Record, ReleaseSlot(w, r), Keeps(r)
      PROVE  NoneMarked
  <2>1. WorkerStep(w, "tail", [r EXCEPT !.needStop = FALSE, !.running = FALSE])
    BY <1>9 DEF ReleaseSlot
  <2>2. Keeps([r EXCEPT !.needStop = FALSE, !.running = FALSE])
    BY <1>4, <1>9
  <2> HIDE DEF Keeps
  <2> QED BY <1>1, <2>1, <2>2
<1>10. CASE Settle(w)
  <2> DEFINE r == Unstarted(dl[d])
             direct == [r EXCEPT !.proxy = 0]
             next == RetryWithProxy(r, Proxies)
  <2>1. dl[d] \in Record
    BY <1>2, <1>10 DEF Settle
  <2>2. r \in Record /\ Keeps(r)
    BY <2>1, UnstartedLemma DEF Unstarted, Record, DownloadRecord
  <2>3. \/ ReleaseSlot(w, next)
        \/ ReleaseSlot(w, direct)
        \/ \E pc : WorkerStep(w, pc, direct)
    BY <1>10 DEF Settle
  <2> HIDE DEF r
  <2>4. direct \in Record /\ Keeps(direct)
    BY <1>4, <2>2, UpdateLemma
  <2>5. next \in Record /\ Keeps(next)
    BY <2>2, ProxyLemma
  <2> HIDE DEF direct, next, Keeps
  <2> QED BY <1>1, <1>9, <2>3, <2>4, <2>5
<1>11. CASE Release(w)
  BY <1>2, <1>9, <1>11 DEF Release
<1>12. CASE AskReconnect(w) \/ WorkerEnds(w)
  BY <1>12 DEF AskReconnect, WorkerEnds, NoneMarked
<1> QED BY <1>5, <1>6, <1>7, <1>8, <1>10, <1>11, <1>12 DEF WorkerProgress

\* Nobody outside do_reconnect makes a download RECONNECTING.
LEMMA OutsideMarksNone ==
  ASSUME SlotInv, Outside
  PROVE  NoneMarked
<1>1. \A d \in Downloads : dl[d] \in Record
  BY DEF SlotInv, TypeOK, Record
<1>2. DOMAIN dl = Downloads
  BY DEF SlotInv, TypeOK
<1>3. ASSUME NEW d, NEW r, dl' = [dl EXCEPT ![d] = r],
             d \in Downloads => (r.status = "RECONNECTING" => dl[d].status = "RECONNECTING")
      PROVE  NoneMarked
  BY <1>2, <1>3 DEF NoneMarked
<1>4. ASSUME dl' = dl PROVE NoneMarked
  BY <1>4 DEF NoneMarked
<1>5. ASSUME NEW t \in Starters, StarterStep(t)
      PROVE  NoneMarked
  <2>1. CASE DoDownload(t) /\ st[t].dl \in Listed
    <3> DEFINE d == st[t].dl
    <3>1. dl' = [dl EXCEPT ![d] = SetStatus([dl[d] EXCEPT !.running = TRUE], "RUNNING")]
      BY <2>1 DEF DoDownload
    <3>2. d \in Downloads => [dl[d] EXCEPT !.running = TRUE] \in Record
      BY <1>1, UpdateLemma
    <3>3. d \in Downloads =>
            SetStatus([dl[d] EXCEPT !.running = TRUE], "RUNNING").status # "RECONNECTING"
      BY <3>2, NotMarkedLemma DEF Status
    <3> QED BY <1>3, <3>1, <3>3
  <2>2. CASE ~(DoDownload(t) /\ st[t].dl \in Listed)
    BY <1>4, <1>5, <2>2 DEF StarterStep, LockStart, EnterStart, PickNext, PickNone, DoDownload
  <2> QED BY <2>1, <2>2
<1>6. CASE TickNext
  <2>1. CASE DecreaseWaits
    <3> DEFINE d == list[tick.at]
    <3>1. PICK q : q \in VisitOutcomes /\ dl' = [dl EXCEPT ![d] = q]
      BY <2>1, VisitWrites DEF SlotInv
    <3>2. q.status \in {dl[d].status, "PENDING"}
      BY <2>1, <3>1, OutcomesTyped DEF SlotInv
    <3> QED BY <1>3, <3>1, <3>2
  <2>2. CASE ~DecreaseWaits
    BY <1>4, <1>6, <2>2 DEF TickNext, PurgeOne, DecreaseBegins, DecreaseDone
  <2> QED BY <2>1, <2>2
<1>7. CASE ClientNext
  <2>1. PICK c \in Clients :
          \/ Activate(c) \/ Deactivate(c) \/ Delete(c)
          \/ CommandSetsStatus(c) \/ CommandZeroesWait(c)
          \/ Stop(c) \/ Add(c) \/ OtherCommand(c)
    BY <1>7 DEF ClientNext
  <2>2. CASE Activate(c) \/ Deactivate(c) \/ Delete(c) \/ OtherCommand(c)
    BY <1>4, <2>2 DEF Activate, Deactivate, Delete, LookUp, OtherCommand
  <2>3. CASE CommandSetsStatus(c)
    <3> DEFINE d == cmd[c].dl
    <3>1. dl' = dl \/ dl' = [dl EXCEPT ![d] = SetStatus(dl[d], cmd[c].op)]
      BY <2>3 DEF CommandSetsStatus
    <3>2. cmd[c].op \in Status \ {"RECONNECTING"}
      BY <2>3 DEF CommandSetsStatus, CommandStatus, Status
    <3>3. d \in Downloads => SetStatus(dl[d], cmd[c].op).status # "RECONNECTING"
      BY <1>1, <3>2, NotMarkedLemma
    <3> QED BY <1>3, <1>4, <3>1, <3>3
  <2>4. CASE CommandZeroesWait(c) \/ Stop(c)
    <3>1. \/ dl' = dl
          \/ \E d : dl' = [dl EXCEPT ![d] = [dl[d] EXCEPT !.wait = 0]]
          \/ \E d : dl' = [dl EXCEPT ![d] = [dl[d] EXCEPT !.needStop = TRUE]]
      <4>1. CASE CommandZeroesWait(c)
        BY <4>1 DEF CommandZeroesWait
      <4>2. CASE Stop(c)
        BY <4>2 DEF Stop
      <4> QED BY <2>4, <4>1, <4>2
    <3>2. \A d \in Downloads : /\ [dl[d] EXCEPT !.wait = 0].status = dl[d].status
                               /\ [dl[d] EXCEPT !.needStop = TRUE].status = dl[d].status
      BY <1>1 DEF Record, DownloadRecord
    <3> QED BY <1>3, <1>4, <3>1, <3>2
  <2>5. CASE Add(c)
    <3>1. \E d : dl' = [dl EXCEPT ![d] = NewDownload]
      BY <2>5 DEF Add
    <3> QED BY <1>3, <3>1, NewDownloadLemma
  <2> QED BY <2>1, <2>2, <2>3, <2>4, <2>5
<1>8. CASE StartNext
  <2>1. PICK t \in Starters : StarterStep(t)
    BY <1>8 DEF StartNext, StarterStep
  <2> QED BY <1>5, <2>1
<1>9. CASE WorkerNext
  <2>1. PICK w \in Workers : WorkerProgress(w) \/ PluginSetsWait(w) \/ CaptchaFails(w)
    BY <1>9 DEF WorkerNext, WorkerProgress
  <2> QED BY <2>1, WorkerMarksNone
<1>10. CASE ClockTurns
  BY <1>4, <1>10 DEF ClockTurns
<1> QED BY <1>6, <1>7, <1>8, <1>9, <1>10 DEF Outside

--------------------------------------------------------------------------------
(* Threads outside do_reconnect respect mx, the list and the marker.         *)

\* An element of the second of two concatenated sequences.
LEMMA ConcatAtLemma ==
  ASSUME NEW S, NEW a \in Seq(S), NEW b \in Seq(S), NEW k \in 1 .. Len(b)
  PROVE  Len(a) + k \in DOMAIN (a \o b) /\ (a \o b)[Len(a) + k] = b[k]
<1>1. Len(a) \in Nat /\ Len(b) \in Nat
  BY LenProperties
<1>2. /\ Len(a) + k \in 1 .. Len(a) + Len(b)
      /\ ~(Len(a) + k <= Len(a)) /\ Len(a) + k - Len(a) = k
  BY <1>1
<1>3. a \o b \in Seq(S) /\ Len(a \o b) = Len(a) + Len(b)
  BY ConcatProperties
<1>4. DOMAIN (a \o b) = 1 .. Len(a \o b)
  BY <1>3, LenProperties
<1>5. \A i \in 1 .. Len(a) + Len(b) :
        (a \o b)[i] = IF i <= Len(a) THEN a[i] ELSE b[i - Len(a)]
  BY ConcatProperties, Zenon
<1> DEFINE c == a \o b
<1> HIDE DEF c
<1>6. c[Len(a) + k] = b[k]
  <2>1. \A i \in 1 .. Len(a) + Len(b) :
          c[i] = IF i <= Len(a) THEN a[i] ELSE b[i - Len(a)]
    BY <1>5 DEF c
  <2> QED BY <1>1, <1>2, <2>1
<1> QED BY <1>2, <1>3, <1>4, <1>6 DEF c

\* No download that is not deleted leaves the list.
LEMMA OutsideLosesNone ==
  ASSUME SlotInv, Outside
  PROVE  NoneLost
<1>1. list \in Seq(Downloads)
  BY DEF SlotInv, TypeOK
<1>2. CASE list' = list
  BY <1>2 DEF NoneLost, Listed, Range
<1>3. CASE PurgeOne
  <2>1. PICK i \in DOMAIN list : Purgeable(i) /\ list' = RemoveAt(list, i)
    BY <1>3 DEF PurgeOne
  <2>2. i \in 1 .. Len(list) /\ Len(list) \in Nat
    BY <1>1, <2>1, LenProperties
  <2>3. list' = SubSeq(list, 1, i - 1) \o SubSeq(list, i + 1, Len(list))
    BY <2>1 DEF RemoveAt
  <2>4. ASSUME NEW j \in DOMAIN list, j # i
        PROVE  \E k \in DOMAIN list' : list'[k] = list[j]
    <3>1. j \in 1 .. Len(list)
      BY <1>1, <2>4, LenProperties
    <3>2. CASE j < i
      <4>1. j \in DOMAIN list' /\ list'[j] = list[j]
        BY <1>1, <2>2, <2>3, <3>1, <3>2, SMTT(30)
      <4> QED BY <4>1
    <3>3. CASE j > i
      <4> DEFINE a == SubSeq(list, 1, i - 1)
                 b == SubSeq(list, i + 1, Len(list))
      <4>1. a \in Seq(Downloads) /\ Len(a) = i - 1
        BY <1>1, <2>2
      <4>2. b \in Seq(Downloads) /\ Len(b) = Len(list) - i
        BY <1>1, <2>2, SubSeqProperties
      <4>3. j - i \in 1 .. Len(b) /\ Len(a) + (j - i) = j - 1
        <5>1. i \in Nat /\ j \in Nat /\ i < j /\ j <= Len(list) /\ 1 <= i
          BY <2>2, <3>1, <3>3
        <5> HIDE DEF a, b
        <5> QED BY <2>2, <4>1, <4>2, <5>1
      <4>4. b[j - i] = list[j]
        <5>1. /\ i + 1 \in Int /\ Len(list) \in Int
              /\ \A k \in i + 1 .. Len(list) : list[k] \in Downloads
          BY <1>1, <2>2
        <5>2. \A k \in 1 .. Len(list) - (i + 1) + 1 : b[k] = list[i + 1 + k - 1]
          BY <5>1, SubSeqProperties, SMTT(30)
        <5>3. j - i \in 1 .. Len(list) - (i + 1) + 1 /\ i + 1 + (j - i) - 1 = j
          BY <2>2, <3>1, <3>3
        <5> QED BY <5>2, <5>3
      <4> HIDE DEF a, b
      <4>5. Len(a) + (j - i) \in DOMAIN (a \o b) /\ (a \o b)[Len(a) + (j - i)] = b[j - i]
        BY <4>1, <4>2, <4>3, ConcatAtLemma
      <4> QED BY <2>3, <4>3, <4>4, <4>5 DEF a, b
    <3> QED BY <2>2, <2>4, <3>1, <3>2, <3>3
  <2>5. ASSUME NEW d \in Listed, d \in Downloads, dl[d].status # "DELETED"
        PROVE  d \in Listed'
    <3>1. PICK j \in DOMAIN list : list[j] = d
      BY <2>5 DEF Listed, Range
    <3>2. j # i
      BY <2>1, <2>5, <3>1 DEF Purgeable
    <3> QED BY <2>4, <3>1, <3>2 DEF Listed, Range
  <2> QED BY <2>5 DEF NoneLost
<1>4. ASSUME NEW c \in Clients, Add(c)
      PROVE  NoneLost
  <2>1. PICK e \in Downloads : list' = Append(list, e)
    BY <1>4 DEF Add
  <2>2. \A j \in DOMAIN list : j \in DOMAIN list' /\ list'[j] = list[j]
    BY <1>1, <2>1
  <2> QED BY <2>2 DEF NoneLost, Listed, Range
<1>5. CASE StartNext
  <2>1. PICK t \in Starters : StarterStep(t)
    BY <1>5 DEF StartNext, StarterStep
  <2> QED BY <1>2, <2>1 DEF StarterStep, LockStart, EnterStart, PickNext, PickNone, DoDownload
<1>6. CASE WorkerNext
  <2>1. PICK w \in Workers : WorkerProgress(w) \/ PluginSetsWait(w) \/ CaptchaFails(w)
    BY <1>6 DEF WorkerNext, WorkerProgress
  <2> QED BY <1>2, <2>1 DEF WorkerProgress, WorkerStarts, PluginSetsWait, CaptchaFails, Prepared,
           CountdownOver, SetUp, TransferDone, PostProcessed, TransferFails, TransferAborted,
           Settle, AskReconnect, FinishPackage, Release, WorkerEnds, ReleaseSlot, WorkerStep
<1>7. CASE TickNext \/ ClockTurns
  BY <1>2, <1>3, <1>7, VisitLeaves DEF TickNext, DecreaseBegins, DecreaseDone, ClockTurns
<1>8. CASE ClientNext
  <2>1. PICK c \in Clients :
          \/ Activate(c) \/ Deactivate(c) \/ Delete(c)
          \/ CommandSetsStatus(c) \/ CommandZeroesWait(c)
          \/ Stop(c) \/ Add(c) \/ OtherCommand(c)
    BY <1>8 DEF ClientNext
  <2> QED BY <1>2, <1>4, <2>1 DEF Activate, Deactivate, Delete, LookUp, CommandSetsStatus,
                                  CommandZeroesWait, Stop, OtherCommand
<1> QED BY <1>5, <1>6, <1>7, <1>8 DEF Outside

\* While a thread is about to mark downloads nobody else gets mx, or changes
\* the list or what was read of it.
LEMMA OutsideKeepsMx ==
  ASSUME ReconnectInv, Outside, NEW t \in Reconnectors, rec[t] = "mark"
  PROVE  mx' = mx /\ (list' = list)
<1>1. /\ mx = t /\ t # NoThread /\ t # Ticker /\ t \notin Clients
      /\ st[t].pc = "idle" /\ tick.pc = "purge"
  BY ThreadsAssumption DEF ReconnectInv, MarkerHasMx, ReconnectFirst, TickerHasMx, Starters
<1>2. \A s : s # t => ~CanLock(s)
  BY <1>1 DEF CanLock
<1>3. CASE StartNext
  <2>1. PICK s \in Starters : StarterStep(s)
    BY <1>3 DEF StartNext, StarterStep
  <2>2. s # t
    BY <1>1, <2>1 DEF StarterStep, LockStart, EnterStart, PickNext, PickNone, DoDownload
  <2>3. EnterStart(s)
    BY <1>2, <2>1, <2>2 DEF StarterStep, LockStart, PickNext, PickNone, DoDownload
  <2> QED BY <2>3 DEF EnterStart
<1>4. CASE WorkerNext
  <2>1. PICK w \in Workers : WorkerProgress(w) \/ PluginSetsWait(w) \/ CaptchaFails(w)
    BY <1>4 DEF WorkerNext, WorkerProgress
  <2> QED BY <2>1 DEF WorkerProgress, WorkerStarts, PluginSetsWait, CaptchaFails, Prepared,
           CountdownOver, SetUp, TransferDone, PostProcessed, TransferFails, TransferAborted,
           Settle, AskReconnect, FinishPackage, Release, WorkerEnds, ReleaseSlot, WorkerStep
<1>5. CASE TickNext
  BY <1>1, <1>2, <1>5, VisitLeaves DEF TickNext, PurgeOne, DecreaseBegins, DecreaseDone
<1>6. CASE ClockTurns
  BY <1>6 DEF ClockTurns
<1>7. CASE ClientNext
  <2>1. PICK c \in Clients :
          \/ Activate(c) \/ Deactivate(c) \/ Delete(c)
          \/ CommandSetsStatus(c) \/ CommandZeroesWait(c)
          \/ Stop(c) \/ Add(c) \/ OtherCommand(c)
    BY <1>7 DEF ClientNext
  <2>2. ~CanLock(c)
    BY <1>1, <1>2
  <2>3. OtherCommand(c)
    BY <2>1, <2>2 DEF Activate, Deactivate, Delete, LookUp, CommandSetsStatus,
                      CommandZeroesWait, Stop, Add
  <2> QED BY <2>3 DEF OtherCommand
<1> QED BY <1>3, <1>4, <1>5, <1>6, <1>7 DEF Outside

\* decrease_waits keeps mx whatever the other threads do.
LEMMA OutsideKeepsTicker ==
  ASSUME ReconnectInv, Outside
  PROVE  TickerHasMx'
<1>1. /\ Ticker # NoThread /\ Ticker \notin Clients
      /\ tick.pc # "purge" => mx = Ticker
  BY ThreadsAssumption DEF ReconnectInv, SlotInv, TypeOK, TickerHasMx, Starters
<1>2. ASSUME tick' = tick, tick.pc # "purge" => mx' = mx
      PROVE  TickerHasMx'
  BY <1>1, <1>2 DEF TickerHasMx
<1>3. tick.pc # "purge" => \A s : s # Ticker => ~CanLock(s)
  BY <1>1 DEF CanLock
<1>4. CASE StartNext
  <2>1. PICK s \in Starters : StarterStep(s)
    BY <1>4 DEF StartNext, StarterStep
  <2>2. tick' = tick
    BY <2>1 DEF StarterStep, LockStart, EnterStart, PickNext, PickNone, DoDownload
  <2>3. tick.pc # "purge" => mx' = mx
    BY <1>1, <1>3, <2>1 DEF StarterStep, LockStart, EnterStart, PickNext, PickNone, DoDownload, Returned
  <2> QED BY <1>2, <2>2, <2>3
<1>5. CASE WorkerNext
  <2>1. PICK w \in Workers : WorkerProgress(w) \/ PluginSetsWait(w) \/ CaptchaFails(w)
    BY <1>5 DEF WorkerNext, WorkerProgress
  <2>2. tick' = tick /\ mx' = mx
    BY <2>1 DEF WorkerProgress, WorkerStarts, PluginSetsWait, CaptchaFails, Prepared,
           CountdownOver, SetUp, TransferDone, PostProcessed, TransferFails, TransferAborted,
           Settle, AskReconnect, FinishPackage, Release, WorkerEnds, ReleaseSlot, WorkerStep
  <2> QED BY <1>2, <2>2
<1>6. CASE TickNext
  <2>1. CASE PurgeOne
    BY <1>2, <2>1 DEF PurgeOne
  <2>2. CASE DecreaseBegins
    BY <2>2 DEF DecreaseBegins, TickerHasMx
  <2>3. CASE DecreaseWaits
    BY <1>1, <2>3, VisitLeaves DEF TickerHasMx
  <2>4. CASE DecreaseDone
    BY <2>4 DEF DecreaseDone, NextSecond, TickerHasMx
  <2> QED BY <1>6, <2>1, <2>2, <2>3, <2>4 DEF TickNext
<1>7. CASE ClockTurns
  BY <1>2, <1>7 DEF ClockTurns
<1>8. CASE ClientNext
  <2>1. PICK c \in Clients :
          \/ Activate(c) \/ Deactivate(c) \/ Delete(c)
          \/ CommandSetsStatus(c) \/ CommandZeroesWait(c)
          \/ Stop(c) \/ Add(c) \/ OtherCommand(c)
    BY <1>8 DEF ClientNext
  <2>2. tick' = tick /\ (tick.pc # "purge" => mx' = mx)
    BY <1>1, <1>3, <2>1 DEF Activate, Deactivate, Delete, LookUp, CommandSetsStatus,
                            CommandZeroesWait, Stop, Add, OtherCommand
  <2> QED BY <1>2, <2>2
<1> QED BY <1>4, <1>5, <1>6, <1>7, <1>8 DEF Outside

\* A reconnect thread does not start downloads before it is through, and
\* nobody else moves it.  What the list was seen as is the reconnect's own.
LEMMA OutsideKeepsReconnector ==
  ASSUME ReconnectInv, Outside
  PROVE  /\ ReconnectFirst' /\ seen' = seen
         /\ \A t \in Reconnectors : \/ rec'[t] = rec[t]
                                    \/ rec[t] = "idle" /\ rec'[t] = "begin"
<1>1. /\ DOMAIN st = Starters /\ DOMAIN rec = Reconnectors
      /\ Reconnectors \subseteq Starters
      /\ \A t \in Reconnectors : t \notin Clients /\ t \notin Helpers /\ t # Ticker
  BY ThreadsAssumption DEF ReconnectInv, SlotInv, TypeOK, Starters
<1>2. ASSUME rec' = rec,
             \A t \in Reconnectors : rec[t] # "idle" => st'[t] = st[t]
      PROVE  ReconnectFirst'
  BY <1>2 DEF ReconnectInv, ReconnectFirst
<1>3. CASE StartNext
  <2>1. PICK s \in Starters : StarterStep(s)
    BY <1>3 DEF StartNext, StarterStep
  <2>2. rec' = rec /\ seen' = seen
    BY <2>1 DEF StarterStep, LockStart, EnterStart, PickNext, PickNone, DoDownload
  <2>3. st[s].pc # "idle"
    BY <2>1 DEF StarterStep, LockStart, EnterStart, PickNext, PickNone, DoDownload
  <2>4. \E x : st' = [st EXCEPT ![s] = x]
    BY <2>1 DEF StarterStep, LockStart, EnterStart, PickNext, PickNone, DoDownload, Returned
  <2>5. \A t \in Reconnectors : rec[t] # "idle" => st'[t] = st[t]
    BY <1>1, <2>3, <2>4 DEF ReconnectInv, ReconnectFirst
  <2> QED BY <1>2, <2>2, <2>5
<1>4. CASE WorkerNext
  <2>1. PICK w \in Workers : WorkerProgress(w) \/ PluginSetsWait(w) \/ CaptchaFails(w)
    BY <1>4 DEF WorkerNext, WorkerProgress
  <2>2. CASE AskReconnect(w)
    <3>1. seen' = seen /\ st' = st
      BY <2>2 DEF AskReconnect
    <3>2. rec' = rec \/ \E r \in Reconnectors : /\ rec[r] = "idle" /\ st[r].pc = "idle"
                                                 /\ rec' = [rec EXCEPT ![r] = "begin"]
      BY <2>2 DEF AskReconnect
    <3> QED BY <1>1, <1>2, <3>1, <3>2 DEF ReconnectInv, ReconnectFirst
  <2>3. CASE ~AskReconnect(w)
    <3>1. rec' = rec /\ seen' = seen
      BY <2>1, <2>3 DEF WorkerProgress, WorkerStarts, PluginSetsWait, CaptchaFails, Prepared,
           CountdownOver, SetUp, TransferDone, PostProcessed, TransferFails, TransferAborted,
           Settle, FinishPackage, Release, WorkerEnds, ReleaseSlot, WorkerStep
    <3>2. st' = st \/ \E pc : Detached(pc)
      BY <2>1, <2>3 DEF WorkerProgress, WorkerStarts, PluginSetsWait, CaptchaFails, Prepared,
           CountdownOver, SetUp, TransferDone, PostProcessed, TransferFails, TransferAborted,
           Settle, FinishPackage, Release, WorkerEnds, ReleaseSlot
    <3>3. \A t \in Reconnectors : st'[t] = st[t]
      BY <1>1, <3>2 DEF Detached
    <3> QED BY <1>2, <3>1, <3>3
  <2> QED BY <2>2, <2>3
<1>5. CASE TickNext \/ ClockTurns
  <2>1. /\ rec' = rec /\ seen' = seen
        /\ st' = st \/ \E x : st' = [st EXCEPT ![Ticker] = x]
    <3>1. CASE DecreaseWaits
      BY <3>1, VisitLeaves, VisitFacts DEF ReconnectInv, SlotInv
    <3>2. CASE ~DecreaseWaits
      BY <1>5, <3>2 DEF TickNext, PurgeOne, DecreaseBegins, DecreaseDone, ClockTurns
    <3> QED BY <3>1, <3>2
  <2>2. \A t \in Reconnectors : st'[t] = st[t]
    BY <1>1, <2>1
  <2> QED BY <1>2, <2>1, <2>2
<1>6. CASE ClientNext
  <2>1. PICK c \in Clients :
          \/ Activate(c) \/ Deactivate(c) \/ Delete(c)
          \/ CommandSetsStatus(c) \/ CommandZeroesWait(c)
          \/ Stop(c) \/ Add(c) \/ OtherCommand(c)
    BY <1>6 DEF ClientNext
  <2>2. /\ rec' = rec /\ seen' = seen
        /\ st' = st \/ \E x : st' = [st EXCEPT ![c] = x]
    BY <2>1 DEF Activate, Deactivate, Delete, LookUp, CommandSetsStatus,
                CommandZeroesWait, Stop, Add, OtherCommand
  <2>3. \A t \in Reconnectors : st'[t] = st[t]
    BY <1>1, <2>2
  <2> QED BY <1>2, <2>2, <2>3
<1> QED BY <1>3, <1>4, <1>5, <1>6 DEF Outside

--------------------------------------------------------------------------------
(* The invariant.                                                            *)

\* The invariant survives every step outside do_reconnect ...
LEMMA OutsidePreserves ==
  ASSUME ReconnectInv, Outside, SlotInv'
  PROVE  ReconnectInv'
<1>1. SlotInv /\ TypeOK
  BY DEF ReconnectInv, SlotInv
<1>2. NoneMarked /\ NoneLost
  BY <1>1, OutsideMarksNone, OutsideLosesNone
<1>3. OneReconnect'
  BY <1>1, OutsideLemma DEF ReconnectInv, OneReconnect
<1>4. /\ TickerHasMx' /\ ReconnectFirst' /\ seen' = seen
      /\ \A t \in Reconnectors : \/ rec'[t] = rec[t]
                                 \/ rec[t] = "idle" /\ rec'[t] = "begin"
  BY OutsideKeepsTicker, OutsideKeepsReconnector
<1>5. MarkerHasMx'
  <2> SUFFICES ASSUME NEW t \in Reconnectors, rec'[t] = "mark"
               PROVE  mx' = t /\ \A d \in Downloads : seen'[d] # "DELETED" => d \in Listed'
    BY DEF MarkerHasMx
  <2>1. rec[t] = "mark"
    BY <1>4
  <2>2. mx' = mx /\ Listed' = Listed
    BY <2>1, OutsideKeepsMx DEF Listed, Range
  <2> QED BY <1>4, <2>1, <2>2 DEF ReconnectInv, MarkerHasMx
<1>6. ReconnectingIsListed'
  <2> SUFFICES ASSUME NEW d \in Downloads, dl'[d].status = "RECONNECTING"
               PROVE  d \in Listed'
    BY DEF ReconnectingIsListed
  <2>1. dl[d].status = "RECONNECTING"
    BY <1>2 DEF NoneMarked
  <2>2. d \in Listed
    BY <2>1 DEF ReconnectInv, ReconnectingIsListed
  <2> QED BY <1>2, <2>1, <2>2 DEF NoneLost
<1>7. ReconnectingIsTransient'
  <2> SUFFICES ASSUME NEW d \in Downloads, dl'[d].status = "RECONNECTING"
               PROVE  \E t \in Reconnectors : \/ rec'[t] = "router"
                                              \/ rec'[t] = "unmark" /\ seen'[d] = "RECONNECTING"
    BY DEF ReconnectingIsTransient
  <2>1. dl[d].status = "RECONNECTING"
    BY <1>2 DEF NoneMarked
  <2>2. PICK t \in Reconnectors : \/ rec[t] = "router"
                                  \/ rec[t] = "unmark" /\ seen[d] = "RECONNECTING"
    BY <2>1 DEF ReconnectInv, ReconnectingIsTransient
  <2>3. rec'[t] = rec[t] /\ seen' = seen
    BY <1>4, <2>2
  <2> QED BY <2>2, <2>3
<1> QED BY <1>3, <1>4, <1>5, <1>6, <1>7 DEF ReconnectInv

\* ... and every step of do_reconnect.
LEMMA InsidePreserves ==
  ASSUME ReconnectInv, NEW t \in Reconnectors, ReconnectStep(t), SlotInv'
  PROVE  ReconnectInv'
<1>1. SlotInv /\ TypeOK /\ OneReconnect
  BY DEF ReconnectInv, SlotInv
<1>2. OneReconnect'
  BY <1>1, InsideLemma
<1>3. /\ DOMAIN rec = Reconnectors /\ DOMAIN st = Starters
      /\ t \in Starters /\ t # NoThread /\ t # Ticker /\ Ticker # NoThread
      /\ \A d \in Downloads : dl[d] \in Record
  BY <1>1, ThreadsAssumption DEF TypeOK, Starters, Record
<1>4. rec[t] # "idle" /\ st[t].pc = "idle"
  BY DEF ReconnectStep, BeginReconnect, MarkDownloads, RouterDone, UnmarkDownloads,
         ReconnectInv, ReconnectFirst
<1>5. \A u \in Reconnectors : rec[u] \in {"mark", "router", "unmark"} <=> Reconnecting(u)
  BY DEF Reconnecting
<1>6. CASE BeginReconnect(t) /\ (isReconnecting \/ ~RouterModelSet)
  <2>1. /\ rec[t] = "begin" /\ rec' = [rec EXCEPT ![t] = "idle"]
        /\ UNCHANGED <<list, dl, mx, st, seen, tick>>
    BY <1>6 DEF BeginReconnect
  <2>2. \A u \in Reconnectors : u # t => rec'[u] = rec[u]
    BY <1>3, <2>1
  <2>3. rec'[t] = "idle"
    BY <1>3, <2>1
  <2>4. MarkerHasMx' /\ TickerHasMx' /\ ReconnectFirst'
    BY <2>1, <2>2, <2>3 DEF ReconnectInv, MarkerHasMx, TickerHasMx, ReconnectFirst, Listed, Range
  <2>5. ReconnectingIsListed' /\ ReconnectingIsTransient'
    BY <2>1, <2>2, <2>3 DEF ReconnectInv, ReconnectingIsListed, ReconnectingIsTransient, Listed, Range
  <2> QED BY <1>2, <2>4, <2>5 DEF ReconnectInv
<1>7. CASE BeginReconnect(t) /\ ~(isReconnecting \/ ~RouterModelSet)
  <2>1. /\ rec' = [rec EXCEPT ![t] = "mark"]
        /\ mx' = t
        /\ seen' = [d \in Downloads |-> IF d \in Listed THEN dl[d].status ELSE "DELETED"]
        /\ UNCHANGED <<list, dl, st, tick>>
        /\ CanLock(t) /\ ~isReconnecting
    BY <1>7 DEF BeginReconnect
  <2>2. /\ \A u \in Reconnectors : u # t => rec'[u] = rec[u]
        /\ rec'[t] = "mark"
    BY <1>3, <2>1
  <2>3. \A u \in Reconnectors : rec[u] \notin {"mark", "router", "unmark"}
    BY <1>1, <1>5, <2>1 DEF OneReconnect
  <2>4. \A d \in Downloads : dl[d].status # "RECONNECTING"
    BY <2>3 DEF ReconnectInv, ReconnectingIsTransient
  <2>5. ReconnectingIsListed' /\ ReconnectingIsTransient'
    BY <2>1, <2>4 DEF ReconnectingIsListed, ReconnectingIsTransient
  <2>6. MarkerHasMx'
    BY <2>1, <2>2, <2>3 DEF MarkerHasMx, Listed, Range
  <2>7. TickerHasMx'
    BY <1>3, <2>1 DEF ReconnectInv, TickerHasMx, CanLock
  <2>8. ReconnectFirst'
    BY <1>4, <2>1, <2>2 DEF ReconnectInv, ReconnectFirst
  <2> QED BY <1>2, <2>5, <2>6, <2>7, <2>8 DEF ReconnectInv
<1>8. ASSUME Reconnecting(t), NEW pc \in {"idle", "router", "unmark"},
             rec' = [rec EXCEPT ![t] = pc]
      PROVE  /\ rec'[t] = pc
             /\ \A u \in Reconnectors : u # t =>
                  rec'[u] = rec[u] /\ rec[u] \notin {"mark", "router", "unmark"}
             /\ MarkerHasMx'
  <2>1. rec'[t] = pc /\ \A u \in Reconnectors : u # t => rec'[u] = rec[u]
    BY <1>3, <1>8
  <2>2. \A u \in Reconnectors : u # t => rec[u] \notin {"mark", "router", "unmark"}
    BY <1>1, <1>5, <1>8 DEF OneReconnect
  <2>3. \A u \in Reconnectors : rec'[u] # "mark"
    BY <2>1, <2>2, <1>8
  <2> QED BY <2>1, <2>2, <2>3 DEF MarkerHasMx
<1>9. CASE MarkDownloads(t)
  <2>1. /\ rec[t] = "mark" /\ rec' = [rec EXCEPT ![t] = "router"]
        /\ dl' = [d \in Downloads |-> Reconnected(dl[d], seen[d])]
        /\ UNCHANGED <<list, st, tick>>
    BY <1>9 DEF MarkDownloads
  <2>2. Reconnecting(t)
    BY <2>1 DEF Reconnecting
  <2>3. /\ rec'[t] = "router" /\ MarkerHasMx'
        /\ \A u \in Reconnectors : u # t => rec'[u] = rec[u]
    BY <1>8, <2>1, <2>2
  <2>4. mx = t /\ \A d \in Downloads : seen[d] # "DELETED" => d \in Listed
    BY <2>1 DEF ReconnectInv, MarkerHasMx
  <2>5. TickerHasMx'
    BY <1>3, <2>1, <2>4 DEF ReconnectInv, TickerHasMx
  <2>6. ReconnectFirst'
    BY <1>4, <2>1, <2>3 DEF ReconnectInv, ReconnectFirst
  <2>7. ReconnectingIsTransient'
    BY <2>3 DEF ReconnectingIsTransient
  <2>8. ReconnectingIsListed'
    <3> SUFFICES ASSUME NEW d \in Downloads, dl'[d].status = "RECONNECTING"
                 PROVE  d \in Listed
      BY <2>1 DEF ReconnectingIsListed, Listed, Range
    <3>1. seen[d] \in {"WAITING", "RUNNING"} \/ dl'[d] = dl[d]
      BY <2>1 DEF Reconnected
    <3> QED BY <2>4, <3>1 DEF ReconnectInv, ReconnectingIsListed
  <2> QED BY <1>2, <2>3, <2>5, <2>6, <2>7, <2>8 DEF ReconnectInv
<1>10. CASE RouterDone(t)
  <2>1. /\ rec[t] = "router" /\ rec' = [rec EXCEPT ![t] = "unmark"]
        /\ mx' = t /\ CanLock(t)
        /\ seen' = [d \in Downloads |-> IF d \in Listed THEN dl[d].status ELSE "DELETED"]
        /\ UNCHANGED <<list, dl, st, tick>>
    BY <1>10 DEF RouterDone
  <2>2. Reconnecting(t)
    BY <2>1 DEF Reconnecting
  <2>3. /\ rec'[t] = "unmark" /\ MarkerHasMx'
        /\ \A u \in Reconnectors : u # t => rec'[u] = rec[u]
    BY <1>8, <2>1, <2>2
  <2>4. TickerHasMx'
    BY <1>3, <2>1 DEF ReconnectInv, TickerHasMx, CanLock
  <2>5. ReconnectFirst'
    BY <1>4, <2>1, <2>3 DEF ReconnectInv, ReconnectFirst
  <2>6. ReconnectingIsListed'
    BY <2>1 DEF ReconnectInv, ReconnectingIsListed, Listed, Range
  <2>7. ReconnectingIsTransient'
    <3> SUFFICES ASSUME NEW d \in Downloads, dl[d].status = "RECONNECTING"
                 PROVE  seen'[d] = "RECONNECTING"
      BY <2>1, <2>3 DEF ReconnectingIsTransient
    <3>1. d \in Listed
      BY DEF ReconnectInv, ReconnectingIsListed
    <3> QED BY <2>1, <3>1
  <2> QED BY <1>2, <2>3, <2>4, <2>5, <2>6, <2>7 DEF ReconnectInv
<1>11. CASE UnmarkDownloads(t)
  <2>1. /\ rec[t] = "unmark" /\ rec' = [rec EXCEPT ![t] = "idle"]
        /\ dl' = [d \in Downloads |-> Unmarked(dl[d], seen[d])]
        /\ st' = [st EXCEPT ![t].pc = "scan"]
        /\ UNCHANGED <<list, mx, tick>>
    BY <1>11 DEF UnmarkDownloads
  <2>2. Reconnecting(t)
    BY <2>1 DEF Reconnecting
  <2>3. /\ rec'[t] = "idle" /\ MarkerHasMx'
        /\ \A u \in Reconnectors : u # t =>
             rec'[u] = rec[u] /\ rec[u] \notin {"mark", "router", "unmark"}
    BY <1>8, <2>1, <2>2
  <2>4. TickerHasMx'
    BY <2>1 DEF ReconnectInv, TickerHasMx
  <2>5. ReconnectFirst'
    BY <1>3, <2>1, <2>3 DEF ReconnectInv, ReconnectFirst
  <2>6. ASSUME NEW d \in Downloads
        PROVE  dl'[d].status # "RECONNECTING"
    <3>1. CASE seen[d] \in {"WAITING", "RECONNECTING"}
      <4> DEFINE q == SetStatus(dl[d], "PENDING")
      <4>1. q \in Record /\ q.status # "RECONNECTING"
        BY <1>3, SetStatusLemma, NotMarkedLemma DEF Status
      <4>2. dl'[d] = [q EXCEPT !.wait = 0]
        BY <2>1, <3>1 DEF Unmarked
      <4> HIDE DEF q
      <4> QED BY <4>1, <4>2 DEF Record, DownloadRecord
    <3>2. CASE seen[d] \notin {"WAITING", "RECONNECTING"}
      <4>1. dl'[d] = dl[d]
        BY <2>1, <3>2 DEF Unmarked
      <4>2. dl[d].status = "RECONNECTING" => seen[d] = "RECONNECTING"
        BY <2>1, <2>3 DEF ReconnectInv, ReconnectingIsTransient
      <4> QED BY <3>2, <4>1, <4>2
    <3> QED BY <3>1, <3>2
  <2>7. ReconnectingIsListed' /\ ReconnectingIsTransient'
    BY <2>6 DEF ReconnectingIsListed, ReconnectingIsTransient
  <2> QED BY <1>2, <2>3, <2>4, <2>5, <2>7 DEF ReconnectInv
<1> QED BY <1>6, <1>7, <1>9, <1>10, <1>11 DEF ReconnectStep

\* The daemon starts without a reconnect.
LEMMA InitReconnectInv == Init => ReconnectInv
<1> SUFFICES ASSUME Init PROVE ReconnectInv
  OBVIOUS
<1>1. SlotInv
  BY InitSlotInv
<1>2. OneReconnect /\ MarkerHasMx /\ TickerHasMx /\ ReconnectFirst
  BY DEF Init, NextSecond, OneReconnect, Reconnecting, MarkerHasMx, TickerHasMx, ReconnectFirst
<1>3. \A d \in Downloads : dl[d].status # "RECONNECTING"
  <2> DEFINE Restored(s) == [NewDownload EXCEPT !.status = s]
             First == {Restored(s) : s \in {"PENDING", "INACTIVE", "FINISHED"}}
  <2>1. dl \in [Downloads -> First]
    BY DEF Init
  <2>2. \A r \in First : r.status # "RECONNECTING"
    BY NewDownloadLemma DEF Record, DownloadRecord
  <2> HIDE DEF First
  <2> QED BY <2>1, <2>2
<1> QED BY <1>1, <1>2, <1>3 DEF ReconnectInv, ReconnectingIsListed, ReconnectingIsTransient

\* No step breaks the invariant of the reconnect.
LEMMA NextReconnectInv == ReconnectInv /\ [Next]_vars => ReconnectInv'
<1> SUFFICES ASSUME ReconnectInv, [Next]_vars PROVE ReconnectInv'
  OBVIOUS
<1>1. SlotInv'
  BY NextSlotInv DEF ReconnectInv
<1>2. CASE Outside
  BY <1>1, <1>2, OutsidePreserves
<1>3. CASE ReconnectNext
  <2>1. PICK t \in Reconnectors : ReconnectStep(t)
    BY <1>3 DEF ReconnectNext, ReconnectStep
  <2> QED BY <1>1, <2>1, InsidePreserves
<1>4. CASE UNCHANGED vars
  BY <1>1, <1>4 DEF vars, ReconnectInv, OneReconnect, Reconnecting, MarkerHasMx, TickerHasMx,
                    ReconnectFirst, ReconnectingIsListed, ReconnectingIsTransient, Listed, Range
<1> QED BY <1>2, <1>3, <1>4 DEF Next, Outside

\* The inductive invariant of the reconnect.
LEMMA ReconnectInvariant == Spec => []ReconnectInv
<1> QED BY InitReconnectInv, NextReconnectInv, PTL DEF Spec

\* A download has the status RECONNECTING only while the do_reconnect thread
\* that set it has still to set it back: commands, ends of downloads, the
\* ticker and purge_deleted may come in between, and none leaves one behind.
THEOREM ReconnectingEnds == Spec => []ReconnectingIsTransient
<1>1. ReconnectInv => ReconnectingIsTransient
  BY DEF ReconnectInv
<1> QED BY <1>1, ReconnectInvariant, PTL

--------------------------------------------------------------------------------
(* Locked starts.                                                            *)

\* No reconnect begins while a thread that locked mx looks for downloads.
ScansUnhindered ==
  \A t \in Starters :
    mx = t /\ st[t].pc \in {"scan", "picked"} => ~isReconnecting

\* The inductive invariant.
FreshInv == ReconnectInv /\ ScansUnhindered /\ LockedStartIsFresh

\* What the download that t has picked is started next to, with mx held.
StartsFresh(t) ==
  LET running == {d \in Listed \ InPostProcess : dl[d].running}
  IN  /\ st[t].dl \notin running
      /\ Cardinality(running) < Limit
      /\ \/ HostOf[st[t].dl] \in ParallelHosts
         \/ \A d \in running : HostOf[d] # HostOf[st[t].dl]

\* A step that sets no is_running flag but post_process_download's.
NoneBegun ==
  \A d \in Downloads : dl'[d].running /\ d \notin InPostProcess' =>
                         dl[d].running /\ d \notin InPostProcess

\* LockedStartIsFresh, one thread at a time.
LEMMA FreshParts ==
  ScansUnhindered =>
    (LockedStartIsFresh <=> \A t \in Starters : mx = t /\ st[t].pc = "picked" => StartsFresh(t))
BY DEF ScansUnhindered, LockedStartIsFresh, StartsFresh

\* The downloads in the list are finitely many, and so are any part of them.
LEMMA ListedIsFinite ==
  ASSUME list \in Seq(Downloads)
  PROVE  Listed \subseteq Downloads /\ IsFiniteSet(Listed)
<1>1. Len(list) \in Nat /\ DOMAIN list = 1 .. Len(list) /\ list \in [1 .. Len(list) -> Downloads]
  BY LenProperties
<1>2. IsFiniteSet(1 .. Len(list))
  BY <1>1, FS_Interval
<1>3. list \in Surjection(1 .. Len(list), Listed)
  BY <1>1 DEF Surjection, Listed, Range
<1> QED BY <1>1, <1>2, <1>3, FS_Surjection DEF Listed, Range

\* What is picked stays fresh in a step that leaves the list alone and begins
\* nothing.
LEMMA StaysFresh ==
  ASSUME TypeOK, TypeOK', NEW t \in Starters, StartsFresh(t), st'[t] = st[t], list' = list, NoneBegun
  PROVE  StartsFresh(t)'
<1> DEFINE running == {d \in Listed \ InPostProcess : dl[d].running}
<1>1. IsFiniteSet(Listed) /\ Listed \subseteq Downloads /\ Listed' = Listed
  BY ListedIsFinite DEF TypeOK, Listed, Range
<1>2. running' \subseteq running
  BY <1>1 DEF NoneBegun
<1>3. running \in SUBSET Listed
  OBVIOUS
<1>4. IsFiniteSet(running)
  BY <1>1, <1>3, FS_Subset
<1> HIDE DEF running
<1>5. Cardinality(running') <= Cardinality(running)
  BY <1>2, <1>4, FS_Subset
<1>6. Cardinality(running) \in Nat /\ Cardinality(running') \in Nat
  BY <1>2, <1>4, FS_Subset, FS_CardinalityType
<1>7. /\ st[t].dl \notin running
      /\ Cardinality(running) < Limit
      /\ \/ HostOf[st[t].dl] \in ParallelHosts
         \/ \A d \in running : HostOf[d] # HostOf[st[t].dl]
  BY DEF StartsFresh, running
<1>8. /\ st'[t].dl \notin running'
      /\ Cardinality(running') < Limit
      /\ \/ HostOf[st'[t].dl] \in ParallelHosts
         \/ \A d \in running' : HostOf[d] # HostOf[st'[t].dl]
  BY <1>2, <1>5, <1>6, <1>7, ConfigAssumption
<1> QED BY <1>8 DEF StartsFresh, running

\* get_next_downloadable picks what may be started now.
LEMMA PickIsFresh ==
  ASSUME TypeOK, NEW t \in Starters, PickNext(t)
  PROVE  StartsFresh(t)'
<1>1. PICK d \in Listed : IsNext(d) /\ st' = [st EXCEPT ![t] = [pc |-> "picked", dl |-> d]]
  BY DEF PickNext
<1>2. st'[t].dl = d /\ UNCHANGED <<list, dl, wk>>
  BY <1>1 DEF PickNext, TypeOK
<1> DEFINE running == {e \in Listed \ InPostProcess : dl[e].running}
           counted == {e \in Listed : dl[e].running}
<1>3. running' = running
  BY <1>2 DEF Listed, Range, InPostProcess, WorkerOf
<1>4. Startable(d) /\ Cardinality(counted) < Limit
  BY <1>1 DEF IsNext, NumRunning
<1>5. IsFiniteSet(Listed)
  BY ListedIsFinite DEF TypeOK
<1>6. counted \in SUBSET Listed /\ running \in SUBSET counted
  OBVIOUS
<1>7. IsFiniteSet(counted)
  BY <1>5, <1>6, FS_Subset
<1>8. /\ d \notin running
      /\ \/ HostOf[d] \in ParallelHosts
         \/ \A e \in running : HostOf[e] # HostOf[d]
  BY <1>4 DEF Startable
<1> HIDE DEF running, counted
<1>9. /\ Cardinality(running) <= Cardinality(counted)
      /\ Cardinality(running) \in Nat /\ Cardinality(counted) \in Nat
  BY <1>6, <1>7, FS_Subset, FS_CardinalityType
<1>10. Cardinality(running) < Limit
  BY <1>4, <1>9, ConfigAssumption
<1>11. /\ st'[t].dl \notin running'
       /\ Cardinality(running') < Limit
       /\ \/ HostOf[st'[t].dl] \in ParallelHosts
          \/ \A e \in running' : HostOf[e] # HostOf[st'[t].dl]
  BY <1>2, <1>3, <1>8, <1>10
<1> QED BY <1>11 DEF StartsFresh, running

\* A step of a download_me thread that leaves its download in state r.
LEMMA WorkerStepBegins ==
  ASSUME SlotInv, NEW w \in Workers, wk[w].pc # "free", NEW pc, NEW r, WorkerStep(w, pc, r),
         r.running => pc = "postproc" \/ (wk[w].pc # "postproc" /\ dl[wk[w].dl].running)
  PROVE  NoneBegun
<1> DEFINE d == wk[w].dl
<1>1. d \in Downloads
  BY DEF SlotInv, WorkerHasDownload
<1>2. /\ dl'[d] = r /\ \A e \in Downloads \ {d} : dl'[e] = dl[e]
      /\ wk'[w].pc = pc /\ wk'[w].dl = d
      /\ \A v \in Workers \ {w} : wk'[v] = wk[v]
  BY <1>1 DEF WorkerStep, SlotInv, TypeOK
<1> SUFFICES ASSUME NEW e \in Downloads, dl'[e].running, e \notin InPostProcess'
             PROVE  dl[e].running /\ e \notin InPostProcess
  BY DEF NoneBegun
<1>3. \A v \in Workers : ~(wk'[v].dl = e /\ wk'[v].pc = "postproc")
  BY DEF InPostProcess, WorkerOf
<1>4. dl[e].running /\ (e = d => wk[w].pc # "postproc")
  BY <1>2, <1>3
<1>5. \A v \in Workers : ~(wk[v].dl = e /\ wk[v].pc = "postproc")
  BY <1>2, <1>3, <1>4
<1> QED BY <1>4, <1>5 DEF InPostProcess, WorkerOf

\* download_me begins nothing but its post-processing, and moves no thread
\* that has picked a download.
LEMMA WorkerBeginsNone ==
  ASSUME SlotInv, NEW w \in Workers,
         WorkerProgress(w) \/ PluginSetsWait(w) \/ CaptchaFails(w)
  PROVE  NoneBegun
<1> DEFINE d == wk[w].dl
           Keeps(r) == r.running => dl[d].running
<1>1. ASSUME wk[w].pc \notin {"free", "postproc"}, NEW pc, NEW r, WorkerStep(w, pc, r), Keeps(r)
      PROVE  NoneBegun
  BY <1>1, WorkerStepBegins
<1>2. wk[w].pc # "free" => d \in Downloads /\ dl[d] \in Record
  BY DEF SlotInv, WorkerHasDownload, TypeOK, Record
<1>3. {"NONE", "LIMIT", "CONNECTION"} = ErrorClass
  BY DEF ErrorClass
<1>4. ASSUME NEW r \in Record
      PROVE  /\ \A b \in BOOLEAN : [r EXCEPT !.needStop = b].running = r.running
             /\ \A n : [r EXCEPT !.wait = n].running = r.running
             /\ \A n : [r EXCEPT !.error = n].running = r.running
             /\ \A n : [r EXCEPT !.proxy = n].running = r.running
             /\ \A n : [r EXCEPT !.status = n].running = r.running
             /\ \A n, e : [r EXCEPT !.status = n, !.error = e].running = r.running
             /\ [r EXCEPT !.needStop = FALSE, !.running = FALSE].running = FALSE
             /\ [r EXCEPT !.running = FALSE].running = FALSE
  BY <1>4 DEF Record, DownloadRecord
<1>5. CASE \/ WorkerStarts(w) \/ PluginSetsWait(w) \/ CountdownOver(w)
           \/ TransferAborted(w) \/ FinishPackage(w)
  <2>1. dl[d] \in Record /\ wk[w].pc \notin {"free", "postproc"}
    BY <1>2, <1>5 DEF WorkerStarts, PluginSetsWait, CountdownOver, TransferAborted, FinishPackage
  <2>2. \/ \E pc : WorkerStep(w, pc, dl[d])
        \/ \E pc : WorkerStep(w, pc, [dl[d] EXCEPT !.needStop = FALSE])
        \/ \E pc, n : WorkerStep(w, pc, [dl[d] EXCEPT !.wait = n])
    BY <1>5 DEF WorkerStarts, PluginSetsWait, CountdownOver, TransferAborted, FinishPackage
  <2>3. \A n : /\ Keeps(dl[d])
               /\ Keeps([dl[d] EXCEPT !.needStop = FALSE])
               /\ Keeps([dl[d] EXCEPT !.wait = n])
    BY <1>4, <2>1
  <2> HIDE DEF Keeps
  <2> QED BY <1>1, <2>1, <2>2, <2>3
<1>6. CASE PostProcessed(w)
  <2>1. /\ wk[w].pc = "postproc"
        /\ WorkerStep(w, "settle", [dl[d] EXCEPT !.running = FALSE])
    BY <1>6 DEF PostProcessed
  <2>2. ~[dl[d] EXCEPT !.running = FALSE].running
    BY <1>2, <1>4, <2>1
  <2> QED BY <2>1, <2>2, WorkerStepBegins
<1>7. CASE CaptchaFails(w)
  <2>1. wk[w].pc = "prepare" /\ WorkerStep(w, "gaveup", SetStatus(dl[d], "INACTIVE"))
    BY <1>7 DEF CaptchaFails
  <2>2. Keeps(SetStatus(dl[d], "INACTIVE"))
    BY <1>2, <2>1, SetStatusLemma DEF Status
  <2> QED BY <1>1, <2>1, <2>2
<1>8. CASE Prepared(w) \/ SetUp(w) \/ TransferFails(w)
  <2>1. /\ dl[d] \in Record /\ dl[d].error \in ErrorClass
        /\ wk[w].pc \notin {"free", "postproc"}
    BY <1>2, <1>8 DEF Prepared, SetUp, TransferFails, Record, DownloadRecord
  <2>2. \/ \E pc : WorkerStep(w, pc, dl[d])
        \/ \E n \in ErrorWaits, e \in ErrorClass :
             WorkerStep(w, "settle", RetryLater(dl[d], n, e))
        \/ \E e \in ErrorClass : WorkerStep(w, "settle", GiveUp(dl[d], e))
        \/ \E e : WorkerStep(w, "settle", [dl[d] EXCEPT !.status = "WAITING", !.error = e])
        \/ \E pc, e : WorkerStep(w, pc, [dl[d] EXCEPT !.error = e])
        \/ WorkerStep(w, "settle", [dl[d] EXCEPT !.status = "PENDING"])
    <3>1. CASE Prepared(w)
      BY <3>1, <1>3 DEF Prepared, Failures, PluginError, LimitReached
    <3>2. CASE SetUp(w)
      BY <3>2, <1>3 DEF SetUp, PluginError
    <3>3. CASE TransferFails(w)
      BY <3>3, <1>3, <2>1 DEF TransferFails, PluginError, Failures
    <3> QED BY <1>8, <3>1, <3>2, <3>3
  <2>3. \A e : /\ Keeps(dl[d])
               /\ Keeps([dl[d] EXCEPT !.status = "WAITING", !.error = e])
               /\ Keeps([dl[d] EXCEPT !.error = e])
               /\ Keeps([dl[d] EXCEPT !.status = "PENDING"])
    BY <1>4, <2>1
  <2>4. \A n \in ErrorWaits, e \in ErrorClass : Keeps(RetryLater(dl[d], n, e))
    BY <2>1, OutcomeLemma
  <2>5. \A e \in ErrorClass : Keeps(GiveUp(dl[d], e))
    BY <2>1, GiveUpLemma
  <2> HIDE DEF Keeps
  <2> QED BY <1>1, <2>1, <2>2, <2>3, <2>4, <2>5
<1>9. CASE TransferDone(w)
  <2>1. dl[d] \in Record /\ wk[w].pc = "transfer"
    BY <1>2, <1>9 DEF TransferDone
  <2>2. \/ WorkerStep(w, "settle", [dl[d] EXCEPT !.status = "FINISHED"])
        \/ \E r : WorkerStep(w, "postproc", r)
    BY <1>9 DEF TransferDone
  <2>3. Keeps([dl[d] EXCEPT !.status = "FINISHED"])
    BY <1>4, <2>1
  <2> QED BY <2>1, <2>2, <2>3, WorkerStepBegins
<1>10. ASSUME NEW r \in Record, ReleaseSlot(w, r), wk[w].pc \notin {"free", "postproc"}
       PROVE  NoneBegun
  <2>1. WorkerStep(w, "tail", [r EXCEPT !.needStop = FALSE, !.running = FALSE])
    BY <1>10 DEF ReleaseSlot
  <2>2. Keeps([r EXCEPT !.needStop = FALSE, !.running = FALSE])
    BY <1>4, <1>10
  <2> HIDE DEF Keeps
  <2> QED BY <1>1, <1>10, <2>1, <2>2
<1>11. CASE Settle(w)
  <2> DEFINE r == Unstarted(dl[d])
             direct == [r EXCEPT !.proxy = 0]
             next == RetryWithProxy(r, Proxies)
  <2>1. dl[d] \in Record /\ wk[w].pc = "settle"
    BY <1>2, <1>11 DEF Settle
  <2>2. r \in Record /\ Keeps(r)
    BY <2>1, UnstartedLemma
  <2>3. \/ ReleaseSlot(w, next)
        \/ ReleaseSlot(w, direct)
        \/ \E pc : WorkerStep(w, pc, direct)
    BY <1>11 DEF Settle
  <2> HIDE DEF r
  <2>4. direct \in Record /\ Keeps(direct)
    BY <1>4, <2>2, UpdateLemma
  <2>5. next \in Record
    BY <2>2, ProxyLemma
  <2> HIDE DEF direct, next, Keeps
  <2> QED BY <1>1, <1>10, <2>1, <2>3, <2>4, <2>5
<1>12. CASE Release(w)
  BY <1>2, <1>10, <1>12 DEF Release
<1>13. CASE AskReconnect(w) \/ WorkerEnds(w)
  <2>1. /\ dl' = dl /\ wk[w].pc \in {"askrec", "tail"}
        /\ wk'[w].pc # "postproc" /\ \A v \in Workers \ {w} : wk'[v] = wk[v]
    BY <1>13 DEF AskReconnect, WorkerEnds, SlotInv, TypeOK
  <2>2. InPostProcess' = InPostProcess
    BY <2>1 DEF InPostProcess, WorkerOf
  <2> QED BY <2>1, <2>2 DEF NoneBegun
<1> QED BY <1>5, <1>6, <1>7, <1>8, <1>9, <1>11, <1>12, <1>13 DEF WorkerProgress

\* While t holds mx, nobody else starts a download or changes the list, and t
\* itself only goes from one download to the next.
LEMMA FreshStep ==
  ASSUME FreshInv, TypeOK', [Next]_vars, NEW t \in Starters, mx' = t,
         st'[t].pc \in {"scan", "picked"}
  PROVE  ~isReconnecting' /\ (st'[t].pc = "picked" => StartsFresh(t)')
<1>1. /\ SlotInv /\ TypeOK /\ OneReconnect /\ ReconnectFirst /\ TickerHasMx
      /\ mx = t /\ st[t].pc \in {"scan", "picked"} => ~isReconnecting
      /\ mx = t /\ st[t].pc = "picked" => StartsFresh(t)
  BY FreshParts DEF FreshInv, ReconnectInv, SlotInv, ScansUnhindered
<1>2. /\ st \in [Starters -> [pc : StarterPC, dl : Downloads \cup {NoDownload}]]
      /\ t # NoThread
      /\ Clients \subseteq Starters /\ Reconnectors \subseteq Starters /\ Ticker \in Starters
      /\ Ticker # NoThread
  BY <1>1, ThreadsAssumption DEF TypeOK, Starters
<1>3. ASSUME mx = t, st'[t] = st[t], UNCHANGED <<list, isReconnecting>>, NoneBegun
      PROVE  ~isReconnecting' /\ (st'[t].pc = "picked" => StartsFresh(t)')
  <2>1. st[t].pc \in {"scan", "picked"} /\ ~isReconnecting
    BY <1>1, <1>3
  <2> QED BY <1>1, <1>3, <2>1, StaysFresh
<1>4. ASSUME dl' = dl, wk' = wk PROVE NoneBegun
  BY <1>4 DEF NoneBegun, InPostProcess, WorkerOf
<1>5. mx = t => \A s : s # t => ~CanLock(s)
  BY <1>2 DEF CanLock
<1>6. CASE StartNext
  <2>1. PICK s \in Starters : StarterStep(s)
    BY <1>6 DEF StartNext, StarterStep
  <2>2. UNCHANGED <<list, isReconnecting>>
    BY <2>1 DEF StarterStep, LockStart, EnterStart, PickNext, PickNone, DoDownload
  <2>3. CASE s = t
    <3>1. CASE LockStart(t) \/ EnterStart(t)
      BY <1>2, <3>1 DEF LockStart, EnterStart
    <3>2. CASE PickNext(t)
      <4>1. mx = t /\ st[t].pc = "scan"
        BY <3>2 DEF PickNext
      <4> QED BY <1>1, <2>2, <3>2, <4>1, PickIsFresh
    <3>3. CASE PickNone(t)
      BY <1>2, <3>3 DEF PickNone, Returned
    <3>4. CASE DoDownload(t)
      <4>1. mx = t /\ st[t].pc = "picked" /\ st'[t].pc = "scan"
        BY <1>2, <3>4 DEF DoDownload
      <4> QED BY <1>1, <2>2, <4>1
    <3> QED BY <2>1, <2>3, <3>1, <3>2, <3>3, <3>4 DEF StarterStep
  <2>4. CASE s # t
    <3>1. st'[t] = st[t]
      BY <1>2, <2>1, <2>4
      DEF StarterStep, LockStart, EnterStart, PickNext, PickNone, DoDownload, Returned
    <3>2. mx = t
      BY <1>2, <2>1, <2>4
      DEF StarterStep, LockStart, EnterStart, PickNext, PickNone, DoDownload, Returned
    <3>3. LockStart(s) \/ EnterStart(s)
      BY <1>5, <2>1, <2>4, <3>2 DEF StarterStep, PickNext, PickNone, DoDownload
    <3>4. dl' = dl /\ wk' = wk
      BY <3>3 DEF LockStart, EnterStart
    <3> QED BY <1>3, <1>4, <2>2, <3>1, <3>2, <3>4
  <2> QED BY <2>3, <2>4
<1>7. CASE WorkerNext
  <2>1. PICK w \in Workers : WorkerProgress(w) \/ PluginSetsWait(w) \/ CaptchaFails(w)
    BY <1>7 DEF WorkerNext, WorkerProgress
  <2>2. NoneBegun
    BY <1>1, <2>1, WorkerBeginsNone
  <2>3. UNCHANGED <<mx, list, isReconnecting>>
    BY <2>1 DEF WorkerProgress, WorkerStarts, PluginSetsWait, CaptchaFails, Prepared,
         CountdownOver, SetUp, TransferDone, PostProcessed, TransferFails, TransferAborted,
         Settle, AskReconnect, FinishPackage, Release, WorkerEnds, ReleaseSlot, WorkerStep
  <2>4. st' = st \/ Detached("lock") \/ Detached("entry")
    BY <2>1 DEF WorkerProgress, WorkerStarts, PluginSetsWait, CaptchaFails, Prepared,
         CountdownOver, SetUp, TransferDone, PostProcessed, TransferFails, TransferAborted,
         Settle, AskReconnect, FinishPackage, Release, WorkerEnds, ReleaseSlot
  <2>5. st'[t] = st[t]
    BY <1>2, <2>4 DEF Detached
  <2> QED BY <1>3, <2>2, <2>3, <2>5
<1>8. CASE ReconnectNext
  <2>1. PICK u \in Reconnectors : ReconnectStep(u)
    BY <1>8 DEF ReconnectNext, ReconnectStep
  <2>2. rec[u] # "idle" /\ st[u].pc = "idle"
    BY <1>1, <2>1 DEF ReconnectStep, BeginReconnect, MarkDownloads, RouterDone, UnmarkDownloads,
                      ReconnectFirst
  <2>3. CASE BeginReconnect(u)
    <3>1. st' = st /\ u # t
      BY <2>2, <2>3 DEF BeginReconnect
    <3>2. UNCHANGED <<list, dl, wk, mx, isReconnecting>>
      BY <2>3, <3>1 DEF BeginReconnect
    <3> QED BY <1>3, <1>4, <3>1, <3>2
  <2>4. CASE MarkDownloads(u)
    BY <1>2, <2>4 DEF MarkDownloads
  <2>5. CASE RouterDone(u)
    BY <2>2, <2>5 DEF RouterDone
  <2>6. CASE UnmarkDownloads(u)
    <3>1. ~isReconnecting' /\ UNCHANGED <<list, mx, wk>>
      BY <2>6 DEF UnmarkDownloads
    <3>2. NoneBegun
      <4>1. \A d \in Downloads : dl[d] \in Record /\ seen[d] \in Status
        BY <1>1 DEF TypeOK, Record
      <4>2. \A d \in Downloads : dl'[d].running = dl[d].running
        BY <2>6, <4>1, ReconnectedLemma DEF UnmarkDownloads
      <4> QED BY <3>1, <4>2 DEF NoneBegun, InPostProcess, WorkerOf
    <3>3. ASSUME st'[t].pc = "picked" PROVE StartsFresh(t)'
      <4>1. st'[t] = st[t] /\ mx = t
        BY <1>2, <2>6, <3>1, <3>3 DEF UnmarkDownloads
      <4> QED BY <1>1, <3>1, <3>2, <3>3, <4>1, StaysFresh
    <3> QED BY <3>1, <3>3
  <2> QED BY <2>1, <2>3, <2>4, <2>5, <2>6 DEF ReconnectStep
<1>9. CASE TickNext
  <2>1. st[Ticker].pc = "idle" /\ isReconnecting' = isReconnecting
    BY <1>9, VisitLeaves DEF TickNext, PurgeOne, DecreaseBegins, DecreaseDone
  <2>2. CASE PurgeOne
    <3>1. mx = t /\ st' = st /\ CanLock(Ticker)
      BY <2>2 DEF PurgeOne
    <3> QED BY <1>5, <2>1, <3>1
  <2>3. CASE DecreaseBegins
    BY <2>1, <2>3 DEF DecreaseBegins
  <2>4. CASE DecreaseWaits
    <3>1. t = Ticker
      BY <1>1, <2>4, VisitLeaves DEF TickerHasMx
    <3>2. st' # st
      BY <2>1, <3>1
    <3>3. ~isReconnecting /\ st' = [st EXCEPT ![Ticker].pc = "scan"]
      BY <1>1, <2>4, <3>2, VisitFacts
    <3> QED BY <1>2, <2>1, <3>1, <3>3
  <2>5. CASE DecreaseDone
    BY <1>2, <2>5 DEF DecreaseDone
  <2> QED BY <1>9, <2>2, <2>3, <2>4, <2>5 DEF TickNext
<1>10. CASE ClockTurns
  BY <1>3, <1>4, <1>10 DEF ClockTurns
<1>11. CASE ClientNext
  <2>1. PICK c \in Clients :
          \/ Activate(c) \/ Deactivate(c) \/ Delete(c)
          \/ CommandSetsStatus(c) \/ CommandZeroesWait(c)
          \/ Stop(c) \/ Add(c) \/ OtherCommand(c)
    BY <1>11 DEF ClientNext
  <2>2. CASE Activate(c) \/ Deactivate(c) \/ Delete(c)
    <3>1. UNCHANGED <<list, dl, wk, mx, st, isReconnecting>>
      BY <2>2 DEF Activate, Deactivate, Delete, LookUp
    <3> QED BY <1>3, <1>4, <3>1
  <2>3. CASE CommandSetsStatus(c)
    <3>1. CASE c = t
      <4>1. ~isReconnecting /\ isReconnecting' = isReconnecting /\ st'[t].pc # "picked"
        BY <1>2, <2>3, <3>1 DEF CommandSetsStatus
      <4> QED BY <4>1
    <3>2. CASE c # t
      <4>1. mx = t /\ CanLock(c)
        BY <2>3, <3>2 DEF CommandSetsStatus
      <4> QED BY <1>5, <3>2, <4>1
    <3> QED BY <3>1, <3>2
  <2>4. CASE CommandZeroesWait(c)
    <3>1. mx = t /\ CanLock(c) /\ st' = st /\ st[c].pc = "entry"
      BY <2>4 DEF CommandZeroesWait
    <3> QED BY <1>5, <3>1
  <2>5. CASE Stop(c) \/ Add(c)
    <3>1. mx = t /\ CanLock(c) /\ st'[c].pc = "entry"
      BY <1>2, <2>5 DEF Stop, Add
    <3> QED BY <1>5, <3>1
  <2>6. CASE OtherCommand(c)
    <3>1. /\ UNCHANGED <<list, dl, wk, mx, isReconnecting>>
          /\ c # t /\ st'[t] = st[t]
      BY <1>2, <2>6 DEF OtherCommand
    <3> QED BY <1>3, <1>4, <3>1
  <2> QED BY <2>1, <2>2, <2>3, <2>4, <2>5, <2>6
<1>12. CASE UNCHANGED vars
  BY <1>3, <1>4, <1>12 DEF vars
<1> QED BY <1>6, <1>7, <1>8, <1>9, <1>10, <1>11, <1>12 DEF Next

\* A thread that locks mx for start_next_downloadable starts a download only
\* when that is in order at the moment it starts it: no reconnect is going on,
\* the download does not run, the limit leaves room for it and so does its
\* host, whatever the other threads have done since it was picked.
THEOREM LockedStartsAreFresh == Spec => []LockedStartIsFresh
<1>1. Init => FreshInv
  <2> SUFFICES ASSUME Init PROVE FreshInv
    OBVIOUS
  <2>1. \A t \in Starters : mx # t
    BY ThreadsAssumption DEF Init
  <2> QED BY <2>1, InitReconnectInv DEF FreshInv, ScansUnhindered, LockedStartIsFresh
<1>2. FreshInv /\ [Next]_vars => FreshInv'
  <2> SUFFICES ASSUME FreshInv, [Next]_vars PROVE FreshInv'
    OBVIOUS
  <2>1. ReconnectInv' /\ TypeOK'
    BY NextReconnectInv DEF FreshInv, ReconnectInv, SlotInv
  <2>2. ScansUnhindered'
    BY <2>1, FreshStep DEF ScansUnhindered
  <2>3. LockedStartIsFresh'
    <3> SUFFICES ASSUME NEW t \in Starters, mx' = t, st'[t].pc = "picked"
                 PROVE  ~isReconnecting' /\ StartsFresh(t)'
      BY DEF LockedStartIsFresh, StartsFresh
    <3> QED BY <2>1, FreshStep
  <2> QED BY <2>1, <2>2, <2>3 DEF FreshInv
<1>3. FreshInv => LockedStartIsFresh
  BY DEF FreshInv
<1> QED BY <1>1, <1>2, <1>3, PTL DEF Spec
--------------------------------------------------------------------------------
(* Wake-ups.                                                                 *)

\* Something can be started now.
Something == inDlTime /\ NumRunning < Limit /\ \E d \in Listed : Startable(d)

\* get_next_downloadable returns nothing just when there is nothing, because
\* among the startable downloads of the list there is a first one.
LEMMA FirstIsNext == list \in Seq(Downloads) => (NoneNext <=> ~Something)
<1> SUFFICES ASSUME list \in Seq(Downloads) PROVE NoneNext <=> ~Something
  OBVIOUS
<1>1. ASSUME NEW d \in Listed, IsNext(d) PROVE Something
  BY <1>1 DEF IsNext, Something
<1>2. ASSUME Something PROVE \E d \in Listed : IsNext(d)
  <2> DEFINE T == {i \in DOMAIN list : Startable(list[i])}
  <2>1. Len(list) \in Nat /\ DOMAIN list = 1 .. Len(list)
    BY LenProperties
  <2>2. T # {} /\ T \subseteq Nat
    BY <1>2, <2>1 DEF Something, Listed, Range
  <2>3. PICK i \in T : \A j \in T : i <= j
    BY <2>2, LeastNatural
  <2>4. \A j \in 1 .. i - 1 : j \in DOMAIN list /\ ~(i <= j)
    BY <2>1, <2>3
  <2>5. \A j \in 1 .. i - 1 : ~Startable(list[j])
    BY <2>3, <2>4
  <2>6. IsNext(list[i])
    BY <1>2, <2>3, <2>5 DEF IsNext, Something
  <2>7. list[i] \in Listed
    BY <2>3 DEF Listed, Range
  <2> QED BY <2>6, <2>7
<1> QED BY <1>1, <1>2 DEF NoneNext

\* What does not change the list, a download or the time finds nothing new to
\* start.
LEMMA NothingNew ==
  ASSUME UNCHANGED <<list, dl, inDlTime>>
  PROVE  NoneNext' <=> NoneNext
BY DEF NoneNext, IsNext, NumRunning, Startable, Listed, Range

\* A download that purge_deleted destroys held nothing up.
LEMMA PurgeFreesNothing ==
  ASSUME TypeOK, TypeOK', PurgeOne, NoneNext
  PROVE  NoneNext'
<1>1. PICK i \in DOMAIN list : Purgeable(i) /\ list' = RemoveAt(list, i)
  BY DEF PurgeOne
<1>2. list \in Seq(Downloads) /\ list' \in Seq(Downloads)
  BY DEF TypeOK
<1> DEFINE d == list[i]
<1>3. dl[d].status = "DELETED" /\ ~dl[d].running /\ dl' = dl /\ inDlTime' = inDlTime
  BY <1>1 DEF PurgeOne, Purgeable
<1>4. Listed' \subseteq Listed /\ \A e \in Listed : e = d \/ e \in Listed'
  <2>1. /\ Len(list) \in Nat /\ DOMAIN list = 1 .. Len(list)
        /\ Len(list') = Len(list) - 1 /\ DOMAIN list' = 1 .. Len(list')
        /\ \A k \in 1 .. Len(list) - 1 : list'[k] = list[IF k < i THEN k ELSE k + 1]
    BY <1>1, <1>2, RemoveAtFacts, LenProperties
  <2>2. PICK n \in Nat : n = Len(list)
    BY <2>1
  <2>3. /\ DOMAIN list = 1 .. n /\ DOMAIN list' = 1 .. n - 1 /\ i \in 1 .. n
        /\ \A k \in 1 .. n - 1 : list'[k] = list[IF k < i THEN k ELSE k + 1]
    BY <2>1, <2>2
  <2>4. \A k \in 1 .. n - 1 : \E l \in 1 .. n : list'[k] = list[l]
    BY <2>3
  <2>5. ASSUME NEW l \in 1 .. n, l # i PROVE \E k \in 1 .. n - 1 : list'[k] = list[l]
    <3>1. CASE l < i
      <4>1. l \in 1 .. n - 1
        BY <2>3, <3>1
      <4> QED BY <2>3, <3>1, <4>1
    <3>2. CASE l > i
      <4>1. l - 1 \in 1 .. n - 1 /\ ~(l - 1 < i) /\ (l - 1) + 1 = l
        BY <2>3, <3>2
      <4> QED BY <2>3, <4>1
    <3>3. l \in Int /\ i \in Int
      BY <2>3
    <3>4. l < i \/ l > i
      BY <2>5, <3>3
    <3> QED BY <3>1, <3>2, <3>4
  <2>6. \A e : e \in Listed <=> \E k \in 1 .. n : e = list[k]
    BY <2>3 DEF Listed, Range
  <2>7. \A e : e \in Listed' <=> \E k \in 1 .. n - 1 : e = list'[k]
    BY <2>3 DEF Listed, Range
  <2> QED BY <2>4, <2>5, <2>6, <2>7
<1>5. \A e \in Downloads : Startable(e)' => Startable(e)
  BY <1>3, <1>4 DEF Startable
<1>6. NumRunning' = NumRunning
  <2>1. \A e : e \in {f \in Listed : dl[f].running}' <=> e \in {f \in Listed : dl[f].running}
    BY <1>3, <1>4
  <2>2. {f \in Listed : dl[f].running}' = {f \in Listed : dl[f].running}
    BY <2>1
  <2> QED BY <2>2 DEF NumRunning
<1>7. Listed' \subseteq Downloads
  BY <1>2, ListedIsFinite DEF Listed, Range
<1>8. Something' => Something
  BY <1>3, <1>4, <1>5, <1>6, <1>7 DEF Something
<1>9. NoneNext' <=> ~Something'
  <2>1. (list \in Seq(Downloads) => (NoneNext <=> ~Something))'
    BY FirstIsNext, PTL
  <2> QED BY <1>2, <2>1
<1>10. ~Something
  BY <1>2, FirstIsNext
<1> QED BY <1>8, <1>9, <1>10

\* start_next_downloadable ends only where there is nothing to start, or a
\* reconnect that will call it again.
LEMMA StarterStepCovers ==
  ASSUME TypeOK, NEW t \in Starters, StarterStep(t), Covered
  PROVE  Covered'
<1>1. CASE LockStart(t) \/ EnterStart(t)
  <2>1. isReconnecting' = isReconnecting /\ (~isReconnecting => st'[t].pc = "scan")
    BY <1>1 DEF LockStart, EnterStart, TypeOK
  <2> QED BY <2>1 DEF Covered
<1>2. CASE PickNext(t) \/ DoDownload(t)
  <2>1. st'[t].pc \in {"picked", "scan"}
    BY <1>2 DEF PickNext, DoDownload, TypeOK
  <2> QED BY <2>1 DEF Covered
<1>3. CASE PickNone(t)
  <2>1. NoneNext /\ UNCHANGED <<list, dl, inDlTime>>
    BY <1>3 DEF PickNone
  <2> QED BY <2>1, NothingNew DEF Covered
<1> QED BY <1>1, <1>2, <1>3 DEF StarterStep

\* A download_me thread that gives its slot back creates the thread that looks
\* for the next download in the same step.
LEMMA WorkerStepCovers ==
  ASSUME SlotInv, NEW w \in Workers, Covered,
         WorkerProgress(w) \/ PluginSetsWait(w) \/ CaptchaFails(w)
  PROVE  Covered'
<1>1. ASSUME NEW pc \in HoldsSlot, NEW r, WorkerStep(w, pc, r)
      PROVE  Covered'
  <2>1. wk'[w].pc = pc
    BY <1>1 DEF WorkerStep, SlotInv, TypeOK
  <2> QED BY <1>1, <2>1 DEF Covered
<1>2. ASSUME Detached("entry") PROVE Covered'
  <2>1. PICK h \in Helpers : st' = [st EXCEPT ![h].pc = "entry"]
    BY <1>2 DEF Detached
  <2>2. h \in Starters
    BY DEF Starters
  <2>3. st'[h].pc = "entry"
    BY <2>1, <2>2 DEF SlotInv, TypeOK
  <2> QED BY <2>2, <2>3 DEF Covered
<1>3. CASE WorkerEnds(w)
  <2>1. /\ UNCHANGED <<list, dl, inDlTime, st, isReconnecting>>
        /\ wk[w].pc = "tail" /\ \A v \in Workers \ {w} : wk'[v] = wk[v]
    BY <1>3 DEF WorkerEnds, SlotInv, TypeOK
  <2>2. ASSUME NEW v \in Workers, wk[v].pc \in HoldsSlot PROVE wk'[v].pc \in HoldsSlot
    BY <2>1, <2>2 DEF HoldsSlot
  <2>3. NoneNext' <=> NoneNext
    BY <2>1, NothingNew
  <2> QED BY <2>1, <2>2, <2>3 DEF Covered
<1>4. CASE AskReconnect(w)
  <2>1. wk'[w].pc = "release"
    BY <1>4 DEF AskReconnect, SlotInv, TypeOK
  <2> QED BY <2>1 DEF Covered, HoldsSlot, WorkerPC
<1>5. CASE Settle(w) \/ Release(w)
  <2>1. Detached("entry") \/ \E pc \in {"askrec", "finishing"} : \E r : WorkerStep(w, pc, r)
    BY <1>5 DEF Settle, Release, ReleaseSlot
  <2>2. {"askrec", "finishing"} \subseteq HoldsSlot
    BY DEF HoldsSlot, WorkerPC
  <2> QED BY <1>1, <1>2, <2>1, <2>2
<1>6. CASE \/ WorkerStarts(w) \/ PluginSetsWait(w) \/ CaptchaFails(w) \/ Prepared(w)
           \/ CountdownOver(w) \/ SetUp(w) \/ TransferDone(w) \/ PostProcessed(w)
           \/ TransferFails(w) \/ TransferAborted(w) \/ FinishPackage(w)
  <2>1. \E pc \in {"prepare", "gaveup", "settle", "countdown", "setup", "transfer",
                   "postproc", "release"} : \E r : WorkerStep(w, pc, r)
    BY <1>6 DEF WorkerStarts, PluginSetsWait, CaptchaFails, Prepared, CountdownOver, SetUp,
                TransferDone, PostProcessed, TransferFails, TransferAborted, FinishPackage
  <2>2. {"prepare", "gaveup", "settle", "countdown", "setup", "transfer",
         "postproc", "release"} \subseteq HoldsSlot
    BY DEF HoldsSlot, WorkerPC
  <2> QED BY <1>1, <2>1, <2>2
<1> QED BY <1>3, <1>4, <1>5, <1>6 DEF WorkerProgress

\* do_reconnect calls start_next_downloadable when it clears its flag.
LEMMA ReconnectStepCovers ==
  ASSUME TypeOK, OneReconnect, NEW t \in Reconnectors, ReconnectStep(t), Covered
  PROVE  Covered'
<1>1. CASE BeginReconnect(t)
  <2>1. \/ isReconnecting'
        \/ UNCHANGED <<list, dl, inDlTime, st, wk, isReconnecting>>
    BY <1>1 DEF BeginReconnect
  <2> QED BY <2>1, NothingNew DEF Covered
<1>2. CASE MarkDownloads(t) \/ RouterDone(t)
  <2>1. isReconnecting' = isReconnecting /\ Reconnecting(t)
    BY <1>2 DEF MarkDownloads, RouterDone, Reconnecting
  <2> QED BY <2>1 DEF OneReconnect, Covered
<1>3. CASE UnmarkDownloads(t)
  <2>1. t \in Starters /\ st'[t].pc = "scan"
    BY <1>3 DEF UnmarkDownloads, TypeOK, Starters
  <2> QED BY <2>1 DEF Covered
<1> QED BY <1>1, <1>2, <1>3 DEF ReconnectStep

\* purge_deleted frees nothing, and neither does decrease_waits while it reads:
\* whoever is found WAITING is started with the others.
LEMMA TickStepCovers ==
  ASSUME TypeOK, TypeOK', Covered, TickNext, ~WriteWait, ~ZeroWait
  PROVE  Covered'
<1>1. /\ Ticker \in Starters
      /\ st \in [Starters -> [pc : StarterPC, dl : Downloads \cup {NoDownload}]]
  BY DEF TypeOK, Starters
<1>2. CASE WaitOver
  <2>1. isReconnecting' = isReconnecting /\ (isReconnecting \/ st'[Ticker].pc = "scan")
    BY <1>1, <1>2 DEF WaitOver, Counting
  <2> QED BY <1>1, <2>1 DEF Covered
<1>3. CASE PurgeOne \/ DecreaseBegins \/ ReadWait \/ LookAtStatus \/ AskStatus \/ DecreaseDone
  <2>1. UNCHANGED <<wk, isReconnecting>> /\ (st' = st \/ st'[Ticker].pc = "entry")
    BY <1>1, <1>3 DEF PurgeOne, DecreaseBegins, ReadWait, LookAtStatus, AskStatus, Counting,
                      DecreaseDone
  <2>2. NoneNext => NoneNext'
    <3>1. CASE PurgeOne
      BY <3>1, PurgeFreesNothing
    <3>2. CASE ~PurgeOne
      <4>1. UNCHANGED <<list, dl, inDlTime>>
        BY <1>3, <3>2 DEF DecreaseBegins, ReadWait, LookAtStatus, AskStatus, Counting, DecreaseDone
      <4> QED BY <4>1, NothingNew
    <3> QED BY <3>1, <3>2
  <2> QED BY <1>1, <2>1, <2>2 DEF Covered
<1> QED BY <1>2, <1>3 DEF TickNext, DecreaseWaits

\* Every command that changes a download or the list goes on to look.
LEMMA ClientStepCovers ==
  ASSUME TypeOK, ClientNext, Covered
  PROVE  Covered'
<1>1. PICK c \in Clients :
        \/ Activate(c) \/ Deactivate(c) \/ Delete(c)
        \/ CommandSetsStatus(c) \/ CommandZeroesWait(c)
        \/ Stop(c) \/ Add(c) \/ OtherCommand(c)
  BY DEF ClientNext
<1>2. /\ c \in Starters
      /\ st \in [Starters -> [pc : StarterPC, dl : Downloads \cup {NoDownload}]]
  BY DEF TypeOK, Starters
<1>3. CASE Activate(c) \/ Deactivate(c) \/ Delete(c)
  <2>1. UNCHANGED <<list, dl, inDlTime, st, wk, isReconnecting>>
    BY <1>3 DEF Activate, Deactivate, Delete, LookUp
  <2> QED BY <2>1, NothingNew DEF Covered
<1>4. CASE \/ CommandSetsStatus(c) \/ CommandZeroesWait(c)
           \/ Stop(c) \/ Add(c) \/ OtherCommand(c)
  <2>1. st'[c].pc \in {"entry", "scan"}
    BY <1>2, <1>4 DEF CommandSetsStatus, CommandZeroesWait, Stop, Add, OtherCommand
  <2> QED BY <1>2, <2>1 DEF Covered
<1> QED BY <1>1, <1>3, <1>4

\* No wake-up is lost: a step that ends a download, deletes one, or changes the
\* list or a status leaves behind no download that could be started and that no
\* thread will look for.  What does are the two calls of decrease_waits that write
\* a wait counter, which may bring it to 0 and start nothing, and the clock.
THEOREM NoWakeupIsLost == Spec => WakeupsAreKept
<1>1. SlotInv /\ SlotInv' /\ OneReconnect /\ [Next]_vars =>
        [Covered => Covered' \/ WriteWait \/ ZeroWait \/ ClockTurns]_vars
  <2> SUFFICES ASSUME SlotInv, SlotInv', OneReconnect, Next, Covered,
                      ~WriteWait, ~ZeroWait, ~ClockTurns
               PROVE  Covered'
    OBVIOUS
  <2>1. TypeOK /\ TypeOK'
    BY DEF SlotInv
  <2>2. CASE StartNext
    BY <2>1, <2>2, StarterStepCovers DEF StartNext, StarterStep
  <2>3. CASE WorkerNext
    BY <2>3, WorkerStepCovers DEF WorkerNext, WorkerProgress
  <2>4. CASE ReconnectNext
    BY <2>1, <2>4, ReconnectStepCovers DEF ReconnectNext, ReconnectStep
  <2>5. CASE TickNext
    BY <2>1, <2>5, TickStepCovers
  <2>6. CASE ClientNext
    BY <2>1, <2>6, ClientStepCovers
  <2> QED BY <2>2, <2>3, <2>4, <2>5, <2>6 DEF Next
<1> QED BY <1>1, SlotInvariant, ReconnectsAreExclusive, PTL DEF Spec, WakeupsAreKept

--------------------------------------------------------------------------------
(* Reading a sequence from its front.                                        *)

\* What is left of s when its first j elements are taken away, with r behind it.
From(s, j, r) == SubSeq(s, j + 1, Len(s)) \o r

\* An element put in front of a sequence is its head.
LEMMA FrontFacts ==
  ASSUME NEW S, NEW x \in S, NEW t \in Seq(S)
  PROVE  /\ <<x>> \o t \in Seq(S) /\ <<x>> \o t # <<>>
         /\ Head(<<x>> \o t) = x /\ Tail(<<x>> \o t) = t
<1>1. <<x>> \in Seq(S) /\ Len(<<x>>) = 1 /\ <<x>>[1] = x
  OBVIOUS
<1>2. PICK n \in Nat : n = Len(t)
  BY LenProperties
<1>3. PICK u : u = <<x>> \o t
  OBVIOUS
<1>4. u \in Seq(S) /\ Len(u) = 1 + n /\ \A i \in 1 .. 1 + n : u[i] = IF i <= 1 THEN <<x>>[i] ELSE t[i - 1]
  BY <1>1, <1>2, <1>3, ConcatProperties
<1>5. u # <<>>
  BY <1>2, <1>4
<1>6. Head(u) = x
  BY <1>1, <1>2, <1>4, <1>5
<1>7. /\ Tail(u) \in Seq(S) /\ Len(Tail(u)) = n
      /\ \A i \in 1 .. n : Tail(u)[i] = u[i + 1]
  BY <1>2, <1>4, <1>5, HeadTailProperties
<1>8. \A i \in 1 .. n : Tail(u)[i] = t[i]
  BY <1>2, <1>4, <1>7
<1>9. Tail(u) = t
  BY <1>2, <1>7, <1>8, SeqEqual
<1> QED BY <1>3, <1>4, <1>5, <1>6, <1>9

\* All of s is left at first, in the end only r.
LEMMA FromFacts ==
  ASSUME NEW S, NEW s \in Seq(S), NEW r \in Seq(S)
  PROVE  /\ From(s, 0, r) = s \o r
         /\ From(s, Len(s), r) = r
         /\ \A j \in 0 .. Len(s) : From(s, j, r) \in Seq(S)
<1>1. PICK n \in Nat : n = Len(s)
  BY LenProperties
<1>2. SubSeq(s, 1, n) = s /\ SubSeq(s, n + 1, n) = <<>> /\ <<>> \o r = r
  BY <1>1, SubSeqFull, SubSeqEmpty, ConcatEmptySeq
<1>3. From(s, 0, r) = s \o r /\ From(s, n, r) = r
  <2>1. 0 + 1 = 1
    OBVIOUS
  <2> QED BY <1>1, <1>2, <2>1, Zenon DEF From
<1>4. \A i \in 1 .. n : s[i] \in S
  BY <1>1, ElementOfSeq
<1>5. \A j \in 0 .. n : SubSeq(s, j + 1, n) \in Seq(S)
  <2> TAKE j \in 0 .. n
  <2>1. \A i \in j + 1 .. n : s[i] \in S
    BY <1>4
  <2> QED BY <2>1, SubSeqProperties
<1>6. \A j \in 0 .. n : From(s, j, r) \in Seq(S)
  BY <1>1, <1>5, ConcatProperties DEF From
<1> QED BY <1>1, <1>3, <1>6

\* The head of what is left, and what is left then.
LEMMA FromNext ==
  ASSUME NEW S, NEW s \in Seq(S), NEW r \in Seq(S), NEW j \in 0 .. Len(s) - 1, NEW i, i = j + 1
  PROVE  From(s, j, r) # <<>> /\ Head(From(s, j, r)) = s[i] /\ Tail(From(s, j, r)) = From(s, i, r)
<1>1. PICK n \in Nat : n = Len(s)
  BY LenProperties
<1>2. i \in 1 .. n /\ i = j + 1 /\ i + 1 = j + 2
  BY <1>1
<1>3. \A h \in 1 .. n : s[h] \in S
  BY <1>1, ElementOfSeq
<1>4. PICK x \in S : x = s[i]
  BY <1>2, <1>3
<1>5. PICK t \in Seq(S) : t = SubSeq(s, i + 1, n)
  <2>1. \A h \in i + 1 .. n : s[h] \in S
    BY <1>2, <1>3
  <2>2. SubSeq(s, i + 1, n) \in Seq(S)
    BY <1>2, <2>1, SubSeqProperties
  <2> QED BY <2>2
<1>6. SubSeq(s, i, n) = <<x>> \o t
  BY <1>1, <1>2, <1>4, <1>5, SubSeqRecursiveFirst
<1>7. <<x>> \in Seq(S)
  OBVIOUS
<1>8. (<<x>> \o t) \o r = <<x>> \o (t \o r)
  BY <1>7, ConcatAssociative
<1>9. PICK u \in Seq(S) : u = t \o r
  BY ConcatProperties
<1>10. From(s, i, r) = u /\ From(s, j, r) = <<x>> \o u
  BY <1>1, <1>2, <1>5, <1>6, <1>8, <1>9, Zenon DEF From
<1> QED BY <1>4, <1>10, FrontFacts

\* The same of the first element.
LEMMA FromFirst ==
  ASSUME NEW S, NEW s \in Seq(S), NEW r \in Seq(S), NEW n \in Nat, Len(s) = n + 1
  PROVE  /\ From(s, 0, r) # <<>> /\ Head(From(s, 0, r)) = s[1]
         /\ Tail(From(s, 0, r)) = From(s, 1, r)
<1>1. 0 \in 0 .. Len(s) - 1 /\ 1 = 0 + 1
  OBVIOUS
<1> QED BY <1>1, FromNext

--------------------------------------------------------------------------------
(* The lines of a script.                                                    *)

ScriptCommands == Requests \cup {Pause}

\* LinesAfter is what its equation says.
LEMMA LinesAfterIs ==
  ASSUME NEW p \in Seq(ScriptCommands)
  PROVE  /\ LinesAfter(p)[0] = <<<<"/HSRC">>>>
         /\ \A k \in 1 .. Len(p) :
              LinesAfter(p)[k] = CommandLines(p[Len(p) + 1 - k]) \o LinesAfter(p)[k - 1]
<1> DEFINE Next1(g, k) == IF k = 0 THEN <<<<"/HSRC">>>>
                          ELSE CommandLines(p[Len(p) + 1 - k]) \o g[k - 1]
           IsAfter(g, l) == g = [k \in 0 .. l |-> Next1(g, k)]
           Counted == {l \in Nat : \E g : IsAfter(g, l)}
<1>1. PICK n \in Nat : n = Len(p)
  BY LenProperties
<1>2. 0 \in Counted
  <2> DEFINE g == [k \in 0 .. 0 |-> <<<<"/HSRC">>>>]
  <2>1. IsAfter(g, 0)
    OBVIOUS
  <2> QED BY <2>1
<1>3. ASSUME NEW l \in Nat, l \in Counted PROVE l + 1 \in Counted
  <2>1. PICK g : IsAfter(g, l)
    BY <1>3
  <2> DEFINE h == [k \in 0 .. l + 1 |-> IF k <= l THEN g[k] ELSE Next1(g, l + 1)]
  <2>2. \A k \in 0 .. l : g[k] = Next1(g, k)
    BY <2>1
  <2>3. \A k \in 0 .. l + 1 : h[k] = Next1(h, k)
    BY <2>2
  <2>4. IsAfter(h, l + 1)
    BY <2>3
  <2> HIDE DEF h, IsAfter
  <2>5. \E f : IsAfter(f, l + 1)
    BY <2>4
  <2> QED BY <2>5
<1>4. n \in Counted
  <2> HIDE DEF Counted
  <2> QED BY <1>1, <1>2, <1>3, NaturalInduction
<1> DEFINE after == CHOOSE g : IsAfter(g, Len(p))
<1>5. IsAfter(after, Len(p))
  BY <1>1, <1>4
<1>6. LinesAfter(p) = after
  BY DEF LinesAfter
<1> HIDE DEF after
<1>7. \A k \in 0 .. n : after[k] = Next1(after, k)
  BY <1>1, <1>5
<1>8. after[0] = <<<<"/HSRC">>>>
  BY <1>1, <1>7
<1>9. \A k \in 1 .. n : after[k] = CommandLines(p[n + 1 - k]) \o after[k - 1]
  <2> TAKE k \in 1 .. n
  <2>1. k \in 0 .. n /\ k # 0
    BY <1>1
  <2>2. after[k] = Next1(after, k)
    BY <1>7, <2>1
  <2>3. Next1(after, k) = CommandLines(p[Len(p) + 1 - k]) \o after[k - 1]
    BY <2>1, Zenon
  <2> HIDE DEF Next1
  <2>4. Len(p) + 1 - k = n + 1 - k
    BY <1>1
  <2> QED BY <2>2, <2>3, <2>4
<1> QED BY <1>1, <1>6, <1>8, <1>9

\* Every word, and all that is read a line at a time.
Words == Texts \cup {"HSRC", "/HSRC", "STEP", "/STEP", "REQUEST", "/REQUEST", "WAIT", "GET", "POST",
                     "header", "cookie", "basicauth"}
Line == Seq(Words)

\* The lines that follow the k-th command.
LinesLeft(p, k) == LinesAfter(p)[Len(p) - k]

\* The words a line is made of.
LEMMA WordsAre ==
  /\ {"HSRC", "/HSRC", "STEP", "/STEP", "REQUEST", "/REQUEST", "WAIT", "GET", "POST", "header",
      "cookie", "basicauth"} \subseteq Words
  /\ Texts \subseteq Words
  /\ \A w \in Words : <<w>> \in Line
  /\ \A v, w, x \in Words : <<v, w, x>> \in Line /\ <<w, x>> \in Line
  /\ <<>> \in Line
<1>1. \A v, w, x \in Words : /\ <<v, w, x>> \in Seq(Words) /\ <<w, x>> \in Seq(Words)
                             /\ <<w>> \in Seq(Words)
  OBVIOUS
<1>2. <<>> \in Seq(Words)
  OBVIOUS
<1> QED BY <1>1, <1>2 DEF Words, Line

\* What a request consists of; only a POST has data.
LEMMA RequestsAre ==
  ASSUME NEW r \in Requests
  PROVE  /\ r.method \in {"GET", "POST"} /\ r.auth \in BOOLEAN /\ r.data \in Seq(Texts)
         /\ r.data # <<>> => r.method = "POST"
         /\ r = [method |-> r.method, auth |-> r.auth, data |-> r.data]
<1>1. r \in [method : {"GET", "POST"}, auth : BOOLEAN, data : Seq(Texts)]
  BY ScriptAssumption
<1>2. r.data # <<>> => r.method = "POST"
  BY ScriptAssumption
<1> QED BY <1>1, <1>2

\* One sequence after the other, and where their elements are then.
LEMMA Joined ==
  ASSUME NEW S, NEW s \in Seq(S), NEW t \in Seq(S)
  PROVE  /\ s \o t \in Seq(S) /\ Len(s \o t) = Len(s) + Len(t)
         /\ \A i \in 1 .. Len(s) : (s \o t)[i] = s[i]
         /\ \A i \in 1 .. Len(t) : (s \o t)[Len(s) + i] = t[i]
<1>1. PICK m, k \in Nat : m = Len(s) /\ k = Len(t)
  BY LenProperties
<1>2. /\ s \o t \in Seq(S) /\ Len(s \o t) = m + k
      /\ \A i \in 1 .. m + k : (s \o t)[i] = IF i <= m THEN s[i] ELSE t[i - m]
  BY <1>1, ConcatProperties
<1>3. \A i \in 1 .. m : i \in 1 .. m + k /\ i <= m
  BY <1>1
<1>4. \A i \in 1 .. k : m + i \in 1 .. m + k /\ ~(m + i <= m) /\ m + i - m = i
  BY <1>1
<1>5. \A i \in 1 .. k : (s \o t)[m + i] = t[i]
  BY <1>2, <1>4
<1> QED BY <1>1, <1>2, <1>3, <1>5

\* A request has n lines of data; b lines come before them, and they and the
\* empty one are e.
Measures(r, n, b, e) == /\ n \in Nat /\ n = Len(r.data)
                        /\ b \in Nat /\ (IF r.auth THEN b = 6 ELSE b = 5)
                        /\ e \in Nat /\ (IF r.data = <<>> THEN e = 0 ELSE e = n + 1)
HasLines(r, n, b, e, L) ==
  /\ L \in Seq(Line) /\ Len(L) = b + e + 2
  /\ L[1] = <<"STEP">> /\ L[2] = <<"REQUEST">> /\ L[3] = <<r.method>>
  /\ L[4] = <<"header">> /\ L[5] = <<"cookie">> /\ (r.auth => L[6] = <<"basicauth">>)
  /\ r.data # <<>> => /\ L[b + 1] = <<>>
                      /\ \A i \in 1 .. n : L[b + 1 + i] = <<r.data[i]>>
  /\ L[b + e + 1] = <<"/REQUEST">> /\ L[b + e + 2] = <<"/STEP">>

\* Which lines a request is written in, and which of them is which.
LEMMA RequestLinesAre ==
  ASSUME NEW r \in Requests, NEW n, NEW b, NEW e, Measures(r, n, b, e)
  PROVE  HasLines(r, n, b, e, RequestLines(r))
<1>1. PICK L : L = RequestLines(r)
  OBVIOUS
<1>2. /\ n \in Nat /\ n = Len(r.data) /\ b \in Nat /\ e \in Nat
      /\ (IF r.auth THEN b = 6 ELSE b = 5) /\ (IF r.data = <<>> THEN e = 0 ELSE e = n + 1)
  BY DEF Measures
<1>3. r.method \in {"GET", "POST"} /\ r.auth \in BOOLEAN /\ r.data \in Seq(Texts)
  BY RequestsAre
<1>4. DOMAIN r.data = 1 .. n /\ \A i \in 1 .. n : r.data[i] \in Texts
  BY <1>3, <1>2, LenProperties, ElementOfSeq
<1>5. PICK h1, h2, h3, h4, h5, a1, z1, z2 :
           /\ h1 = <<"STEP">> /\ h2 = <<"REQUEST">> /\ h3 = <<r.method>> /\ h4 = <<"header">>
           /\ h5 = <<"cookie">> /\ a1 = <<"basicauth">> /\ z1 = <<"/REQUEST">> /\ z2 = <<"/STEP">>
  OBVIOUS
<1>6. {h1, h2, h3, h4, h5, a1, z1, z2} \subseteq Line /\ <<>> \in Line
  BY <1>3, <1>5, WordsAre
<1>7. PICK h : h = <<h1, h2, h3, h4, h5>>
  OBVIOUS
<1>8. /\ h \in Seq(Line) /\ Len(h) = 5 /\ h[1] = h1 /\ h[2] = h2 /\ h[3] = h3 /\ h[4] = h4 /\ h[5] = h5
  BY <1>6, <1>7
<1>9. PICK a : a = IF r.auth THEN <<a1>> ELSE <<>>
  OBVIOUS
<1>10. PICK q \in Nat : a \in Seq(Line) /\ Len(a) = q /\ b = 5 + q /\ (r.auth => q = 1 /\ a[1] = a1)
  <2>1. CASE r.auth
    <3>1. a \in Seq(Line) /\ Len(a) = 1 /\ a[1] = a1 /\ b = 5 + 1
      BY <1>6, <1>9, <1>2, <2>1
    <3> QED BY <3>1
  <2>2. CASE ~r.auth
    <3>1. a \in Seq(Line) /\ Len(a) = 0 /\ b = 5 + 0
      BY <1>9, <1>2, <2>2
    <3> QED BY <2>2, <3>1
  <2> QED BY <2>1, <2>2
<1>11. PICK l : l = Lines(r.data)
  OBVIOUS
<1>12. l = [i \in 1 .. n |-> <<r.data[i]>>]
  BY <1>4, <1>11 DEF Lines
<1>13. l \in Seq(Line) /\ Len(l) = n /\ \A i \in 1 .. n : l[i] = <<r.data[i]>>
  <2>1. \A i \in 1 .. n : <<r.data[i]>> \in Line
    BY <1>4, WordsAre
  <2>2. l \in Seq(Line)
    BY <1>12, <1>2, <2>1, IsASeq
  <2>3. DOMAIN l = 1 .. n
    BY <1>12
  <2> QED BY <1>12, <1>2, <2>2, <2>3, LenProperties
<1>14. PICK d : d = IF r.data # <<>> THEN <<<<>>>> \o l ELSE <<>>
  OBVIOUS
<1>15. /\ d \in Seq(Line) /\ Len(d) = e
       /\ r.data # <<>> => e = 1 + n /\ d[1] = <<>> /\ \A i \in 1 .. n : d[1 + i] = <<r.data[i]>>
  <2>1. CASE r.data = <<>>
    BY <1>14, <1>2, <2>1
  <2>2. CASE r.data # <<>>
    <3>1. PICK x : x = <<<<>>>>
      OBVIOUS
    <3>2. x \in Seq(Line) /\ Len(x) = 1 /\ x[1] = <<>>
      BY <1>6, <3>1
    <3>3. d = x \o l
      BY <1>14, <2>2, <3>1
    <3>5. x \in Seq(Line) /\ l \in Seq(Line)
      BY <1>13, <3>2
    <3>4. /\ x \o l \in Seq(Line) /\ Len(x \o l) = Len(x) + Len(l)
          /\ \A i \in 1 .. Len(x) : (x \o l)[i] = x[i]
          /\ \A i \in 1 .. Len(l) : (x \o l)[Len(x) + i] = l[i]
      BY <3>5, Joined
    <3> QED BY <1>13, <1>2, <2>2, <3>2, <3>3, <3>4
  <2> QED BY <2>1, <2>2
<1>16. PICK z : z = <<z1, z2>>
  OBVIOUS
<1>17. z \in Seq(Line) /\ Len(z) = 2 /\ z[1] = z1 /\ z[2] = z2
  BY <1>6, <1>16
<1>18. L = h \o a \o d \o z
  BY <1>1, <1>5, <1>7, <1>9, <1>11, <1>14, <1>16, Zenon DEF RequestLines
<1>19. PICK u : u = h \o a
  OBVIOUS
<1>20. /\ u \in Seq(Line) /\ Len(u) = b
       /\ \A i \in 1 .. 5 : u[i] = h[i]
       /\ \A i \in 1 .. q : u[5 + i] = a[i]
  <2>2. h \in Seq(Line) /\ a \in Seq(Line)
    BY <1>8, <1>10
  <2>1. /\ h \o a \in Seq(Line) /\ Len(h \o a) = Len(h) + Len(a)
        /\ \A i \in 1 .. Len(h) : (h \o a)[i] = h[i]
        /\ \A i \in 1 .. Len(a) : (h \o a)[Len(h) + i] = a[i]
    BY <2>2, Joined
  <2> QED BY <1>8, <1>10, <1>19, <2>1
<1>21. PICK v : v = u \o d
  OBVIOUS
<1>22. /\ v \in Seq(Line) /\ Len(v) = b + e
       /\ \A i \in 1 .. b : v[i] = u[i]
       /\ \A i \in 1 .. e : v[b + i] = d[i]
  <2>2. u \in Seq(Line) /\ d \in Seq(Line)
    BY <1>15, <1>20
  <2>1. /\ u \o d \in Seq(Line) /\ Len(u \o d) = Len(u) + Len(d)
        /\ \A i \in 1 .. Len(u) : (u \o d)[i] = u[i]
        /\ \A i \in 1 .. Len(d) : (u \o d)[Len(u) + i] = d[i]
    BY <2>2, Joined
  <2> QED BY <1>15, <1>20, <1>21, <2>1
<1>23. PICK m \in Nat : m = b + e
  BY <1>2
<1>24. /\ L \in Seq(Line) /\ Len(L) = m + 2
       /\ \A i \in 1 .. m : L[i] = v[i]
       /\ \A i \in 1 .. 2 : L[m + i] = z[i]
  <2>2. v \in Seq(Line) /\ z \in Seq(Line)
    BY <1>17, <1>22, <1>23
  <2>1. /\ v \o z \in Seq(Line) /\ Len(v \o z) = Len(v) + Len(z)
        /\ \A i \in 1 .. Len(v) : (v \o z)[i] = v[i]
        /\ \A i \in 1 .. Len(z) : (v \o z)[Len(v) + i] = z[i]
    BY <2>2, Joined
  <2> QED BY <1>17, <1>18, <1>19, <1>21, <1>22, <1>23, <2>1
<1>25. \A i \in 1 .. b : i \in 1 .. m /\ L[i] = u[i]
  BY <1>22, <1>23, <1>24, <1>2
<1>26. L[1] = h1 /\ L[2] = h2 /\ L[3] = h3 /\ L[4] = h4 /\ L[5] = h5
  <2>1. \A i \in 1 .. 5 : i \in 1 .. b
    BY <1>10
  <2>2. \A i \in 1 .. 5 : L[i] = h[i]
    BY <1>20, <1>25, <2>1
  <2> QED BY <1>8, <2>2
<1>27. ASSUME r.auth PROVE L[6] = a1
  <2>1. q = 1 /\ b = 6 /\ a[1] = a1
    BY <1>10, <1>27
  <2>2. 1 \in 1 .. q /\ 5 + 1 = 6 /\ 6 \in 1 .. b
    BY <2>1
  <2>3. u[5 + 1] = a[1]
    BY <1>20, <2>2
  <2> QED BY <1>25, <2>1, <2>2, <2>3
<1>28. ASSUME r.data # <<>>
       PROVE  L[b + 1] = <<>> /\ \A i \in 1 .. n : L[b + 1 + i] = <<r.data[i]>>
  <2>1. e = 1 + n
    BY <1>15, <1>28
  <2>2. ASSUME NEW i \in 1 .. e PROVE L[b + i] = d[i]
    <3>1. b + i \in 1 .. m
      BY <1>23, <1>2
    <3> QED BY <1>22, <1>24, <3>1
  <2>3. ASSUME NEW i \in 1 .. n PROVE L[b + 1 + i] = <<r.data[i]>>
    <3>1. 1 + i \in 1 .. e /\ b + (1 + i) = b + 1 + i
      BY <1>2, <2>1
    <3>2. L[b + 1 + i] = d[1 + i]
      BY <2>2, <3>1
    <3> QED BY <1>15, <1>28, <3>2
  <2>4. 1 \in 1 .. e
    BY <1>2, <2>1
  <2> QED BY <1>15, <1>28, <2>2, <2>3, <2>4
<1>29. L[m + 1] = z1 /\ L[m + 2] = z2
  BY <1>17, <1>24
<1> QED BY <1>1, <1>5, <1>23, <1>24, <1>26, <1>27, <1>28, <1>29 DEF HasLines

\* Every request has a number of lines.
LEMMA Measured ==
  ASSUME NEW r \in Requests
  PROVE  \E n \in Nat, b \in Nat, e \in Nat : Measures(r, n, b, e)
<1>1. PICK n \in Nat : n = Len(r.data)
  BY RequestsAre, LenProperties
<1>2. PICK b \in Nat : IF r.auth THEN b = 6 ELSE b = 5
  <2>1. CASE r.auth
    BY <2>1
  <2>2. CASE ~r.auth
    BY <2>2
  <2> QED BY <2>1, <2>2
<1>3. PICK e \in Nat : IF r.data = <<>> THEN e = 0 ELSE e = n + 1
  <2>1. CASE r.data = <<>>
    BY <2>1
  <2>2. CASE r.data # <<>>
    BY <2>2
  <2> QED BY <2>1, <2>2
<1>4. Measures(r, n, b, e)
  BY <1>1, <1>2, <1>3 DEF Measures
<1> QED BY <1>4

\* The lines of a command.
LEMMA CommandLinesAre ==
  ASSUME NEW c \in ScriptCommands
  PROVE  CommandLines(c) \in Seq(Line) /\ (c = Pause => CommandLines(c) = <<<<"STEP", "WAIT", "/STEP">>>>)
         /\ (c \in Requests => CommandLines(c) = RequestLines(c))
<1>1. ASSUME NEW r \in Requests PROVE RequestLines(r) \in Seq(Line)
  <2>1. PICK n \in Nat, b \in Nat, e \in Nat : Measures(r, n, b, e)
    BY Measured
  <2> QED BY <2>1, RequestLinesAre DEF HasLines
<1>2. Pause \notin Requests
  BY RequestsAre DEF Pause
<1>3. <<"STEP", "WAIT", "/STEP">> \in Line
  BY WordsAre
<1>4. <<<<"STEP", "WAIT", "/STEP">>>> \in Seq(Line)
  BY <1>3
<1> QED BY <1>1, <1>2, <1>4 DEF CommandLines, ScriptCommands

\* The lines of a script after its k-th command: those of the next one, and so on to the end.
LEMMA LinesLeftAre ==
  ASSUME NEW p \in Seq(ScriptCommands), NEW n \in Nat, n = Len(p)
  PROVE  /\ LinesLeft(p, n) = <<<<"/HSRC">>>>
         /\ \A k \in 0 .. n : LinesLeft(p, k) \in Seq(Line)
         /\ \A k \in 1 .. n : LinesLeft(p, k - 1) = CommandLines(p[k]) \o LinesLeft(p, k)
         /\ Script(p) = <<<<"HSRC">>>> \o LinesLeft(p, 0)
<1>1. PICK after : after = LinesAfter(p)
  OBVIOUS
<1>2. /\ after[0] = <<<<"/HSRC">>>>
      /\ \A k \in 1 .. n : after[k] = CommandLines(p[n + 1 - k]) \o after[k - 1]
  BY <1>1, LinesAfterIs
<1>3. \A k \in 0 .. n : LinesLeft(p, k) = after[n - k] /\ n - k \in 0 .. n
  BY <1>1 DEF LinesLeft
<1>4. LinesLeft(p, n) = <<<<"/HSRC">>>>
  BY <1>2, <1>3
<1>5. ASSUME NEW k \in 1 .. n PROVE LinesLeft(p, k - 1) = CommandLines(p[k]) \o LinesLeft(p, k)
  <2>1. n - (k - 1) \in 1 .. n /\ n + 1 - (n - (k - 1)) = k /\ n - (k - 1) - 1 = n - k
        /\ k \in 0 .. n /\ k - 1 \in 0 .. n
    OBVIOUS
  <2>2. after[n - (k - 1)] = CommandLines(p[n + 1 - (n - (k - 1))]) \o after[n - (k - 1) - 1]
    BY <1>2, <2>1
  <2> QED BY <1>3, <2>1, <2>2
<1> DEFINE Good == {m \in Nat : m <= n => after[m] \in Seq(Line)}
<1>6. 0 \in Good
  <2>1. <<"/HSRC">> \in Line
    BY WordsAre
  <2>2. <<<<"/HSRC">>>> \in Seq(Line)
    BY <2>1
  <2> QED BY <1>2, <2>2
<1>7. ASSUME NEW m \in Nat, m \in Good PROVE m + 1 \in Good
  <2> SUFFICES ASSUME m + 1 <= n PROVE after[m + 1] \in Seq(Line)
    OBVIOUS
  <2>1. m + 1 \in 1 .. n /\ m + 1 - 1 = m /\ n + 1 - (m + 1) \in 1 .. n
    OBVIOUS
  <2>2. after[m + 1] = CommandLines(p[n + 1 - (m + 1)]) \o after[m]
    <3>1. PICK l : l = m + 1 /\ l \in 1 .. n /\ l - 1 = m
      BY <2>1
    <3>2. after[l] = CommandLines(p[n + 1 - l]) \o after[l - 1]
      BY <1>2, <3>1
    <3> QED BY <3>1, <3>2
  <2>3. PICK c \in ScriptCommands : c = p[n + 1 - (m + 1)]
    BY <2>1, ElementOfSeq
  <2>4. CommandLines(c) \in Seq(Line) /\ after[m] \in Seq(Line)
    BY <1>7, CommandLinesAre
  <2> QED BY <2>2, <2>3, <2>4, ConcatProperties
<1>8. \A m \in Nat : m \in Good
  <2> HIDE DEF Good
  <2> QED BY <1>6, <1>7, NaturalInduction
<1>9. \A k \in 0 .. n : LinesLeft(p, k) \in Seq(Line)
  BY <1>3, <1>8
<1>10. Script(p) = <<<<"HSRC">>>> \o LinesLeft(p, 0)
  <2>1. n - 0 = n
    OBVIOUS
  <2> QED BY <1>1, <1>3, <2>1 DEF Script
<1> QED BY <1>4, <1>5, <1>9, <1>10

--------------------------------------------------------------------------------
(* Where the interpreter is in the script.                                   *)

Main == <<"do_reconnect">>
InStep == <<"step">> \o Main
InRequest == <<"request">> \o InStep

\* The first k commands have been carried out.
Carried(k) == performed = SubSeq(program, 1, k)
\* Line j + 1 of a command is the next one, or has been read and not been used.
At(L, j, R) == \/ curr_line = <<>> /\ unread = From(L, j, R)
               \/ curr_line = L[j + 1] /\ L[j + 1] # <<>> /\ unread = From(L, j + 1, R)

Opening == /\ calls = Main /\ curr_post_data = <<>> /\ Carried(0)
           /\ \/ curr_line = <<>> /\ unread = Script(program)
              \/ curr_line = <<"HSRC">> /\ unread = LinesLeft(program, 0)
Between(k) == /\ calls = Main /\ curr_post_data = <<>> /\ Carried(k)
              /\ curr_line = <<>> /\ unread = LinesLeft(program, k)
Closing == /\ calls = Main /\ curr_post_data = <<>> /\ Carried(Len(program))
           /\ curr_line \in {<<"/HSRC">>, <<>>} /\ unread = <<>>

\* In the line of a pause.
Pausing(k) ==
  /\ program[k] = Pause /\ curr_post_data = <<>> /\ unread = LinesLeft(program, k)
  /\ \/ calls = Main /\ Carried(k - 1) /\ curr_line = <<"STEP", "WAIT", "/STEP">>
     \/ calls = InStep /\ Carried(k - 1) /\ curr_line = <<"WAIT", "/STEP">>
     \/ calls = InStep /\ Carried(k) /\ curr_line = <<"/STEP">>

\* In the lines of a request, of which b come before the data, and e are data.
Begun(k, L, R) == /\ calls = Main /\ curr_post_data = <<>> /\ Carried(k - 1)
                  /\ curr_line = <<"STEP">> /\ unread = From(L, 1, R)
Entered(k, L, R) == /\ calls = InStep /\ curr_post_data = <<>> /\ Carried(k - 1)
                    /\ At(L, 1, R)
Opened(k, L, R) == /\ calls = InRequest /\ curr_post_data = <<>> /\ Carried(k - 1)
                   /\ request = Fresh /\ At(L, 2, R)
Heading(k, r, j, L, R) ==
  /\ calls = InRequest /\ curr_post_data = <<>> /\ Carried(k - 1)
  /\ request.method = r.method /\ request.data = FALSE
  /\ request.auth <=> (r.auth /\ j = 6)
  /\ At(L, j, R)
Giving(k, r, i, b, L, R) ==
  /\ calls = InRequest /\ curr_post_data = SubSeq(r.data, 1, i) /\ Carried(k - 1)
  /\ request.method = r.method /\ request.data = TRUE /\ request.auth = r.auth
  /\ At(L, b + 1 + i, R)
Asked(k, j, L, R) == /\ calls = InStep /\ curr_post_data = <<>> /\ Carried(k)
                     /\ At(L, j, R)

Asking(k, r, n, b, e, L, R) ==
  /\ r = program[k] /\ r \in Requests /\ Measures(r, n, b, e)
  /\ L = RequestLines(r) /\ R = LinesLeft(program, k)
  /\ \/ Begun(k, L, R) \/ Entered(k, L, R) \/ Opened(k, L, R)
     \/ \E j \in 3 .. b : Heading(k, r, j, L, R)
     \/ r.data # <<>> /\ \E i \in 0 .. n : Giving(k, r, i, b, L, R)
     \/ Asked(k, b + e + 1, L, R)

InScript ==
  \/ Opening \/ Closing
  \/ \E k \in 0 .. Len(program) : Between(k)
  \/ \E k \in 1 .. Len(program) : Pausing(k)
  \/ \E k \in 1 .. Len(program) : \E r, n, b, e, L, R : Asking(k, r, n, b, e, L, R)

ScriptTypes == /\ program \in Seq(ScriptCommands)
               /\ request \in [method : {"GET", "POST"}, auth : BOOLEAN, data : BOOLEAN]

ScriptInv == /\ ScriptTypes
             /\ activity # "running" => curr_line = <<>>
             /\ activity \in {"trying", "asking"} => curr_post_data = <<>>
             /\ activity = "asking" /\ program # <<>> => performed = program
             /\ activity = "running" => program # <<>> /\ InScript

\* The calls the script is read in: do_reconnect, step, and request within it.
LEMMA Stacks ==
  /\ Main # <<>> /\ Head(Main) = "do_reconnect"
  /\ InStep # <<>> /\ Head(InStep) = "step" /\ Tail(InStep) = Main
  /\ InRequest # <<>> /\ Head(InRequest) = "request" /\ Tail(InRequest) = InStep
<1> DEFINE F == {"do_reconnect", "step", "request"}
<1>1. Main \in Seq(F) /\ Main # <<>> /\ Head(Main) = "do_reconnect"
  BY DEF Main
<1> HIDE DEF Main
<1>2. InStep \in Seq(F) /\ InStep # <<>> /\ Head(InStep) = "step" /\ Tail(InStep) = Main
  BY <1>1, FrontFacts DEF InStep
<1> HIDE DEF InStep
<1>3. InRequest # <<>> /\ Head(InRequest) = "request" /\ Tail(InRequest) = InStep
  BY <1>2, FrontFacts DEF InRequest
<1> QED BY <1>1, <1>2, <1>3

\* The next line is read.
LEMMA LineIsRead ==
  ASSUME ScriptNext, activity = "running", curr_line = <<>>, unread # <<>>
  PROVE  /\ curr_line' = Head(unread) /\ unread' = Tail(unread)
         /\ UNCHANGED <<program, calls, curr_post_data, performed, activity>>
         /\ request' = IF In("request") /\ Head(unread) = <<>>
                       THEN [request EXCEPT !.data = TRUE] ELSE request
<1>1. ReadLine
  BY DEF ScriptNext, ScriptStep, BeginReconnecting, MainWord, StepWord, RequestWord, HasWord,
         Attempt, EndOfScript, AskAddress, GiveUpReconnecting
<1> QED BY <1>1 DEF ReadLine, AttemptUnchanged

\* A word is used.
LEMMA WordIsUsed ==
  ASSUME ScriptNext, activity = "running", curr_line # <<>>
  PROVE  /\ curr_line' = Tail(curr_line)
         /\ UNCHANGED <<program, unread, activity>>
         /\ calls = Main => ExecNext
         /\ calls = InStep => IF Word = "/STEP" THEN LeaveStep ELSE ExecNext
         /\ calls = InRequest => TextWord \/ (Word = "/REQUEST" /\ Perform)
<1>1. MainWord \/ StepWord \/ RequestWord
  BY DEF ScriptNext, ScriptStep, BeginReconnecting, ReadLine, HasWord, Attempt, EndOfScript,
         AskAddress, GiveUpReconnecting
<1>2. CASE MainWord
  <2>1. calls # InStep /\ calls # InRequest
    BY <1>2, Stacks DEF MainWord, In
  <2> QED BY <1>2, <2>1 DEF MainWord, Consume, AttemptUnchanged
<1>3. CASE StepWord
  <2>1. calls # Main /\ calls # InRequest
    BY <1>3, Stacks DEF StepWord, In
  <2> QED BY <1>3, <2>1 DEF StepWord, Consume, AttemptUnchanged
<1>4. CASE RequestWord
  <2>1. calls # Main /\ calls # InStep
    BY <1>4, Stacks DEF RequestWord, In
  <2> QED BY <1>4, <2>1 DEF RequestWord, Consume, AttemptUnchanged
<1> QED BY <1>1, <1>2, <1>3, <1>4

\* What the tags do.
LEMMA TagsAre ==
  ASSUME ExecNext, curr_line # <<>>
  PROVE  /\ UNCHANGED curr_post_data
         /\ Word = "STEP" => calls' = <<"step">> \o calls /\ UNCHANGED <<performed, request>>
         /\ Word = "REQUEST" => calls' = <<"request">> \o calls /\ request' = Fresh /\ UNCHANGED performed
         /\ Word = "WAIT" => performed' = Append(performed, Pause) /\ UNCHANGED <<calls, request>>
         /\ Word \in {"HSRC", "/HSRC"} => UNCHANGED <<calls, performed, request>>
BY DEF ExecNext, EnterStep, EnterRequest, Wait, SkipTag, RequestUnchanged

\* The types are kept.
LEMMA ScriptTypesStep ==
  ASSUME ScriptTypes, ScriptNext
  PROVE  ScriptTypes'
<1>1. Fresh \in [method : {"GET", "POST"}, auth : BOOLEAN, data : BOOLEAN]
  BY DEF Fresh
<1>2. program' \in Seq(ScriptCommands)
  <2>1. CASE BeginReconnecting
    <3>1. PICK n \in 0 .. MaxCommands : \E p \in [1 .. n -> ScriptCommands] : program' = p
      BY <2>1 DEF BeginReconnecting, ScriptCommands
    <3>2. PICK p \in [1 .. n -> ScriptCommands] : program' = p
      BY <3>1
    <3>3. n \in Nat
      BY ScriptAssumption
    <3>4. p = [i \in 1 .. n |-> p[i]] /\ \A i \in 1 .. n : p[i] \in ScriptCommands
      BY <3>2
    <3>5. p \in Seq(ScriptCommands)
      BY <3>3, <3>4, IsASeq
    <3> QED BY <3>2, <3>5
  <2>2. CASE ScriptStep
    <3>1. program' = program
      BY <2>2 DEF ScriptStep, ReadLine, MainWord, StepWord, RequestWord, AttemptUnchanged, Attempt,
                  EndOfScript, AskAddress, GiveUpReconnecting
    <3> QED BY <3>1 DEF ScriptTypes
  <2> QED BY <2>1, <2>2 DEF ScriptNext
<1>3. request' \in [method : {"GET", "POST"}, auth : BOOLEAN, data : BOOLEAN]
  <2>1. CASE UNCHANGED request
    BY <2>1 DEF ScriptTypes
  <2>2. CASE request' = Fresh
    BY <1>1, <2>2
  <2>3. CASE request' = [request EXCEPT !.data = TRUE] \/ request' = [request EXCEPT !.auth = TRUE]
    BY <2>3 DEF ScriptTypes
  <2>4. CASE Word \in {"GET", "POST"} /\ request' = [request EXCEPT !.method = Word]
    BY <2>4 DEF ScriptTypes
  <2>5. ExecNext => UNCHANGED request \/ request' = Fresh
    BY DEF ExecNext, EnterStep, EnterRequest, Wait, SkipTag, RequestUnchanged
  <2>6. TextWord => \/ UNCHANGED request \/ request' = [request EXCEPT !.auth = TRUE]
                    \/ Word \in {"GET", "POST"} /\ request' = [request EXCEPT !.method = Word]
    BY DEF TextWord
  <2>7. CASE BeginReconnecting \/ Attempt \/ EndOfScript \/ AskAddress \/ GiveUpReconnecting
    BY <2>1, <2>7 DEF BeginReconnecting, Attempt, EndOfScript, AskAddress, GiveUpReconnecting, RequestUnchanged
  <2>8. CASE ReadLine
    BY <2>1, <2>3, <2>8 DEF ReadLine
  <2>9. CASE MainWord
    BY <2>1, <2>2, <2>5, <2>9 DEF MainWord
  <2>10. CASE StepWord
    BY <2>1, <2>2, <2>5, <2>10 DEF StepWord, LeaveStep, RequestUnchanged
  <2>11. CASE RequestWord
    BY <2>1, <2>3, <2>4, <2>6, <2>11 DEF RequestWord, Perform
  <2> QED BY <2>7, <2>8, <2>9, <2>10, <2>11 DEF ScriptNext, ScriptStep
<1> QED BY <1>2, <1>3 DEF ScriptTypes

\* The first elements of a sequence, and one more.
LEMMA FirstOnes ==
  ASSUME NEW S, NEW s \in Seq(S)
  PROVE  /\ SubSeq(s, 1, 0) = <<>> /\ SubSeq(s, 1, Len(s)) = s
         /\ \A i \in 1 .. Len(s) : SubSeq(s, 1, i) = Append(SubSeq(s, 1, i - 1), s[i])
<1>1. PICK n \in Nat : n = Len(s)
  BY LenProperties
<1>2. SubSeq(s, 1, 0) = <<>>
  BY SubSeqEmpty
<1>3. ASSUME NEW i \in 1 .. n PROVE SubSeq(s, 1, i) = Append(SubSeq(s, 1, i - 1), s[i])
  <2>1. SubSeq(s, 1, i) = SubSeq(s, 1, i - 1) \o <<s[i]>>
    <3>1. 1 \in 1 .. Len(s) /\ i \in 1 .. Len(s)
      BY <1>1
    <3> QED BY <3>1, SubSeqRecursiveSecond
  <2>2. \A h \in 1 .. i - 1 : s[h] \in S
    BY <1>1, ElementOfSeq
  <2>3. PICK q : q = SubSeq(s, 1, i - 1)
    OBVIOUS
  <2>4. q \in Seq(S)
    BY <2>2, <2>3, SubSeqProperties
  <2>5. PICK x \in S : x = s[i]
    BY <1>1, ElementOfSeq
  <2> QED BY <2>1, <2>3, <2>4, <2>5, AppendIsConcat
<1> QED BY <1>1, <1>2, <1>3, SubSeqFull

\* A line of one word.
LEMMA OneWord == \A w : <<w>> # <<>> /\ Head(<<w>>) = w /\ Tail(<<w>>) = <<>>
OBVIOUS

\* The line i is the next of the lines that are left.
Following(L, i, j, R) ==
  From(L, j, R) # <<>> /\ Head(From(L, j, R)) = L[i] /\ Tail(From(L, j, R)) = From(L, i, R)

\* It is, for the line after the j-th.
LEMMA NextLine ==
  ASSUME NEW L \in Seq(Line), NEW R \in Seq(Line), NEW j \in 0 .. Len(L) - 1, NEW i, i = j + 1
  PROVE  Following(L, i, j, R)
BY FromNext DEF Following

\* From a line with one word: it is read, or its word is used.
LEMMA WordOfLine ==
  ASSUME NEW L \in Seq(Line), NEW R \in Seq(Line), NEW j \in 0 .. Len(L) - 1, NEW i, i = j + 1,
         NEW w, L[i] = <<w>>,
         At(L, j, R), ScriptNext, activity = "running"
  PROVE  /\ UNCHANGED <<program, activity>>
         /\ \/ At(L, j, R)' /\ UNCHANGED <<calls, curr_post_data, performed, request>>
            \/ /\ Word = w /\ curr_line # <<>> /\ At(L, i, R)'
               /\ curr_line' = <<>> /\ unread' = From(L, i, R)
               /\ calls = Main => ExecNext
               /\ calls = InStep => IF Word = "/STEP" THEN LeaveStep ELSE ExecNext
               /\ calls = InRequest => TextWord \/ (Word = "/REQUEST" /\ Perform)
<1>1. /\ From(L, j, R) # <<>> /\ Head(From(L, j, R)) = <<w>>
      /\ Tail(From(L, j, R)) = From(L, i, R)
  <2>1. Following(L, i, j, R)
    BY NextLine
  <2> QED BY <2>1 DEF Following
<1>2. CASE curr_line = <<>> /\ unread = From(L, j, R)
  <2>1. curr_line' = <<w>> /\ unread' = From(L, i, R) /\ request' = request
        /\ UNCHANGED <<program, calls, curr_post_data, performed, activity>>
    BY <1>1, <1>2, LineIsRead, OneWord
  <2>2. At(L, j, R)'
    BY <2>1, OneWord DEF At
  <2> QED BY <2>1, <2>2
<1>3. CASE curr_line = <<w>> /\ unread = From(L, i, R)
  <2>1. Word = w /\ curr_line # <<>> /\ Tail(curr_line) = <<>>
    BY <1>3, OneWord DEF Word
  <2>2. /\ curr_line' = <<>> /\ UNCHANGED <<program, unread, activity>>
        /\ calls = Main => ExecNext
        /\ calls = InStep => IF Word = "/STEP" THEN LeaveStep ELSE ExecNext
        /\ calls = InRequest => TextWord \/ (Word = "/REQUEST" /\ Perform)
    BY <2>1, WordIsUsed
  <2>3. At(L, i, R)'
    BY <1>3, <2>2 DEF At
  <2> QED BY <1>3, <2>1, <2>2, <2>3
<1> QED BY <1>2, <1>3 DEF At

\* The empty line of a request: what follows is its data.
LEMMA EmptyLine ==
  ASSUME NEW L \in Seq(Line), NEW R \in Seq(Line), NEW j \in 0 .. Len(L) - 1, NEW i, i = j + 1,
         L[i] = <<>>,
         At(L, j, R), ScriptNext, activity = "running", calls = InRequest
  PROVE  /\ UNCHANGED <<program, activity, calls, curr_post_data, performed>>
         /\ request' = [request EXCEPT !.data = TRUE]
         /\ At(L, i, R)'
<1>1. /\ From(L, j, R) # <<>> /\ Head(From(L, j, R)) = <<>>
      /\ Tail(From(L, j, R)) = From(L, i, R)
  <2>1. Following(L, i, j, R)
    BY NextLine
  <2> QED BY <2>1 DEF Following
<1>2. curr_line = <<>> /\ unread = From(L, j, R)
  BY DEF At
<1>3. In("request")
  BY Stacks DEF In
<1>4. /\ UNCHANGED <<program, activity, calls, curr_post_data, performed>>
      /\ request' = [request EXCEPT !.data = TRUE] /\ curr_line' = <<>> /\ unread' = From(L, i, R)
  BY <1>1, <1>2, <1>3, LineIsRead
<1> QED BY <1>4 DEF At

\* What is sent is what the script asks for.
LEMMA SentIsAsked ==
  ASSUME NEW r \in Requests, curr_post_data = r.data, request.method = r.method, request.auth = r.auth
  PROVE  Sent = r
<1>1. r = [method |-> r.method, auth |-> r.auth, data |-> r.data] /\ (r.data # <<>> => r.method = "POST")
  BY RequestsAre
<1> QED BY <1>1 DEF Sent

\* The lines of a request, one after the other.
LEMMA AskingStep ==
  ASSUME ScriptTypes, ScriptNext, activity = "running", NEW k \in 1 .. Len(program),
         NEW r, NEW n, NEW b, NEW e, NEW L, NEW R, Asking(k, r, n, b, e, L, R)
  PROVE  UNCHANGED <<program, activity>> /\ (Between(k)' \/ Asking(k, r, n, b, e, L, R)')
<1>1. /\ r = program[k] /\ r \in Requests /\ n \in Nat /\ n = Len(r.data)
      /\ b \in Nat /\ (IF r.auth THEN b = 6 ELSE b = 5)
      /\ e \in Nat /\ (IF r.data = <<>> THEN e = 0 ELSE e = n + 1)
      /\ L = RequestLines(r) /\ R = LinesLeft(program, k)
  BY DEF Asking, Measures
<1>2. /\ L \in Seq(Line) /\ Len(L) = b + e + 2
      /\ L[1] = <<"STEP">> /\ L[2] = <<"REQUEST">> /\ L[3] = <<r.method>>
      /\ L[4] = <<"header">> /\ L[5] = <<"cookie">> /\ (r.auth => L[6] = <<"basicauth">>)
      /\ r.data # <<>> => /\ L[b + 1] = <<>>
                          /\ \A i \in 1 .. n : L[b + 1 + i] = <<r.data[i]>>
      /\ L[b + e + 1] = <<"/REQUEST">> /\ L[b + e + 2] = <<"/STEP">>
  <2>1. Measures(r, n, b, e)
    BY DEF Asking
  <2>2. HasLines(r, n, b, e, L)
    BY <1>1, <2>1, RequestLinesAre
  <2> QED BY <2>2 DEF HasLines
<1>3. /\ program \in Seq(ScriptCommands) /\ R \in Seq(Line)
      /\ request \in [method : {"GET", "POST"}, auth : BOOLEAN, data : BOOLEAN]
  BY <1>1, LenProperties, LinesLeftAre DEF ScriptTypes
<1>4. b >= 5 /\ (r.auth => b = 6) /\ (~r.auth => b = 5) /\ (r.data # <<>> => e = n + 1)
      /\ (r.data = <<>> => e = 0)
  BY <1>1
<1>5. r.method \in {"GET", "POST"} /\ r.auth \in BOOLEAN /\ r.data \in Seq(Texts)
  BY <1>1, RequestsAre
<1>6. ASSUME NEW j \in Nat, NEW i, i = j + 1, i <= b + e + 2, NEW w, L[i] = <<w>>, At(L, j, R)
       PROVE  /\ UNCHANGED <<program, activity>>
              /\ \/ At(L, j, R)' /\ UNCHANGED <<calls, curr_post_data, performed, request>>
                 \/ /\ Word = w /\ curr_line # <<>> /\ At(L, i, R)'
                    /\ curr_line' = <<>> /\ unread' = From(L, i, R)
                    /\ calls = Main => ExecNext
                    /\ calls = InStep => IF Word = "/STEP" THEN LeaveStep ELSE ExecNext
                    /\ calls = InRequest => TextWord \/ (Word = "/REQUEST" /\ Perform)
  <2>1. j \in 0 .. Len(L) - 1
    <3>1. PICK m \in Nat : m = b + e + 2 /\ m = Len(L)
      <4>1. b \in Nat /\ e \in Nat
        BY <1>1
      <4> QED BY <1>2, <4>1
    <3>2. j \in 0 .. m - 1
      BY <1>6, <3>1
    <3> QED BY <3>1, <3>2
  <2>2. L \in Seq(Line) /\ R \in Seq(Line)
    BY <1>2, <1>3
  <2> QED BY <1>6, <2>1, <2>2, WordOfLine, Zenon
<1> DEFINE Goes == \/ Begun(k, L, R) \/ Entered(k, L, R) \/ Opened(k, L, R)
                   \/ \E j \in 3 .. b : Heading(k, r, j, L, R)
                   \/ r.data # <<>> /\ \E i \in 0 .. n : Giving(k, r, i, b, L, R)
                   \/ Asked(k, b + e + 1, L, R)
<1>7. ASSUME UNCHANGED program, Goes' PROVE Asking(k, r, n, b, e, L, R)'
  <2>1. Measures(r, n, b, e) /\ program[k] = r /\ L = RequestLines(r) /\ R = LinesLeft(program, k)
    BY DEF Asking
  <2> QED BY <1>1, <1>7, <2>1 DEF Asking
<1> HIDE DEF Goes
<1>8. CASE Begun(k, L, R)
  <2>1. curr_line = <<"STEP">> /\ curr_line # <<>> /\ Word = "STEP" /\ Tail(curr_line) = <<>>
    BY <1>8, OneWord DEF Begun, Word
  <2>2. /\ curr_line' = <<>> /\ UNCHANGED <<program, unread, activity>> /\ ExecNext
    BY <1>8, <2>1, WordIsUsed DEF Begun
  <2>3. UNCHANGED <<curr_post_data, performed>> /\ calls' = InStep
    BY <1>8, <2>1, <2>2, TagsAre DEF Begun, InStep
  <2>4. Entered(k, L, R)'
    BY <1>8, <2>2, <2>3 DEF Begun, Entered, At, Carried
  <2> QED BY <1>7, <2>2, <2>4 DEF Goes
<1>9. CASE Entered(k, L, R)
  <2>1. 1 \in Nat /\ 2 = 1 + 1 /\ 2 <= b + e + 2
    <3>1. b \in Nat /\ e \in Nat
      BY <1>1
    <3> QED BY <3>1
  <2>2. L[2] = <<"REQUEST">>
    BY <1>2
  <2>3. /\ UNCHANGED <<program, activity>>
        /\ \/ At(L, 1, R)' /\ UNCHANGED <<calls, curr_post_data, performed, request>>
           \/ Word = "REQUEST" /\ curr_line # <<>> /\ At(L, 2, R)' /\ ExecNext
    <3>1. /\ calls = InStep /\ At(L, 1, R) /\ "REQUEST" # "/STEP"
      BY <1>9 DEF Entered
    <3>2. /\ UNCHANGED <<program, activity>>
          /\ \/ At(L, 1, R)' /\ UNCHANGED <<calls, curr_post_data, performed, request>>
             \/ /\ Word = "REQUEST" /\ curr_line # <<>> /\ At(L, 2, R)'
                /\ IF Word = "/STEP" THEN LeaveStep ELSE ExecNext
      BY <1>6, <2>1, <2>2, <3>1
    <3> QED BY <3>1, <3>2
  <2>4. CASE At(L, 1, R)' /\ UNCHANGED <<calls, curr_post_data, performed, request>>
    <3>1. Entered(k, L, R)'
      BY <1>9, <2>3, <2>4 DEF Entered, Carried
    <3> QED BY <1>7, <2>3, <3>1 DEF Goes
  <2>5. CASE Word = "REQUEST" /\ curr_line # <<>> /\ At(L, 2, R)' /\ ExecNext
    <3>1. UNCHANGED <<curr_post_data, performed>> /\ calls' = InRequest /\ request' = Fresh
      BY <1>9, <2>5, TagsAre DEF Entered, InRequest
    <3>2. Opened(k, L, R)'
      BY <1>9, <2>3, <2>5, <3>1 DEF Entered, Opened, Carried
    <3> QED BY <1>7, <2>3, <3>2 DEF Goes
  <2> QED BY <2>3, <2>4, <2>5
<1>10. CASE Opened(k, L, R)
  <2>1. 2 \in Nat /\ 3 = 2 + 1 /\ 3 <= b + e + 2 /\ 3 \in 3 .. b
    <3>1. b \in Nat /\ e \in Nat /\ b >= 5
      BY <1>1, <1>4
    <3> QED BY <3>1
  <2>2. L[3] = <<r.method>>
    BY <1>2
  <2>3. /\ UNCHANGED <<program, activity>>
        /\ \/ At(L, 2, R)' /\ UNCHANGED <<calls, curr_post_data, performed, request>>
           \/ Word = r.method /\ At(L, 3, R)' /\ (TextWord \/ (Word = "/REQUEST" /\ Perform))
    BY <1>10, <1>6, <2>1, <2>2 DEF Opened
  <2>4. CASE At(L, 2, R)' /\ UNCHANGED <<calls, curr_post_data, performed, request>>
    <3>1. Opened(k, L, R)'
      BY <1>10, <2>3, <2>4 DEF Opened, Carried
    <3> QED BY <1>7, <2>3, <3>1 DEF Goes
  <2>5. CASE Word = r.method /\ At(L, 3, R)' /\ (TextWord \/ (Word = "/REQUEST" /\ Perform))
    <3>1. TextWord /\ Word \in {"GET", "POST"}
      BY <1>5, <2>5
    <3>2. UNCHANGED <<calls, performed, curr_post_data>> /\ request' = [request EXCEPT !.method = Word]
      BY <3>1 DEF TextWord
    <3>3. request.auth = FALSE /\ request.data = FALSE
      BY <1>10 DEF Opened, Fresh
    <3>4. request'.method = r.method /\ request'.auth = FALSE /\ request'.data = FALSE
      BY <1>3, <2>5, <3>2, <3>3
    <3>5. Heading(k, r, 3, L, R)'
      BY <1>10, <2>3, <2>5, <3>2, <3>4 DEF Opened, Heading, Carried
    <3> QED BY <1>7, <2>1, <2>3, <3>5 DEF Goes
  <2> QED BY <2>3, <2>4, <2>5
<1>11. ASSUME NEW j \in 3 .. b, Heading(k, r, j, L, R), NEW w, L[j + 1] = <<w>>
       PROVE  /\ UNCHANGED <<program, activity>>
              /\ \/ Heading(k, r, j, L, R)'
                 \/ Word = w /\ curr_line' = <<>> /\ unread' = From(L, j + 1, R) /\ At(L, j + 1, R)'
                    /\ (TextWord \/ (Word = "/REQUEST" /\ Perform))
  <2>1. j \in Nat /\ j + 1 <= b + e + 2
    <3>1. b \in Nat /\ e \in Nat
      BY <1>1
    <3> QED BY <3>1
  <2>2. /\ UNCHANGED <<program, activity>>
        /\ \/ At(L, j, R)' /\ UNCHANGED <<calls, curr_post_data, performed, request>>
           \/ Word = w /\ curr_line' = <<>> /\ unread' = From(L, j + 1, R) /\ At(L, j + 1, R)'
              /\ (TextWord \/ (Word = "/REQUEST" /\ Perform))
    BY <1>11, <1>6, <2>1 DEF Heading
  <2> QED BY <1>11, <2>2 DEF Heading, Carried
<1>12. ASSUME NEW j \in 3 .. b, Heading(k, r, j, L, R), j + 1 <= b
       PROVE  UNCHANGED <<program, activity>> /\ Goes'
  <2>1. j \in {3, 4, 5} /\ j + 1 \in {4, 5, 6} /\ j + 1 \in 3 .. b
    BY <1>1, <1>4, <1>12
  <2>2. PICK w : /\ L[j + 1] = <<w>> /\ w = (IF j = 3 THEN "header" ELSE IF j = 4 THEN "cookie" ELSE "basicauth")
                 /\ (j = 5 => r.auth)
    <3>1. CASE j = 3
      BY <1>2, <3>1
    <3>2. CASE j = 4
      BY <1>2, <3>2
    <3>3. CASE j = 5
      BY <1>2, <1>4, <1>12, <3>3
    <3> QED BY <2>1, <3>1, <3>2, <3>3
  <2>3. CASE Heading(k, r, j, L, R)'
    BY <1>11, <1>12, <2>2, <2>3 DEF Goes
  <2>4. CASE Word = w /\ At(L, j + 1, R)' /\ (TextWord \/ (Word = "/REQUEST" /\ Perform))
    <3>1. TextWord
      BY <2>2, <2>4
    <3>2. UNCHANGED <<calls, performed, curr_post_data>>
          /\ request' = IF j = 5 THEN [request EXCEPT !.auth = TRUE] ELSE request
      <4>1. request.data = FALSE /\ "header" \in HasColon
        BY <1>12 DEF Heading, HasColon
      <4>2. CASE j = 3
        BY <2>2, <2>4, <3>1, <4>1, <4>2 DEF TextWord
      <4>3. CASE j = 4
        BY <2>2, <2>4, <3>1, <4>3 DEF TextWord
      <4>4. CASE j = 5
        BY <2>2, <2>4, <3>1, <4>4 DEF TextWord
      <4> QED BY <2>1, <4>2, <4>3, <4>4
    <3>3. request'.method = r.method /\ request'.data = FALSE /\ (request'.auth <=> (r.auth /\ j + 1 = 6))
      <4>1. request.method = r.method /\ request.data = FALSE /\ (request.auth <=> (r.auth /\ j = 6))
        BY <1>12 DEF Heading
      <4>2. CASE j = 5
        <5>1. request' = [request EXCEPT !.auth = TRUE] /\ r.auth
          BY <2>2, <3>2, <4>2
        <5> QED BY <1>3, <4>1, <4>2, <5>1
      <4>3. CASE j \in {3, 4}
        <5>1. request' = request
          BY <3>2, <4>3
        <5> QED BY <4>1, <4>3, <5>1
      <4> QED BY <2>1, <4>2, <4>3
    <3>4. Heading(k, r, j + 1, L, R)'
      BY <1>11, <1>12, <2>2, <2>4, <3>2, <3>3 DEF Heading, Carried
    <3> QED BY <1>11, <1>12, <2>1, <2>2, <3>4 DEF Goes
  <2> QED BY <1>11, <1>12, <2>2, <2>3, <2>4
<1>13. ASSUME Carried(k - 1), calls = InRequest, Word = "/REQUEST", TextWord \/ (Word = "/REQUEST" /\ Perform),
              curr_post_data = r.data, request.method = r.method, request.auth = r.auth,
              UNCHANGED <<program, activity>>, At(L, b + e + 1, R)'
       PROVE  Goes'
  <2>1. Perform
    BY <1>13 DEF TextWord, Tags
  <2>2. Sent = r
    BY <1>1, <1>13, SentIsAsked
  <2>3. performed' = SubSeq(program, 1, k) /\ curr_post_data' = <<>> /\ calls' = InStep
    <3>1. performed' = Append(SubSeq(program, 1, k - 1), r)
      BY <1>13, <2>1, <2>2 DEF Perform, Carried
    <3>2. SubSeq(program, 1, k) = Append(SubSeq(program, 1, k - 1), program[k])
      BY <1>3, FirstOnes
    <3>3. curr_post_data' = <<>> /\ calls' = InStep
      BY <1>13, <2>1, Stacks DEF Perform
    <3> QED BY <1>1, <3>1, <3>2, <3>3
  <2>4. Asked(k, b + e + 1, L, R)'
    BY <1>13, <2>3 DEF Asked, Carried
  <2> QED BY <2>4 DEF Goes
<1>14. ASSUME Heading(k, r, b, L, R), r.data = <<>>
       PROVE  UNCHANGED <<program, activity>> /\ Goes'
  <2>1. b \in 3 .. b /\ b + e + 1 = b + 1 /\ L[b + 1] = <<"/REQUEST">>
    BY <1>1, <1>2, <1>4, <1>14
  <2>2. CASE Heading(k, r, b, L, R)'
    BY <1>11, <1>14, <2>1, <2>2 DEF Goes
  <2>3. CASE Word = "/REQUEST" /\ At(L, b + 1, R)' /\ (TextWord \/ (Word = "/REQUEST" /\ Perform))
    <3>1. request.auth = r.auth
      BY <1>3, <1>4, <1>5, <1>14 DEF Heading
    <3> QED BY <1>11, <1>13, <1>14, <2>1, <2>3, <3>1 DEF Heading
  <2> QED BY <1>11, <1>14, <2>1, <2>2, <2>3
<1>15. ASSUME Heading(k, r, b, L, R), r.data # <<>>
       PROVE  UNCHANGED <<program, activity>> /\ Goes'
  <2>1. b \in 0 .. Len(L) - 1 /\ L[b + 1] = <<>> /\ b + 1 + 0 = b + 1 /\ 0 \in 0 .. n
    <3>1. b \in Nat /\ e \in Nat /\ n \in Nat
      BY <1>1
    <3>2. b + 1 + 0 = b + 1 /\ 0 \in 0 .. n
      BY <3>1
    <3>3. PICK m \in Nat : m = Len(L) /\ b + 1 <= m
      <4>1. b + e + 2 \in Nat /\ b + 1 <= b + e + 2
        BY <3>1
      <4> QED BY <1>2, <4>1
    <3>4. b \in 0 .. m - 1
      BY <3>1, <3>3
    <3> QED BY <1>2, <1>15, <3>2, <3>3, <3>4
  <2>2. /\ UNCHANGED <<program, activity, calls, curr_post_data, performed>>
        /\ request' = [request EXCEPT !.data = TRUE] /\ At(L, b + 1, R)'
    BY <1>2, <1>3, <1>15, <2>1, EmptyLine DEF Heading
  <2>3. request.auth = r.auth
    BY <1>3, <1>4, <1>5, <1>15 DEF Heading
  <2>4. request'.method = r.method /\ request'.data = TRUE /\ request'.auth = r.auth
    BY <1>3, <1>15, <2>2, <2>3 DEF Heading
  <2>5. SubSeq(r.data, 1, 0) = <<>>
    BY <1>5, FirstOnes
  <2>6. Giving(k, r, 0, b, L, R)'
    BY <1>15, <2>1, <2>2, <2>4, <2>5 DEF Heading, Giving, Carried
  <2> QED BY <1>15, <2>1, <2>2, <2>6 DEF Goes
<1>16. ASSUME r.data # <<>>, NEW i \in 0 .. n, Giving(k, r, i, b, L, R)
       PROVE  UNCHANGED <<program, activity>> /\ Goes'
  <2>1. PICK j \in Nat : j = b + 1 + i
    BY <1>1
  <2>2. j + 1 <= b + e + 2
    <3>1. b \in Nat /\ n \in Nat /\ e = n + 1
      BY <1>1, <1>4, <1>16
    <3> QED BY <2>1, <3>1
  <2>3. ASSUME NEW w, L[j + 1] = <<w>>
        PROVE  /\ UNCHANGED <<program, activity>>
               /\ \/ Giving(k, r, i, b, L, R)'
                  \/ Word = w /\ At(L, j + 1, R)' /\ (TextWord \/ (Word = "/REQUEST" /\ Perform))
    <3>1. /\ UNCHANGED <<program, activity>>
          /\ \/ At(L, j, R)' /\ UNCHANGED <<calls, curr_post_data, performed, request>>
             \/ Word = w /\ At(L, j + 1, R)' /\ (TextWord \/ (Word = "/REQUEST" /\ Perform))
      BY <1>16, <1>6, <2>1, <2>2, <2>3 DEF Giving
    <3> QED BY <1>16, <2>1, <3>1 DEF Giving, Carried
  <2>4. CASE i < n
    <3>1. i + 1 \in 1 .. n /\ i + 1 \in 0 .. n /\ j + 1 = b + 1 + (i + 1) /\ i + 1 - 1 = i
      <4>1. n \in Nat /\ b \in Nat
        BY <1>1
      <4> QED BY <2>1, <2>4, <4>1
    <3>2. PICK w \in Texts : w = r.data[i + 1] /\ L[j + 1] = <<w>>
      BY <1>1, <1>2, <1>5, <1>16, <3>1, ElementOfSeq
    <3>3. CASE Giving(k, r, i, b, L, R)'
      BY <1>16, <2>3, <3>2, <3>3 DEF Goes
    <3>4. CASE Word = w /\ At(L, j + 1, R)' /\ (TextWord \/ (Word = "/REQUEST" /\ Perform))
      <4>1. w \notin {"/REQUEST", "cookie", "basicauth", "GET", "POST"}
        BY ScriptAssumption
      <4>2. TextWord
        BY <3>4, <4>1
      <4>3. request.data = TRUE
        BY <1>16 DEF Giving
      <4>4. UNCHANGED <<calls, performed, request>> /\ curr_post_data' = Append(curr_post_data, w)
        BY <3>4, <4>1, <4>2, <4>3 DEF TextWord
      <4>5. curr_post_data' = SubSeq(r.data, 1, i + 1)
        <5>1. curr_post_data' = Append(SubSeq(r.data, 1, i), w)
          BY <1>16, <4>4 DEF Giving
        <5>2. PICK h \in 1 .. Len(r.data) : h = i + 1 /\ h - 1 = i
          BY <1>1, <3>1
        <5>3. SubSeq(r.data, 1, h) = Append(SubSeq(r.data, 1, h - 1), r.data[h])
          BY <1>5, <5>2, FirstOnes
        <5> QED BY <3>2, <5>1, <5>2, <5>3
      <4>6. Giving(k, r, i + 1, b, L, R)'
        BY <1>16, <2>3, <3>1, <3>2, <3>4, <4>4, <4>5 DEF Giving, Carried
      <4> QED BY <1>16, <2>3, <3>1, <3>2, <4>6 DEF Goes
    <3> QED BY <2>3, <3>2, <3>3, <3>4
  <2>5. CASE i = n
    <3>1. j + 1 = b + e + 1 /\ L[j + 1] = <<"/REQUEST">>
      <4>1. n \in Nat /\ b \in Nat /\ e = n + 1
        BY <1>1, <1>4, <1>16
      <4>2. j + 1 = b + e + 1
        BY <2>1, <2>5, <4>1
      <4> QED BY <1>2, <4>2
    <3>2. CASE Giving(k, r, i, b, L, R)'
      BY <1>16, <2>3, <3>1, <3>2 DEF Goes
    <3>3. CASE Word = "/REQUEST" /\ At(L, j + 1, R)' /\ (TextWord \/ (Word = "/REQUEST" /\ Perform))
      <4>1. curr_post_data = r.data
        BY <1>1, <1>5, <1>16, <2>5, FirstOnes DEF Giving
      <4> QED BY <1>13, <1>16, <2>3, <3>1, <3>3, <4>1 DEF Giving
    <3> QED BY <2>3, <3>1, <3>2, <3>3
  <2> QED BY <1>1, <2>4, <2>5
<1>17. CASE Asked(k, b + e + 1, L, R)
  <2>1. PICK j \in Nat : j = b + e + 1
    BY <1>1
  <2>2. PICK i \in Nat : i = j + 1 /\ i = b + e + 2 /\ i = Len(L) /\ L[i] = <<"/STEP">>
    <3>1. b \in Nat /\ e \in Nat
      BY <1>1
    <3>2. b + e + 2 = j + 1 /\ j + 1 \in Nat
      BY <2>1, <3>1
    <3> QED BY <1>2, <3>2
  <2>3. /\ UNCHANGED <<program, activity>>
        /\ \/ At(L, j, R)' /\ UNCHANGED <<calls, curr_post_data, performed, request>>
           \/ Word = "/STEP" /\ curr_line' = <<>> /\ unread' = From(L, i, R) /\ LeaveStep
    <3>1. calls = InStep /\ At(L, j, R)
      BY <1>17, <2>1 DEF Asked
    <3>2. i <= b + e + 2
      BY <2>2
    <3>3. /\ UNCHANGED <<program, activity>>
          /\ \/ At(L, j, R)' /\ UNCHANGED <<calls, curr_post_data, performed, request>>
             \/ /\ Word = "/STEP" /\ curr_line' = <<>> /\ unread' = From(L, i, R)
                /\ IF Word = "/STEP" THEN LeaveStep ELSE ExecNext
      BY <1>6, <2>2, <3>1, <3>2
    <3> QED BY <3>3
  <2>4. CASE At(L, j, R)' /\ UNCHANGED <<calls, curr_post_data, performed, request>>
    <3>1. Asked(k, b + e + 1, L, R)'
      BY <1>17, <2>1, <2>3, <2>4 DEF Asked, Carried
    <3> QED BY <1>7, <2>3, <3>1 DEF Goes
  <2>5. CASE Word = "/STEP" /\ curr_line' = <<>> /\ unread' = From(L, i, R) /\ LeaveStep
    <3>1. unread' = LinesLeft(program, k)
      <4>1. From(L, Len(L), R) = R
        BY <1>2, <1>3, FromFacts
      <4> QED BY <1>1, <2>2, <2>5, <4>1
    <3>2. calls' = Main /\ UNCHANGED <<curr_post_data, performed>>
      BY <1>17, <2>5, Stacks DEF Asked, LeaveStep, RequestUnchanged
    <3>3. Between(k)'
      BY <1>17, <2>3, <2>5, <3>1, <3>2 DEF Asked, Between, Carried
    <3> QED BY <2>3, <3>3
  <2> QED BY <2>3, <2>4, <2>5
<1>18. ASSUME NEW j \in 3 .. b, Heading(k, r, j, L, R)
       PROVE  UNCHANGED <<program, activity>> /\ Goes'
  <2>1. CASE j + 1 <= b
    BY <1>12, <1>18, <2>1
  <2>2. CASE j = b
    BY <1>14, <1>15, <1>18, <2>2
  <2> QED BY <1>1, <2>1, <2>2
<1>19. \/ Begun(k, L, R) \/ Entered(k, L, R) \/ Opened(k, L, R)
       \/ \E j \in 3 .. b : Heading(k, r, j, L, R)
       \/ r.data # <<>> /\ \E i \in 0 .. n : Giving(k, r, i, b, L, R)
       \/ Asked(k, b + e + 1, L, R)
  BY DEF Asking
<1> QED BY <1>7, <1>8, <1>9, <1>10, <1>16, <1>17, <1>18, <1>19

\* In the line of a pause.
LEMMA PausingStep ==
  ASSUME ScriptTypes, ScriptNext, activity = "running", NEW k \in 1 .. Len(program), Pausing(k)
  PROVE  UNCHANGED <<program, activity>> /\ (Between(k)' \/ Pausing(k)')
<1>1. /\ program[k] = Pause /\ curr_post_data = <<>> /\ unread = LinesLeft(program, k)
      /\ program \in Seq(ScriptCommands)
  BY DEF Pausing, ScriptTypes
<1>2. SubSeq(program, 1, k) = Append(SubSeq(program, 1, k - 1), Pause)
  BY <1>1, FirstOnes
<1>3. ASSUME curr_line # <<>>
      PROVE  /\ curr_line' = Tail(curr_line) /\ UNCHANGED <<program, unread, activity>>
             /\ calls = Main => ExecNext
             /\ calls = InStep => IF Word = "/STEP" THEN LeaveStep ELSE ExecNext
  BY <1>3, WordIsUsed
<1>4. CASE calls = Main /\ Carried(k - 1) /\ curr_line = <<"STEP", "WAIT", "/STEP">>
  <2>1. curr_line # <<>> /\ Word = "STEP" /\ Tail(curr_line) = <<"WAIT", "/STEP">>
    BY <1>4 DEF Word
  <2>2. calls' = InStep /\ UNCHANGED <<curr_post_data, performed>>
    BY <1>3, <1>4, <2>1, TagsAre DEF InStep
  <2>3. Pausing(k)'
    BY <1>1, <1>3, <1>4, <2>1, <2>2 DEF Pausing, Carried
  <2> QED BY <1>3, <2>1, <2>3
<1>5. CASE calls = InStep /\ Carried(k - 1) /\ curr_line = <<"WAIT", "/STEP">>
  <2>1. curr_line # <<>> /\ Word = "WAIT" /\ Tail(curr_line) = <<"/STEP">>
    BY <1>5 DEF Word
  <2>2. UNCHANGED <<calls, curr_post_data>> /\ performed' = SubSeq(program, 1, k)
    <3>1. ExecNext
      BY <1>3, <1>5, <2>1
    <3> QED BY <1>2, <1>5, <2>1, <3>1, TagsAre DEF Carried
  <2>3. Pausing(k)'
    BY <1>1, <1>3, <1>5, <2>1, <2>2 DEF Pausing, Carried
  <2> QED BY <1>3, <2>1, <2>3
<1>6. CASE calls = InStep /\ Carried(k) /\ curr_line = <<"/STEP">>
  <2>1. curr_line # <<>> /\ Word = "/STEP" /\ Tail(curr_line) = <<>>
    BY <1>6, OneWord DEF Word
  <2>2. calls' = Main /\ UNCHANGED <<curr_post_data, performed>>
    BY <1>3, <1>6, <2>1, Stacks DEF LeaveStep, RequestUnchanged
  <2>3. Between(k)'
    BY <1>1, <1>3, <1>6, <2>1, <2>2 DEF Between, Carried
  <2> QED BY <1>3, <2>1, <2>3
<1> QED BY <1>4, <1>5, <1>6 DEF Pausing

\* In the first line.
LEMMA OpeningStep ==
  ASSUME ScriptTypes, ScriptNext, activity = "running", Opening
  PROVE  UNCHANGED <<program, activity>> /\ (Opening' \/ Between(0)')
<1>1. /\ calls = Main /\ curr_post_data = <<>> /\ Carried(0) /\ program \in Seq(ScriptCommands)
  BY DEF Opening, ScriptTypes
<1>2. PICK x \in Line, R \in Seq(Line) :
        x = <<"HSRC">> /\ R = LinesLeft(program, 0) /\ Script(program) = <<x>> \o R
  <2>1. PICK n \in Nat : n = Len(program)
    BY <1>1, LenProperties
  <2>2. LinesLeft(program, 0) \in Seq(Line) /\ Script(program) = <<<<"HSRC">>>> \o LinesLeft(program, 0)
    BY <1>1, <2>1, LinesLeftAre
  <2>3. <<"HSRC">> \in Line
    BY WordsAre
  <2> QED BY <2>2, <2>3
<1>3. CASE curr_line = <<>> /\ unread = Script(program)
  <2>1. unread # <<>> /\ Head(unread) = x /\ Tail(unread) = R
    BY <1>2, <1>3, FrontFacts
  <2>2. /\ curr_line' = x /\ unread' = R
        /\ UNCHANGED <<program, calls, curr_post_data, performed, activity>>
    BY <1>3, <2>1, LineIsRead
  <2>3. Opening'
    BY <1>1, <1>2, <2>2 DEF Opening, Carried
  <2> QED BY <2>2, <2>3
<1>4. CASE curr_line = <<"HSRC">> /\ unread = LinesLeft(program, 0)
  <2>1. curr_line # <<>> /\ Word = "HSRC" /\ Tail(curr_line) = <<>>
    BY <1>4, OneWord DEF Word
  <2>2. curr_line' = <<>> /\ UNCHANGED <<program, unread, activity>> /\ ExecNext
    BY <1>1, <2>1, WordIsUsed
  <2>3. UNCHANGED <<calls, curr_post_data, performed>>
    BY <2>1, <2>2, TagsAre
  <2>4. Between(0)'
    BY <1>1, <1>4, <2>2, <2>3 DEF Between, Carried
  <2> QED BY <2>2, <2>4
<1> QED BY <1>3, <1>4 DEF Opening

\* Behind a command: the first line of the next one is read, or the last line.
LEMMA BetweenStep ==
  ASSUME ScriptTypes, ScriptNext, activity = "running", NEW k \in 0 .. Len(program), Between(k)
  PROVE  /\ UNCHANGED <<program, activity>>
         /\ \/ Closing'
            \/ \E l \in 1 .. Len(program) : Pausing(l)' \/ \E r, n, b, e, L, R : Asking(l, r, n, b, e, L, R)'
<1>1. /\ calls = Main /\ curr_post_data = <<>> /\ Carried(k) /\ curr_line = <<>>
      /\ unread = LinesLeft(program, k) /\ program \in Seq(ScriptCommands)
  BY DEF Between, ScriptTypes
<1>2. PICK m \in Nat : m = Len(program)
  BY <1>1, LenProperties
<1>3. /\ LinesLeft(program, m) = <<<<"/HSRC">>>>
      /\ \A l \in 0 .. m : LinesLeft(program, l) \in Seq(Line)
      /\ \A l \in 1 .. m : LinesLeft(program, l - 1) = CommandLines(program[l]) \o LinesLeft(program, l)
  BY <1>1, <1>2, LinesLeftAre
<1>4. ASSUME NEW x \in Line, NEW t \in Seq(Line), unread = <<x>> \o t
      PROVE  /\ curr_line' = x /\ unread' = t
             /\ UNCHANGED <<program, calls, curr_post_data, performed, activity>>
  <2>1. unread # <<>> /\ Head(unread) = x /\ Tail(unread) = t
    BY <1>4, FrontFacts
  <2> QED BY <1>1, <2>1, LineIsRead
<1>5. CASE k = m
  <2>1. PICK x \in Line, t \in Seq(Line) : x = <<"/HSRC">> /\ t = <<>> /\ <<x>> \o t = <<<<"/HSRC">>>>
    <3>1. PICK x \in Line, t \in Seq(Line) : x = <<"/HSRC">> /\ t = <<>>
      <4>1. <<>> \in Seq(Line)
        OBVIOUS
      <4>2. <<"/HSRC">> \in Line
        BY WordsAre
      <4> QED BY <4>1, <4>2
    <3>2. <<x>> \in Seq(Line)
      OBVIOUS
    <3> QED BY <3>1, <3>2, ConcatEmptySeq
  <2>2. unread = <<x>> \o t
    BY <1>1, <1>3, <1>5, <2>1
  <2>3. Closing'
    BY <1>1, <1>2, <1>4, <1>5, <2>1, <2>2 DEF Closing, Carried
  <2> QED BY <1>4, <2>2, <2>3
<1>6. CASE k # m
  <2>1. PICK l \in 1 .. m : l - 1 = k /\ l = k + 1
    BY <1>2, <1>6
  <2>2. PICK R \in Seq(Line) : R = LinesLeft(program, l)
    BY <1>3
  <2>3. PICK c \in ScriptCommands : c = program[l]
    BY <1>1, <1>2, ElementOfSeq
  <2>4. unread = CommandLines(c) \o R
    BY <1>1, <1>3, <2>1, <2>2, <2>3
  <2>5. CASE c = Pause
    <3>1. PICK x \in Line : x = <<"STEP", "WAIT", "/STEP">>
      BY WordsAre
    <3>2. unread = <<x>> \o R
      BY <2>4, <2>5, <3>1, CommandLinesAre
    <3>3. /\ curr_line' = x /\ unread' = R
          /\ UNCHANGED <<program, calls, curr_post_data, performed, activity>>
      BY <1>4, <3>2
    <3>4. Pausing(l)'
      BY <1>1, <2>1, <2>2, <2>3, <2>5, <3>1, <3>3 DEF Pausing, Carried
    <3> QED BY <1>2, <3>3, <3>4
  <2>6. CASE c \in Requests
    <3>1. PICK n \in Nat, b \in Nat, e \in Nat : Measures(c, n, b, e)
      BY <2>6, Measured
    <3>2. PICK L : L = RequestLines(c) /\ HasLines(c, n, b, e, L)
      BY <2>6, <3>1, RequestLinesAre
    <3>3. L \in Seq(Line) /\ L[1] = <<"STEP">> /\ Len(L) = b + e + 2
      BY <3>2 DEF HasLines
    <3>4. unread = From(L, 0, R)
      <4>1. unread = L \o R
        BY <2>4, <2>6, <3>2, CommandLinesAre
      <4> QED BY <3>3, <4>1, FromFacts
    <3>5. unread # <<>> /\ Head(unread) = <<"STEP">> /\ Tail(unread) = From(L, 1, R)
      <4>1. PICK h \in Nat : h = b + e + 1
        OBVIOUS
      <4>2. Len(L) = h + 1
        BY <3>3, <4>1
      <4> QED BY <3>3, <3>4, <4>2, FromFirst
    <3>6. /\ curr_line' = <<"STEP">> /\ unread' = From(L, 1, R)
          /\ UNCHANGED <<program, calls, curr_post_data, performed, activity>>
      BY <1>1, <3>5, LineIsRead
    <3>7. Begun(l, L, R)'
      BY <1>1, <2>1, <3>6 DEF Begun, Carried
    <3>8. Asking(l, c, n, b, e, L, R)'
      <4>1. program' = program
        BY <3>6
      <4> QED BY <2>2, <2>3, <2>6, <3>1, <3>2, <3>7, <4>1 DEF Asking
    <3> QED BY <1>2, <3>6, <3>8
  <2> QED BY <2>5, <2>6 DEF ScriptCommands
<1> QED BY <1>5, <1>6

\* Behind the last command, and at the end of the file.
LEMMA ClosingStep ==
  ASSUME ScriptTypes, ScriptNext, activity = "running", Closing
  PROVE  /\ UNCHANGED program
         /\ \/ activity' = "running" /\ Closing'
            \/ activity' = "asking" /\ curr_line' = <<>> /\ curr_post_data' = <<>> /\ performed' = program
<1>1. /\ calls = Main /\ curr_post_data = <<>> /\ Carried(Len(program)) /\ unread = <<>>
      /\ curr_line \in {<<"/HSRC">>, <<>>} /\ program \in Seq(ScriptCommands)
  BY DEF Closing, ScriptTypes
<1>2. CASE curr_line = <<"/HSRC">>
  <2>1. curr_line # <<>> /\ Word = "/HSRC" /\ Tail(curr_line) = <<>>
    BY <1>2, OneWord DEF Word
  <2>2. curr_line' = <<>> /\ UNCHANGED <<program, unread, activity>> /\ ExecNext
    BY <1>1, <2>1, WordIsUsed
  <2>3. UNCHANGED <<calls, curr_post_data, performed>>
    BY <2>1, <2>2, TagsAre
  <2> QED BY <1>1, <2>2, <2>3 DEF Closing, Carried
<1>3. CASE curr_line = <<>>
  <2>1. EndOfScript
    BY <1>1, <1>3 DEF ScriptNext, ScriptStep, BeginReconnecting, ReadLine, MainWord, StepWord, RequestWord,
                      HasWord, Attempt, AskAddress, GiveUpReconnecting
  <2> QED BY <1>1, <1>3, <2>1, FirstOnes DEF EndOfScript, RequestUnchanged, Carried
<1> QED BY <1>1, <1>2, <1>3

--------------------------------------------------------------------------------
(* A script is carried out.                                                  *)

\* A line of the script that is read keeps the invariant.
LEMMA InTheScript ==
  ASSUME ScriptInv, ScriptNext, activity = "running"
  PROVE  ScriptInv'
<1>1. ScriptTypes /\ program # <<>> /\ InScript /\ ScriptTypes'
  BY ScriptTypesStep DEF ScriptInv
<1>2. ASSUME UNCHANGED <<program, activity>>, InScript' PROVE ScriptInv'
  BY <1>1, <1>2 DEF ScriptInv
<1>3. CASE Opening
  <2>1. UNCHANGED <<program, activity>> /\ (Opening' \/ Between(0)')
    BY <1>1, <1>3, OpeningStep
  <2>2. 0 \in 0 .. Len(program)
    BY <1>1, LenProperties DEF ScriptTypes
  <2> QED BY <1>2, <2>1, <2>2 DEF InScript
<1>4. CASE Closing
  BY <1>1, <1>2, <1>4, ClosingStep DEF ScriptInv, InScript
<1>5. ASSUME NEW k \in 0 .. Len(program), Between(k) PROVE ScriptInv'
  <2>1. /\ UNCHANGED <<program, activity>>
        /\ \/ Closing'
           \/ \E l \in 1 .. Len(program) : Pausing(l)' \/ \E r, n, b, e, L, R : Asking(l, r, n, b, e, L, R)'
    BY <1>1, <1>5, BetweenStep
  <2> QED BY <1>2, <2>1 DEF InScript
<1>6. ASSUME NEW k \in 1 .. Len(program), Pausing(k) PROVE ScriptInv'
  <2>1. UNCHANGED <<program, activity>> /\ (Between(k)' \/ Pausing(k)')
    BY <1>1, <1>6, PausingStep
  <2>2. k \in 0 .. Len(program)
    BY <1>6
  <2> QED BY <1>2, <1>6, <2>1, <2>2 DEF InScript
<1>7. ASSUME NEW k \in 1 .. Len(program), NEW r, NEW n, NEW b, NEW e, NEW L, NEW R,
             Asking(k, r, n, b, e, L, R)
      PROVE  ScriptInv'
  <2>1. UNCHANGED <<program, activity>> /\ (Between(k)' \/ Asking(k, r, n, b, e, L, R)')
    BY <1>1, <1>7, AskingStep
  <2>2. k \in 0 .. Len(program)
    BY <1>7
  <2> QED BY <1>2, <1>7, <2>1, <2>2 DEF InScript
<1> QED BY <1>1, <1>3, <1>4, <1>5, <1>6, <1>7 DEF InScript

\* So does what happens while none is read.
LEMMA BesideTheScript ==
  ASSUME ScriptInv, ScriptNext, activity # "running"
  PROVE  ScriptInv'
<1>1. ScriptTypes' /\ ScriptTypes /\ curr_line = <<>>
  BY ScriptTypesStep DEF ScriptInv
<1>2. BeginReconnecting \/ Attempt \/ AskAddress \/ GiveUpReconnecting
  BY DEF ScriptNext, ScriptStep, ReadLine, MainWord, StepWord, RequestWord, EndOfScript, In
<1>3. CASE BeginReconnecting
  BY <1>1, <1>3 DEF BeginReconnecting, ScriptInv
<1>4. CASE AskAddress
  BY <1>1, <1>4 DEF AskAddress, ScriptInv, RequestUnchanged
<1>5. CASE GiveUpReconnecting
  BY <1>1, <1>5 DEF GiveUpReconnecting, ScriptInv, RequestUnchanged
<1>6. CASE Attempt
  <2>1. curr_post_data' = <<>> /\ curr_line' = <<>> /\ performed' = <<>> /\ program' = program
    BY <1>1, <1>6 DEF Attempt, ScriptInv
  <2>2. CASE ForkScript
    BY <1>1, <2>1, <2>2 DEF ForkScript, ScriptInv
  <2>3. CASE RunScript
    <3>1. SubSeq(program, 1, 0) = <<>>
      BY <1>1, FirstOnes DEF ScriptTypes
    <3>2. Opening'
      BY <2>1, <2>3, <3>1 DEF RunScript, Opening, Main, Carried
    <3> QED BY <1>1, <2>1, <2>3, <3>2 DEF RunScript, ScriptInv, InScript
  <2> QED BY <1>6, <2>2, <2>3 DEF Attempt
<1> QED BY <1>2, <1>3, <1>4, <1>5, <1>6

\* What has been carried out is the beginning of the program.
LEMMA SoFar == ScriptInv => ScriptIsCarriedOut
<1> SUFFICES ASSUME ScriptInv PROVE ScriptIsCarriedOut
  OBVIOUS
<1>1. program \in Seq(ScriptCommands)
  BY DEF ScriptInv, ScriptTypes
<1>2. ASSUME NEW k \in 0 .. Len(program), Carried(k) PROVE IsPrefix(performed, program)
  <2>1. PICK n \in Nat : n = Len(program)
    BY <1>1, LenProperties
  <2>2. PICK s : s = SubSeq(program, 1, k)
    OBVIOUS
  <2>3. \A i \in 1 .. k : program[i] \in ScriptCommands
    BY <1>1, <1>2, <2>1, ElementOfSeq
  <2>4. s \in Seq(ScriptCommands) /\ Len(s) = k
    BY <1>2, <2>1, <2>2, <2>3, SubSeqProperties
  <2>5. SubSeq(s, 1, Len(s)) = s
    BY <2>4, SubSeqFull
  <2> QED BY <1>2, <2>1, <2>2, <2>4, <2>5 DEF IsPrefix, Carried
<1>3. Len(program) \in Nat
  BY <1>1, LenProperties
<1>4. ASSUME activity = "running" PROVE \E k \in 0 .. Len(program) : Carried(k)
  <2>1. InScript
    BY <1>4 DEF ScriptInv
  <2>2. CASE Opening \/ Closing
    BY <1>3, <2>2 DEF Opening, Closing
  <2>3. CASE \E k \in 0 .. Len(program) : Between(k)
    BY <2>3 DEF Between
  <2>4. ASSUME NEW k \in 1 .. Len(program) PROVE k \in 0 .. Len(program) /\ k - 1 \in 0 .. Len(program)
    BY <1>3
  <2>5. CASE \E k \in 1 .. Len(program) : Pausing(k)
    BY <2>4, <2>5 DEF Pausing
  <2>6. CASE \E k \in 1 .. Len(program) : \E r, n, b, e, L, R : Asking(k, r, n, b, e, L, R)
    BY <2>4, <2>6 DEF Asking, Begun, Entered, Opened, Heading, Giving, Asked
  <2> QED BY <2>1, <2>2, <2>3, <2>5, <2>6 DEF InScript
<1>5. ASSUME activity = "asking", program # <<>> PROVE performed = program /\ IsPrefix(performed, program)
  <2>1. performed = program
    BY <1>5 DEF ScriptInv
  <2>2. SubSeq(program, 1, Len(program)) = program
    BY <1>1, FirstOnes
  <2>3. Len(program) \in 0 .. Len(program)
    BY <1>3
  <2> QED BY <1>2, <2>1, <2>2, <2>3 DEF Carried
<1> QED BY <1>2, <1>4, <1>5 DEF ScriptIsCarriedOut

\* What is sent to the router is what the script says, whatever the requests
\* of the script are and however many there are.
THEOREM ScriptIsDone == ScriptSpec => []ScriptIsCarriedOut
<1>1. ScriptInit => ScriptInv
  <2>1. <<>> \in Seq(ScriptCommands) /\ Fresh \in [method : {"GET", "POST"}, auth : BOOLEAN, data : BOOLEAN]
    BY DEF Fresh
  <2> QED BY <2>1 DEF ScriptInit, ScriptInv, ScriptTypes
<1>2. ScriptInv /\ [ScriptNext]_scriptVars => ScriptInv'
  <2> SUFFICES ASSUME ScriptInv, [ScriptNext]_scriptVars PROVE ScriptInv'
    OBVIOUS
  <2>1. CASE ScriptNext
    BY <2>1, InTheScript, BesideTheScript
  <2>2. CASE UNCHANGED scriptVars
    <3>1. ScriptTypes' /\ (activity = "running" => program # <<>> /\ InScript)
      BY <2>2 DEF scriptVars, ScriptInv, ScriptTypes
    <3>2. ASSUME InScript PROVE InScript'
      <4>1. \A k : Carried(k)' <=> Carried(k)
        BY <2>2 DEF scriptVars, Carried
      <4>2. \A L, j, R : At(L, j, R)' <=> At(L, j, R)
        BY <2>2 DEF scriptVars, At
      <4>3. (Opening' <=> Opening) /\ (Closing' <=> Closing) /\ \A k : Between(k)' <=> Between(k)
        BY <2>2, <4>1 DEF scriptVars, Opening, Closing, Between
      <4>4. \A k : Pausing(k)' <=> Pausing(k)
        BY <2>2, <4>1 DEF scriptVars, Pausing
      <4>5. ASSUME NEW k, NEW r, NEW n, NEW b, NEW e, NEW L, NEW R
            PROVE  Asking(k, r, n, b, e, L, R) => Asking(k, r, n, b, e, L, R)'
        <5>1. (Begun(k, L, R)' <=> Begun(k, L, R)) /\ (Entered(k, L, R)' <=> Entered(k, L, R))
              /\ (Opened(k, L, R)' <=> Opened(k, L, R))
          BY <2>2, <4>1, <4>2 DEF scriptVars, Begun, Entered, Opened
        <5>2. \A j : Heading(k, r, j, L, R)' <=> Heading(k, r, j, L, R)
          BY <2>2, <4>1, <4>2 DEF scriptVars, Heading
        <5>3. \A i : Giving(k, r, i, b, L, R)' <=> Giving(k, r, i, b, L, R)
          BY <2>2, <4>1, <4>2 DEF scriptVars, Giving
        <5>4. \A j : Asked(k, j, L, R)' <=> Asked(k, j, L, R)
          BY <2>2, <4>1, <4>2 DEF scriptVars, Asked
        <5>5. UNCHANGED program
          BY <2>2 DEF scriptVars
        <5> QED BY <5>1, <5>2, <5>3, <5>4, <5>5 DEF Asking
      <4>6. UNCHANGED program
        BY <2>2 DEF scriptVars
      <4> QED BY <3>2, <4>3, <4>4, <4>5, <4>6 DEF InScript
    <3> QED BY <2>2, <3>1, <3>2 DEF scriptVars, ScriptInv
  <2> QED BY <2>1, <2>2
<1> QED BY <1>1, <1>2, SoFar, PTL DEF ScriptSpec

--------------------------------------------------------------------------------
(* mx and ns_mutex (module LockOrder).                                      *)

LockTypes ==
  /\ listOwner \in Everyone \cup {NoCaller} /\ nsOwner \in Everyone \cup {NoCaller}
  /\ stage \in [Everyone -> Stages] /\ keeps \in [Everyone -> BOOLEAN]

\* Who asks for the download time has mx, and so has the ticker while it counts.
AskersHaveList ==
  /\ \A t \in Everyone : stage[t] = "time" => listOwner = t
  /\ stage[TickerId] = "count" => listOwner = TickerId

\* ns_mutex is kept by a handler that sets the times, and by the ticker, which
\* has mx as well whenever it starts downloads with it.
KeepersOfTime ==
  /\ \A t \in Callers : nsOwner = t => stage[t] = "set"
  /\ nsOwner = TickerId =>
       /\ stage[TickerId] \in {"tick", "count", "find", "time"}
       /\ stage[TickerId] \in {"find", "time"} =>
            keeps[TickerId] /\ listOwner = TickerId

LockInv == LockTypes /\ AskersHaveList /\ KeepersOfTime

\* A step of a thread that looks for downloads to start, the ticker included.
LEMMA StartingKeepsOrder ==
  ASSUME LockInv, NEW t \in Everyone, LookForNext(t) \/ AskTime(t)
  PROVE  LockInv'
<1> USE LockOrderAssumption DEF LockInv, LockTypes, AskersHaveList, KeepersOfTime,
        Everyone, Stages, GetsTo, CanTake
<1>1. CASE LookForNext(t)
  BY <1>1 DEF LookForNext
<1>2. CASE AskTime(t)
  BY <1>2 DEF AskTime
<1> QED BY <1>1, <1>2

\* A step of a thread that is not the ticker.
LEMMA CallersKeepOrder ==
  ASSUME LockInv, NEW t \in Callers, CallerStep(t)
  PROVE  LockInv'
<1>1. CASE LookForNext(t) \/ AskTime(t)
  BY <1>1, StartingKeepsOrder DEF Everyone
<1> USE LockOrderAssumption DEF LockInv, LockTypes, AskersHaveList, KeepersOfTime,
        Everyone, Stages, GetsTo, CanTake
<1>2. CASE CallStart(t)
  BY <1>2 DEF CallStart
<1>3. CASE ChangeAndStart(t)
  BY <1>3 DEF ChangeAndStart
<1>4. CASE SetTimes(t)
  BY <1>4 DEF SetTimes
<1>5. CASE TimesSet(t)
  BY <1>5 DEF TimesSet
<1> QED BY <1>1, <1>2, <1>3, <1>4, <1>5 DEF CallerStep

\* A step of the ticker.
LEMMA TickerKeepsOrder ==
  ASSUME LockInv, TickerStep
  PROVE  LockInv'
<1>1. CASE LookForNext(TickerId) \/ AskTime(TickerId)
  BY <1>1, StartingKeepsOrder DEF Everyone
<1> USE LockOrderAssumption DEF LockInv, LockTypes, AskersHaveList, KeepersOfTime,
        Everyone, Stages, GetsTo, CanTake
<1>2. CASE Tick
  BY <1>2 DEF Tick
<1>3. CASE CountNone
  BY <1>3 DEF CountNone, TickDone
<1>4. CASE CountWaits
  BY <1>4 DEF CountWaits
<1>5. CASE WaitIsOver
  BY <1>5 DEF WaitIsOver
<1>6. CASE CountDone
  BY <1>6 DEF CountDone, TickDone
<1> QED BY <1>1, <1>2, <1>3, <1>4, <1>5, <1>6 DEF TickerStep

\* However many threads start downloads and set the download time: two of them
\* that wait for each other are the ticker at the beginning of its second and a
\* thread that start_next_downloadable has brought to the download time.
THEOREM OthersDoNotCross == LockSpec => []OnlyTheTickerCrosses
<1>1. LockInit => LockInv
  BY LockOrderAssumption
     DEF LockInit, LockInv, LockTypes, AskersHaveList, KeepersOfTime, Everyone, Stages
<1>2. LockInv /\ [LockNext]_lockVars => LockInv'
  <2>1. ASSUME LockInv, UNCHANGED lockVars PROVE LockInv'
    BY <2>1 DEF LockInv, LockTypes, AskersHaveList, KeepersOfTime, lockVars
  <2> QED BY <2>1, CallersKeepOrder, TickerKeepsOrder DEF LockNext
<1>3. LockInv => OnlyTheTickerCrosses
  <2> SUFFICES ASSUME LockInv, NEW t \in Everyone, NEW u \in Everyone,
                      WaitsFor(t, u), WaitsFor(u, t)
               PROVE  stage[TickerId] = "tick" /\ TickerId \in {t, u}
    BY DEF OnlyTheTickerCrosses
  <2>1. ASSUME NEW v \in Everyone, NEW w \in Everyone,
               stage[v] = "time", ~CanTake(nsOwner, v), nsOwner = w,
               stage[w] \in {"find", "tick"}, ~CanTake(listOwner, w)
        PROVE  w = TickerId /\ stage[w] = "tick"
    BY <2>1 DEF LockInv, KeepersOfTime, CanTake, Everyone
  <2>2. CASE stage[t] = "time" /\ stage[u] = "time"
    BY <2>2 DEF LockInv, AskersHaveList, WaitsFor, CanTake
  <2>3. CASE stage[t] # "time" /\ stage[u] # "time"
    BY <2>3 DEF WaitsFor, CanTake
  <2>4. CASE stage[t] = "time" /\ stage[u] # "time"
    BY <2>1, <2>4 DEF WaitsFor
  <2>5. CASE stage[t] # "time" /\ stage[u] = "time"
    BY <2>1, <2>5 DEF WaitsFor
  <2> QED BY <2>2, <2>3, <2>4, <2>5
<1> QED BY <1>1, <1>2, <1>3, PTL DEF LockSpec

==============================================================================
