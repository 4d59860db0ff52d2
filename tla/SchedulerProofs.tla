---------------------------- MODULE SchedulerProofs ----------------------------
(***************************************************************************)
(* What Scheduler guarantees for every list, limit, policy and number of  *)
(* threads: its type invariant, and that no is_running flag and no status  *)
(* RUNNING outlives the download_me thread it belongs to.                  *)
(***************************************************************************)
EXTENDS Scheduler, SequenceTheorems, TLAPS

Record == DownloadRecord(MaxWait, Proxies)

\* A started download_me thread has a download.
WorkerHasDownload == \A w \in Workers : wk[w].pc # "free" => wk[w].dl \in Downloads

\* The inductive invariant.
SlotInv == /\ TypeOK
           /\ WorkerHasDownload
           /\ RunningHasWorker
           /\ SlotHasWorker

--------------------------------------------------------------------------------
(* Lemmas about the operators of DownloadState.                              *)

\* An update of one field keeps the type.
LEMMA UpdateLemma ==
  ASSUME NEW r \in Record
  PROVE  /\ \A s \in Status : [r EXCEPT !.status = s] \in Record
         /\ \A b \in BOOLEAN : /\ [r EXCEPT !.running = b] \in Record
                               /\ [r EXCEPT !.needStop = b] \in Record
         /\ \A n \in 0 .. MaxWait : [r EXCEPT !.wait = n] \in Record
         /\ \A e \in ErrorClass : [r EXCEPT !.error = e] \in Record
         /\ \A p \in 0 .. Proxies : [r EXCEPT !.proxy = p] \in Record
         /\ 0 \in 0 .. MaxWait /\ 0 \in 0 .. Proxies
BY ConfigAssumption DEF Record, DownloadRecord

\* SetStatus keeps the type, and the status only becomes the one that is set.
LEMMA SetStatusLemma ==
  ASSUME NEW r \in Record, NEW s \in Status
  PROVE  /\ SetStatus(r, s) \in Record
         /\ SetStatus(r, s).running = r.running
         /\ SetStatus(r, s).status \in {s, r.status}
<1> DEFINE q == [r EXCEPT !.status = s, !.needStop = TRUE]
<1>1. q \in Record /\ q.running = r.running /\ q.status = s
  BY DEF Record, DownloadRecord
<1>2. /\ [q EXCEPT !.wait = 0] \in Record
      /\ [q EXCEPT !.wait = 0].running = r.running
      /\ [q EXCEPT !.wait = 0].status = s
  BY <1>1, UpdateLemma DEF Record, DownloadRecord
<1>3. /\ [r EXCEPT !.status = s] \in Record
      /\ [r EXCEPT !.status = s].running = r.running
      /\ [r EXCEPT !.status = s].status = s
  BY DEF Record, DownloadRecord
<1> QED BY <1>2, <1>3 DEF SetStatus

\* The ends of download_me_worker keep the type and leave is_running alone.
LEMMA OutcomeLemma ==
  ASSUME NEW r \in Record, NEW n \in ErrorWaits, NEW e \in ErrorClass
  PROVE  /\ RetryLater(r, n, e) \in Record
         /\ RetryLater(r, n, e).running = r.running
         /\ RetryLater(r, n, e).status # "RUNNING"
BY ConfigAssumption DEF Record, DownloadRecord, RetryLater, Status

\* A download that is given up is not RUNNING; its slot is another matter.
LEMMA GiveUpLemma ==
  ASSUME NEW r \in Record, NEW e \in ErrorClass
  PROVE  /\ GiveUp(r, e) \in Record
         /\ GiveUp(r, e).running = r.running
         /\ GiveUp(r, e).status # "RUNNING"
BY DEF Record, DownloadRecord, GiveUp, Status

\* Nor is one that waits for another proxy.
LEMMA ProxyLemma ==
  ASSUME NEW r \in Record
  PROVE  /\ RetryWithProxy(r, Proxies) \in Record
         /\ RetryWithProxy(r, Proxies).status = "PENDING"
         /\ RetryWithProxy(r, Proxies).running = r.running
<1> DEFINE p == IF r.proxy < Proxies THEN r.proxy + 1 ELSE 0
           q == [r EXCEPT !.proxy = p]
           u == [q EXCEPT !.status = "PENDING", !.error = "NONE"]
<1>1. p \in 0 .. Proxies
  BY ConfigAssumption DEF Record, DownloadRecord
<1> HIDE DEF p
<1>2. q \in Record /\ q.running = r.running
  BY <1>1 DEF Record, DownloadRecord
<1> HIDE DEF q
<1>3. u \in Record /\ u.running = r.running /\ u.status = "PENDING"
  BY <1>2 DEF Record, DownloadRecord, Status, ErrorClass
<1> HIDE DEF u
<1>4. /\ [u EXCEPT !.wait = 0] \in Record
      /\ [u EXCEPT !.wait = 0].running = r.running
      /\ [u EXCEPT !.wait = 0].status = "PENDING"
  BY <1>3, UpdateLemma DEF Record, DownloadRecord
<1>5. RetryWithProxy(r, Proxies) = [u EXCEPT !.wait = 0]
  BY DEF RetryWithProxy, NextProxy, u, q, p
<1> QED BY <1>4, <1>5

\* A new download waits, without a slot.
LEMMA NewDownloadLemma ==
  NewDownload \in Record /\ ~NewDownload.running /\ NewDownload.status = "PENDING"
BY ConfigAssumption DEF Record, DownloadRecord, NewDownload, Status, ErrorClass

--------------------------------------------------------------------------------
(* The parts of the invariant that a step of one kind preserves.             *)

\* A step that starts no thread and ends none, sets no is_running flag and
\* makes no download RUNNING.
LEMMA FrameLemma ==
  ASSUME WorkerHasDownload, RunningHasWorker, SlotHasWorker,
         wk' = wk, stranded' = stranded,
         \A d \in Downloads : /\ dl'[d].running => dl[d].running
                              /\ dl'[d].status = "RUNNING" => dl[d].status = "RUNNING"
  PROVE  WorkerHasDownload' /\ RunningHasWorker' /\ SlotHasWorker'
<1>1. WorkerHasDownload'
  BY DEF WorkerHasDownload
<1>2. RunningHasWorker'
  <2> SUFFICES ASSUME NEW d \in Downloads, dl'[d].status = "RUNNING"
               PROVE  WorkerOf(d, Unsettled)' \/ d \in stranded'
    BY DEF RunningHasWorker
  <2>1. WorkerOf(d, Unsettled) \/ d \in stranded
    BY DEF RunningHasWorker
  <2> QED BY <2>1 DEF WorkerOf
<1>3. SlotHasWorker'
  <2> SUFFICES ASSUME NEW d \in Downloads, dl'[d].running
               PROVE  WorkerOf(d, HoldsSlot)' \/ d \in stranded'
    BY DEF SlotHasWorker
  <2>1. WorkerOf(d, HoldsSlot) \/ d \in stranded
    BY DEF SlotHasWorker
  <2> QED BY <2>1 DEF WorkerOf
<1> QED BY <1>1, <1>2, <1>3

\* A step of a download_me thread that leaves its download in state r.
LEMMA WorkerStepLemma ==
  ASSUME SlotInv,
         NEW w \in Workers, NEW pc \in WorkerPC, NEW r \in Record,
         WorkerStep(w, pc, r),
         wk[w].pc \in HoldsSlot,
         pc \in HoldsSlot \/ (pc = "tail" /\ ~r.running),
         r.status = "RUNNING" =>
           pc \in Unsettled \/ (wk[w].pc \notin Unsettled /\ dl[wk[w].dl].status = "RUNNING"),
         mx' \in Starters \cup {NoThread},
         st' \in [Starters -> [pc : StarterPC, dl : Downloads \cup {NoDownload}]],
         rec' = rec
  PROVE  SlotInv'
<1> DEFINE d == wk[w].dl
<1>1. d \in Downloads
  BY DEF SlotInv, WorkerHasDownload, HoldsSlot
<1>2. /\ dl' = [dl EXCEPT ![d] = r]
      /\ wk' = [wk EXCEPT ![w].pc = pc]
      /\ stranded' = IF r.running \/ r.status = "RUNNING"
                       THEN stranded ELSE stranded \ {d}
      /\ UNCHANGED <<list, leaked, isReconnecting, inDlTime, seen, cmd, tick>>
  BY DEF WorkerStep
<1>3. dl' \in [Downloads -> Record]
  BY <1>1, <1>2 DEF SlotInv, TypeOK, Record
<1>4. /\ wk' \in [Workers -> [pc : WorkerPC, dl : Downloads \cup {NoDownload}]]
      /\ wk'[w].pc = pc
      /\ wk'[w].dl = d
      /\ \A v \in Workers \ {w} : wk'[v] = wk[v]
  BY <1>2 DEF SlotInv, TypeOK
<1>5. stranded' \subseteq Downloads
  BY <1>2 DEF SlotInv, TypeOK
<1>6. TypeOK'
  BY <1>2, <1>3, <1>4, <1>5 DEF SlotInv, TypeOK, Record
<1>7. WorkerHasDownload'
  BY <1>1, <1>4 DEF SlotInv, WorkerHasDownload
<1>8. dl'[d] = r /\ \A e \in Downloads \ {d} : dl'[e] = dl[e]
  BY <1>1, <1>2 DEF SlotInv, TypeOK
<1>9. \A e \in Downloads \ {d} : e \in stranded' <=> e \in stranded
  BY <1>2
<1>10. SlotHasWorker'
  <2> SUFFICES ASSUME NEW e \in Downloads, dl'[e].running
               PROVE  WorkerOf(e, HoldsSlot)' \/ e \in stranded'
    BY DEF SlotHasWorker
  <2>1. CASE e = d
    BY <2>1, <1>4, <1>8 DEF WorkerOf
  <2>2. CASE e # d
    <3>1. WorkerOf(e, HoldsSlot) \/ e \in stranded
      BY <2>2, <1>8 DEF SlotInv, SlotHasWorker
    <3>2. ASSUME NEW v \in Workers, wk[v].dl = e PROVE wk'[v] = wk[v]
      BY <3>2, <2>2, <1>4
    <3> QED BY <3>1, <3>2, <2>2, <1>9 DEF WorkerOf
  <2> QED BY <2>1, <2>2
<1>11. RunningHasWorker'
  <2> SUFFICES ASSUME NEW e \in Downloads, dl'[e].status = "RUNNING"
               PROVE  WorkerOf(e, Unsettled)' \/ e \in stranded'
    BY DEF RunningHasWorker
  <2>1. CASE e = d /\ pc \in Unsettled
    BY <2>1, <1>4 DEF WorkerOf
  <2>2. CASE e = d /\ pc \notin Unsettled
    <3>1. r.status = "RUNNING" /\ dl[d].status = "RUNNING" /\ wk[w].pc \notin Unsettled
      BY <2>2, <1>8
    <3>2. WorkerOf(d, Unsettled) \/ d \in stranded
      BY <3>1, <1>1 DEF SlotInv, RunningHasWorker
    <3>3. d \in stranded => d \in stranded'
      BY <3>1, <1>2
    <3> QED BY <3>1, <3>2, <3>3, <2>2, <1>4 DEF WorkerOf
  <2>3. CASE e # d
    <3>1. WorkerOf(e, Unsettled) \/ e \in stranded
      BY <2>3, <1>8 DEF SlotInv, RunningHasWorker
    <3>2. ASSUME NEW v \in Workers, wk[v].dl = e PROVE wk'[v] = wk[v]
      BY <3>2, <2>3, <1>4
    <3> QED BY <3>1, <3>2, <2>3, <1>9 DEF WorkerOf
  <2> QED BY <2>1, <2>2, <2>3
<1> QED BY <1>6, <1>7, <1>10, <1>11 DEF SlotInv

\* The download of a download_me thread, and what its thread may do to it.
LEMMA WorkerRecordLemma ==
  ASSUME SlotInv, NEW w \in Workers, wk[w].pc \in HoldsSlot
  PROVE  wk[w].dl \in Downloads /\ dl[wk[w].dl] \in Record
BY DEF SlotInv, WorkerHasDownload, HoldsSlot, TypeOK, Record

\* A download that was RUNNING when its download_me_worker returned is so no more.
LEMMA UnstartedLemma ==
  ASSUME NEW r \in Record
  PROVE  /\ Unstarted(r) \in Record
         /\ Unstarted(r).running = r.running
         /\ Unstarted(r).status # "RUNNING"
<1> DEFINE q == [r EXCEPT !.status = "PENDING"]
<1>1. q \in Record /\ q.running = r.running /\ q.status = "PENDING"
  BY DEF Record, DownloadRecord, Status
<1>2. /\ [q EXCEPT !.wait = 0] \in Record
      /\ [q EXCEPT !.wait = 0].running = r.running
      /\ [q EXCEPT !.wait = 0].status = "PENDING"
  BY <1>1, UpdateLemma DEF Record, DownloadRecord
<1> QED BY <1>2 DEF Unstarted

\* Creating a detached thread keeps the type of st.
LEMMA DetachedLemma ==
  ASSUME SlotInv, NEW pc \in StarterPC, Detached(pc)
  PROVE  st' \in [Starters -> [pc : StarterPC, dl : Downloads \cup {NoDownload}]]
BY DEF SlotInv, TypeOK, Detached, Starters

\* The last section of download_me, whichever state r the download is left in.
LEMMA ReleaseLemma ==
  ASSUME SlotInv,
         NEW w \in Workers, NEW r \in Record,
         ReleaseSlot(w, r), UNCHANGED <<mx, rec>>,
         wk[w].pc \in HoldsSlot,
         r.status = "RUNNING" =>
           wk[w].pc \notin Unsettled /\ dl[wk[w].dl].status = "RUNNING"
  PROVE  SlotInv'
<1> DEFINE n == [r EXCEPT !.needStop = FALSE]
           q == [n EXCEPT !.running = FALSE]
<1>1. q \in Record /\ ~q.running /\ q.status = r.status
  BY DEF Record, DownloadRecord
<1>2. WorkerStep(w, "tail", q)
  BY DEF ReleaseSlot
<1>3. st' \in [Starters -> [pc : StarterPC, dl : Downloads \cup {NoDownload}]]
  BY DetachedLemma DEF ReleaseSlot, StarterPC
<1>4. mx' \in Starters \cup {NoThread} /\ rec' = rec
  BY DEF SlotInv, TypeOK
<1>5. "tail" \in WorkerPC
  BY DEF WorkerPC
<1> HIDE DEF q
<1> QED BY <1>1, <1>2, <1>3, <1>4, <1>5, WorkerStepLemma

--------------------------------------------------------------------------------
(* Every kind of step preserves the invariant.                               *)

\* start_next_downloadable.
LEMMA StarterPreserves ==
  ASSUME SlotInv, NEW t \in Starters, StarterStep(t)
  PROVE  SlotInv'
<1> USE DEF SlotInv
<1>1. ASSUME NEW s \in [pc : StarterPC, dl : Downloads \cup {NoDownload}]
      PROVE  [st EXCEPT ![t] = s] \in
               [Starters -> [pc : StarterPC, dl : Downloads \cup {NoDownload}]]
  BY DEF TypeOK
<1>2. ASSUME NEW p \in StarterPC
      PROVE  [st EXCEPT ![t].pc = p] \in
               [Starters -> [pc : StarterPC, dl : Downloads \cup {NoDownload}]]
  BY DEF TypeOK
<1>3. Listed \subseteq Downloads
  BY DEF Listed, Range, TypeOK
<1>4. ASSUME dl' = dl, wk' = wk, stranded' = stranded
      PROVE  WorkerHasDownload' /\ RunningHasWorker' /\ SlotHasWorker'
  BY <1>4, FrameLemma
<1>5. CASE LockStart(t)
  <2>1. st' \in [Starters -> [pc : StarterPC, dl : Downloads \cup {NoDownload}]]
    BY <1>5, <1>2 DEF LockStart, StarterPC
  <2>2. TypeOK'
    BY <1>5, <2>1 DEF LockStart, TypeOK
  <2> QED BY <1>5, <1>4, <2>2 DEF LockStart
<1>6. CASE EnterStart(t)
  <2>1. st' \in [Starters -> [pc : StarterPC, dl : Downloads \cup {NoDownload}]]
    BY <1>6, <1>2 DEF EnterStart, StarterPC
  <2>2. TypeOK'
    BY <1>6, <2>1 DEF EnterStart, TypeOK
  <2> QED BY <1>6, <1>4, <2>2 DEF EnterStart
<1>7. CASE PickNext(t)
  <2>1. st' \in [Starters -> [pc : StarterPC, dl : Downloads \cup {NoDownload}]]
    <3>1. PICK d \in Listed : st' = [st EXCEPT ![t] = [pc |-> "picked", dl |-> d]]
      BY <1>7 DEF PickNext
    <3>2. [pc |-> "picked", dl |-> d] \in
            [pc : StarterPC, dl : Downloads \cup {NoDownload}]
      BY <1>3 DEF StarterPC
    <3> QED BY <1>1, <3>1, <3>2
  <2>2. TypeOK'
    BY <1>7, <2>1 DEF PickNext, TypeOK
  <2> QED BY <1>7, <1>4, <2>2 DEF PickNext
<1>8. CASE PickNone(t)
  <2>1. st' \in [Starters -> [pc : StarterPC, dl : Downloads \cup {NoDownload}]]
    BY <1>8, <1>1 DEF PickNone, Returned, StarterPC
  <2>2. TypeOK'
    BY <1>8, <2>1 DEF PickNone, Returned, TypeOK
  <2> QED BY <1>8, <1>4, <2>2 DEF PickNone
<1>9. CASE DoDownload(t)
  <2> DEFINE d == st[t].dl
             r == SetStatus([dl[d] EXCEPT !.running = TRUE], "RUNNING")
  <2>1. st' \in [Starters -> [pc : StarterPC, dl : Downloads \cup {NoDownload}]]
    <3>1. st' = [st EXCEPT ![t] = [pc |-> "scan", dl |-> NoDownload]]
      BY <1>9 DEF DoDownload
    <3>2. [pc |-> "scan", dl |-> NoDownload] \in
            [pc : StarterPC, dl : Downloads \cup {NoDownload}]
      BY DEF StarterPC
    <3> QED BY <1>1, <3>1, <3>2
  <2>2. CASE d \notin Listed
    <3>1. dl' = dl /\ wk' = wk /\ stranded' = stranded
      BY <1>9, <2>2 DEF DoDownload
    <3>2. TypeOK'
      BY <1>9, <2>1, <3>1 DEF DoDownload, TypeOK
    <3> QED BY <1>4, <3>1, <3>2
  <2>3. CASE d \in Listed
    <3>1. d \in Downloads /\ dl[d] \in Record
      BY <2>3, <1>3 DEF TypeOK, Record
    <3>2. r \in Record
      BY <3>1, UpdateLemma, SetStatusLemma DEF Status
    <3>3. dl' = [dl EXCEPT ![d] = r]
      BY <1>9, <2>3 DEF DoDownload
    <3> HIDE DEF r
    <3>4. /\ dl' \in [Downloads -> Record]
          /\ \A e \in Downloads \ {d} : dl'[e] = dl[e]
      BY <3>1, <3>2, <3>3 DEF TypeOK, Record
    <3>5. UNCHANGED <<list, mx, leaked, isReconnecting, inDlTime, rec, seen, cmd, tick>>
      BY <1>9 DEF DoDownload
    <3>6. CASE \E w \in Workers :
                 /\ wk[w].pc = "free"
                 /\ wk' = [wk EXCEPT ![w] = [pc |-> "spawned", dl |-> d]]
                 /\ UNCHANGED stranded
      <4>1. PICK w \in Workers :
                 /\ wk[w].pc = "free"
                 /\ wk' = [wk EXCEPT ![w] = [pc |-> "spawned", dl |-> d]]
                 /\ UNCHANGED stranded
        BY <3>6
      <4>2. /\ wk' \in [Workers -> [pc : WorkerPC, dl : Downloads \cup {NoDownload}]]
            /\ wk'[w].pc = "spawned" /\ wk'[w].dl = d
            /\ \A v \in Workers : wk[v].pc # "free" => wk'[v] = wk[v]
            /\ \A v \in Workers : v # w => wk'[v] = wk[v]
        BY <4>1, <3>1 DEF TypeOK, WorkerPC
      <4>3. TypeOK'
        BY <2>1, <3>4, <3>5, <4>1, <4>2 DEF TypeOK, Record
      <4>4. WorkerHasDownload'
        BY <4>2, <3>1 DEF WorkerHasDownload
      <4>5. RunningHasWorker'
        <5> SUFFICES ASSUME NEW e \in Downloads, dl'[e].status = "RUNNING"
                     PROVE  WorkerOf(e, Unsettled)' \/ e \in stranded'
          BY DEF RunningHasWorker
        <5>1. CASE e = d
          BY <5>1, <4>2 DEF WorkerOf, Unsettled, HoldsSlot, WorkerPC
        <5>2. CASE e # d
          <6>1. WorkerOf(e, Unsettled) \/ e \in stranded
            BY <5>2, <3>4 DEF RunningHasWorker
          <6> QED BY <6>1, <4>1, <4>2 DEF WorkerOf, Unsettled, HoldsSlot
        <5> QED BY <5>1, <5>2
      <4>6. SlotHasWorker'
        <5> SUFFICES ASSUME NEW e \in Downloads, dl'[e].running
                     PROVE  WorkerOf(e, HoldsSlot)' \/ e \in stranded'
          BY DEF SlotHasWorker
        <5>1. CASE e = d
          BY <5>1, <4>2 DEF WorkerOf, HoldsSlot, WorkerPC
        <5>2. CASE e # d
          <6>1. WorkerOf(e, HoldsSlot) \/ e \in stranded
            BY <5>2, <3>4 DEF SlotHasWorker
          <6> QED BY <6>1, <4>1, <4>2 DEF WorkerOf, HoldsSlot
        <5> QED BY <5>1, <5>2
      <4> QED BY <4>3, <4>4, <4>5, <4>6
    <3>7. CASE stranded' = stranded \cup {d} /\ UNCHANGED wk
      <4>1. TypeOK'
        BY <2>1, <3>1, <3>4, <3>5, <3>7 DEF TypeOK, Record
      <4>2. WorkerHasDownload'
        BY <3>7 DEF WorkerHasDownload
      <4>3. RunningHasWorker'
        <5> SUFFICES ASSUME NEW e \in Downloads, dl'[e].status = "RUNNING", e # d
                     PROVE  WorkerOf(e, Unsettled)' \/ e \in stranded'
          BY <3>7 DEF RunningHasWorker
        <5>1. WorkerOf(e, Unsettled) \/ e \in stranded
          BY <3>4 DEF RunningHasWorker
        <5> QED BY <5>1, <3>7 DEF WorkerOf
      <4>4. SlotHasWorker'
        <5> SUFFICES ASSUME NEW e \in Downloads, dl'[e].running, e # d
                     PROVE  WorkerOf(e, HoldsSlot)' \/ e \in stranded'
          BY <3>7 DEF SlotHasWorker
        <5>1. WorkerOf(e, HoldsSlot) \/ e \in stranded
          BY <3>4 DEF SlotHasWorker
        <5> QED BY <5>1, <3>7 DEF WorkerOf
      <4> QED BY <4>1, <4>2, <4>3, <4>4
    <3> QED BY <1>9, <2>3, <3>6, <3>7 DEF DoDownload
  <2> QED BY <2>2, <2>3
<1> QED BY <1>5, <1>6, <1>7, <1>8, <1>9 DEF StarterStep

\* download_me.
LEMMA WorkerPreserves ==
  ASSUME SlotInv, NEW w \in Workers,
         \/ WorkerProgress(w)
         \/ PluginSetsWait(w)
         \/ CaptchaFails(w)
  PROVE  SlotInv'
<1> DEFINE d == wk[w].dl
           StType == [Starters -> [pc : StarterPC, dl : Downloads \cup {NoDownload}]]
           Sound(pc, r) ==
             /\ pc \in WorkerPC /\ r \in Record /\ WorkerStep(w, pc, r)
             /\ pc \in HoldsSlot
             /\ r.status = "RUNNING" => pc \in Unsettled
<1>1. ASSUME wk[w].pc \in HoldsSlot
      PROVE  d \in Downloads /\ dl[d] \in Record
  BY <1>1, WorkerRecordLemma
<1>2. ASSUME NEW pc, NEW r, Sound(pc, r), wk[w].pc \in HoldsSlot,
             UNCHANGED <<mx, rec>>, st' \in StType
      PROVE  SlotInv'
  <2>1. mx' \in Starters \cup {NoThread} /\ rec' = rec
    BY <1>2 DEF SlotInv, TypeOK
  <2> QED BY <1>2, <2>1, WorkerStepLemma
<1>3. st \in StType
  BY DEF SlotInv, TypeOK
<1>4. /\ {"prepare", "gaveup", "countdown", "setup", "transfer", "postproc", "settle"} \subseteq Unsettled
      /\ Unsettled \subseteq HoldsSlot /\ HoldsSlot \subseteq WorkerPC
      /\ {"spawned", "release", "askrec", "finishing"} \subseteq HoldsSlot
  BY DEF Unsettled, HoldsSlot, WorkerPC
<1>5. {"NONE", "LIMIT", "CONNECTION"} = ErrorClass
  BY DEF ErrorClass
<1>6. CASE WorkerStarts(w)
  <2>1. wk[w].pc = "spawned" /\ UNCHANGED <<mx, st, rec>>
    BY <1>6 DEF WorkerStarts
  <2>2. Sound("prepare", [dl[d] EXCEPT !.needStop = FALSE])
    BY <1>6, <1>1, <1>4, <2>1, UpdateLemma DEF WorkerStarts
  <2> QED BY <1>2, <1>3, <1>4, <2>1, <2>2
<1>7. CASE PluginSetsWait(w)
  <2>1. wk[w].pc = "prepare" /\ UNCHANGED <<mx, st, rec>>
    BY <1>7 DEF PluginSetsWait
  <2>2. PICK n \in 1 .. MaxWait : WorkerStep(w, "prepare", [dl[d] EXCEPT !.wait = n])
    BY <1>7 DEF PluginSetsWait
  <2>3. Sound("prepare", [dl[d] EXCEPT !.wait = n])
    BY <1>1, <1>4, <2>1, <2>2, UpdateLemma, ConfigAssumption
  <2> QED BY <1>2, <1>3, <1>4, <2>1, <2>3
<1>8. CASE CaptchaFails(w)
  <2>1. wk[w].pc = "prepare" /\ UNCHANGED <<mx, st, rec>>
    BY <1>8 DEF CaptchaFails
  <2>2. Sound("gaveup", SetStatus(dl[d], "INACTIVE"))
    BY <1>8, <1>1, <1>4, <2>1, SetStatusLemma DEF CaptchaFails, Status
  <2> QED BY <1>2, <1>3, <1>4, <2>1, <2>2
<1>9. CASE Prepared(w)
  <2>1. wk[w].pc \in {"prepare", "gaveup"} /\ UNCHANGED <<mx, rec>>
    BY <1>9 DEF Prepared
  <2>2. wk[w].pc \in HoldsSlot /\ dl[d] \in Record
    BY <1>1, <1>4, <2>1
  <2>3. st' \in StType
    BY <1>3, <1>9, DetachedLemma DEF Prepared, StarterPC
  <2>4. \/ WorkerStep(w, "settle", dl[d])
        \/ \E n \in ErrorWaits, e \in ErrorClass :
             WorkerStep(w, "settle", RetryLater(dl[d], n, e))
        \/ \E e \in ErrorClass : WorkerStep(w, "settle", GiveUp(dl[d], e))
        \/ \E e \in ErrorClass :
             WorkerStep(w, "settle", [dl[d] EXCEPT !.status = "WAITING", !.error = e])
        \/ \E p \in {"countdown", "setup"} :
             WorkerStep(w, p, [dl[d] EXCEPT !.error = "NONE"])
    BY <1>9, <1>5 DEF Prepared, Failures, PluginError, LimitReached
  <2>5. CASE WorkerStep(w, "settle", dl[d])
    <3>1. Sound("settle", dl[d])
      BY <1>4, <2>2, <2>5
    <3> QED BY <1>2, <2>1, <2>2, <2>3, <3>1
  <2>6. ASSUME NEW n \in ErrorWaits, NEW e \in ErrorClass,
               WorkerStep(w, "settle", RetryLater(dl[d], n, e))
        PROVE  SlotInv'
    <3>1. Sound("settle", RetryLater(dl[d], n, e))
      BY <1>4, <2>2, <2>6, OutcomeLemma
    <3> QED BY <1>2, <2>1, <2>2, <2>3, <3>1
  <2>7. ASSUME NEW e \in ErrorClass, WorkerStep(w, "settle", GiveUp(dl[d], e))
        PROVE  SlotInv'
    <3>1. Sound("settle", GiveUp(dl[d], e))
      BY <1>4, <2>2, <2>7, GiveUpLemma
    <3> QED BY <1>2, <2>1, <2>2, <2>3, <3>1
  <2>8. ASSUME NEW e \in ErrorClass,
               WorkerStep(w, "settle", [dl[d] EXCEPT !.status = "WAITING", !.error = e])
        PROVE  SlotInv'
    <3>1. [dl[d] EXCEPT !.status = "WAITING", !.error = e] \in Record
      BY <2>2 DEF Record, DownloadRecord, Status
    <3>2. Sound("settle", [dl[d] EXCEPT !.status = "WAITING", !.error = e])
      BY <1>4, <2>8, <3>1
    <3> QED BY <1>2, <2>1, <2>2, <2>3, <3>2
  <2>9. ASSUME NEW p \in {"countdown", "setup"},
               WorkerStep(w, p, [dl[d] EXCEPT !.error = "NONE"])
        PROVE  SlotInv'
    <3>1. Sound(p, [dl[d] EXCEPT !.error = "NONE"])
      BY <1>4, <1>5, <2>2, <2>9, UpdateLemma
    <3> QED BY <1>2, <2>1, <2>2, <2>3, <3>1
  <2> QED BY <2>4, <2>5, <2>6, <2>7, <2>8, <2>9
<1>10. CASE CountdownOver(w)
  <2>1. wk[w].pc = "countdown" /\ UNCHANGED <<mx, st, rec>>
    BY <1>10 DEF CountdownOver
  <2>2. Sound("setup", dl[d])
    BY <1>10, <1>1, <1>4, <2>1 DEF CountdownOver
  <2> QED BY <1>2, <1>3, <1>4, <2>1, <2>2
<1>11. CASE SetUp(w) \/ TransferFails(w) \/ TransferAborted(w)
  <2>1. wk[w].pc \in {"setup", "transfer"} /\ UNCHANGED <<mx, st, rec>>
    BY <1>11 DEF SetUp, TransferFails, TransferAborted
  <2>2. wk[w].pc \in HoldsSlot /\ dl[d] \in Record /\ dl[d].error \in ErrorClass
    BY <1>1, <1>4, <2>1 DEF Record, DownloadRecord
  <2>3. \/ \E p \in {"settle", "transfer"} : WorkerStep(w, p, dl[d])
        \/ \E n \in ErrorWaits, e \in ErrorClass :
             WorkerStep(w, "settle", RetryLater(dl[d], n, e))
        \/ \E e \in ErrorClass : WorkerStep(w, "settle", GiveUp(dl[d], e))
        \/ WorkerStep(w, "settle", [dl[d] EXCEPT !.status = "PENDING"])
    <3>1. CASE SetUp(w)
      BY <3>1, <1>5 DEF SetUp, PluginError
    <3>2. CASE TransferFails(w)
      BY <3>2, <1>5, <2>2 DEF TransferFails, PluginError, Failures
    <3>3. CASE TransferAborted(w)
      BY <3>3 DEF TransferAborted
    <3> QED BY <1>11, <3>1, <3>2, <3>3
  <2>4. ASSUME NEW p \in {"settle", "transfer"}, WorkerStep(w, p, dl[d]) PROVE SlotInv'
    <3>1. Sound(p, dl[d])
      BY <1>4, <2>2, <2>4
    <3> QED BY <1>2, <1>3, <2>1, <2>2, <3>1
  <2>5. ASSUME NEW n \in ErrorWaits, NEW e \in ErrorClass,
               WorkerStep(w, "settle", RetryLater(dl[d], n, e))
        PROVE  SlotInv'
    <3>1. Sound("settle", RetryLater(dl[d], n, e))
      BY <1>4, <2>2, <2>5, OutcomeLemma
    <3> QED BY <1>2, <1>3, <2>1, <2>2, <3>1
  <2>6. ASSUME NEW e \in ErrorClass, WorkerStep(w, "settle", GiveUp(dl[d], e))
        PROVE  SlotInv'
    <3>1. Sound("settle", GiveUp(dl[d], e))
      BY <1>4, <2>2, <2>6, GiveUpLemma
    <3> QED BY <1>2, <1>3, <2>1, <2>2, <3>1
  <2>7. CASE WorkerStep(w, "settle", [dl[d] EXCEPT !.status = "PENDING"])
    <3>1. Sound("settle", [dl[d] EXCEPT !.status = "PENDING"])
      BY <1>4, <2>2, <2>7, UpdateLemma DEF Status
    <3> QED BY <1>2, <1>3, <2>1, <2>2, <3>1
  <2> QED BY <2>3, <2>4, <2>5, <2>6, <2>7
<1>12. CASE TransferDone(w)
  <2> DEFINE r == [dl[d] EXCEPT !.status = "FINISHED"]
  <2>1. wk[w].pc = "transfer" /\ UNCHANGED <<mx, st, rec>>
    BY <1>12 DEF TransferDone
  <2>2. wk[w].pc \in HoldsSlot /\ dl[d] \in Record
    BY <1>1, <1>4, <2>1
  <2>3. r \in Record /\ r.status = "FINISHED"
    BY <2>2 DEF Record, DownloadRecord, Status
  <2>4. \/ WorkerStep(w, "settle", r)
        \/ WorkerStep(w, "postproc", [r EXCEPT !.running = TRUE])
    BY <1>12 DEF TransferDone
  <2> HIDE DEF r
  <2>5. [r EXCEPT !.running = TRUE] \in Record
    BY <2>3, UpdateLemma
  <2>6. [r EXCEPT !.running = TRUE].status = "FINISHED"
    BY <2>3 DEF Record, DownloadRecord
  <2>7. CASE WorkerStep(w, "settle", r)
    <3>1. Sound("settle", r)
      BY <1>4, <2>3, <2>7
    <3> QED BY <1>2, <1>3, <2>1, <2>2, <3>1
  <2>8. CASE WorkerStep(w, "postproc", [r EXCEPT !.running = TRUE])
    <3>1. Sound("postproc", [r EXCEPT !.running = TRUE])
      BY <1>4, <2>5, <2>6, <2>8
    <3> QED BY <1>2, <1>3, <2>1, <2>2, <3>1
  <2> QED BY <2>4, <2>7, <2>8
<1>13. CASE PostProcessed(w)
  <2>1. wk[w].pc = "postproc" /\ UNCHANGED <<mx, st, rec>>
    BY <1>13 DEF PostProcessed
  <2>2. Sound("settle", [dl[d] EXCEPT !.running = FALSE])
    BY <1>13, <1>1, <1>4, <2>1, UpdateLemma DEF PostProcessed
  <2> QED BY <1>2, <1>3, <1>4, <2>1, <2>2
<1>14. CASE Settle(w)
  <2> DEFINE u == Unstarted(dl[d])
             direct == [u EXCEPT !.proxy = 0]
  <2>1. wk[w].pc = "settle" /\ UNCHANGED <<mx, rec>>
    BY <1>14 DEF Settle
  <2>2. wk[w].pc \in HoldsSlot /\ dl[d] \in Record
    BY <1>1, <1>4, <2>1
  <2>3. u \in Record /\ u.status # "RUNNING"
    BY <2>2, UnstartedLemma
  <2>4. \/ ReleaseSlot(w, RetryWithProxy(u, Proxies))
        \/ ReleaseSlot(w, direct)
        \/ \E p \in {"askrec", "finishing"} : WorkerStep(w, p, direct) /\ UNCHANGED st
    BY <1>14 DEF Settle
  <2> HIDE DEF u
  <2>5. direct \in Record /\ direct.status # "RUNNING"
    BY <2>3, ConfigAssumption DEF Record, DownloadRecord
  <2> HIDE DEF direct
  <2>6. CASE ReleaseSlot(w, RetryWithProxy(u, Proxies))
    <3>1. /\ RetryWithProxy(u, Proxies) \in Record
          /\ RetryWithProxy(u, Proxies).status # "RUNNING"
      BY <2>3, ProxyLemma
    <3> QED BY <2>1, <2>2, <2>6, <3>1, ReleaseLemma
  <2>7. CASE ReleaseSlot(w, direct)
    BY <2>1, <2>2, <2>5, <2>7, ReleaseLemma
  <2>8. ASSUME NEW p \in {"askrec", "finishing"}, WorkerStep(w, p, direct), UNCHANGED st
        PROVE  SlotInv'
    <3>1. Sound(p, direct)
      BY <1>4, <2>5, <2>8
    <3> QED BY <1>2, <1>3, <2>1, <2>2, <2>8, <3>1
  <2> QED BY <2>4, <2>6, <2>7, <2>8
<1>15. CASE AskReconnect(w)
  <2>1. /\ wk[w].pc = "askrec"
        /\ wk' = [wk EXCEPT ![w].pc = "release"]
        /\ leaked' \in {w, leaked}
        /\ UNCHANGED <<list, dl, mx, isReconnecting, inDlTime, st, seen, stranded, cmd, tick>>
    BY <1>15 DEF AskReconnect
  <2>2. rec' \in [Reconnectors -> {"idle", "begin", "mark", "router", "unmark"}]
    BY <1>15 DEF AskReconnect, SlotInv, TypeOK
  <2>3. /\ wk' \in [Workers -> [pc : WorkerPC, dl : Downloads \cup {NoDownload}]]
        /\ \A v \in Workers : /\ wk'[v].dl = wk[v].dl
                              /\ wk[v].pc \in HoldsSlot <=> wk'[v].pc \in HoldsSlot
                              /\ wk[v].pc \in Unsettled <=> wk'[v].pc \in Unsettled
                              /\ wk'[v].pc # "free" => wk[v].pc # "free"
    BY <2>1 DEF SlotInv, TypeOK, Unsettled, HoldsSlot, WorkerPC
  <2>4. TypeOK'
    BY <2>1, <2>2, <2>3 DEF SlotInv, TypeOK
  <2>5. WorkerHasDownload'
    BY <2>3 DEF SlotInv, WorkerHasDownload
  <2>6. RunningHasWorker' /\ SlotHasWorker'
    BY <2>1, <2>3 DEF SlotInv, RunningHasWorker, SlotHasWorker, WorkerOf
  <2> QED BY <2>4, <2>5, <2>6 DEF SlotInv
<1>16. CASE FinishPackage(w)
  <2>1. /\ wk[w].pc = "finishing" /\ UNCHANGED <<mx, st, rec>>
        /\ WorkerStep(w, "release", dl[d])
    BY <1>16 DEF FinishPackage
  <2>2. wk[w].pc \in HoldsSlot /\ wk[w].pc \notin Unsettled /\ dl[d] \in Record
    BY <1>1, <1>4, <2>1 DEF Unsettled
  <2>3. /\ mx' \in Starters \cup {NoThread}
        /\ st' \in StType
        /\ rec' = rec
    BY <1>3, <2>1 DEF SlotInv, TypeOK
  <2> QED BY <1>4, <2>1, <2>2, <2>3, WorkerStepLemma
<1>17. CASE Release(w)
  <2>1. wk[w].pc = "release" /\ UNCHANGED <<mx, rec>> /\ ReleaseSlot(w, dl[d])
    BY <1>17 DEF Release
  <2>2. wk[w].pc \in HoldsSlot /\ wk[w].pc \notin Unsettled /\ dl[d] \in Record
    BY <1>1, <1>4, <2>1 DEF Unsettled
  <2> QED BY <2>1, <2>2, ReleaseLemma
<1>18. CASE WorkerEnds(w)
  <2>1. /\ wk[w].pc = "tail"
        /\ wk' = [wk EXCEPT ![w] = [pc |-> "free", dl |-> NoDownload]]
        /\ UNCHANGED <<list, dl, mx, leaked, isReconnecting, inDlTime,
                       st, rec, seen, stranded, cmd, tick>>
    BY <1>18 DEF WorkerEnds
  <2>2. /\ wk' \in [Workers -> [pc : WorkerPC, dl : Downloads \cup {NoDownload}]]
        /\ wk'[w].pc = "free"
        /\ \A v \in Workers \ {w} : wk'[v] = wk[v]
    BY <2>1 DEF SlotInv, TypeOK, WorkerPC
  <2>3. TypeOK'
    BY <2>1, <2>2 DEF SlotInv, TypeOK
  <2>4. WorkerHasDownload'
    BY <2>2 DEF SlotInv, WorkerHasDownload
  <2>5. ASSUME NEW e, NEW pcs \in SUBSET HoldsSlot, WorkerOf(e, pcs) PROVE WorkerOf(e, pcs)'
    BY <2>1, <2>2, <2>5 DEF WorkerOf, HoldsSlot
  <2>6. RunningHasWorker'
    BY <1>4, <2>1, <2>5 DEF SlotInv, RunningHasWorker
  <2>7. SlotHasWorker'
    BY <2>1, <2>5 DEF SlotInv, SlotHasWorker
  <2> QED BY <2>3, <2>4, <2>6, <2>7 DEF SlotInv
<1> QED
  BY <1>6, <1>7, <1>8, <1>9, <1>10, <1>11, <1>12, <1>13, <1>14, <1>15, <1>16, <1>17, <1>18
  DEF WorkerProgress
\* What a reconnect makes of a download: never RUNNING, the type is kept.
LEMMA ReconnectedLemma ==
  ASSUME NEW r \in Record, NEW s \in Status
  PROVE  \A q \in {Reconnected(r, s), Unmarked(r, s)} :
           /\ q \in Record
           /\ q.running = r.running
           /\ q.status = "RUNNING" => r.status = "RUNNING"
<1> DEFINE a == SetStatus(r, "RECONNECTING")
           n == [r EXCEPT !.needStop = TRUE]
           b == SetStatus(n, "RECONNECTING")
           c == SetStatus(r, "PENDING")
<1>1. {"RECONNECTING", "PENDING"} \subseteq Status
  BY DEF Status
<1>2. n \in Record /\ n.running = r.running /\ n.status = r.status
  BY DEF Record, DownloadRecord
<1>3. a \in Record /\ a.running = r.running /\ a.status \in {"RECONNECTING", r.status}
  BY <1>1, SetStatusLemma
<1>4. c \in Record /\ c.running = r.running /\ c.status \in {"PENDING", r.status}
  BY <1>1, SetStatusLemma
<1> HIDE DEF n
<1>5. b \in Record /\ b.running = r.running /\ b.status \in {"RECONNECTING", r.status}
  BY <1>1, <1>2, SetStatusLemma
<1> HIDE DEF a, b, c
<1>6. /\ [a EXCEPT !.wait = 0] \in Record
      /\ [a EXCEPT !.wait = 0].running = r.running
      /\ [a EXCEPT !.wait = 0].status = a.status
  BY <1>3, UpdateLemma DEF Record, DownloadRecord
<1>7. /\ [c EXCEPT !.wait = 0] \in Record
      /\ [c EXCEPT !.wait = 0].running = r.running
      /\ [c EXCEPT !.wait = 0].status = c.status
  BY <1>4, UpdateLemma DEF Record, DownloadRecord
<1>8. Reconnected(r, s) \in {[a EXCEPT !.wait = 0], b, r}
  BY DEF Reconnected, a, b, n
<1>9. Unmarked(r, s) \in {[c EXCEPT !.wait = 0], r}
  BY DEF Unmarked, c
<1> QED BY <1>3, <1>4, <1>5, <1>6, <1>7, <1>8, <1>9

\* do_reconnect.
LEMMA ReconnectPreserves ==
  ASSUME SlotInv, NEW t \in Reconnectors, ReconnectStep(t)
  PROVE  SlotInv'
<1> DEFINE RecType == [Reconnectors -> {"idle", "begin", "mark", "router", "unmark"}]
           Read == [d \in Downloads |-> IF d \in Listed THEN dl[d].status ELSE "DELETED"]
<1>1. t \in Starters
  BY DEF Starters
<1>2. \A s \in {"idle", "begin", "mark", "router", "unmark"} : [rec EXCEPT ![t] = s] \in RecType
  BY DEF SlotInv, TypeOK
<1>3. \A d \in Downloads : dl[d] \in Record /\ dl[d].status \in Status /\ seen[d] \in Status
  BY DEF SlotInv, TypeOK, Record, DownloadRecord
<1>4. Read \in [Downloads -> Status] /\ Nothing \in [Downloads -> Status]
  BY <1>3 DEF Nothing, Status
<1>5. ASSUME wk' = wk, stranded' = stranded, TypeOK',
             \A d \in Downloads :
               /\ dl'[d].running => dl[d].running
               /\ dl'[d].status = "RUNNING" => dl[d].status = "RUNNING"
      PROVE  SlotInv'
  BY <1>5, FrameLemma DEF SlotInv
<1>6. ASSUME \/ dl' = [d \in Downloads |-> Reconnected(dl[d], seen[d])]
             \/ dl' = [d \in Downloads |-> Unmarked(dl[d], seen[d])]
      PROVE  /\ dl' \in [Downloads -> Record]
             /\ \A d \in Downloads :
                  /\ dl'[d].running => dl[d].running
                  /\ dl'[d].status = "RUNNING" => dl[d].status = "RUNNING"
  <2>1. ASSUME NEW d \in Downloads, NEW q \in {Reconnected(dl[d], seen[d]), Unmarked(dl[d], seen[d])}
        PROVE  /\ q \in Record
               /\ q.running = dl[d].running
               /\ q.status = "RUNNING" => dl[d].status = "RUNNING"
    <3>1. dl[d] \in Record /\ seen[d] \in Status
      BY <1>3
    <3> QED BY <3>1, ReconnectedLemma
  <2>2. CASE dl' = [d \in Downloads |-> Reconnected(dl[d], seen[d])]
    BY <2>1, <2>2
  <2>3. CASE dl' = [d \in Downloads |-> Unmarked(dl[d], seen[d])]
    BY <2>1, <2>3
  <2> QED BY <1>6, <2>2, <2>3
<1>7. CASE BeginReconnect(t)
  <2>1. rec' \in RecType
    BY <1>2, <1>7 DEF BeginReconnect
  <2>2. /\ mx' \in Starters \cup {NoThread}
        /\ isReconnecting' \in BOOLEAN
        /\ seen' \in [Downloads -> Status]
        /\ stranded' = stranded
    <3>1. CASE isReconnecting \/ ~RouterModelSet
      BY <1>7, <3>1 DEF BeginReconnect, SlotInv, TypeOK
    <3>2. CASE ~(isReconnecting \/ ~RouterModelSet)
      BY <1>1, <1>4, <1>7, <3>2 DEF BeginReconnect
    <3> QED BY <3>1, <3>2
  <2>3. UNCHANGED <<list, dl, leaked, inDlTime, wk, st, cmd, tick>>
    BY <1>7 DEF BeginReconnect
  <2>4. TypeOK'
    BY <2>1, <2>2, <2>3 DEF SlotInv, TypeOK
  <2> QED BY <1>5, <2>2, <2>3, <2>4
<1>8. CASE MarkDownloads(t)
  <2>1. /\ dl' = [d \in Downloads |-> Reconnected(dl[d], seen[d])]
        /\ mx' = NoThread /\ seen' = Nothing
        /\ rec' = [rec EXCEPT ![t] = "router"]
        /\ UNCHANGED <<list, leaked, isReconnecting, inDlTime, wk, st, stranded, cmd, tick>>
    BY <1>8 DEF MarkDownloads
  <2>2. TypeOK'
    BY <1>2, <1>4, <1>6, <2>1 DEF SlotInv, TypeOK, Record
  <2> QED BY <1>5, <1>6, <2>1, <2>2
<1>9. CASE RouterDone(t)
  <2>1. /\ seen' = Read /\ mx' = t
        /\ rec' = [rec EXCEPT ![t] = "unmark"]
        /\ UNCHANGED <<list, dl, leaked, isReconnecting, inDlTime, wk, st, stranded, cmd, tick>>
    BY <1>9 DEF RouterDone
  <2>2. TypeOK'
    BY <1>1, <1>2, <1>4, <2>1 DEF SlotInv, TypeOK
  <2> QED BY <1>5, <2>1, <2>2
<1>10. CASE UnmarkDownloads(t)
  <2>1. /\ dl' = [d \in Downloads |-> Unmarked(dl[d], seen[d])]
        /\ isReconnecting' = FALSE /\ seen' = Nothing
        /\ rec' = [rec EXCEPT ![t] = "idle"]
        /\ st' = [st EXCEPT ![t].pc = "scan"]
        /\ UNCHANGED <<list, mx, leaked, inDlTime, wk, stranded, cmd, tick>>
    BY <1>10 DEF UnmarkDownloads
  <2>2. st' \in [Starters -> [pc : StarterPC, dl : Downloads \cup {NoDownload}]]
    BY <1>1, <2>1 DEF SlotInv, TypeOK, StarterPC
  <2>3. TypeOK'
    BY <1>2, <1>4, <1>6, <2>1, <2>2 DEF SlotInv, TypeOK, Record
  <2> QED BY <1>5, <1>6, <2>1, <2>3
<1> QED BY <1>7, <1>8, <1>9, <1>10 DEF ReconnectStep

\* A sequence without one of its elements.
LEMMA RemoveAtLemma ==
  ASSUME NEW S, NEW s \in Seq(S), NEW i \in 1 .. Len(s)
  PROVE  RemoveAt(s, i) \in Seq(S)
<1>1. i \in 1 .. Len(s) + 1 /\ Len(s) \in Nat
  BY LenProperties
<1>2. SubSeq(s, 1, i - 1) \in Seq(S) /\ SubSeq(s, i + 1, Len(s)) \in Seq(S)
  BY <1>1, SubSeqProperties
<1> QED BY <1>2, ConcatProperties DEF RemoveAt

\* What the ticker remembers; a counter that it will write minus one is not 0.
TickTyped ==
  /\ tick \in [pc : TickerPC, at : Nat, wait : 0 .. MaxWait, wasIn : BOOLEAN]
  /\ tick.pc = "write" => tick.wait > 0

\* What a step of decrease_waits may make of the download it is at.
VisitOutcomes ==
  LET r == dl[list[tick.at]] IN
  {r, SetStatus(r, "PENDING")} \cup {[r EXCEPT !.wait = n] : n \in 0 .. MaxWait}

\* A step of decrease_waits writes no variable but dl, st and tick.
LEMMA VisitLeaves ==
  ASSUME DecreaseWaits
  PROVE  /\ UNCHANGED <<list, mx, leaked, isReconnecting, inDlTime>>
         /\ UNCHANGED <<wk, rec, seen, stranded, cmd>>
         /\ tick.pc # "purge" /\ st[Ticker].pc = "idle" /\ tick.at \in DOMAIN list
BY DEF DecreaseWaits, ReadWait, WriteWait, LookAtStatus, ZeroWait, AskStatus, WaitOver, Counting

\* It is at a download of the list, keeps what the ticker
\* remembers well typed, and starts downloads only by going on to the scan.
LEMMA VisitFacts ==
  ASSUME TypeOK, DecreaseWaits
  PROVE  /\ list[tick.at] \in Downloads
         /\ TickTyped'
         /\ \/ st' = st
            \/ ~isReconnecting /\ st' = [st EXCEPT ![Ticker].pc = "scan"]
<1>1. TickTyped /\ dl \in [Downloads -> Record] /\ list \in Seq(Downloads)
  BY DEF TypeOK, TickTyped, Record
<1>2. tick.at \in DOMAIN list /\ st[Ticker].pc = "idle"
  BY VisitLeaves
<1>3. list[tick.at] \in Downloads
  BY <1>1, <1>2
<1>4. dl[list[tick.at]].wait \in 0 .. MaxWait
  BY <1>1, <1>3 DEF Record, DownloadRecord
<1>5. ASSUME NEW pc \in TickerPC, NEW n \in 0 .. MaxWait, pc = "write" => n > 0,
             SameDownload(pc, n)
      PROVE  TickTyped'
  BY <1>1, <1>5 DEF SameDownload, TickTyped
<1>6. ASSUME NextDownload
      PROVE  TickTyped'
  <2>1. 0 \in 0 .. MaxWait /\ "count" \in TickerPC /\ tick.at + 1 \in Nat
    BY <1>1, ConfigAssumption DEF TickTyped, TickerPC
  <2> QED BY <1>1, <1>6, <2>1 DEF NextDownload, TickTyped
<1>7. TickTyped'
  <2>1. 0 \in 0 .. MaxWait /\ {"write", "look", "zero", "ask", "over"} \subseteq TickerPC
    BY ConfigAssumption DEF TickerPC
  <2>2. CASE ReadWait
    BY <1>4, <1>5, <2>1, <2>2 DEF ReadWait
  <2>3. CASE WriteWait \/ LookAtStatus \/ ZeroWait \/ AskStatus \/ WaitOver
    <3>1. NextDownload \/ SameDownload("look", 0) \/ SameDownload("zero", 0) \/ SameDownload("over", 0)
      BY <2>3 DEF WriteWait, LookAtStatus, ZeroWait, AskStatus, WaitOver
    <3> QED BY <1>5, <1>6, <2>1, <3>1
  <2> QED BY <2>2, <2>3 DEF DecreaseWaits
<1>8. \/ st' = st
      \/ ~isReconnecting /\ st' = [st EXCEPT ![Ticker].pc = "scan"]
  BY DEF DecreaseWaits, ReadWait, WriteWait, LookAtStatus, ZeroWait, AskStatus, WaitOver
<1> QED BY <1>3, <1>7, <1>8

\* It writes nothing, a counter within its bounds (what it read, minus one, if
\* that was not 0), or the status PENDING.
LEMMA VisitWrites ==
  ASSUME TypeOK, DecreaseWaits
  PROVE  \E q \in VisitOutcomes : dl' = [dl EXCEPT ![list[tick.at]] = q]
<1> DEFINE d == list[tick.at]
<1>1. TickTyped /\ dl \in [Downloads -> Record] /\ d \in Downloads
  BY VisitFacts DEF TypeOK, TickTyped, Record
<1>2. CASE ReadWait \/ LookAtStatus \/ AskStatus
  <2>1. dl' = dl /\ dl' = [dl EXCEPT ![d] = dl[d]]
    BY <1>1, <1>2 DEF ReadWait, LookAtStatus, AskStatus
  <2> QED BY <2>1 DEF VisitOutcomes
<1>3. CASE WriteWait
  <2>1. tick.wait - 1 \in 0 .. MaxWait
    BY <1>1, <1>3, ConfigAssumption DEF WriteWait, Counting, TickTyped
  <2>2. dl' = [dl EXCEPT ![d] = [dl[d] EXCEPT !.wait = tick.wait - 1]]
    BY <1>3 DEF WriteWait
  <2> QED BY <2>1, <2>2 DEF VisitOutcomes
<1>4. CASE ZeroWait
  <2>1. 0 \in 0 .. MaxWait
    BY ConfigAssumption
  <2>2. dl' = [dl EXCEPT ![d] = [dl[d] EXCEPT !.wait = 0]]
    BY <1>4 DEF ZeroWait
  <2> QED BY <2>1, <2>2 DEF VisitOutcomes
<1>5. CASE WaitOver
  BY <1>5 DEF WaitOver, VisitOutcomes
<1> QED BY <1>2, <1>3, <1>4, <1>5 DEF DecreaseWaits

\* None of these touches is_running or makes a download RUNNING.
LEMMA OutcomesTyped ==
  ASSUME TypeOK, DecreaseWaits, NEW q \in VisitOutcomes
  PROVE  LET r == dl[list[tick.at]] IN
         /\ q \in Record
         /\ q.running = r.running
         /\ q.status \in {r.status, "PENDING"}
<1> DEFINE r == dl[list[tick.at]]
<1>1. r \in Record
  BY VisitFacts DEF TypeOK, Record
<1>2. CASE q = r
  BY <1>1, <1>2
<1>3. CASE q = SetStatus(r, "PENDING")
  BY <1>1, <1>3, SetStatusLemma DEF Status
<1>4. ASSUME NEW n \in 0 .. MaxWait, q = [r EXCEPT !.wait = n]
      PROVE  q \in Record /\ q.running = r.running /\ q.status = r.status
  BY <1>1, <1>4, UpdateLemma DEF Record, DownloadRecord
<1> QED BY <1>2, <1>3, <1>4 DEF VisitOutcomes

\* do_once_per_second, and the clock.
LEMMA TickPreserves ==
  ASSUME SlotInv, TickNext \/ ClockTurns
  PROVE  SlotInv'
<1> DEFINE StType == [Starters -> [pc : StarterPC, dl : Downloads \cup {NoDownload}]]
<1>1. Ticker \in Starters
  BY DEF Starters
<1>2. \A p \in StarterPC : [st EXCEPT ![Ticker].pc = p] \in StType
  BY <1>1 DEF SlotInv, TypeOK
<1>3. st \in StType /\ TickTyped /\ {"scan", "entry"} \subseteq StarterPC
  BY DEF SlotInv, TypeOK, StarterPC, TickTyped
<1>4. ASSUME wk' = wk, stranded' = stranded, TypeOK', dl' = dl
      PROVE  SlotInv'
  BY <1>4, FrameLemma DEF SlotInv
<1>5. CASE PurgeOne
  <2>1. PICK i \in DOMAIN list : list' = RemoveAt(list, i)
    BY <1>5 DEF PurgeOne
  <2>2. list' \in Seq(Downloads)
    BY <2>1, RemoveAtLemma, LenProperties DEF SlotInv, TypeOK
  <2>3. TypeOK'
    BY <1>5, <2>2 DEF PurgeOne, SlotInv, TypeOK
  <2> QED BY <1>4, <1>5, <2>3 DEF PurgeOne
<1>6. CASE DecreaseBegins
  <2>1. TickTyped'
    BY <1>3, <1>6 DEF DecreaseBegins, TickTyped, TickerPC
  <2>2. TypeOK'
    BY <1>1, <1>6, <2>1 DEF DecreaseBegins, SlotInv, TypeOK, TickTyped
  <2> QED BY <1>4, <1>6, <2>2 DEF DecreaseBegins
<1>7. CASE DecreaseWaits
  <2> DEFINE d == list[tick.at]
  <2>1. PICK q : q \in VisitOutcomes /\ dl' = [dl EXCEPT ![d] = q]
    BY <1>7, VisitWrites DEF SlotInv
  <2>2. /\ q \in Record
        /\ q.running = dl[d].running
        /\ q.status = "RUNNING" => dl[d].status = "RUNNING"
    BY <1>7, <2>1, OutcomesTyped DEF SlotInv
  <2>3. d \in Downloads
    BY <1>7, VisitFacts DEF SlotInv
  <2>4. /\ dl' \in [Downloads -> Record]
        /\ \A e \in Downloads :
             /\ dl'[e].running => dl[e].running
             /\ dl'[e].status = "RUNNING" => dl[e].status = "RUNNING"
    BY <2>1, <2>2, <2>3 DEF SlotInv, TypeOK, Record
  <2>5. TickTyped'
    BY <1>3, <1>7, VisitFacts DEF SlotInv
  <2>6. st' \in StType
    BY <1>2, <1>3, <1>7, VisitFacts DEF SlotInv
  <2>7. UNCHANGED <<list, mx, leaked, isReconnecting, inDlTime, wk, rec, seen, stranded, cmd>>
    BY <1>7, VisitLeaves
  <2>8. TypeOK'
    BY <2>4, <2>5, <2>6, <2>7 DEF SlotInv, TypeOK, Record, TickTyped
  <2> QED BY <2>4, <2>7, <2>8, FrameLemma DEF SlotInv
<1>8. CASE DecreaseDone
  <2>1. TickTyped'
    BY <1>8, ConfigAssumption DEF DecreaseDone, NextSecond, SlotInv, TypeOK, TickTyped, TickerPC
  <2>2. st' \in StType
    BY <1>2, <1>3, <1>8 DEF DecreaseDone
  <2>3. TypeOK'
    BY <1>8, <2>1, <2>2 DEF DecreaseDone, SlotInv, TypeOK, TickTyped
  <2> QED BY <1>4, <1>8, <2>3 DEF DecreaseDone
<1>9. CASE ClockTurns
  <2>1. TypeOK'
    BY <1>9 DEF ClockTurns, SlotInv, TypeOK
  <2> QED BY <1>4, <1>9, <2>1 DEF ClockTurns
<1> QED BY <1>5, <1>6, <1>7, <1>8, <1>9 DEF TickNext

\* The management commands.
LEMMA ClientPreserves ==
  ASSUME SlotInv, ClientNext
  PROVE  SlotInv'
<1> DEFINE StType == [Starters -> [pc : StarterPC, dl : Downloads \cup {NoDownload}]]
           CmdType == [Clients -> [op : {"none", "zerowait"} \cup CommandStatus,
                                   dl : Downloads \cup {NoDownload}]]
<1>1. PICK c \in Clients :
        \/ Activate(c) \/ Deactivate(c) \/ Delete(c)
        \/ CommandSetsStatus(c) \/ CommandZeroesWait(c)
        \/ Stop(c) \/ Add(c) \/ OtherCommand(c)
  BY DEF ClientNext
<1>2. c \in Starters
  BY DEF Starters
<1>3. \A p \in StarterPC : [st EXCEPT ![c].pc = p] \in StType
  BY <1>2 DEF SlotInv, TypeOK
<1>4. st \in StType /\ cmd \in CmdType /\ {"scan", "entry"} \subseteq StarterPC
  BY DEF SlotInv, TypeOK, StarterPC
<1>5. ASSUME NEW op \in {"none", "zerowait"} \cup CommandStatus,
             NEW d \in Downloads \cup {NoDownload}
      PROVE  [cmd EXCEPT ![c] = [op |-> op, dl |-> d]] \in CmdType
  <2>1. [op |-> op, dl |-> d] \in
          [op : {"none", "zerowait"} \cup CommandStatus, dl : Downloads \cup {NoDownload}]
    OBVIOUS
  <2> QED BY <1>4, <2>1
<1>6. Listed \subseteq Downloads
  BY DEF SlotInv, TypeOK, Listed, Range
<1>7. ASSUME wk' = wk, stranded' = stranded, TypeOK',
             \A d \in Downloads :
               /\ dl'[d].running => dl[d].running
               /\ dl'[d].status = "RUNNING" => dl[d].status = "RUNNING"
      PROVE  SlotInv'
  BY <1>7, FrameLemma DEF SlotInv
<1>8. ASSUME NEW d \in Downloads, NEW q \in Record, dl' = [dl EXCEPT ![d] = q],
             q.running => dl[d].running,
             q.status = "RUNNING" => dl[d].status = "RUNNING"
      PROVE  /\ dl' \in [Downloads -> Record]
             /\ \A e \in Downloads :
                  /\ dl'[e].running => dl[e].running
                  /\ dl'[e].status = "RUNNING" => dl[e].status = "RUNNING"
  BY <1>8 DEF SlotInv, TypeOK, Record
<1>9. CASE Activate(c) \/ Deactivate(c) \/ Delete(c)
  <2>1. PICK s \in CommandStatus, d \in Listed :
          /\ cmd' = [cmd EXCEPT ![c] = [op |-> s, dl |-> d]]
          /\ UNCHANGED <<list, dl, mx, leaked, isReconnecting, inDlTime,
                         wk, st, rec, seen, stranded, tick>>
    BY <1>9 DEF Activate, Deactivate, Delete, LookUp, CommandStatus
  <2>2. cmd' \in CmdType
    BY <1>5, <1>6, <2>1
  <2>3. TypeOK'
    BY <2>1, <2>2 DEF SlotInv, TypeOK
  <2> QED BY <1>7, <2>1, <2>3
<1>10. CASE CommandSetsStatus(c)
  <2> DEFINE d == cmd[c].dl
             q == SetStatus(dl[d], cmd[c].op)
  <2>1. d \in Downloads \cup {NoDownload} /\ cmd[c].op \in CommandStatus
    BY <1>4, <1>10 DEF CommandSetsStatus
  <2>2. cmd' \in CmdType
    <3>1. \/ cmd' = [cmd EXCEPT ![c] = [op |-> "zerowait", dl |-> d]]
          \/ cmd' = [cmd EXCEPT ![c] = [op |-> "none", dl |-> NoDownload]]
      BY <1>10 DEF CommandSetsStatus, NoCommand
    <3> QED BY <1>5, <2>1, <3>1
  <2>3. st' \in StType /\ mx' \in Starters \cup {NoThread}
    <3>1. CASE isReconnecting
      <4>1. st' = [st EXCEPT ![c].pc = "entry"] /\ mx' = mx
        BY <1>10, <3>1 DEF CommandSetsStatus
      <4> QED BY <1>3, <1>4, <4>1 DEF SlotInv, TypeOK
    <3>2. CASE ~isReconnecting
      <4>1. st' = [st EXCEPT ![c].pc = "scan"] /\ mx' = c
        BY <1>10, <3>2 DEF CommandSetsStatus
      <4> QED BY <1>2, <1>3, <1>4, <4>1
    <3> QED BY <3>1, <3>2
  <2>4. /\ dl' \in [Downloads -> Record]
        /\ \A e \in Downloads :
             /\ dl'[e].running => dl[e].running
             /\ dl'[e].status = "RUNNING" => dl[e].status = "RUNNING"
    <3>1. CASE d \notin Listed
      BY <1>10, <3>1 DEF CommandSetsStatus, SlotInv, TypeOK, Record
    <3>2. CASE d \in Listed
      <4>1. d \in Downloads /\ dl[d] \in Record
        BY <1>6, <3>2 DEF SlotInv, TypeOK, Record
      <4>2. /\ q \in Record
            /\ q.running = dl[d].running
            /\ q.status = "RUNNING" => dl[d].status = "RUNNING"
        BY <2>1, <4>1, SetStatusLemma DEF CommandStatus, Status
      <4>3. dl' = [dl EXCEPT ![d] = q]
        BY <1>10, <3>2 DEF CommandSetsStatus
      <4> HIDE DEF q
      <4> QED BY <1>8, <4>1, <4>2, <4>3
    <3> QED BY <3>1, <3>2
  <2>5. UNCHANGED <<list, leaked, isReconnecting, inDlTime, wk, rec, seen, stranded, tick>>
    BY <1>10 DEF CommandSetsStatus
  <2>6. TypeOK'
    BY <2>2, <2>3, <2>4, <2>5 DEF SlotInv, TypeOK, Record
  <2> QED BY <1>7, <2>4, <2>5, <2>6
<1>11. CASE CommandZeroesWait(c)
  <2> DEFINE d == cmd[c].dl
             q == [dl[d] EXCEPT !.wait = 0]
  <2>1. cmd' \in CmdType
    BY <1>5, <1>11 DEF CommandZeroesWait, NoCommand
  <2>2. /\ dl' \in [Downloads -> Record]
        /\ \A e \in Downloads :
             /\ dl'[e].running => dl[e].running
             /\ dl'[e].status = "RUNNING" => dl[e].status = "RUNNING"
    <3>1. CASE d \notin Listed
      BY <1>11, <3>1 DEF CommandZeroesWait, SlotInv, TypeOK, Record
    <3>2. CASE d \in Listed
      <4>1. d \in Downloads /\ dl[d] \in Record
        BY <1>6, <3>2 DEF SlotInv, TypeOK, Record
      <4>2. q \in Record
        BY <4>1, UpdateLemma
      <4>3. q.running = dl[d].running /\ q.status = dl[d].status
        BY <4>1 DEF Record, DownloadRecord
      <4>4. dl' = [dl EXCEPT ![d] = q]
        BY <1>11, <3>2 DEF CommandZeroesWait
      <4> HIDE DEF q
      <4> QED BY <1>8, <4>1, <4>2, <4>3, <4>4
    <3> QED BY <3>1, <3>2
  <2>3. UNCHANGED <<list, mx, leaked, isReconnecting, inDlTime,
                    wk, st, rec, seen, stranded, tick>>
    BY <1>11 DEF CommandZeroesWait
  <2>4. TypeOK'
    BY <2>1, <2>2, <2>3 DEF SlotInv, TypeOK, Record
  <2> QED BY <1>7, <2>2, <2>3, <2>4
<1>12. CASE Stop(c)
  <2>1. PICK d \in Listed : dl' = [dl EXCEPT ![d] = [@ EXCEPT !.needStop = TRUE]]
    BY <1>12 DEF Stop
  <2> DEFINE q == [dl[d] EXCEPT !.needStop = TRUE]
  <2>2. d \in Downloads /\ dl[d] \in Record
    BY <1>6, <2>1 DEF SlotInv, TypeOK, Record
  <2>3. q \in Record /\ q.running = dl[d].running /\ q.status = dl[d].status
    BY <2>2 DEF Record, DownloadRecord
  <2>4. dl' = [dl EXCEPT ![d] = q]
    BY <2>1
  <2> HIDE DEF q
  <2>5. /\ dl' \in [Downloads -> Record]
        /\ \A e \in Downloads :
             /\ dl'[e].running => dl[e].running
             /\ dl'[e].status = "RUNNING" => dl[e].status = "RUNNING"
    BY <1>8, <2>2, <2>3, <2>4
  <2>6. st' \in StType
    BY <1>3, <1>4, <1>12 DEF Stop
  <2>7. TypeOK'
    BY <1>12, <2>5, <2>6 DEF Stop, SlotInv, TypeOK, Record
  <2> QED BY <1>7, <1>12, <2>5, <2>7 DEF Stop
<1>13. CASE Add(c)
  <2>1. PICK d \in Downloads \ Listed :
          list' = Append(list, d) /\ dl' = [dl EXCEPT ![d] = NewDownload]
    BY <1>13 DEF Add
  <2>2. list' \in Seq(Downloads)
    BY <2>1, AppendProperties DEF SlotInv, TypeOK
  <2>3. /\ dl' \in [Downloads -> Record]
        /\ \A e \in Downloads :
             /\ dl'[e].running => dl[e].running
             /\ dl'[e].status = "RUNNING" => dl[e].status = "RUNNING"
    BY <1>8, <2>1, NewDownloadLemma
  <2>4. st' \in StType
    BY <1>3, <1>4, <1>13 DEF Add
  <2>5. TypeOK'
    BY <1>13, <2>2, <2>3, <2>4 DEF Add, SlotInv, TypeOK, Record
  <2> QED BY <1>7, <1>13, <2>3, <2>5 DEF Add
<1>14. CASE OtherCommand(c)
  <2>1. st' \in StType
    BY <1>3, <1>4, <1>14 DEF OtherCommand
  <2>2. TypeOK'
    BY <1>14, <2>1 DEF OtherCommand, SlotInv, TypeOK
  <2> QED BY <1>7, <1>14, <2>2 DEF OtherCommand
<1> QED BY <1>1, <1>9, <1>10, <1>11, <1>12, <1>13, <1>14

--------------------------------------------------------------------------------
(* The theorems.                                                             *)

\* The daemon starts in a state of the invariant: nothing runs.
LEMMA InitSlotInv == Init => SlotInv
<1> SUFFICES ASSUME Init PROVE SlotInv
  OBVIOUS
<1>1. \A s \in {"PENDING", "INACTIVE", "FINISHED"} :
        /\ [NewDownload EXCEPT !.status = s] \in Record
        /\ ~[NewDownload EXCEPT !.status = s].running
        /\ [NewDownload EXCEPT !.status = s].status # "RUNNING"
  BY NewDownloadLemma DEF Record, DownloadRecord, Status
<1>2. /\ dl \in [Downloads -> Record]
      /\ \A d \in Downloads : ~dl[d].running /\ dl[d].status # "RUNNING"
  <2> DEFINE Restored(s) == [NewDownload EXCEPT !.status = s]
             First == {Restored(s) : s \in {"PENDING", "INACTIVE", "FINISHED"}}
  <2>1. dl \in [Downloads -> First]
    BY DEF Init
  <2>2. \A r \in First : r \in Record /\ ~r.running /\ r.status # "RUNNING"
    BY <1>1
  <2> HIDE DEF First
  <2> QED BY <2>1, <2>2
<1>3. st \in [Starters -> [pc : StarterPC, dl : Downloads \cup {NoDownload}]]
  BY DEF Init, IdleStarter, StarterPC
<1>4. wk \in [Workers -> [pc : WorkerPC, dl : Downloads \cup {NoDownload}]]
  BY DEF Init, WorkerPC
<1>5. /\ inDlTime \in BOOLEAN
      /\ list \in Seq(Downloads)
      /\ mx \in Starters \cup {NoThread} /\ leaked \in Workers \cup {NoThread}
      /\ isReconnecting \in BOOLEAN
      /\ rec \in [Reconnectors -> {"idle", "begin", "mark", "router", "unmark"}]
      /\ stranded \subseteq Downloads
  BY ConfigAssumption DEF Init
<1>6. seen \in [Downloads -> Status]
  BY DEF Init, Nothing, Status
<1>7. cmd \in [Clients -> [op : {"none", "zerowait"} \cup CommandStatus,
                           dl : Downloads \cup {NoDownload}]]
  BY DEF Init, NoCommand
<1>8. TickTyped
  BY <1>5, ConfigAssumption DEF Init, NextSecond, TickTyped, TickerPC
<1>9. TypeOK
  BY <1>2, <1>3, <1>4, <1>5, <1>6, <1>7, <1>8 DEF TypeOK, TickTyped, Record
<1>10. WorkerHasDownload
  BY DEF Init, WorkerHasDownload
<1> QED BY <1>2, <1>9, <1>10 DEF SlotInv, RunningHasWorker, SlotHasWorker

\* Every step of the daemon preserves the invariant.
LEMMA NextSlotInv == SlotInv /\ [Next]_vars => SlotInv'
<1> SUFFICES ASSUME SlotInv, [Next]_vars PROVE SlotInv'
  OBVIOUS
<1>1. CASE StartNext
  <2>1. PICK t \in Starters : StarterStep(t)
    BY <1>1 DEF StartNext, StarterStep
  <2> QED BY <2>1, StarterPreserves
<1>2. CASE WorkerNext
  <2>1. PICK w \in Workers : WorkerProgress(w) \/ PluginSetsWait(w) \/ CaptchaFails(w)
    BY <1>2 DEF WorkerNext, WorkerProgress
  <2> QED BY <2>1, WorkerPreserves
<1>3. CASE ReconnectNext
  <2>1. PICK t \in Reconnectors : ReconnectStep(t)
    BY <1>3 DEF ReconnectNext, ReconnectStep
  <2> QED BY <2>1, ReconnectPreserves
<1>4. CASE TickNext \/ ClockTurns
  BY <1>4, TickPreserves
<1>5. CASE ClientNext
  BY <1>5, ClientPreserves
<1>6. CASE UNCHANGED vars
  <2>1. /\ UNCHANGED <<list, dl, mx, leaked, isReconnecting, inDlTime>>
        /\ UNCHANGED <<wk, st, rec, seen, stranded, cmd, tick>>
    BY <1>6 DEF vars
  <2>2. TypeOK'
    BY <2>1 DEF SlotInv, TypeOK
  <2> QED BY <2>1, <2>2, FrameLemma DEF SlotInv
<1> QED BY <1>1, <1>2, <1>3, <1>4, <1>5, <1>6 DEF Next

\* The inductive invariant of the slots.
LEMMA SlotInvariant == Spec => []SlotInv
BY InitSlotInv, NextSlotInv, PTL DEF Spec

\* The variables keep their types: in particular no wait counter goes below 0,
\* although decrease_waits reads it, tests it and writes it in separate holds of
\* the object's mutex and other threads may set it to 0 between any two of them.
THEOREM TypeCorrect == Spec => []TypeOK
<1>1. SlotInv => TypeOK
  BY DEF SlotInv
<1> QED BY <1>1, SlotInvariant, PTL

\* A download with status RUNNING has a download_me thread that has still to
\* turn RUNNING into something else, however many threads start, stop, delete
\* and reconnect it: only a thread that could not be created leaves one behind.
THEOREM NoneStaysRunning == Spec => []RunningHasWorker
<1>1. SlotInv => RunningHasWorker
  BY DEF SlotInv
<1> QED BY <1>1, SlotInvariant, PTL

\* An is_running flag, one unit of simultaneous_downloads, is held on behalf of
\* a download_me thread that has still to give it back.
THEOREM NoSlotLeaks == Spec => []SlotHasWorker
<1>1. SlotInv => SlotHasWorker
  BY DEF SlotInv
<1> QED BY <1>1, SlotInvariant, PTL
==============================================================================
