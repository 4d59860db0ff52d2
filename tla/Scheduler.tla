------------------------------- MODULE Scheduler -------------------------------
(***************************************************************************)
(* The scheduling core of DownloadDaemon: the download list                *)
(* (package_container and download_container), the threads that start     *)
(* downloads, the download_me thread of each started download, the thread *)
(* that ticks once per second, the reconnect threads, and the management  *)
(* clients that activate, deactivate, stop, delete and add downloads.     *)
(*                                                                         *)
(* One step is what a thread does under one uninterrupted hold of the     *)
(* mutexes it needs.  package_container::mx is a variable because threads  *)
(* keep it over several steps, the object mutex of a download is not: its  *)
(* sections are single steps.  The list is the one package's downloads in  *)
(* list order.                                                             *)
(***************************************************************************)
EXTENDS DownloadState, Sequences, SequencesExt, FiniteSets

CONSTANTS
  Downloads,      \* download objects (and their ids)
  Clients,        \* management connections, one thread each
  Workers,        \* slots for download_me threads: how many can exist at once
  Helpers,        \* slots for detached threads that call start_next_downloadable
                  \* or correct_invalid_ids; a bound on how many exist at once
  Reconnectors,   \* slots for do_reconnect threads; a bound as well
  Ticker,         \* do_once_per_second
  NoThread, NoDownload,
  InitialList,    \* sequence of downloads in the list at start-up
  Limit,          \* simultaneous_downloads
  HostOf,         \* function from Downloads to hosts
  ParallelHosts,  \* hosts whose plugin sets allows_multiple
  HasPlugin,      \* downloads with a host plugin, the others are generic
  HasPostProcess, \* downloads whose plugin exports post_process_dl_init
  Resumable,      \* downloads whose host allows_resumption
  Proxies,        \* number of proxies in proxy_list
  Policy,         \* reconnect_policy, or "OFF" without enable_reconnect
  RouterModelSet, \* is router_model configured?
  Timed,          \* may the download time begin and end?
  Commands,       \* commands the clients issue
  MaxWait,        \* bound on every wait time
  ErrorWaits      \* what auth_fail_wait, plugin_fail_wait, ... may be set to

Starters == Clients \cup Helpers \cup Reconnectors \cup {Ticker}
Policies == {"OFF", "HARD", "CONTINUE", "SOFT", "PUSSY"}
AllCommands == {"ACTIVATE", "DEACTIVATE", "DEL", "STOP", "ADD", "LIST"}

ASSUME ThreadsAssumption ==
  /\ NoDownload \notin Downloads
  /\ NoThread \notin Starters \cup Workers
  /\ Starters \cap Workers = {}
  /\ Ticker \notin Clients \cup Helpers \cup Reconnectors
  /\ Clients \cap (Helpers \cup Reconnectors) = {}
  /\ Helpers \cap Reconnectors = {}

ASSUME ConfigAssumption ==
  /\ InitialList \in Seq(Downloads)
  /\ IsInjective(InitialList)
  /\ Limit \in Nat /\ MaxWait \in Nat /\ Proxies \in Nat
  /\ HasPostProcess \subseteq HasPlugin
  /\ ErrorWaits \subseteq 0 .. MaxWait
  /\ Policy \in Policies
  /\ RouterModelSet \in BOOLEAN /\ Timed \in BOOLEAN

VARIABLES
  list,           \* the downloads in the list, in list order
  dl,             \* dl[d], the state of download object d
  mx,             \* holder of package_container::mx, or NoThread
  leaked,         \* worker that owns download_mutex for good, or NoThread
  isReconnecting, \* package_container::is_reconnecting
  inDlTime,       \* what in_dl_time_and_dl_active() would answer now
  wk,             \* wk[w]: a download_me thread and its download
  st,             \* st[t]: where thread t is in start_next_downloadable
  rec,            \* rec[r]: where thread r is in do_reconnect
  seen,           \* statuses read by the reconnect thread that holds mx
  stranded,       \* downloads marked running whose thread was not created
  cmd,            \* cmd[c]: command client c has still to carry out
  tick            \* state of do_once_per_second

vars == <<list, dl, mx, leaked, isReconnecting, inDlTime,
          wk, st, rec, seen, stranded, cmd, tick>>

--------------------------------------------------------------------------------
(* State formulae.                                                          *)

Listed == Range(list)
NumRunning == Cardinality({d \in Listed : dl[d].running})

\* package_container::mx can be locked by t (the mutex is recursive), and so
\* can the download_mutex that every list operation also takes.
CanLock(t) == mx \in {NoThread, t} /\ leaked \in {NoThread, t}

WorkerPC == {"free", "spawned", "prepare", "gaveup", "countdown", "setup",
             "transfer", "postproc", "settle", "askrec", "finishing",
             "release", "tail"}
StarterPC == {"idle", "lock", "entry", "scan", "picked"}
TickerPC == {"purge", "count", "write", "look", "zero", "ask", "over"}

\* Errors are told apart only where the configuration lets them matter.
PluginError == IF Proxies > 0 THEN "CONNECTION" ELSE "NONE"
LimitReached == IF Proxies > 0 \/ Policy # "OFF" THEN "LIMIT" ELSE "NONE"
Failures == {PluginError, "NONE"}

\* Program counters at which download_me has not yet cleared is_running.
HoldsSlot == WorkerPC \ {"free", "tail"}
\* ... and at which it has not yet turned RUNNING into PENDING.
Unsettled == HoldsSlot \ {"askrec", "finishing", "release"}

\* What a status command sets.
CommandStatus == {"PENDING", "INACTIVE", "DELETED"}

IdleStarter == [pc |-> "idle", dl |-> NoDownload]
NoCommand == [op |-> "none", dl |-> NoDownload]
Nothing == [d \in Downloads |-> "DELETED"]
NextSecond == [pc |-> "purge", at |-> 0, wait |-> 0, wasIn |-> inDlTime]

TypeOK ==
  /\ list \in Seq(Downloads)
  /\ dl \in [Downloads -> DownloadRecord(MaxWait, Proxies)]
  /\ mx \in Starters \cup {NoThread}
  /\ leaked \in Workers \cup {NoThread}
  /\ isReconnecting \in BOOLEAN /\ inDlTime \in BOOLEAN
  /\ wk \in [Workers -> [pc : WorkerPC, dl : Downloads \cup {NoDownload}]]
  /\ st \in [Starters -> [pc : StarterPC, dl : Downloads \cup {NoDownload}]]
  /\ rec \in [Reconnectors -> {"idle", "begin", "mark", "router", "unmark"}]
  /\ seen \in [Downloads -> Status]
  /\ stranded \subseteq Downloads
  /\ cmd \in [Clients -> [op : {"none", "zerowait"} \cup CommandStatus,
                          dl : Downloads \cup {NoDownload}]]
  /\ tick \in [pc : TickerPC, at : Nat, wait : 0 .. MaxWait, wasIn : BOOLEAN]
  /\ tick.pc = "write" => tick.wait > 0

\* download_container::get_next_downloadable accepts d.
Startable(d) ==
  /\ dl[d].status = "PENDING" /\ dl[d].wait = 0 /\ ~dl[d].running
  /\ \/ HostOf[d] \in ParallelHosts
     \/ \A e \in Listed : HostOf[e] = HostOf[d] =>
          ~dl[e].running /\ dl[e].status # "WAITING"

\* Fault: the limit is compared with <= instead of <.
IsNextAtLimit(d) == inDlTime /\ NumRunning <= Limit /\ d \in Listed /\ Startable(d)

\* package_container::get_next_downloadable returns d.
IsNext(d) ==
  /\ inDlTime
  /\ NumRunning < Limit
  /\ \E i \in DOMAIN list :
       /\ list[i] = d
       /\ Startable(d)
       /\ \A j \in 1 .. i - 1 : ~Startable(list[j])

NoneNext == \A d \in Listed : ~IsNext(d)

\* A detached thread is created that begins at pc.
Detached(pc) ==
  \E h \in Helpers : st[h].pc = "idle" /\ st' = [st EXCEPT ![h].pc = pc]

\* Thread t leaves start_next_downloadable.  The caller of a locked call
\* releases mx, except the ticker that goes on with its list; a client whose
\* set_status call returns goes on to the handler's own, unlocked, call.
Returned(t) ==
  /\ st' = [st EXCEPT ![t] =
              [pc |-> IF t \in Clients /\ mx = t THEN "entry" ELSE "idle",
               dl |-> NoDownload]]
  /\ mx' = IF mx = t /\ t # Ticker THEN NoThread ELSE mx

--------------------------------------------------------------------------------
(* start_next_downloadable, by any thread, with or without mx.              *)

\* A caller that locks mx for the call, and keeps it till the end of the loop.
LockStart(t) ==
  /\ st[t].pc = "lock"
  /\ CanLock(t)
  /\ IF isReconnecting
       THEN st' = [st EXCEPT ![t].pc = "idle"] /\ UNCHANGED mx
       ELSE st' = [st EXCEPT ![t].pc = "scan"] /\ mx' = t
  /\ UNCHANGED <<list, dl, leaked, isReconnecting, inDlTime,
                 wk, rec, seen, stranded, cmd, tick>>

\* A call without mx: is_reconnecting may change as soon as it was looked at.
EnterStart(t) ==
  /\ st[t].pc = "entry"
  /\ ~(t \in Clients /\ cmd[t].op = "zerowait")
  /\ st' = [st EXCEPT ![t].pc = IF isReconnecting THEN "idle" ELSE "scan"]
  /\ UNCHANGED <<list, dl, mx, leaked, isReconnecting, inDlTime,
                 wk, rec, seen, stranded, cmd, tick>>

\* get_next_downloadable finds a download ...
PickNext(t) ==
  /\ st[t].pc = "scan"
  /\ CanLock(t)
  /\ \E d \in Listed :
       /\ IsNext(d)
       /\ st' = [st EXCEPT ![t] = [pc |-> "picked", dl |-> d]]
  /\ UNCHANGED <<list, dl, mx, leaked, isReconnecting, inDlTime,
                 wk, rec, seen, stranded, cmd, tick>>

\* ... or none, which ends the loop.
PickNone(t) ==
  /\ st[t].pc = "scan"
  /\ CanLock(t)
  /\ NoneNext
  /\ Returned(t)
  /\ UNCHANGED <<list, dl, leaked, isReconnecting, inDlTime,
                 wk, rec, seen, stranded, cmd, tick>>

\* do_download of what was picked, which is not looked at again.  Without a
\* free slot no thread can be created: that is logged, and nothing is undone.
DoDownload(t) ==
  LET d == st[t].dl IN
  /\ st[t].pc = "picked"
  /\ CanLock(t)
  /\ st' = [st EXCEPT ![t] = [pc |-> "scan", dl |-> NoDownload]]
  /\ IF d \in Listed
       THEN /\ dl' = [dl EXCEPT ![d] =
                        SetStatus([@ EXCEPT !.running = TRUE], "RUNNING")]
            /\ \/ \E w \in Workers :
                    /\ wk[w].pc = "free"
                    /\ wk' = [wk EXCEPT ![w] = [pc |-> "spawned", dl |-> d]]
                    /\ UNCHANGED stranded
               \/ /\ \A w \in Workers : wk[w].pc # "free"
                  /\ stranded' = stranded \cup {d}
                  /\ UNCHANGED wk
       ELSE UNCHANGED <<dl, wk, stranded>>
  /\ UNCHANGED <<list, mx, leaked, isReconnecting, inDlTime,
                 rec, seen, cmd, tick>>

StartNext ==
  \E t \in Starters :
    \/ LockStart(t)
    \/ EnterStart(t)
    \/ PickNext(t)
    \/ PickNone(t)
    \/ DoDownload(t)

--------------------------------------------------------------------------------
(* download_me, one thread per started download.                            *)

\* Worker w moves to pc and leaves its download in state r.
WorkerStep(w, pc, r) ==
  /\ wk' = [wk EXCEPT ![w].pc = pc]
  /\ dl' = [dl EXCEPT ![wk[w].dl] = r]
  /\ stranded' = IF r.running \/ r.status = "RUNNING"
                  THEN stranded ELSE stranded \ {wk[w].dl}
  /\ UNCHANGED <<list, leaked, isReconnecting, inDlTime, seen, cmd, tick>>

WorkerStarts(w) ==
  /\ wk[w].pc = "spawned"
  /\ WorkerStep(w, "prepare", [dl[wk[w].dl] EXCEPT !.needStop = FALSE])
  /\ UNCHANGED <<mx, st, rec>>

\* The host plugin calls set_wait_time.
PluginSetsWait(w) ==
  /\ wk[w].pc = "prepare"
  /\ wk[w].dl \in HasPlugin
  /\ \E n \in 1 .. MaxWait :
       WorkerStep(w, "prepare", [dl[wk[w].dl] EXCEPT !.wait = n])
  /\ UNCHANGED <<mx, st, rec>>

\* The plugin throws captcha_exception.
CaptchaFails(w) ==
  /\ wk[w].pc = "prepare"
  /\ wk[w].dl \in HasPlugin
  /\ WorkerStep(w, "gaveup", SetStatus(dl[wk[w].dl], "INACTIVE"))
  /\ UNCHANGED <<mx, st, rec>>

\* prepare_download returns and the worker acts on the plugin's status, unless
\* it was told to stop or its status was changed meanwhile.  A plugin run
\* ends with a correct_invalid_ids thread.
Prepared(w) ==
  LET d == wk[w].dl
      r == dl[d]
      failed == wk[w].pc = "gaveup"
  IN
  /\ wk[w].pc \in {"prepare", "gaveup"}
  /\ IF d \in HasPlugin THEN Detached("lock") ELSE UNCHANGED st
  /\ \/ /\ r.needStop \/ r.status # "RUNNING"
        /\ WorkerStep(w, "settle", r)
     \/ /\ ~r.needStop /\ r.status = "RUNNING"
        /\ \/ /\ d \in HasPlugin
              /\ \E n \in ErrorWaits, e \in IF failed THEN {PluginError} ELSE Failures :
                   WorkerStep(w, "settle", RetryLater(r, n, e))
           \/ /\ d \in HasPlugin /\ ~failed
              /\ \E e \in Failures :
                   WorkerStep(w, "settle", GiveUp(r, e))
           \/ /\ d \in HasPlugin /\ ~failed
              /\ \E e \in {LimitReached, "NONE"} :
                   WorkerStep(w, "settle",
                              [r EXCEPT !.status = "WAITING", !.error = e])
           \/ /\ ~failed
              /\ WorkerStep(w, IF r.wait > 0 THEN "countdown" ELSE "setup",
                            [r EXCEPT !.error = "NONE"])
  /\ UNCHANGED <<mx, rec>>

\* wait() ends when the ticker, or a set_status, has brought wait to 0.
CountdownOver(w) ==
  /\ wk[w].pc = "countdown"
  /\ dl[wk[w].dl].wait = 0
  /\ WorkerStep(w, "setup", dl[wk[w].dl])
  /\ UNCHANGED <<mx, st, rec>>

\* The download directory, the resume position and the curl handle are set up.
SetUp(w) ==
  LET r == dl[wk[w].dl] IN
  /\ wk[w].pc = "setup"
  /\ IF r.needStop
       THEN WorkerStep(w, "settle", r)
       ELSE \/ WorkerStep(w, "transfer", r)
            \/ WorkerStep(w, "settle", GiveUp(r, "NONE"))
            \/ /\ wk[w].dl \in HasPlugin
               /\ \E n \in ErrorWaits :
                    WorkerStep(w, "settle", RetryLater(r, n, PluginError))
  /\ UNCHANGED <<mx, st, rec>>

\* curl reports success; post_process_download runs the plugin's function, if
\* there is one, and marks the download running while it does.
TransferDone(w) ==
  LET d == wk[w].dl
      r == [dl[d] EXCEPT !.status = "FINISHED"]
  IN
  /\ wk[w].pc = "transfer"
  /\ \/ /\ d \notin HasPostProcess
        /\ WorkerStep(w, "settle", r)
     \/ /\ d \in HasPostProcess
        /\ WorkerStep(w, "postproc", [r EXCEPT !.running = TRUE])
  /\ UNCHANGED <<mx, st, rec>>

PostProcessed(w) ==
  /\ wk[w].pc = "postproc"
  /\ WorkerStep(w, "settle", [dl[wk[w].dl] EXCEPT !.running = FALSE])
  /\ UNCHANGED <<mx, st, rec>>

\* The http code or the curl result ends the transfer: for good, until the
\* configured wait is over, or to be repeated without resumption.
TransferFails(w) ==
  LET r == dl[wk[w].dl] IN
  /\ wk[w].pc = "transfer"
  /\ \/ \E e \in Failures : WorkerStep(w, "settle", GiveUp(r, e))
     \/ \E n \in ErrorWaits, e \in Failures \cup {r.error} :
          WorkerStep(w, "settle", RetryLater(r, n, e))
     \/ /\ wk[w].dl \in Resumable
        /\ WorkerStep(w, "settle", [r EXCEPT !.status = "PENDING"])
  /\ UNCHANGED <<mx, st, rec>>

\* report_progress sees need_stop and curl aborts.
TransferAborted(w) ==
  /\ wk[w].pc = "transfer"
  /\ dl[wk[w].dl].needStop
  /\ WorkerStep(w, "settle", dl[wk[w].dl])
  /\ UNCHANGED <<mx, st, rec>>

\* Fault: a download that ends while RUNNING stays so.
StaysRunning(r) == r

\* download_me after download_me_worker has returned: what RUNNING becomes.
Unstarted(r) ==
  IF r.status = "RUNNING" THEN [r EXCEPT !.status = "PENDING", !.wait = 0] ELSE r

\* Fault: is_running is not cleared.
ReleaseWithoutFlag(w, r) ==
  /\ WorkerStep(w, "tail", [r EXCEPT !.needStop = FALSE])
  /\ Detached("entry")

\* Fault: the ended download does not make the scheduler look for the next.
ReleaseSilently(w, r) ==
  /\ WorkerStep(w, "tail", [r EXCEPT !.needStop = FALSE, !.running = FALSE])
  /\ UNCHANGED st

\* The last locked section: the flags are cleared and the thread that looks
\* for the next download is spawned.
ReleaseSlot(w, r) ==
  /\ WorkerStep(w, "tail", [r EXCEPT !.needStop = FALSE, !.running = FALSE])
  /\ Detached("entry")

\* A limit that no further proxy evades leads to the reconnect question, any
\* other end to the last section, by way of the package's extraction if the
\* download is finished.
Settle(w) ==
  LET r == Unstarted(dl[wk[w].dl])
      limited == r.status = "WAITING" /\ r.error = "LIMIT"
      proxied == /\ HasNextProxy(r, Proxies)
                 /\ limited \/ (r.error = "CONNECTION" /\ r.proxy > 0)
      direct == [r EXCEPT !.proxy = 0]
  IN
  /\ wk[w].pc = "settle"
  /\ \/ proxied /\ ReleaseSlot(w, RetryWithProxy(r, Proxies))
     \/ /\ ~proxied /\ limited
        /\ WorkerStep(w, "askrec", direct)
        /\ UNCHANGED st
     \/ /\ ~proxied /\ r.status = "FINISHED"
        /\ WorkerStep(w, "finishing", direct)
        /\ UNCHANGED st
     \/ /\ ~proxied /\ ~limited /\ r.status # "FINISHED"
        /\ ReleaseSlot(w, direct)
  /\ UNCHANGED <<mx, rec>>

\* reconnect_needed: some download waits for a new address, and the policy
\* does not mind the ones that run.
LimitWaiting == \E d \in Listed : dl[d].status = "WAITING" /\ dl[d].error = "LIMIT"
RunningBlocks ==
  \E d \in Listed : /\ dl[d].status = "RUNNING"
                    /\ (Policy \in {"SOFT", "PUSSY"} \/ d \notin Resumable)
ReconnectNeeded ==
  /\ Policy # "OFF"
  /\ LimitWaiting
  /\ Policy = "HARD" \/ ~RunningBlocks
  /\ Policy = "PUSSY" => NoneNext

\* The early return of the policies that look at the running downloads leaves
\* the package's download_mutex locked by a thread that will end.
AskReconnect(w) ==
  /\ wk[w].pc = "askrec"
  /\ CanLock(w)
  /\ wk' = [wk EXCEPT ![w].pc = "release"]
  /\ IF ReconnectNeeded
       THEN \E r \in Reconnectors : /\ rec[r] = "idle" /\ st[r].pc = "idle"
                                     /\ rec' = [rec EXCEPT ![r] = "begin"]
       ELSE UNCHANGED rec
  /\ leaked' = IF Policy \in {"CONTINUE", "SOFT", "PUSSY"} /\ LimitWaiting /\ RunningBlocks
                  THEN w ELSE leaked
  /\ UNCHANGED <<list, dl, mx, isReconnecting, inDlTime, st, seen, stranded, cmd, tick>>

\* package_finished and extract_package look at the list.
FinishPackage(w) ==
  /\ wk[w].pc = "finishing"
  /\ CanLock(w)
  /\ WorkerStep(w, "release", dl[wk[w].dl])
  /\ UNCHANGED <<mx, st, rec>>

Release(w) ==
  /\ wk[w].pc = "release"
  /\ ReleaseSlot(w, dl[wk[w].dl])
  /\ UNCHANGED <<mx, rec>>

\* The thread still dumps the list, posts the download to the subscribers and
\* reads its status for the post-download script.
WorkerEnds(w) ==
  /\ wk[w].pc = "tail"
  /\ CanLock(w)
  /\ wk' = [wk EXCEPT ![w] = [pc |-> "free", dl |-> NoDownload]]
  /\ UNCHANGED <<list, dl, mx, leaked, isReconnecting, inDlTime,
                 st, rec, seen, stranded, cmd, tick>>

WorkerNext ==
  \E w \in Workers :
    \/ WorkerStarts(w) \/ PluginSetsWait(w) \/ CaptchaFails(w) \/ Prepared(w)
    \/ CountdownOver(w) \/ SetUp(w)
    \/ TransferDone(w) \/ PostProcessed(w) \/ TransferFails(w) \/ TransferAborted(w)
    \/ Settle(w) \/ AskReconnect(w) \/ FinishPackage(w) \/ Release(w) \/ WorkerEnds(w)

--------------------------------------------------------------------------------
(* do_reconnect, in a thread of its own.                                    *)

\* Fault: a second reconnect does not see that one is in progress.
BeginSecondReconnect(t) ==
  /\ rec[t] = "begin"
  /\ CanLock(t)
  /\ rec' = [rec EXCEPT ![t] = "mark"]
  /\ mx' = t
  /\ isReconnecting' = TRUE
  /\ seen' = [d \in Downloads |-> dl[d].status]
  /\ UNCHANGED <<list, dl, leaked, inDlTime, wk, st, stranded, cmd, tick>>

\* is_reconnecting is the guard; the thread reads the statuses it goes by.
BeginReconnect(t) ==
  /\ rec[t] = "begin"
  /\ CanLock(t)
  /\ IF isReconnecting \/ ~RouterModelSet
       THEN rec' = [rec EXCEPT ![t] = "idle"] /\ UNCHANGED <<mx, isReconnecting, seen, stranded>>
       ELSE /\ rec' = [rec EXCEPT ![t] = "mark"]
            /\ mx' = t
            /\ isReconnecting' = TRUE
            /\ seen' = [d \in Downloads |->
                          IF d \in Listed THEN dl[d].status ELSE "DELETED"]
  /\ UNCHANGED <<list, dl, leaked, inDlTime, wk, st, stranded, cmd, tick>>

\* What the reconnect makes of a download it saw in status s.
Reconnected(r, s) ==
  CASE s = "WAITING" -> [SetStatus(r, "RECONNECTING") EXCEPT !.wait = 0]
    [] s = "RUNNING" -> SetStatus([r EXCEPT !.needStop = TRUE], "RECONNECTING")
    [] OTHER -> r

MarkDownloads(t) ==
  /\ rec[t] = "mark"
  /\ rec' = [rec EXCEPT ![t] = "router"]
  /\ dl' = [d \in Downloads |-> Reconnected(dl[d], seen[d])]
  /\ mx' = NoThread
  /\ seen' = Nothing
  /\ UNCHANGED <<list, leaked, isReconnecting, inDlTime, wk, st, stranded, cmd, tick>>

\* The router script, and the wait for a new address, are over.
RouterDone(t) ==
  /\ rec[t] = "router"
  /\ CanLock(t)
  /\ rec' = [rec EXCEPT ![t] = "unmark"]
  /\ mx' = t
  /\ seen' = [d \in Downloads |->
                IF d \in Listed THEN dl[d].status ELSE "DELETED"]
  /\ UNCHANGED <<list, dl, leaked, isReconnecting, inDlTime, wk, st, stranded, cmd, tick>>

\* Fault: only WAITING downloads are made PENDING again.
UnmarkedWaiting(r, s) ==
  IF s = "WAITING" THEN [SetStatus(r, "PENDING") EXCEPT !.wait = 0] ELSE r

\* What the end of the reconnect makes of a download it saw in status s.
Unmarked(r, s) ==
  IF s \in {"WAITING", "RECONNECTING"}
    THEN [SetStatus(r, "PENDING") EXCEPT !.wait = 0]
    ELSE r

\* Fault: the flag is not reset.
UnmarkWithoutFlag(t) ==
  /\ rec[t] = "unmark"
  /\ rec' = [rec EXCEPT ![t] = "idle"]
  /\ dl' = [d \in Downloads |-> Unmarked(dl[d], seen[d])]
  /\ seen' = Nothing
  /\ st' = [st EXCEPT ![t].pc = "scan"]
  /\ UNCHANGED <<list, mx, leaked, isReconnecting, inDlTime, wk, stranded, cmd, tick>>

UnmarkDownloads(t) ==
  /\ rec[t] = "unmark"
  /\ rec' = [rec EXCEPT ![t] = "idle"]
  /\ dl' = [d \in Downloads |-> Unmarked(dl[d], seen[d])]
  /\ isReconnecting' = FALSE
  /\ seen' = Nothing
  /\ st' = [st EXCEPT ![t].pc = "scan"]
  /\ UNCHANGED <<list, mx, leaked, inDlTime, wk, stranded, cmd, tick>>

ReconnectNext ==
  \E t \in Reconnectors : \/ BeginReconnect(t) \/ MarkDownloads(t)
                          \/ RouterDone(t) \/ UnmarkDownloads(t)

--------------------------------------------------------------------------------
(* do_once_per_second.                                                      *)

\* Fault: the is_running flag is read the wrong way round.
PurgeableWhileRunning(i) == dl[list[i]].status = "DELETED" /\ dl[list[i]].running

Purgeable(i) == dl[list[i]].status = "DELETED" /\ ~dl[list[i]].running

\* purge_deleted destroys a deleted download that is not flagged running ...
PurgeOne ==
  /\ tick.pc = "purge"
  /\ st[Ticker].pc = "idle"
  /\ CanLock(Ticker)
  /\ \E i \in DOMAIN list : Purgeable(i) /\ list' = RemoveAt(list, i)
  /\ UNCHANGED <<dl, mx, leaked, isReconnecting, inDlTime,
                 wk, st, rec, seen, stranded, cmd, tick>>

\* ... until there is none left, and decrease_waits begins.
DecreaseBegins ==
  /\ tick.pc = "purge"
  /\ st[Ticker].pc = "idle"
  /\ CanLock(Ticker)
  /\ \A i \in DOMAIN list : ~Purgeable(i)
  /\ tick' = [tick EXCEPT !.pc = "count", !.at = 1]
  /\ mx' = Ticker
  /\ UNCHANGED <<list, dl, leaked, isReconnecting, inDlTime,
                 wk, st, rec, seen, stranded, cmd>>

\* The ticker is at a step of decrease_waits for a download of the list, and
\* goes on, with the same download or the next one.
Counting(pc) ==
  /\ tick.pc = pc
  /\ st[Ticker].pc = "idle"
  /\ tick.at \in DOMAIN list
  /\ UNCHANGED <<list, mx, leaked, isReconnecting, inDlTime, wk, rec, seen, stranded, cmd>>

SameDownload(pc, n) == tick' = [tick EXCEPT !.pc = pc, !.wait = n]
NextDownload == tick' = [tick EXCEPT !.pc = "count", !.at = @ + 1, !.wait = 0]

\* decrease_waits keeps mx, but the object's mutex only for each call: the
\* download_me thread and its plugin may write the counter and the status
\* between any two of them.  get_wait ...
ReadWait ==
  /\ Counting("count")
  /\ LET n == dl[list[tick.at]].wait IN SameDownload(IF n > 0 THEN "write" ELSE "ask", n)
  /\ UNCHANGED <<dl, st>>

\* Fault: the counter itself is decremented, instead of the value read.
DecrementWait ==
  /\ Counting("write")
  /\ dl' = [dl EXCEPT ![list[tick.at]].wait = @ - 1]
  /\ SameDownload("look", 0)
  /\ UNCHANGED st

\* ... set_wait(wait - 1), over whatever has been written since ...
WriteWait ==
  /\ Counting("write")
  /\ dl' = [dl EXCEPT ![list[tick.at]].wait = tick.wait - 1]
  /\ SameDownload("look", 0)
  /\ UNCHANGED st

\* ... get_status, which ends the visit unless the download is inactive ...
LookAtStatus ==
  /\ Counting("look")
  /\ IF dl[list[tick.at]].status = "INACTIVE" THEN SameDownload("zero", 0) ELSE NextDownload
  /\ UNCHANGED <<dl, st>>

\* ... and set_wait(0) for one that is.
ZeroWait ==
  /\ Counting("zero")
  /\ dl' = [dl EXCEPT ![list[tick.at]].wait = 0]
  /\ NextDownload
  /\ UNCHANGED st

\* A download without a wait is asked whether it is WAITING ...
AskStatus ==
  /\ Counting("ask")
  /\ IF dl[list[tick.at]].status = "WAITING" THEN SameDownload("over", 0) ELSE NextDownload
  /\ UNCHANGED <<dl, st>>

\* Fault: a download whose wait is over stays WAITING.
OverButWaiting ==
  /\ Counting("over")
  /\ NextDownload
  /\ st' = IF isReconnecting THEN st ELSE [st EXCEPT ![Ticker].pc = "scan"]
  /\ UNCHANGED dl

\* ... and becomes PENDING, and downloads are started before the loop goes on.
WaitOver ==
  /\ Counting("over")
  /\ dl' = [dl EXCEPT ![list[tick.at]] = SetStatus(@, "PENDING")]
  /\ NextDownload
  /\ st' = IF isReconnecting THEN st ELSE [st EXCEPT ![Ticker].pc = "scan"]

DecreaseWaits ==
  ReadWait \/ WriteWait \/ LookAtStatus \/ ZeroWait \/ AskStatus \/ WaitOver

\* decrease_waits is through the list; the start of the download time starts
\* downloads, without mx.
DecreaseDone ==
  /\ tick.pc = "count"
  /\ st[Ticker].pc = "idle"
  /\ tick.at \notin DOMAIN list
  /\ tick' = NextSecond
  /\ mx' = NoThread
  /\ st' = IF ~tick.wasIn /\ inDlTime THEN [st EXCEPT ![Ticker].pc = "entry"] ELSE st
  /\ UNCHANGED <<list, dl, leaked, isReconnecting, inDlTime,
                 wk, rec, seen, stranded, cmd>>

\* The clock passes download_timing_start or _end, or downloading_active is set.
ClockTurns ==
  /\ Timed
  /\ inDlTime' = ~inDlTime
  /\ UNCHANGED <<list, dl, mx, leaked, isReconnecting,
                 wk, st, rec, seen, stranded, cmd, tick>>

TickNext ==
  PurgeOne \/ DecreaseBegins \/ DecreaseWaits \/ DecreaseDone

--------------------------------------------------------------------------------
(* Management commands.  A status command first looks its download up, and  *)
(* at its status, in locked sections of their own.                          *)

ClientIdle(c) == st[c].pc = "idle" /\ cmd[c].op = "none"

LookUp(c, command, from, s) ==
  /\ command \in Commands
  /\ ClientIdle(c)
  /\ CanLock(c)
  /\ \E d \in Listed : /\ dl[d].status \in from
                       /\ cmd' = [cmd EXCEPT ![c] = [op |-> s, dl |-> d]]
  /\ UNCHANGED <<list, dl, mx, leaked, isReconnecting, inDlTime,
                 wk, st, rec, seen, stranded, tick>>

Activate(c) == LookUp(c, "ACTIVATE", {"INACTIVE"}, "PENDING")
Deactivate(c) == LookUp(c, "DEACTIVATE", Status \ {"INACTIVE"}, "INACTIVE")
Delete(c) == LookUp(c, "DEL", Status, "DELETED")

\* package_container::set_status, which starts downloads while it holds mx.
CommandSetsStatus(c) ==
  LET d == cmd[c].dl IN
  /\ cmd[c].op \in CommandStatus
  /\ CanLock(c)
  /\ dl' = IF d \in Listed THEN [dl EXCEPT ![d] = SetStatus(@, cmd[c].op)] ELSE dl
  /\ IF isReconnecting
       THEN st' = [st EXCEPT ![c].pc = "entry"] /\ UNCHANGED mx
       ELSE st' = [st EXCEPT ![c].pc = "scan"] /\ mx' = c
  /\ cmd' = [cmd EXCEPT ![c] = IF cmd[c].op = "INACTIVE"
                                 THEN [op |-> "zerowait", dl |-> d] ELSE NoCommand]
  /\ UNCHANGED <<list, leaked, isReconnecting, inDlTime, wk, rec, seen, stranded, tick>>

\* The set_wait(id, 0) that ends target_dl_deactivate.
CommandZeroesWait(c) ==
  LET d == cmd[c].dl IN
  /\ cmd[c].op = "zerowait"
  /\ st[c].pc = "entry"
  /\ CanLock(c)
  /\ dl' = IF d \in Listed THEN [dl EXCEPT ![d].wait = 0] ELSE dl
  /\ cmd' = [cmd EXCEPT ![c] = NoCommand]
  /\ UNCHANGED <<list, mx, leaked, isReconnecting, inDlTime,
                 wk, st, rec, seen, stranded, tick>>

\* target_dl_stop, then the handler's start_next_downloadable.
Stop(c) ==
  /\ "STOP" \in Commands
  /\ ClientIdle(c)
  /\ CanLock(c)
  /\ \E d \in Listed : dl' = [dl EXCEPT ![d].needStop = TRUE]
  /\ st' = [st EXCEPT ![c].pc = "entry"]
  /\ UNCHANGED <<list, mx, leaked, isReconnecting, inDlTime,
                 wk, rec, seen, stranded, cmd, tick>>

\* DL ADD of an object that is not in the list and that no thread refers to.
Add(c) ==
  /\ "ADD" \in Commands
  /\ ClientIdle(c)
  /\ CanLock(c)
  /\ \E d \in Downloads \ Listed :
       /\ \A w \in Workers : wk[w].dl # d
       /\ list' = Append(list, d)
       /\ dl' = [dl EXCEPT ![d] = NewDownload]
  /\ st' = [st EXCEPT ![c].pc = "entry"]
  /\ UNCHANGED <<mx, leaked, isReconnecting, inDlTime, wk, rec, seen, stranded, cmd, tick>>

\* Any other DL, VAR or PREMIUM command: the handler starts downloads.
OtherCommand(c) ==
  /\ "LIST" \in Commands
  /\ ClientIdle(c)
  /\ st' = [st EXCEPT ![c].pc = "entry"]
  /\ UNCHANGED <<list, dl, mx, leaked, isReconnecting, inDlTime,
                 wk, rec, seen, stranded, cmd, tick>>

ClientNext ==
  \E c \in Clients :
    \/ Activate(c) \/ Deactivate(c) \/ Delete(c)
    \/ CommandSetsStatus(c) \/ CommandZeroesWait(c)
    \/ Stop(c) \/ Add(c) \/ OtherCommand(c)

--------------------------------------------------------------------------------
\* After from_file: nothing runs or waits.  The ticker is idle until main() has
\* called start_next_downloadable, so that call is made in its name.
Init ==
  /\ list = InitialList
  /\ dl \in [Downloads -> {[NewDownload EXCEPT !.status = s] :
                             s \in {"PENDING", "INACTIVE", "FINISHED"}}]
  /\ mx = NoThread
  /\ leaked = NoThread
  /\ isReconnecting = FALSE
  /\ inDlTime \in (IF Timed THEN BOOLEAN ELSE {TRUE})
  /\ wk = [w \in Workers |-> [pc |-> "free", dl |-> NoDownload]]
  /\ st = [t \in Starters |->
             IF t = Ticker THEN [pc |-> "entry", dl |-> NoDownload] ELSE IdleStarter]
  /\ rec = [t \in Reconnectors |-> "idle"]
  /\ seen = Nothing
  /\ stranded = {}
  /\ cmd = [c \in Clients |-> NoCommand]
  /\ tick = NextSecond

Next ==
  \/ StartNext \/ WorkerNext \/ ReconnectNext
  \/ TickNext \/ ClockTurns \/ ClientNext

Spec == Init /\ [][Next]_vars

--------------------------------------------------------------------------------
(* Fairness: every thread that can go on again and again does.  Threads get  *)
(* strong fairness because they compete for mx with the ticker, which takes  *)
(* it for a moment once per second.  A transfer ends (curl's low speed limit *)
(* aborts one that stalls), a plugin returns, a router script is tried a     *)
(* bounded number of times and its requests have curl's limits as well (see  *)
(* RouterScript).  Clients need not issue commands.                          *)

StarterStep(t) ==
  \/ LockStart(t) \/ EnterStart(t) \/ PickNext(t) \/ PickNone(t) \/ DoDownload(t)

WorkerProgress(w) ==
  \/ WorkerStarts(w) \/ Prepared(w) \/ CountdownOver(w) \/ SetUp(w)
  \/ TransferDone(w) \/ PostProcessed(w) \/ TransferFails(w) \/ TransferAborted(w)
  \/ Settle(w) \/ AskReconnect(w) \/ FinishPackage(w) \/ Release(w) \/ WorkerEnds(w)

ReconnectStep(t) ==
  BeginReconnect(t) \/ MarkDownloads(t) \/ RouterDone(t) \/ UnmarkDownloads(t)

Fairness ==
  /\ SF_vars(StarterStep(Ticker) \/ TickNext)
  /\ \A w \in Workers : SF_vars(WorkerProgress(w))
  /\ \A t \in Helpers : SF_vars(StarterStep(t))
  /\ \A t \in Reconnectors : SF_vars(StarterStep(t) \/ ReconnectStep(t))
  /\ \A c \in Clients :
       SF_vars(StarterStep(c) \/ CommandSetsStatus(c) \/ CommandZeroesWait(c))

FairSpec == Spec /\ Fairness

--------------------------------------------------------------------------------
(* Safety.                                                                   *)

WorkerOf(d, pcs) == \E w \in Workers : wk[w].dl = d /\ wk[w].pc \in pcs

\* No download is stuck in status RUNNING: a download_me thread that will
\* still look at the status (download.cpp:343) is working on it.
RunningHasWorker ==
  \A d \in Downloads :
    dl[d].status = "RUNNING" => WorkerOf(d, Unsettled) \/ d \in stranded

\* No slot leaks: an is_running flag, which counts against
\* simultaneous_downloads and keeps purge_deleted away, belongs to a
\* download_me thread that has still to clear it (download.cpp:377).
SlotHasWorker ==
  \A d \in Downloads :
    dl[d].running => WorkerOf(d, HoldsSlot) \/ d \in stranded

\* do_reconnect is exclusive, and is_reconnecting says whether it is going on.
Reconnecting(t) == rec[t] \in {"mark", "router", "unmark"}
OneReconnect ==
  /\ isReconnecting <=> \E t \in Reconnectors : Reconnecting(t)
  /\ \A t, u \in Reconnectors : Reconnecting(t) /\ Reconnecting(u) => t = u

\* Nobody but the reconnect thread ends the status RECONNECTING, so a download
\* has it only while that thread has still to visit it.
ReconnectingIsTransient ==
  \A d \in Downloads : dl[d].status = "RECONNECTING" =>
    \E t \in Reconnectors : \/ rec[t] = "router"
                            \/ rec[t] = "unmark" /\ seen[d] = "RECONNECTING"

\* Downloads whose is_running flag was set by post_process_download.
InPostProcess == {d \in Downloads : WorkerOf(d, {"postproc"})}

\* A thread that keeps mx from get_next_downloadable to do_download starts
\* nothing while a reconnect is going on, nothing that runs already, and
\* nothing beyond simultaneous_downloads, and not two downloads of a host that
\* allows one (the callers of start_next_downloadable that lock mx: set_status,
\* correct_invalid_ids, decrease_waits, do_reconnect).
LockedStartIsFresh ==
  LET running == {d \in Listed \ InPostProcess : dl[d].running} IN
  \A t \in Starters :
    mx = t /\ st[t].pc = "picked" =>
      /\ ~isReconnecting
      /\ st[t].dl \notin running
      /\ Cardinality(running) < Limit
      /\ \/ HostOf[st[t].dl] \in ParallelHosts
         \/ \A d \in running : HostOf[d] # HostOf[st[t].dl]

\* A step that starts a download or ends one never leaves a startable download
\* behind with no thread that will still look for it: only a counter that the
\* ticker writes and the clock make a download startable unnoticed.
Covered ==
  \/ NoneNext
  \/ \E t \in Starters : st[t].pc # "idle"
  \/ \E w \in Workers : wk[w].pc \in HoldsSlot
  \/ isReconnecting
WakeupsAreKept ==
  [][Covered => Covered' \/ WriteWait \/ ZeroWait \/ ClockTurns]_vars

(* Liveness.                                                                 *)

\* Every reconnect ends, and so does the hold-up of start_next_downloadable.
ReconnectEnds == isReconnecting ~> ~isReconnecting

\* Every slot is given back.
SlotIsReleased == \A d \in Downloads :
  dl[d].running ~> ~dl[d].running \/ d \in stranded

\* No download waits for ever.
WaitingEnds == \A d \in Downloads :
  dl[d].status = "WAITING" ~> dl[d].status # "WAITING"

\* A deleted download is destroyed, unless its worker puts another status over
\* DELETED, or there was no thread that could have cleared is_running.
DeletedIsPurged == \A d \in Downloads :
  dl[d].status = "DELETED" /\ d \in Listed ~>
    d \notin Listed \/ dl[d].status # "DELETED" \/ d \in stranded

(* What the documentation says and the code does not do.                     *)

\* purge_deleted "removes downloads that [...] are not in use any more".
PurgedIsUnused ==
  \A w \in Workers : wk[w].pc # "free" => wk[w].dl \in Listed

\* "SOFT will wait until all other downloads have finished" and then reconnect.
LimitIsOvercome == LimitWaiting ~> ~LimitWaiting
==============================================================================
