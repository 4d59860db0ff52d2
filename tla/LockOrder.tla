------------------------------- MODULE LockOrder -------------------------------
(***************************************************************************)
(* The two recursive mutexes under which downloads are started:            *)
(* package_container::mx, and global_mgmt::ns_mutex, which guards the      *)
(* download time.  start_next_downloadable takes ns_mutex while it has mx; *)
(* do_once_per_second takes them the other way round.                      *)
(*                                                                         *)
(* What the threads do to the list is the subject of module Scheduler,     *)
(* which has no ns_mutex.  Where a thread has mx only for the length of a  *)
(* call that takes no other mutex (purge_deleted, total_downloads,         *)
(* do_download), it is not seen here.                                      *)
(***************************************************************************)
EXTENDS Integers

CONSTANTS
  Callers,  \* handlers, download threads and others that start downloads
  TickerId, \* the thread of do_once_per_second
  NoCaller

ASSUME LockOrderAssumption ==
  TickerId \notin Callers /\ NoCaller \notin Callers \cup {TickerId}

VARIABLES
  listOwner, \* who has package_container::mx
  nsOwner,   \* who has global_mgmt::ns_mutex
  stage,     \* where each thread is
  keeps      \* does it keep mx while start_next_downloadable goes on?

lockVars == <<listOwner, nsOwner, stage, keeps>>

Everyone == Callers \cup {TickerId}

\* "find": wants mx to look for a download; "time": has it, and asks for the
\* download time; "set": sets the time; "tick": the ticker has ns_mutex and
\* wants mx; "count": it has both.
Stages == {"idle", "find", "time", "set", "tick", "count"}
GetsTo(t, s) == stage' = [stage EXCEPT ![t] = s]

\* A mutex that is free, or that t has: they are recursive.
CanTake(owner, t) == owner \in {NoCaller, t}

--------------------------------------------------------------------------------
(* start_next_downloadable.                                                 *)

\* It is called without mx: by a handler after its command, by a download that
\* has ended ...
CallStart(t) ==
  /\ stage[t] = "idle"
  /\ GetsTo(t, "find")
  /\ keeps' = [keeps EXCEPT ![t] = FALSE]
  /\ UNCHANGED <<listOwner, nsOwner>>

\* ... or in the middle of a change of the list, such as set_status.
ChangeAndStart(t) ==
  /\ stage[t] = "idle" /\ CanTake(listOwner, t)
  /\ listOwner' = t
  /\ GetsTo(t, "find")
  /\ keeps' = [keeps EXCEPT ![t] = TRUE]
  /\ UNCHANGED nsOwner

\* get_next_downloadable takes mx ...
LookForNext(t) ==
  /\ stage[t] = "find" /\ CanTake(listOwner, t)
  /\ listOwner' = t
  /\ GetsTo(t, "time")
  /\ UNCHANGED <<nsOwner, keeps>>

\* ... and, in in_dl_time_and_dl_active, ns_mutex for a moment.  With what it
\* finds the loop goes on; without, the call returns to where it came from.
AskTime(t) ==
  /\ stage[t] = "time" /\ CanTake(nsOwner, t)
  /\ \/ /\ GetsTo(t, "find")
        /\ listOwner' = IF keeps[t] THEN t ELSE NoCaller
     \/ /\ keeps[t] /\ t = TickerId
        /\ GetsTo(t, "count")
        /\ UNCHANGED listOwner
     \/ /\ ~(keeps[t] /\ t = TickerId)
        /\ GetsTo(t, "idle")
        /\ listOwner' = NoCaller
  /\ UNCHANGED <<nsOwner, keeps>>

--------------------------------------------------------------------------------
(* VAR, after which a handler reads the download time.                      *)

SetTimes(t) ==
  /\ stage[t] = "idle" /\ CanTake(nsOwner, t)
  /\ nsOwner' = t
  /\ GetsTo(t, "set")
  /\ UNCHANGED <<listOwner, keeps>>

\* Fault: downloads are started before ns_mutex is given back.
TimesStart(t) ==
  /\ stage[t] = "set"
  /\ GetsTo(t, "find")
  /\ keeps' = [keeps EXCEPT ![t] = FALSE]
  /\ UNCHANGED <<listOwner, nsOwner>>

TimesSet(t) ==
  /\ stage[t] = "set"
  /\ nsOwner' = NoCaller
  /\ GetsTo(t, "idle")
  /\ UNCHANGED <<listOwner, keeps>>

CallerStep(t) ==
  \/ CallStart(t) \/ ChangeAndStart(t) \/ LookForNext(t) \/ AskTime(t)
  \/ SetTimes(t) \/ TimesSet(t)

--------------------------------------------------------------------------------
(* do_once_per_second.                                                      *)

\* The second is over; what is deleted has been purged.
Tick ==
  /\ stage[TickerId] = "idle" /\ CanTake(nsOwner, TickerId)
  /\ nsOwner' = TickerId
  /\ GetsTo(TickerId, "tick")
  /\ UNCHANGED <<listOwner, keeps>>

\* The second is done, or the download time has begun and downloads are started,
\* without mx.
TickDone ==
  /\ nsOwner' = NoCaller
  /\ \/ GetsTo(TickerId, "idle") /\ UNCHANGED keeps
     \/ GetsTo(TickerId, "find") /\ keeps' = [keeps EXCEPT ![TickerId] = FALSE]

\* The list is empty: there is nothing to count down.
CountNone ==
  /\ stage[TickerId] = "tick" /\ CanTake(listOwner, TickerId)
  /\ TickDone
  /\ UNCHANGED listOwner

\* decrease_waits; a wait that is over starts downloads in the middle of it.
CountWaits ==
  /\ stage[TickerId] = "tick" /\ CanTake(listOwner, TickerId)
  /\ listOwner' = TickerId
  /\ GetsTo(TickerId, "count")
  /\ UNCHANGED <<nsOwner, keeps>>

WaitIsOver ==
  /\ stage[TickerId] = "count"
  /\ GetsTo(TickerId, "find")
  /\ keeps' = [keeps EXCEPT ![TickerId] = TRUE]
  /\ UNCHANGED <<listOwner, nsOwner>>

CountDone ==
  /\ stage[TickerId] = "count"
  /\ listOwner' = NoCaller
  /\ TickDone

TickerStep ==
  \/ Tick \/ CountNone \/ CountWaits \/ WaitIsOver \/ CountDone
  \/ LookForNext(TickerId) \/ AskTime(TickerId)

--------------------------------------------------------------------------------
LockInit ==
  /\ listOwner = NoCaller /\ nsOwner = NoCaller
  /\ stage = [t \in Everyone |-> "idle"]
  /\ keeps = [t \in Everyone |-> FALSE]

LockNext == TickerStep \/ \E t \in Callers : CallerStep(t)

LockSpec == LockInit /\ [][LockNext]_lockVars

\* Threads go on, and get the mutexes that are free again and again.
ThreadsGoOn ==
  /\ SF_lockVars(Tick)
  /\ SF_lockVars(CountNone \/ CountWaits) /\ SF_lockVars(CountDone)
  /\ \A t \in Everyone : /\ SF_lockVars(LookForNext(t))
                         /\ SF_lockVars(AskTime(t))
                         /\ SF_lockVars(AskTime(t) /\ stage'[t] # "find")
                         /\ WF_lockVars(TimesSet(t))

FairLockSpec == LockSpec /\ ThreadsGoOn

--------------------------------------------------------------------------------
(* What should hold.                                                        *)

\* t cannot go on before u has given a mutex back.
WaitsFor(t, u) ==
  \/ stage[t] \in {"find", "tick"} /\ ~CanTake(listOwner, t) /\ listOwner = u
  \/ stage[t] = "time" /\ ~CanTake(nsOwner, t) /\ nsOwner = u

\* No two threads that call start_next_downloadable, set the download time, or
\* change the list wait for each other, whoever of them keeps mx: where two do,
\* one is the ticker, which has taken ns_mutex first.
OnlyTheTickerCrosses ==
  \A t, u \in Everyone : WaitsFor(t, u) /\ WaitsFor(u, t) =>
    stage[TickerId] = "tick" /\ TickerId \in {t, u}

\* Waits are counted down each second: global_management.h has do_once_per_second
\* for "things that need to be done once per second".
TicksGoOn == []<><<Tick>>_lockVars
================================================================================
