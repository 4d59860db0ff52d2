------------------------------- MODULE Speeder -------------------------------
(* curl_speeder: the thread of a download is kept in a callback of curl     *)
(* while all downloads together are too fast. The speed of each is taken    *)
(* from the points (time, bytes) it has noted in the last seconds, so that  *)
(* one that is kept back has to go on noting points.                        *)
EXTENDS Naturals, Sequences, SequencesExt, FiniteSetsExt

CONSTANTS Transfers,   \* curl handles
          Second,      \* moments in a second: the unit of speeds
          Window,      \* three seconds, in moments
          MinSpeed,    \* 100 bytes per second
          Speeds,      \* values of max_dl_speed, 0 for no limit
          MaxSize      \* bound: bytes of a download

ASSUME SpeederAssumption == /\ 0 \in Speeds /\ Speeds \subseteq Nat
                            /\ Second \in Nat \ {0} /\ Window \in Nat \ {0}

VARIABLES
  handles,     \* the handles that are managed
  points,      \* of each: times and sizes; a time is given by its age
  curr_speed,  \* of each
  size,        \* of each: what curl has received
  held,        \* of each: its thread sleeps in speed_me
  glob_speed

speederVars == <<handles, points, curr_speed, size, held, glob_speed>>

-----------------------------------------------------------------------------
(* info.                                                                    *)

\* avgFromTo, with positions counted from 0 as in the source.
AvgFromTo(s, from, to) ==
  LET a == s[from + 1]
      b == s[to + 1]
  IN  IF a.age = b.age THEN 0
      ELSE ((b.size - a.size) * Second) \div (a.age - b.age)

\* recalc_speed: the last third counts three times, the one before it twice.
RecalcSpeed(s) ==
  LET third == Len(s) \div 3
  IN  IF Len(s) > 3 /\ s[1].age # Last(s).age /\ s[1].size # Last(s).size
      THEN (3 * AvgFromTo(s, 2 * third, Len(s) - 1)
            + 2 * AvgFromTo(s, third, 2 * third - 1)
            + AvgFromTo(s, 0, third - 1)) \div 6
      ELSE 0

\* add_speed_to_list: a new point; those that are too old go, the last of all
\* points excepted. Time has passed since the point before.
Noted(s, bytes) ==
  LET all == Append(s, [age |-> 0, size |-> bytes])
  IN  SelectSeq(all, LAMBDA p : p.age <= Window)
TimeHasPassed(t) == points[t] # <<>> => Last(points[t]).age > 0
AddSpeedToList(t) == /\ TimeHasPassed(t)
                     /\ points' = [points EXCEPT ![t] = Noted(@, size'[t])]
                     /\ curr_speed' = [curr_speed EXCEPT
                                         ![t] = RecalcSpeed(points'[t])]

-----------------------------------------------------------------------------
(* The callback of curl. mx is released only during the sleep.              *)

CurrGlobSpeed == FoldSet(LAMBDA t, sum : curr_speed'[t] + sum, 0, handles)
MustWait(t) == /\ glob_speed > 0
               /\ CurrGlobSpeed > glob_speed
               /\ curr_speed'[t] > MinSpeed

\* add_dl and del_dl, around the transfer.
AddDl(t) == /\ t \notin handles
            /\ handles' = handles \cup {t}
            /\ points' = [points EXCEPT ![t] = <<>>]
            /\ curr_speed' = [curr_speed EXCEPT ![t] = 0]
            /\ size' = [size EXCEPT ![t] = 0]
            /\ UNCHANGED <<held, glob_speed>>
DelDl(t) == /\ t \in handles /\ ~held[t]
            /\ handles' = handles \ {t}
            /\ points' = [points EXCEPT ![t] = <<>>]
            /\ curr_speed' = [curr_speed EXCEPT ![t] = 0]
            /\ size' = [size EXCEPT ![t] = 0]
            /\ UNCHANGED <<held, glob_speed>>

\* report_progress or write_file, with what curl has received since.
SpeedMe(t) == /\ t \in handles /\ ~held[t]
              /\ \E bytes \in size[t]..MaxSize : size' = [size EXCEPT ![t] = bytes]
              /\ AddSpeedToList(t)
              /\ held' = [held EXCEPT ![t] = MustWait(t)]
              /\ UNCHANGED <<handles, glob_speed>>

\* A round of the loop. curl receives nothing while its callback has not
\* returned.
SpeedMeGoesOn(t) == /\ held[t]
                    /\ UNCHANGED size
                    /\ AddSpeedToList(t)
                    /\ held' = [held EXCEPT ![t] = MustWait(t)]
                    /\ UNCHANGED <<handles, glob_speed>>

\* set_glob_speed: each start of a download, and VAR SET max_dl_speed.
SetGlobSpeed == \E sp \in Speeds : /\ glob_speed # sp
                                   /\ glob_speed' = sp
                                   /\ UNCHANGED <<handles, points, curr_speed,
                                                  size, held>>

\* A moment passes. How much older than the window a point is does not matter.
Moment == /\ points' = [t \in Transfers |->
                          [i \in DOMAIN points[t] |->
                             [points[t][i] EXCEPT
                                !.age = IF @ > Window THEN @ ELSE @ + 1]]]
          /\ UNCHANGED <<handles, curr_speed, size, held, glob_speed>>

SpeederInit ==
  /\ handles = {} /\ glob_speed = 0
  /\ points = [t \in Transfers |-> <<>>]
  /\ curr_speed = [t \in Transfers |-> 0]
  /\ size = [t \in Transfers |-> 0]
  /\ held = [t \in Transfers |-> FALSE]

SpeederNext == \/ \E t \in Transfers : \/ AddDl(t) \/ DelDl(t)
                                       \/ SpeedMe(t) \/ SpeedMeGoesOn(t)
               \/ SetGlobSpeed \/ Moment

\* Time passes and threads wake up. Weak fairness is enough: once time has
\* passed, a thread may note its point however much more of it passes.
SpeederFairness == /\ WF_speederVars(Moment)
                   /\ \A t \in Transfers : WF_speederVars(SpeedMeGoesOn(t))
SpeederSpec == SpeederInit /\ [][SpeederNext]_speederVars /\ SpeederFairness

==============================================================================
