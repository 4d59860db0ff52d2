----------------------------- MODULE MCReconnect -----------------------------
(* What a download waits for before and in the middle of its work: instances *)
(* of Scheduler for slots and reconnects, and of LockOrder, RouterScript,   *)
(* Captcha and Speeder.  They have no variable in common, so that a         *)
(* behaviour is one of one of them: its side says which.                    *)
EXTENDS MCScheduler, RouterScript, Captcha, Speeder, LockOrder

VARIABLE side   \* "list", "locks", "router", "captcha" or "speeder"

partVars == <<vars, scriptVars, captchaVars, speederVars, lockVars, side>>

\* Requests with and without data, and data that looks like a header.
Ask(method, auth, data) == [method |-> method, auth |-> auth, data |-> data]
MCRequests == {Ask("GET", FALSE, <<>>), Ask("POST", FALSE, <<>>),
               Ask("POST", FALSE, <<"a">>), Ask("POST", TRUE, <<"pair", "a">>)}

MCInit == /\ Init /\ ScriptInit /\ CaptchaInit /\ SpeederInit /\ LockInit
          /\ side \in {"list", "locks", "router", "captcha", "speeder"}

\* Threads that wait for each other may bring the others to a stop as well.
Crossed == \E t, u \in Everyone : WaitsFor(t, u) /\ WaitsFor(u, t)

MCNext ==
  \/ /\ side = "list" /\ Next
     /\ UNCHANGED <<scriptVars, captchaVars, speederVars, lockVars, side>>
  \/ /\ side = "locks" /\ (LockNext \/ (Crossed /\ UNCHANGED lockVars))
     /\ UNCHANGED <<vars, scriptVars, captchaVars, speederVars, side>>
  \/ /\ side = "router" /\ ScriptNext
     /\ UNCHANGED <<vars, captchaVars, speederVars, lockVars, side>>
  \/ /\ side = "captcha" /\ CaptchaNext
     /\ UNCHANGED <<vars, scriptVars, speederVars, lockVars, side>>
  \/ /\ side = "speeder" /\ SpeederNext
     /\ UNCHANGED <<vars, scriptVars, captchaVars, lockVars, side>>

\* Nothing that these demand is possible in the initial state of another side.
MCSpec == /\ MCInit /\ [][MCNext]_partVars
          /\ ScriptFairness /\ CaptchaFairness /\ SpeederFairness

\* What a download or a reconnect waits for comes to an end: the answer to a
\* captcha, with which all downloads of the host wait, although nobody need
\* give one; the brake on the speed of a download, whatever limits are set
\* meanwhile and although others may be too fast for ever; and the script for
\* the router, until which is_reconnecting is set. (Transfers are alike.)
Waits == Unanswered \/ held[d1] \/ activity # "off"
WaitsEnd == Waits ~> ~Waits
==============================================================================
