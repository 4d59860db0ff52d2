-------------------------------- MODULE Captcha --------------------------------
(* Captchas. Each host plugin has one global captcha object; p_mutex lets   *)
(* one download at a time into the plugin. A download that needs a captcha  *)
(* typed in offers a pointer to that object, and polls it once a second for *)
(* the answer of some client. A client is not told of a new image, and its  *)
(* answer names the download only.                                          *)
EXTENDS Integers

CONSTANTS Solvers,      \* downloads of one host
          Typists,      \* handlers of clients, and the users behind them
          Nobody, NoImage, NoAnswerYet,
          MaxImages,    \* bound: images fetched from the host
          MaxAnswerWait, \* captcha_max_wait
          MaxRetrys,    \* captcha_retrys
          Manual,       \* captcha_manual
          Gocr          \* gocr_binary names a program

ASSUME CaptchaAssumption ==
  /\ Nobody \notin Solvers
  /\ MaxAnswerWait \in Nat /\ MaxRetrys \in Nat
  /\ Manual \in BOOLEAN /\ Gocr \in BOOLEAN

VARIABLES
  user_of,               \* the download that holds p_mutex of the plugin
  step_of,               \* where the thread of each download is
  retry_count, image, result, \* the captcha object
  cap, error,            \* of each download: is the pointer set, is its
                         \* error PLUGIN_CAPTCHA
  waited,                \* seconds in the loop of solve_captcha
  handler,               \* of each client: what its handler is doing
  shown,                 \* of each client: the image the user looks at
  accepted,              \* auxiliary: the answer that was taken last
  images                 \* counter of the bound

pluginVars == <<user_of, step_of, waited, accepted, images>>
objectVars == <<retry_count, image, result>>
offerVars == <<cap, error>>
clientVars == <<handler, shown>>
captchaVars == <<pluginVars, objectVars, offerVars, clientVars>>

At(d, place) == step_of[d] = place
GoesTo(d, place) == step_of' = [step_of EXCEPT ![d] = place]

-----------------------------------------------------------------------------
(* The thread of a download.                                                *)

\* plugin_exec_wrapper, which calls setup.
PluginExec(d) == /\ At(d, "outside") /\ user_of = Nobody
                 /\ user_of' = d
                 /\ GoesTo(d, "plugin")
                 /\ retry_count' = 0
                 /\ UNCHANGED <<waited, accepted, images, image, result,
                                offerVars, clientVars>>
PluginReturns(d) == /\ At(d, "plugin")
                    /\ user_of' = Nobody
                    /\ GoesTo(d, "outside")
                    /\ UNCHANGED <<waited, accepted, images, objectVars,
                                   offerVars, clientVars>>

\* process_image with a captcha that gocr can read: only answers of the right
\* length count as a try.
SolveAutomatic(d) == /\ Gocr
                     /\ retry_count <= MaxRetrys
                     /\ retry_count' \in {retry_count, retry_count + 1}
                     /\ UNCHANGED <<user_of, step_of>>

\* captcha_exception: the plugin is left.
GiveUpCaptcha(d) == /\ retry_count > MaxRetrys \/ ~Manual
                    /\ user_of' = Nobody
                    /\ GoesTo(d, "outside")
                    /\ UNCHANGED retry_count

\* process_image with one that somebody has to type in.
SolveManually(d) == /\ Manual
                    /\ retry_count <= MaxRetrys
                    /\ GoesTo(d, "asks")
                    /\ UNCHANGED <<user_of, retry_count>>

ProcessImage(d) == /\ At(d, "plugin")
                   /\ images < MaxImages
                   /\ images' = images + 1
                   /\ image' = images'
                   /\ \/ SolveAutomatic(d) \/ GiveUpCaptcha(d)
                      \/ SolveManually(d)
                   /\ UNCHANGED <<waited, accepted, result, offerVars, clientVars>>

\* Fault: the result of before is kept.
KeepResult(d) == /\ At(d, "asks")
                 /\ GoesTo(d, "offers")
                 /\ UNCHANGED <<user_of, waited, accepted, images, objectVars,
                                offerVars, clientVars>>

\* solve_captcha: the result is cleared, the pointer set, the error set.
ClearResult(d) == /\ At(d, "asks")
                  /\ result' = NoAnswerYet
                  /\ GoesTo(d, "offers")
                  /\ UNCHANGED <<user_of, waited, accepted, images, retry_count,
                                 image, offerVars, clientVars>>
SetCaptcha(d) == /\ At(d, "offers")
                 /\ cap' = [cap EXCEPT ![d] = TRUE]
                 /\ GoesTo(d, "announces")
                 /\ UNCHANGED <<user_of, waited, accepted, images, objectVars,
                                error, clientVars>>
Announce(d) == /\ At(d, "announces")
               /\ error' = [error EXCEPT ![d] = TRUE]
               /\ waited' = 0
               /\ GoesTo(d, "polls")
               /\ UNCHANGED <<user_of, accepted, images, objectVars, cap,
                              clientVars>>

\* One round of the loop: a second, then the time is looked at, and then the
\* result. On both ways out the error and the pointer are reset.
Withdraw(d) == /\ cap' = [cap EXCEPT ![d] = FALSE]
               /\ error' = [error EXCEPT ![d] = FALSE]
\* Fault: the time is looked at when there is an answer.
ExpiresAnswered(d) == /\ waited' > MaxAnswerWait
                      /\ result # NoAnswerYet
                      /\ user_of' = Nobody
                      /\ GoesTo(d, "outside")
                      /\ Withdraw(d)
                      /\ UNCHANGED accepted
Expires(d) == /\ waited' > MaxAnswerWait
              /\ user_of' = Nobody
              /\ GoesTo(d, "outside")
              /\ Withdraw(d)
              /\ UNCHANGED accepted
TakesAnswer(d) == /\ waited' <= MaxAnswerWait
                  /\ result # NoAnswerYet
                  /\ accepted' = [answer |-> result, image |-> image]
                  /\ GoesTo(d, "plugin")
                  /\ Withdraw(d)
                  /\ UNCHANGED user_of
PollsOn == /\ waited' <= MaxAnswerWait
           /\ result = NoAnswerYet
           /\ UNCHANGED <<user_of, step_of, accepted, offerVars>>
Poll(d) == /\ At(d, "polls")
           /\ waited' = waited + 1
           /\ Expires(d) \/ TakesAnswer(d) \/ PollsOn
           /\ UNCHANGED <<images, objectVars, clientVars>>

SolverStep(d) == ClearResult(d) \/ SetCaptcha(d) \/ Announce(d) \/ Poll(d)

-----------------------------------------------------------------------------
(* The handler of a client: the error and the pointer are read under one    *)
(* lock each, and the object is used after that.                            *)

HandlerIdle == [doing |-> "nothing"]
Doing(h, place) == handler[h].doing = place
Handles(h, doing, d) == handler' = [handler EXCEPT
                          ![h] = [doing |-> doing, dl |-> d]]

\* target_captcha_request and target_captcha_solve. The download is given by
\* its id, so that any may be meant; an answer is one to the image on show.
CaptchaCommand(h, d) == /\ Doing(h, "nothing")
                        /\ error[d]
                        /\ \/ Handles(h, "request", d)
                           \/ shown[h] # NoImage /\ Handles(h, "solve", d)
                        /\ UNCHANGED <<shown, pluginVars, objectVars, offerVars>>
GetsPointer(h) ==
  LET d == handler[h].dl
  IN  /\ Doing(h, "request") \/ Doing(h, "solve")
      /\ IF cap[d]
         THEN Handles(h, IF Doing(h, "request") THEN "reads" ELSE "writes", d)
         ELSE handler' = [handler EXCEPT ![h] = HandlerIdle]
      /\ UNCHANGED <<shown, pluginVars, objectVars, offerVars>>
ReadsImage(h) == /\ Doing(h, "reads")
                 /\ shown' = [shown EXCEPT ![h] = image]
                 /\ handler' = [handler EXCEPT ![h] = HandlerIdle]
                 /\ UNCHANGED <<pluginVars, objectVars, offerVars>>
SetsResult(h) == /\ Doing(h, "writes")
                 /\ result' = [to |-> shown[h], at |-> image]
                 /\ handler' = [handler EXCEPT ![h] = HandlerIdle]
                 /\ UNCHANGED <<shown, pluginVars, retry_count, image, offerVars>>
HandlerMoves(h) == GetsPointer(h) \/ ReadsImage(h) \/ SetsResult(h)

CaptchaInit ==
  /\ user_of = Nobody /\ step_of = [d \in Solvers |-> "outside"]
  /\ waited = 0 /\ images = 0
  /\ retry_count = 0 /\ image = NoImage /\ result = NoAnswerYet
  /\ cap = [d \in Solvers |-> FALSE] /\ error = [d \in Solvers |-> FALSE]
  /\ handler = [h \in Typists |-> HandlerIdle]
  /\ shown = [h \in Typists |-> NoImage]
  /\ accepted = NoAnswerYet

CaptchaNext ==
  \/ \E d \in Solvers : \/ PluginExec(d) \/ PluginReturns(d)
                        \/ ProcessImage(d) \/ SolverStep(d)
  \/ \E h \in Typists : \/ \E d \in Solvers : CaptchaCommand(h, d)
                        \/ HandlerMoves(h)

\* The clock runs. Clients need not answer, and plugins do as they like.
CaptchaFairness == \A d \in Solvers : WF_captchaVars(SolverStep(d))
CaptchaSpec == CaptchaInit /\ [][CaptchaNext]_captchaVars /\ CaptchaFairness

-----------------------------------------------------------------------------
(* Properties.                                                              *)

\* An answer that was given to the image the plugin was showing at the time is
\* not counted as the answer to a later one, be it of the same download or of
\* the next that is let into the plugin, although nothing but the reset at the
\* start of solve_captcha tells answers apart. (One that is late already when
\* it is given is counted: its image is not named anywhere.)
AnswerFitsTheImage ==
  accepted # NoAnswerYet /\ accepted.answer.to = accepted.answer.at =>
    accepted.image = accepted.answer.to

\* A download waits for somebody to answer. Until it gets on, all downloads of
\* the host are kept out of the plugin.
Unanswered == \E d \in Solvers : step_of[d] \notin {"plugin", "outside"}

\* The type invariant, with what is offered: the object of the plugin that
\* the download is in.
CaptchaTypeOK ==
  /\ user_of \in Solvers \cup {Nobody}
  /\ step_of \in [Solvers -> {"outside", "plugin", "asks", "offers", "announces",
                           "polls"}]
  /\ retry_count \in 0..(MaxRetrys + 1)
  /\ \A d \in Solvers : /\ step_of[d] # "outside" <=> user_of = d
                        /\ cap[d] => step_of[d] \in {"announces", "polls"}
                        /\ error[d] <=> step_of[d] = "polls"
=============================================================================
