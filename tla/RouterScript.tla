----------------------------- MODULE RouterScript -----------------------------
(* reconnect: the interpreter of the scripts that make a router reconnect,  *)
(* and the wait for the new address. A script is the text of a program of   *)
(* requests and waits; one line may hold several tags, and the functions    *)
(* step and request, which call each other, share the line they have begun. *)
EXTENDS Naturals, Sequences, SequencesExt

CONSTANTS Texts,       \* lines that are sent as data
          Requests,    \* [method, auth, data]: what a script may ask for
          MaxCommands, \* bound: commands of a script
          MaxTries     \* reconnect_tries

\* Data are no tags and no methods, and nothing that is substituted; and who
\* sends data names the method for it.
ASSUME ScriptAssumption ==
  /\ MaxTries \in Nat /\ MaxCommands \in Nat
  /\ Texts \cap {"HSRC", "/HSRC", "STEP", "/STEP", "REQUEST", "/REQUEST",
                "WAIT", "GET", "POST", "cookie", "basicauth"} = {}
  /\ Requests \subseteq [method : {"GET", "POST"}, auth : BOOLEAN, data : Seq(Texts)]
  /\ \A r \in Requests : r.data # <<>> => r.method = "POST"

VARIABLES
  program,       \* auxiliary: what the author of the script meant
  unread, curr_line,
  calls,         \* the functions that are active, the innermost first
  request,       \* the handle, and this_is_data of function request
  curr_post_data,
  performed,     \* auxiliary: what has been asked for in this attempt
  tried,
  activity       \* "off", "running" a script, "asking" for the address

scriptVars == <<program, unread, curr_line, calls, request, curr_post_data,
                performed, tried, activity>>

-----------------------------------------------------------------------------
(* Scripts, laid out as those in share/downloaddaemon/reconnect. A tag is a *)
(* member of Tags, any other word stands for a line of text.                *)

Tags == {"HSRC", "/HSRC", "STEP", "/STEP", "REQUEST", "/REQUEST", "WAIT"}
HasColon == {"header", "basicauth", "cookie", "pair"}

Lines(words) == [i \in DOMAIN words |-> <<words[i]>>]
RequestLines(r) ==
  <<<<"STEP">>, <<"REQUEST">>, <<r.method>>, <<"header">>, <<"cookie">>>>
  \o (IF r.auth THEN <<<<"basicauth">>>> ELSE <<>>)
  \o (IF r.data # <<>> THEN <<<<>>>> \o Lines(r.data) ELSE <<>>)
  \o <<<<"/REQUEST">>, <<"/STEP">>>>
Pause == [method |-> "WAIT", auth |-> FALSE, data |-> <<>>]
CommandLines(c) == IF c = Pause THEN <<<<"STEP", "WAIT", "/STEP">>>>
                   ELSE RequestLines(c)
\* after[k]: the lines that follow when k commands are left.
LinesAfter(p) ==
  LET after[k \in 0 .. Len(p)] ==
        IF k = 0 THEN <<<<"/HSRC">>>>
        ELSE CommandLines(p[Len(p) + 1 - k]) \o after[k - 1]
  IN  after
Script(p) == <<<<"HSRC">>>> \o LinesAfter(p)[Len(p)]

-----------------------------------------------------------------------------
(* exec_next and the functions it calls.                                    *)

In(function) == activity = "running" /\ calls # <<>> /\ Head(calls) = function
Word == Head(curr_line)
HasWord == curr_line # <<>>
Consume == curr_line' = Tail(curr_line)
RequestUnchanged == UNCHANGED <<request, curr_post_data, performed>>
AttemptUnchanged == UNCHANGED <<program, tried, activity>>

Fresh == [method |-> "GET", auth |-> FALSE, data |-> FALSE]

\* A line is read when the one before it is used up; what an empty one means
\* depends on the function that reads it. The file ends in the outermost.
ReadLine == /\ activity = "running" /\ ~HasWord /\ unread # <<>>
            /\ curr_line' = Head(unread)
            /\ unread' = Tail(unread)
            /\ request' = IF In("request") /\ Head(unread) = <<>>
                          THEN [request EXCEPT !.data = TRUE] ELSE request
            /\ UNCHANGED <<calls, curr_post_data, performed>>
            /\ AttemptUnchanged

\* [[[STEP]]], [[[REQUEST]]] and [[[WAIT seconds="3"/]]]; other tags are
\* skipped by exec_next.
EnterStep == /\ Word = "STEP"
             /\ calls' = <<"step">> \o calls
             /\ RequestUnchanged
EnterRequest == /\ Word = "REQUEST"
                /\ calls' = <<"request">> \o calls
                /\ request' = Fresh
                /\ UNCHANGED <<curr_post_data, performed>>
Wait == /\ Word = "WAIT"
        /\ performed' = Append(performed, Pause)
        /\ UNCHANGED <<calls, request, curr_post_data>>
SkipTag == /\ Word \in Tags \ {"STEP", "REQUEST", "WAIT"}
           /\ UNCHANGED calls
           /\ RequestUnchanged
ExecNext == EnterStep \/ EnterRequest \/ Wait \/ SkipTag

\* The loop of do_reconnect, and that of step: up to its closing tag.
MainWord == /\ In("do_reconnect") /\ HasWord
            /\ Consume /\ ExecNext
            /\ UNCHANGED unread /\ AttemptUnchanged
LeaveStep == /\ calls' = Tail(calls) /\ RequestUnchanged
StepWord == /\ In("step") /\ HasWord
            /\ Consume
            /\ IF Word = "/STEP" THEN LeaveStep ELSE ExecNext
            /\ UNCHANGED unread /\ AttemptUnchanged

\* A line of text inside of a request. The cookie of the answer before is kept
\* by curl, so that its line is dropped by substitute_vars. A header is added
\* to those of the request, which are not compared here.
TextWord ==
  /\ Word \notin Tags
  /\ \/ Word = "cookie" /\ UNCHANGED <<request, curr_post_data>>
     \/ /\ Word = "basicauth" /\ request' = [request EXCEPT !.auth = TRUE]
        /\ UNCHANGED curr_post_data
     \/ /\ Word \in {"GET", "POST"} /\ request' = [request EXCEPT !.method = Word]
        /\ UNCHANGED curr_post_data
     \/ /\ Word \notin {"cookie", "basicauth", "GET", "POST"}
        /\ curr_post_data' = IF Word \in HasColon /\ ~request.data
                             THEN curr_post_data ELSE Append(curr_post_data, Word)
        /\ UNCHANGED request
  /\ UNCHANGED <<calls, performed>>

\* Post data makes a request a POST.
Sent == [method |-> IF curr_post_data # <<>> THEN "POST" ELSE request.method,
         auth |-> request.auth, data |-> curr_post_data]
\* Fault: the data stays for the next request.
PerformKeepingData == /\ performed' = Append(performed, Sent)
                      /\ calls' = Tail(calls)
                      /\ UNCHANGED <<request, curr_post_data>>
\* [[[/REQUEST]]], the only tag in a request: it goes to the router.
Perform == /\ performed' = Append(performed, Sent)
           /\ curr_post_data' = <<>>
           /\ calls' = Tail(calls)
           /\ UNCHANGED request
RequestWord == /\ In("request") /\ HasWord
               /\ Consume
               /\ TextWord \/ (Word = "/REQUEST" /\ Perform)
               /\ UNCHANGED unread /\ AttemptUnchanged

-----------------------------------------------------------------------------
(* do_reconnect.                                                            *)

\* A thread begins, with an object of its own. No program stands for the name
\* of an external script, "file:...".
BeginReconnecting ==
  /\ activity = "off"
  /\ \E n \in 0..MaxCommands : \E p \in [1..n -> Requests \cup {Pause}] :
       program' = p
  /\ activity' = "trying"
  /\ tried' = 0
  /\ curr_post_data' = <<>>
  /\ performed' = <<>>
  /\ UNCHANGED <<unread, curr_line, calls, request>>

\* The next attempt: the script is read from its start, or a process is made
\* for the external one.
RunScript == /\ program # <<>>
             /\ unread' = Script(program)
             /\ calls' = <<"do_reconnect">>
             /\ activity' = "running"
ForkScript == /\ program = <<>>
              /\ activity' = "asking"
              /\ UNCHANGED <<unread, calls>>
Attempt == /\ activity = "trying" /\ tried < MaxTries
           /\ tried' = tried + 1
           /\ performed' = <<>>
           /\ RunScript \/ ForkScript
           /\ UNCHANGED <<program, curr_line, request, curr_post_data>>

\* The file has been read to its end, and is closed.
EndOfScript == /\ In("do_reconnect") /\ ~HasWord /\ unread = <<>>
               /\ calls' = <<>>
               /\ activity' = "asking"
               /\ UNCHANGED <<program, unread, curr_line, tried>>
               /\ RequestUnchanged

\* get_current_ip, time and again: until it is a new one, which ends it all, or
\* new_ip_wait is over.
AskAddress == /\ activity = "asking"
              /\ activity' \in {"off", "trying"}
              /\ UNCHANGED <<program, unread, curr_line, calls, tried>>
              /\ RequestUnchanged

\* No attempt is left, or the script cannot be opened.
GiveUpReconnecting == /\ activity = "trying"
                      /\ tried = MaxTries \/ program # <<>>
                      /\ activity' = "off"
                      /\ UNCHANGED <<program, unread, curr_line, calls, tried>>
                      /\ RequestUnchanged

ScriptInit == /\ program = <<>> /\ unread = <<>> /\ curr_line = <<>>
              /\ calls = <<>> /\ request = Fresh /\ curr_post_data = <<>>
              /\ performed = <<>> /\ tried = 0 /\ activity = "off"

ScriptStep == \/ ReadLine \/ MainWord \/ StepWord \/ RequestWord
              \/ Attempt \/ EndOfScript \/ AskAddress \/ GiveUpReconnecting
ScriptNext == BeginReconnecting \/ ScriptStep

\* The thread runs on. Its requests come back: the handle is a ddcurl, whose
\* reset sets the limits for connecting and for slow answers again.
ScriptFairness == WF_scriptVars(ScriptStep)
ScriptSpec == ScriptInit /\ [][ScriptNext]_scriptVars /\ ScriptFairness

-----------------------------------------------------------------------------
(* Properties.                                                              *)

\* What is sent to the router is what the script says, request by request and
\* wait by wait, and all of it when the address is asked for: nothing of one
\* request gets into the next, in the next attempt neither, and no tag is
\* taken by the wrong one of the functions that share the line.
ScriptIsCarriedOut ==
  /\ activity \in {"running", "asking"} /\ program # <<>> =>
       IsPrefix(performed, program)
  /\ activity = "asking" /\ program # <<>> => performed = program

===============================================================================
