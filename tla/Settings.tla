------------------------------- MODULE Settings -------------------------------
(***************************************************************************)
(* A configuration file (class cfgfile), the management commands that read *)
(* and set its variables, and what plugin_container remembers of a plugin  *)
(* that was asked with the account in the file.  The program has three     *)
(* such files (variables, router, premium accounts), which are alike and   *)
(* share nothing; here is one, with the commands of all.                   *)
(*                                                                         *)
(* A step is what a thread does in one hold of cfgfile::mx.  When the      *)
(* stream is not usable, the two accessors give the mutex up, reopen the   *)
(* file, and take the mutex again without looking at the stream again.     *)
(***************************************************************************)
EXTENDS Integers, Sequences

CONSTANTS
  Users,      \* threads that use the file: handlers, downloads, the ticker
  NoUser,
  Ids,        \* the identifiers in the file
  UserId, PasswordId, \* the two of them that a plugin is asked with
  Values,     \* what values there are
  NewValues,  \* those that clients set
  Accounts,   \* the users and passwords that clients set
  Trimmed,    \* what each value is without blanks around it
  Empty,      \* the empty value
  Default,    \* of each identifier, in the file of default values
  InitialLines, \* the file when the program is installed
  NoLine, NotCached,
  Faults      \* may opening a file fail? Once in the life of a process

ASSUME SettingsAssumption ==
  /\ NoUser \notin Users
  /\ UserId \in Ids /\ PasswordId \in Ids
  /\ Empty \in Values /\ NewValues \subseteq Values
  /\ Accounts \subseteq Values \X Values
  /\ Trimmed \in [Values -> Values]
  /\ \A v \in Values : Trimmed[Trimmed[v]] = Trimmed[v]
  /\ Trimmed[Empty] = Empty
  /\ Default \in [Ids -> {Trimmed[v] : v \in Values}]
  /\ InitialLines \in [Ids -> {Trimmed[v] : v \in Values} \cup {NoLine}]
  /\ NoLine \notin Values /\ NotCached \notin Values
  /\ Faults \in BOOLEAN

VARIABLES
  lines,        \* the file: the text of each identifier, or NoLine
  terminated,   \* does the file end in a newline, or is it empty?
  stream,       \* cfgfile::file: good; ended, with eof and fail set; atEnd, with
                \* eof only, as the last line had no newline; or closed
  cfg_cache,
  cfgOwner,     \* who is between two steps with cfgfile::mx
  plugin_cache, \* the account the plugin was asked with, or NotCached
  pluginOwner,  \* who has plugin_container::mx
  script,       \* of each thread, the calls it has still to make
  place,        \* where each thread is in its call
  written,      \* of each thread: what set_cfg_value is about to write
  account,      \* of each thread: what get_info has read so far
  latest,       \* auxiliary: the lines as they were set last
  spoilt        \* auxiliary: was a stream read that had ended, or a file not
                \* opened, since the program was started?

cfgVars == <<lines, terminated, stream, cfg_cache, cfgOwner, written, latest, spoilt>>
settingsVars == <<cfgVars, plugin_cache, pluginOwner, script, place, account>>

NoLines == [i \in Ids |-> NoLine]
NothingWritten == [id |-> UserId, value |-> Empty, over |-> NoLines,
                   newline |-> TRUE, open |-> FALSE, nested |-> FALSE]

\* The calls that commands are made of.
GetCall(id) == [op |-> "get", id |-> id, value |-> Empty]
SetCall(id, value) == [op |-> "set", id |-> id, value |-> value]
LookUpCall == [op |-> "lookup", id |-> UserId, value |-> Empty]
RememberCall == [op |-> "remember", id |-> UserId, value |-> Empty]
ClearCall == [op |-> "clear", id |-> UserId, value |-> Empty]

Calling(t, ops) == script[t] # <<>> /\ Head(script[t]).op \in ops
Returns(t) == script' = [script EXCEPT ![t] = Tail(@)]
MovesTo(t, p) == place' = [place EXCEPT ![t] = p]

\* What a caller of get_cfg_value gets; get_info keeps it.
Receives(t, value) ==
  /\ Returns(t)
  /\ MovesTo(t, "ready")
  /\ account' = IF pluginOwner = t THEN [account EXCEPT ![t] = Append(@, value)]
                ELSE account

--------------------------------------------------------------------------------
(* cfgfile.                                                                 *)

\* Opening a file may fail, if there are too many open.
CannotOpen == Faults /\ ~spoilt
OpenedStream == \/ stream' = "good" /\ UNCHANGED spoilt
                \/ CannotOpen /\ stream' = "closed" /\ spoilt' = TRUE

\* The stream is not usable: the mutex is given up, ...
GivesUpMutex(t) ==
  /\ place[t] = "ready" /\ Calling(t, {"get", "set"})
  /\ cfgOwner = NoUser /\ stream # "good"
  /\ MovesTo(t, "reopen")
  /\ UNCHANGED <<cfgVars, plugin_cache, pluginOwner, script, account>>

\* ... reload_file reopens it, here and at the end of set_cfg_value, ...
ReloadFile(t) ==
  /\ place[t] \in {"reopen", "reload"}
  /\ cfgOwner = NoUser
  /\ OpenedStream
  /\ IF place[t] = "reopen" THEN MovesTo(t, "again") /\ UNCHANGED script
     ELSE MovesTo(t, "ready") /\ Returns(t)
  /\ UNCHANGED <<lines, terminated, cfg_cache, cfgOwner, written, latest, plugin_cache,
                 pluginOwner, account>>

\* ... and then the file is read, whatever others have done to it meanwhile.
Enters(t) == /\ cfgOwner = NoUser
             /\ \/ place[t] = "again"
                \/ place[t] = "ready" /\ stream = "good"

\* The lines that can be read: seekg(0) clears eof, but does not undo a fail.
Readable == IF stream \in {"good", "atEnd"} THEN lines ELSE NoLines
SpoiltNow == spoilt \/ stream = "ended"

\* What reading to the end of the file makes of the stream.
StreamAtEnd == CASE stream \in {"ended", "closed"} -> stream
                 [] terminated -> "ended"
                 [] OTHER -> "atEnd"

\* set_cfg_value has read the lines, and opens the file anew, which empties it.
\* Nobody looks whether that works.
EmptiesFile(t, id, value, over, nested) ==
  \E opens \in {TRUE} \cup (IF CannotOpen THEN {FALSE} ELSE {}) :
    /\ written' = [written EXCEPT ![t] = [id |-> id, value |-> value, over |-> over,
                        newline |-> terminated, open |-> opens, nested |-> nested]]
    /\ lines' = IF opens THEN NoLines ELSE lines
    /\ terminated' = (opens \/ terminated)
    /\ spoilt' = (SpoiltNow \/ ~opens)
    /\ MovesTo(t, "write")

\* Fault: the mutex is not held while the lines are read.
SetValueUnlocked(t) ==
  /\ Calling(t, {"set"})
  /\ Enters(t)
  /\ LET c == Head(script[t]) IN EmptiesFile(t, c.id, c.value, Readable, FALSE)
  /\ UNCHANGED <<stream, cfgOwner, cfg_cache, latest, plugin_cache, pluginOwner, script,
                 account>>

\* set_cfg_value up to the point where the file is empty.
SetValue(t) ==
  /\ Calling(t, {"set"})
  /\ Enters(t)
  /\ cfgOwner' = t
  /\ LET c == Head(script[t]) IN EmptiesFile(t, c.id, c.value, Readable, FALSE)
  /\ UNCHANGED <<stream, cfg_cache, latest, plugin_cache, pluginOwner, script, account>>

\* get_cfg_value of an identifier that is cached, ...
GetCached(t) ==
  /\ Calling(t, {"get"})
  /\ Enters(t)
  /\ LET known == cfg_cache[Head(script[t]).id]
     IN  known # NotCached /\ Receives(t, known)
  /\ UNCHANGED <<cfgVars, plugin_cache, pluginOwner>>

\* ... or in a line, which may be the last one and have no newline.
GetLine(t) ==
  /\ Calling(t, {"get"})
  /\ Enters(t)
  /\ LET id == Head(script[t]).id
     IN  /\ cfg_cache[id] = NotCached /\ Readable[id] # NoLine
         /\ cfg_cache' = [cfg_cache EXCEPT ![id] = Readable[id]]
         /\ Receives(t, Readable[id])
  /\ stream' \in IF terminated THEN {"good"} ELSE {"good", "atEnd"}
  /\ UNCHANGED <<lines, terminated, cfgOwner, written, latest, spoilt, plugin_cache,
                 pluginOwner>>

\* get_cfg_value reads to the end without finding it: the default value, if there
\* is one, is set (with the mutex held throughout, and the file reopened first)
\* and returned.
GetDefault(t) ==
  /\ Calling(t, {"get"})
  /\ Enters(t)
  /\ LET id == Head(script[t]).id
     IN  /\ cfg_cache[id] = NotCached /\ Readable[id] = NoLine
         /\ IF Default[id] = Empty
            THEN /\ cfg_cache' = [cfg_cache EXCEPT ![id] = Empty]
                 /\ stream' = StreamAtEnd
                 /\ Receives(t, Empty)
                 /\ spoilt' = SpoiltNow
                 /\ UNCHANGED <<lines, terminated, cfgOwner, written>>
            ELSE /\ cfgOwner' = t
                 /\ EmptiesFile(t, id, Default[id], lines, TRUE)
                 /\ UNCHANGED <<stream, cfg_cache, script, account>>
  /\ UNCHANGED <<latest, plugin_cache, pluginOwner>>

\* The rest of set_cfg_value: the lines are written, trimmed; a new one is added
\* without a newline. The value is cached as it is. Inside get_cfg_value the file
\* is reopened at once.
WriteLines(t) ==
  /\ place[t] = "write"
  /\ LET w == written[t]
         text == [w.over EXCEPT ![w.id] = Trimmed[w.value]]
     IN  /\ lines' = IF w.open THEN text ELSE lines
         /\ terminated' = IF w.open THEN w.newline /\ w.over[w.id] # NoLine
                          ELSE terminated
         /\ latest' = [latest EXCEPT ![w.id] = Trimmed[w.value]]
         /\ cfg_cache' = [cfg_cache EXCEPT ![w.id] = w.value]
         /\ IF w.nested THEN OpenedStream /\ Receives(t, w.value)
            ELSE /\ stream' = IF w.open THEN "good" ELSE "closed"
                 /\ MovesTo(t, "reload")
                 /\ UNCHANGED <<script, account, spoilt>>
  /\ cfgOwner' = NoUser
  /\ written' = [written EXCEPT ![t] = NothingWritten]
  /\ UNCHANGED <<plugin_cache, pluginOwner>>

CfgStep(t) == \/ GivesUpMutex(t) \/ ReloadFile(t) \/ SetValue(t)
              \/ GetCached(t) \/ GetLine(t) \/ GetDefault(t) \/ WriteLines(t)

--------------------------------------------------------------------------------
(* plugin_container. Which plugins there are does not change; here is one.  *)

\* get_info begins: the mutex is taken, and kept unless the plugin is known.
LookUp(t) ==
  /\ Calling(t, {"lookup"})
  /\ pluginOwner = NoUser
  /\ account' = [account EXCEPT ![t] = <<>>]
  /\ IF plugin_cache = NotCached
     THEN pluginOwner' = t /\ Returns(t)
     ELSE script' = [script EXCEPT ![t] = <<>>] /\ UNCHANGED pluginOwner
  /\ UNCHANGED <<cfgVars, plugin_cache, place>>

\* The plugin has answered for the account that was read.
Remember(t) ==
  /\ Calling(t, {"remember"})
  /\ plugin_cache' = account[t]
  /\ pluginOwner' = NoUser
  /\ account' = [account EXCEPT ![t] = <<>>]
  /\ Returns(t)
  /\ UNCHANGED <<cfgVars, place>>

ClearCache(t) ==
  /\ Calling(t, {"clear"})
  /\ pluginOwner = NoUser
  /\ plugin_cache' = NotCached
  /\ Returns(t)
  /\ UNCHANGED <<cfgVars, pluginOwner, place, account>>

--------------------------------------------------------------------------------
(* The commands, as the calls they make.                                    *)

GetInfo == <<LookUpCall, GetCall(UserId), GetCall(PasswordId), RememberCall>>

\* VAR GET, and every use of a variable. VAR LIST is one after the other.
VarGet == {<<GetCall(id)>> : id \in Ids}
RouterGet == VarGet
PremiumGet == {<<GetCall(UserId)>>}

\* VAR SET. To know whether an identifier may be set another may have to be
\* read (insecure_mode); for the password it is the old one.
VarSet == UNION {{<<SetCall(id, v)>>, <<GetCall(id), SetCall(id, v)>>} :
                   id \in Ids, v \in NewValues}
RouterSet == {<<SetCall(id, v)>> : id \in Ids, v \in NewValues}
RouterSetModel == RouterSet

\* Fault: what is remembered is cleared before the account is changed.
PremiumSetClearedFirst ==
  {<<ClearCall, SetCall(UserId, a[1]), SetCall(PasswordId, a[2])>> : a \in Accounts}

PremiumSet ==
  {<<SetCall(UserId, a[1]), SetCall(PasswordId, a[2]), ClearCall>> : a \in Accounts}

\* Accounts are set by PREMIUM SET only.
SetsNoAccount(c) == \A i \in DOMAIN c : c[i].id \notin {UserId, PasswordId}
Commands == VarGet \cup RouterGet \cup PremiumGet \cup PremiumSet \cup {GetInfo}
              \cup {c \in VarSet \cup RouterSet \cup RouterSetModel : SetsNoAccount(c)}

\* Bound: a process that is spoilt only finishes what it has begun.
Begins(t) ==
  /\ script[t] = <<>> /\ ~spoilt
  /\ \E c \in Commands : script' = [script EXCEPT ![t] = c]
  /\ UNCHANGED <<cfgVars, plugin_cache, pluginOwner, place, account>>

\* The program is killed, and started again.
SettingsRestart ==
  /\ stream' = "good"
  /\ cfg_cache' = [i \in Ids |-> NotCached]
  /\ cfgOwner' = NoUser /\ pluginOwner' = NoUser
  /\ plugin_cache' = NotCached
  /\ script' = [t \in Users |-> <<>>]
  /\ place' = [t \in Users |-> "ready"]
  /\ written' = [t \in Users |-> NothingWritten]
  /\ account' = [t \in Users |-> <<>>]
  /\ latest' = lines
  /\ spoilt' = FALSE
  /\ UNCHANGED <<lines, terminated>>

SettingsInit ==
  /\ lines = InitialLines /\ latest = InitialLines
  /\ terminated = TRUE /\ stream = "good"
  /\ cfg_cache = [i \in Ids |-> NotCached]
  /\ cfgOwner = NoUser /\ pluginOwner = NoUser
  /\ plugin_cache = NotCached
  /\ script = [t \in Users |-> <<>>]
  /\ place = [t \in Users |-> "ready"]
  /\ written = [t \in Users |-> NothingWritten]
  /\ account = [t \in Users |-> <<>>]
  /\ spoilt = FALSE

UserStep(t) == CfgStep(t) \/ LookUp(t) \/ Remember(t) \/ ClearCache(t) \/ Begins(t)
SettingsNext == (\E t \in Users : UserStep(t)) \/ SettingsRestart

SettingsSpec == SettingsInit /\ [][SettingsNext]_settingsVars

--------------------------------------------------------------------------------
(* What should hold.                                                        *)

\* Who holds the two mutexes is in the middle of what they guard; and
\* plugin_container::mx is taken before cfgfile::mx, never after it.
SettingsTypeOK ==
  /\ lines \in [Ids -> Values \cup {NoLine}] /\ stream \in {"good", "atEnd", "ended", "closed"}
  /\ terminated \in BOOLEAN
  /\ cfg_cache \in [Ids -> Values \cup {NotCached}]
  /\ place \in [Users -> {"ready", "reopen", "again", "write", "reload"}]
  /\ \A t \in Users : cfgOwner = t <=> place[t] = "write"
  /\ \A t \in Users : pluginOwner = t =>
       /\ Calling(t, {"get", "remember"})
       /\ Len(account[t]) + Len(script[t]) = 3

TextOf(line) == IF line = NoLine THEN Empty ELSE line
NobodyWrites == \A t \in Users : place[t] # "write"
Undisturbed == NobodyWrites /\ ~spoilt

\* However reads, settings and default values of several threads overlap, no
\* setting is lost: the file holds what was set last of every identifier, and
\* so does the cache, but for blanks. Excused is a process that could not open
\* the file once, or read a stream that another thread had brought to its end
\* (LinesAreKept).
NoUpdateIsLost ==
  Undisturbed =>
    /\ lines = latest
    /\ \A id \in Ids : cfg_cache[id] # NotCached =>
                         Trimmed[cfg_cache[id]] = TextOf(lines[id])

\* What is known of a plugin was asked with the account that is set now, if
\* nobody is about to set one, although the plugin is asked, and its answer
\* remembered, while handlers write the two lines of an account.
PluginInfoIsFresh ==
  Undisturbed /\ plugin_cache # NotCached
  /\ (\A t \in Users : \A i \in DOMAIN script[t] : script[t][i] # ClearCall) =>
       \A i \in 1 .. 2 :
         Trimmed[plugin_cache[i]] = TextOf(lines[<<UserId, PasswordId>>[i]])

\* If files can be opened, setting a variable keeps the lines of the others.
LinesAreKept ==
  NobodyWrites =>
    \A id \in Ids : latest[id] # NoLine => lines[id] # NoLine
================================================================================
