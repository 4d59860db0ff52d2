----------------------------- MODULE PackageJobs -----------------------------
(* What the program does with the downloads of a package besides fetching   *)
(* them: it checks links that were just added (preset_file_status), one     *)
(* thread after another, and unpacks a package when its last download is    *)
(* finished (package_finished, extract_package), while downloads go on and  *)
(* a client changes the list. Ids, packages and the choice of the next      *)
(* download are other modules' subjects. A download is not destroyed under  *)
(* a thread here, although the code may do so (PurgedIsUnused, Scheduler).  *)
EXTENDS SubSequences, SequencesExt, FiniteSets

CONSTANTS
  Downloads, InitialList,
  Workers,        \* download_me threads
  Checkers,       \* threads of download::preset_file_status
  Extractors,     \* threads of download_container::extract_package
  NoDownload,
  Limit,          \* simultaneous_downloads
  Settings,       \* what precheck_links and enable_pkg_extractor may be
  HasPlugin,      \* downloads whose host has a plugin
  ToolFor,        \* what required_tool says of each download's file
  Volumes,        \* downloads whose file is a later volume of an archive
  HasPassword,    \* does the package have a password?
  Passwords,      \* the length of pkg_extractor_passwords
  DeleteArchives, \* delete_extracted_archives
  MaxChanges      \* bound on what the client does

ASSUME PackageJobsAssumption ==
  /\ InitialList \in Seq(Downloads) /\ IsInjective(InitialList)
  /\ NoDownload \notin Downloads
  /\ Settings \subseteq [precheck : BOOLEAN, extractor : BOOLEAN]
  /\ HasPlugin \subseteq Downloads /\ Volumes \subseteq Downloads
  /\ ToolFor \in [Downloads -> {"rar", "tar", "zip", "join", "7z", "none"}]
  /\ HasPassword \in BOOLEAN /\ DeleteArchives \in BOOLEAN
  /\ Passwords \in Nat /\ Limit \in Nat /\ MaxChanges \in Nat

VARIABLES
  setting,         \* the one of Settings the program was started with
  list,            \* download_list
  status, running, \* of each download; is_running
  prechecked,      \* already_prechecked
  sized,           \* is the size known (two bytes or more)?
  file,            \* the downloaded file: none, packed, or unpacked once
  work,            \* where each download_me thread is, and with what
  presetter,       \* global_mgmt::presetter_running
  check,           \* the same of the checkers
  extract,         \* of the extractors: index, name, password, all_success
  disturbed,       \* auxiliary: extractions overtaken by other events
  lost,            \* auxiliary: files removed that were never unpacked
  due,             \* auxiliary: finished since the last extraction began?
  changes          \* counts up to MaxChanges

downloadVars == <<status, running, prechecked, sized>>
extractVars == <<extract, disturbed, lost>>
vars == <<setting, list, downloadVars, file, work, presetter, check, extractVars, due,
          changes>>

Status == {"PENDING", "INACTIVE", "RUNNING", "FINISHED", "DELETED"}
Resting == [at |-> "idle", dl |-> NoDownload]
NoExtraction == [at |-> "idle", i |-> 0, dl |-> NoDownload, try |-> 0, ok |-> TRUE]
Extracting == {e \in Extractors : extract[e] # NoExtraction}
InUse == {work[w].dl : w \in Workers} \cup {check[k].dl : k \in Checkers}

\* download::set_status.
StatusAfter(d, s) == IF status[d] = "DELETED" THEN "DELETED" ELSE s

------------------------------------------------------------------------------
(* Unpacking. Each tool is a child process whose output is searched for      *)
(* words; what is left of it is the set of results it may have.              *)

RarResults == {"SUCCESS", "PASSWORD", "ERROR"}
TarResults == {"SUCCESS", "ERROR"}
ZipResults == {"SUCCESS", "PASSWORD", "ERROR"}
JoinResults == {"SUCCESS", "ERROR"}
SevenZipResults == {"SUCCESS", "PASSWORD", "ERROR"}

\* pkg_extractor::extract_package, by required_tool.
ResultsOf(tool) ==
  CASE tool = "rar" -> RarResults
    [] tool = "tar" -> TarResults
    [] tool = "zip" -> ZipResults
    [] tool = "join" -> JoinResults
    [] tool = "7z" -> SevenZipResults
    [] OTHER -> {"INVALID"}

\* deep_extract: the archives found in an archive are unpacked as well, and
\* the last result of theirs that is not INVALID takes the place of its own.
DeepResult(outer, inner) == IF inner = "INVALID" THEN outer ELSE inner
InnerResults == {"INVALID"} \cup RarResults

\* A file that is not there, or not an archive, is no matter for deep_extract.
Unpackable(d) == file[d] # "none" /\ ToolFor[d] # "none"

\* The next archive of the list, from index i on: later volumes are left out.
NextArchive(i) ==
  LET rest == {j \in i .. Len(list) : list[j] \notin Volumes}
  IN  IF rest = {} THEN 0 ELSE CHOOSE j \in rest : \A k \in rest : j <= k

\* The end of download_container::extract_package.
RemoveArchives(e, ok, files) ==
  IF ok /\ DeleteArchives
  THEN /\ file' = [d \in Downloads |-> IF d \in ToSet(list) THEN "none" ELSE files[d]]
       /\ lost' = lost \cup
            {d \in ToSet(list) \ Volumes : files[d] = "packed" /\ e \notin disturbed'}
  ELSE file' = files /\ UNCHANGED lost

\* The extractor goes on at index i; the list is locked until a tool runs.
Proceed(e, i, ok, files) ==
  LET j == NextArchive(i)
  IN  IF j = 0
      THEN extract' = [extract EXCEPT ![e] = NoExtraction] /\ RemoveArchives(e, ok, files)
      ELSE /\ extract' = [extract EXCEPT ![e] =
                [at |-> "tool", i |-> j, dl |-> list[j], try |-> 1, ok |-> ok]]
           /\ file' = files
           /\ UNCHANGED lost

BeginExtraction(e) ==
  /\ extract[e].at = "created"
  /\ UNCHANGED disturbed
  /\ Proceed(e, 1, TRUE, file)
  /\ UNCHANGED <<setting, list, downloadVars, work, presetter, check, due, changes>>

\* The next password, unless the package has its own or there are no more.
MorePasswords(e) == ~HasPassword /\ extract[e].try <= Passwords

\* Fault: the last archive decides.
LastSuccess(before, result) == result = "SUCCESS"

\* all_success
AllSuccess(before, result) == before /\ result = "SUCCESS"

\* A tool has ended.
EndTool(e) ==
  /\ extract[e].at = "tool"
  /\ LET x == extract[e]
         d == x.dl
     IN  \E outer \in IF Unpackable(d) THEN ResultsOf(ToolFor[d]) ELSE {"INVALID"},
            inner \in IF Unpackable(d) THEN InnerResults ELSE {"INVALID"} :
           LET result == DeepResult(outer, inner)
               files == IF outer = "SUCCESS" THEN [file EXCEPT ![d] = "unpacked"]
                        ELSE file
           IN  /\ disturbed' = IF outer # "SUCCESS" /\ result = "SUCCESS"
                               THEN disturbed \cup {e} ELSE disturbed
               /\ \/ /\ result = "PASSWORD" /\ MorePasswords(e)
                     /\ extract' = [extract EXCEPT ![e].try = @ + 1]
                     /\ file' = files
                     /\ UNCHANGED lost
                  \/ /\ ~(result = "PASSWORD" /\ MorePasswords(e))
                     /\ Proceed(e, x.i + 1, AllSuccess(x.ok, result), files)
  /\ UNCHANGED <<setting, list, downloadVars, work, presetter, check, due, changes>>

------------------------------------------------------------------------------
(* Downloads.                                                               *)

\* start_next_downloadable and do_download.
Start(w) ==
  /\ work[w] = Resting
  /\ Cardinality({d \in ToSet(list) : running[d]}) < Limit
  /\ \E d \in ToSet(list) :
       /\ status[d] = "PENDING" /\ ~running[d]
       /\ running' = [running EXCEPT ![d] = TRUE]
       /\ status' = [status EXCEPT ![d] = "RUNNING"]
       /\ work' = [work EXCEPT ![w] = [at |-> "fetches", dl |-> d]]
  /\ UNCHANGED <<setting, list, prechecked, sized, file, presetter, check, extractVars,
                 due, changes>>

\* download_me_worker returns; a file that is new disturbs all extractions.
EndTransfer(w) ==
  /\ work[w].at = "fetches"
  /\ LET d == work[w].dl
     IN  \/ /\ status' = [status EXCEPT ![d] = "FINISHED"]
            /\ file' = [file EXCEPT ![d] = "packed"]
            /\ due' = TRUE
            /\ disturbed' = disturbed \cup Extracting
         \/ /\ \E s \in {"INACTIVE", IF status[d] = "RUNNING" THEN "PENDING" ELSE status[d]} :
                 status' = [status EXCEPT ![d] = s]
            /\ UNCHANGED <<file, due, disturbed>>
  /\ work' = [work EXCEPT ![w].at = "checks"]
  /\ UNCHANGED <<setting, list, running, prechecked, sized, presetter, check, extract, lost,
                 changes>>

\* Fault: a package is not finished while another thread is in its tail.
PackageAtRest ==
  /\ \A d \in ToSet(list) : status[d] = "FINISHED"
  /\ Cardinality({d \in ToSet(list) : running[d]}) <= 1

\* package_finished: a deleted download that is still in the list counts.
PackageFinished == \A d \in ToSet(list) : status[d] = "FINISHED"

\* The tail of download_me: a finished download looks whether it was the last.
CheckPackage(w) ==
  /\ work[w].at = "checks"
  /\ work' = [work EXCEPT ![w].at = "ends"]
  /\ IF status[work[w].dl] = "FINISHED" /\ PackageFinished /\ setting.extractor
     THEN \E e \in Extractors \ Extracting :
            /\ extract' = [extract EXCEPT ![e].at = "created"]
            /\ disturbed' = disturbed \ {e}
            /\ due' = FALSE
     ELSE UNCHANGED <<extract, disturbed, due>>
  /\ UNCHANGED <<setting, list, downloadVars, file, presetter, check, lost, changes>>

EndWork(w) ==
  /\ work[w].at = "ends"
  /\ running' = [running EXCEPT ![work[w].dl] = FALSE]
  /\ work' = [work EXCEPT ![w] = Resting]
  /\ UNCHANGED <<setting, list, status, prechecked, sized, file, presetter, check,
                 extractVars, due, changes>>

------------------------------------------------------------------------------
(* Prechecks.                                                               *)

\* What download_container::preset_file_status looks for.
ToCheck(d) == /\ setting.precheck /\ d \in ToSet(list)
              /\ ~prechecked[d] /\ ~sized[d] /\ ~running[d]
              /\ status[d] # "FINISHED"

\* Fault: presetter_running is not set.
PresetAnyway(others) ==
  LET wanted == {i \in DOMAIN list : ToCheck(list[i])}
      first == CHOOSE i \in wanted : \A j \in wanted : i <= j
  IN  IF presetter \/ wanted = {}
      THEN check' = others /\ UNCHANGED presetter
      ELSE /\ \E k \in Checkers :
                /\ others[k] = Resting
                /\ check' = [others EXCEPT ![k] = [at |-> "created", dl |-> list[first]]]
           /\ UNCHANGED presetter

\* Fault: only the first link of the package is looked at.
PresetFirst(others) ==
  IF presetter \/ list = <<>> \/ ~ToCheck(Head(list))
  THEN check' = others /\ UNCHANGED presetter
  ELSE /\ presetter' = TRUE
       /\ \E k \in Checkers :
            /\ others[k] = Resting
            /\ check' = [others EXCEPT ![k] = [at |-> "created", dl |-> Head(list)]]

\* package_container::preset_file_status, by a caller who leaves the checkers
\* as in others: a thread for the first link, unless presetter_running says
\* there is one.
Preset(others) ==
  LET wanted == {i \in DOMAIN list : ToCheck(list[i])}
      first == CHOOSE i \in wanted : \A j \in wanted : i <= j
  IN  IF presetter \/ wanted = {}
      THEN check' = others /\ UNCHANGED presetter
      ELSE /\ presetter' = TRUE
           /\ \E k \in Checkers :
                /\ others[k] = Resting
                /\ check' = [others EXCEPT ![k] = [at |-> "created", dl |-> list[first]]]

\* start_next_downloadable ends with it.
SchedulerPresets ==
  /\ Preset(check)
  /\ UNCHANGED <<setting, list, downloadVars, file, work, extractVars, due, changes>>

\* download::preset_file_status: is_running is set, whoever else sets it. The
\* return for a link that is prechecked already is out of reach (OnePrecheck).
BeginCheck(k) ==
  /\ check[k].at = "created"
  /\ LET d == check[k].dl
     IN  /\ prechecked' = [prechecked EXCEPT ![d] = TRUE]
         /\ running' = [running EXCEPT ![d] = TRUE]
         /\ check' = [check EXCEPT ![k].at = IF d \in HasPlugin THEN "asks" ELSE "probes"]
  /\ UNCHANGED <<setting, list, status, sized, file, work, presetter, extractVars, due,
                 changes>>

\* The ways out that leave presetter_running set: a host without a plugin is
\* asked for the size, or the plugin has no function to ask.
EndProbe(k) ==
  /\ check[k].at \in {"probes", "asks"}
  /\ LET d == check[k].dl
     IN  /\ running' = [running EXCEPT ![d] = FALSE]
         /\ \/ UNCHANGED <<status, sized>>
            \/ /\ check[k].at = "probes"
               /\ status' = [status EXCEPT ![d] = "INACTIVE"]
               /\ UNCHANGED sized
            \/ /\ check[k].at = "probes"
               /\ sized' = [sized EXCEPT ![d] = TRUE]
               /\ UNCHANGED status
  /\ check' = [check EXCEPT ![k].at = "again"]
  /\ UNCHANGED <<setting, list, prechecked, file, work, presetter, extractVars, due, changes>>

\* The plugin has answered for its link.
EndAsk(k) ==
  /\ check[k].at = "asks"
  /\ LET d == check[k].dl
     IN  /\ running' = [running EXCEPT ![d] = FALSE]
         /\ sized' = [sized EXCEPT ![d] = TRUE]
         /\ \E s \in {status[d], StatusAfter(d, "INACTIVE")} :
              status' = [status EXCEPT ![d] = s]
  /\ presetter' = FALSE
  /\ check' = [check EXCEPT ![k].at = "again"]
  /\ UNCHANGED <<setting, list, prechecked, file, work, extractVars, due, changes>>

\* The plugin is a decrypter: download_me is started at once, and is_running
\* cleared beneath it.
StartDecrypter(k) ==
  /\ check[k].at = "asks"
  /\ \E w \in Workers :
       /\ work[w] = Resting
       /\ work' = [work EXCEPT ![w] = [at |-> "fetches", dl |-> check[k].dl]]
  /\ running' = [running EXCEPT ![check[k].dl] = FALSE]
  /\ presetter' = FALSE
  /\ check' = [check EXCEPT ![k].at = "again"]
  /\ UNCHANGED <<setting, list, status, prechecked, sized, file, extractVars, due, changes>>

\* Every way out ends with the search for the next link.
CheckNext(k) ==
  /\ check[k].at = "again"
  /\ Preset([check EXCEPT ![k] = Resting])
  /\ UNCHANGED <<setting, list, downloadVars, file, work, extractVars, due, changes>>

------------------------------------------------------------------------------
(* The client and the ticker.                                               *)

Counted == changes < MaxChanges /\ changes' = changes + 1

AddDownload ==
  /\ Counted
  /\ \E d \in Downloads \ (ToSet(list) \cup InUse) :
       /\ list' = Append(list, d)
       /\ status' = [status EXCEPT ![d] = "PENDING"]
       /\ running' = [running EXCEPT ![d] = FALSE]
       /\ prechecked' = [prechecked EXCEPT ![d] = FALSE]
       /\ sized' = [sized EXCEPT ![d] = FALSE]
       /\ file' = [file EXCEPT ![d] = "none"]
  /\ disturbed' = disturbed \cup Extracting
  /\ UNCHANGED <<setting, work, presetter, check, extract, lost, due>>

\* DL DEL, DL ACTIVATE and DL DEACTIVATE.
SetStatus ==
  /\ Counted
  /\ \E d \in ToSet(list) :
       \E s \in {"DELETED", "INACTIVE"} \cup {"PENDING" : x \in {d} \cap
                   {c \in Downloads : status[c] = "INACTIVE"}} :
         status' = [status EXCEPT ![d] = StatusAfter(d, s)]
  /\ UNCHANGED <<setting, list, running, prechecked, sized, file, work, presetter, check,
                 extractVars, due>>

\* purge_deleted. A package that is complete only since then is not unpacked.
Purge ==
  /\ \E d \in ToSet(list) \ InUse :
       /\ status[d] = "DELETED" /\ ~running[d]
       /\ list' = Kept(list, Downloads \ {d})
  /\ disturbed' = disturbed \cup Extracting
  /\ due' = FALSE
  /\ UNCHANGED <<setting, downloadVars, file, work, presetter, check, extract, lost, changes>>

------------------------------------------------------------------------------
Init ==
  /\ setting \in Settings
  /\ list = InitialList
  /\ status = [d \in Downloads |-> "PENDING"]
  /\ running = [d \in Downloads |-> FALSE]
  /\ prechecked = [d \in Downloads |-> FALSE]
  /\ sized = [d \in Downloads |-> FALSE]
  /\ file = [d \in Downloads |-> "none"]
  /\ work = [w \in Workers |-> Resting]
  /\ presetter = FALSE
  /\ check = [k \in Checkers |-> Resting]
  /\ extract = [e \in Extractors |-> NoExtraction]
  /\ disturbed = {} /\ lost = {} /\ due = FALSE /\ changes = 0

WorkerNext(w) == Start(w) \/ EndTransfer(w) \/ CheckPackage(w) \/ EndWork(w)
WorkerEnds(w) == EndTransfer(w) \/ CheckPackage(w) \/ EndWork(w)
CheckerNext(k) == \/ BeginCheck(k) \/ EndProbe(k) \/ EndAsk(k)
                  \/ StartDecrypter(k) \/ CheckNext(k)
ExtractorNext(e) == BeginExtraction(e) \/ EndTool(e)

Next == \/ \E w \in Workers : WorkerNext(w)
        \/ SchedulerPresets
        \/ \E k \in Checkers : CheckerNext(k)
        \/ \E e \in Extractors : ExtractorNext(e)
        \/ AddDownload \/ SetStatus \/ Purge

Spec == Init /\ [][Next]_vars

\* Threads go on, and start_next_downloadable, which every command and every
\* end of a download calls, is called again.
FairSpec ==
  /\ Spec
  /\ \A w \in Workers : WF_vars(WorkerEnds(w))
  /\ \A k \in Checkers : WF_vars(CheckerNext(k))
  /\ \A e \in Extractors : WF_vars(ExtractorNext(e))
  /\ WF_vars(SchedulerPresets)
------------------------------------------------------------------------------
(* What should hold.                                                        *)

\* The variables keep their types, and threads work on listed downloads.
TypeOK ==
  /\ list \in Seq(Downloads) /\ IsInjective(list)
  /\ status \in [Downloads -> Status]
  /\ {running[d] : d \in Downloads} \subseteq BOOLEAN
  /\ file \in [Downloads -> {"none", "packed", "unpacked"}]
  /\ presetter \in BOOLEAN /\ due \in BOOLEAN
  /\ InUse \subseteq ToSet(list) \cup {NoDownload}
  /\ \A w \in Workers : work[w].at = "idle" <=> work[w].dl = NoDownload
  /\ \A e \in Extractors : extract[e].try \in 0 .. Passwords + 1
  /\ lost \subseteq Downloads /\ disturbed \subseteq Extractors

\* presetter_running is set and cleared by different threads, before and after
\* they work: at most one link is checked at a time.
OnePrecheck == Cardinality({k \in Checkers : check[k].at \in {"created", "probes", "asks"}}) <= 1

\* An extraction removes archives only if it has unpacked them all, with
\* whatever passwords and however the archives within archives fared. Excepted
\* are extractions that the list, a new file, or a success within an archive
\* that failed itself has overtaken (disturbed).
UnpackedBeforeRemoved == lost = {}

\* Whichever download of a package is the last one to finish, however close
\* together, an extraction begins: each thread sets its status before it looks
\* at those of the others.
FinishedIsExtracted ==
  setting.extractor /\ due /\ list # <<>> /\ PackageFinished ~> ~due \/ ~PackageFinished

\* Every link that should be checked is checked in the end, unless a checker
\* has left presetter_running behind, after which none is any more.
Stuck == presetter /\ \A k \in Checkers : check[k].at \in {"idle", "again"}
PrecheckGoesOn ==
  \A d \in Downloads : ToCheck(d) ~> prechecked[d] \/ ~ToCheck(d) \/ Stuck
==============================================================================
