------------------------------- MODULE ListFile -------------------------------
(***************************************************************************)
(* The file the download list is saved in (package_container::list_file),  *)
(* the text dump_to_file wrote last (its static variable last_dlist), and  *)
(* what a restart makes of the two.  A list is known here by the text that *)
(* dump_to_file would write for it.                                        *)
(*                                                                         *)
(* Whoever changes the list has it dumped later: module Management says    *)
(* when.  A dump holds package_container::mx, which keeps the management   *)
(* commands out but not the download threads, who change the status of     *)
(* their downloads without it.                                             *)
(***************************************************************************)
EXTENDS Integers

CONSTANTS
  Lists,      \* the texts of the lists there can be
  NoPackages, \* the text of the list without packages, which is empty
  Dumpers,    \* the threads that dump
  NoOne

ASSUME ListFileAssumption == NoPackages \in Lists /\ NoOne \notin Dumpers

VARIABLES
  list,       \* the text of the list as it is
  file,       \* what the file holds
  last_dlist, \* what was written last, empty in a new process
  dumping,    \* the thread between opening the file and closing it
  excuse      \* auxiliary: why the file may differ from the list

fileVars == <<list, file, last_dlist, dumping, excuse>>

Excuses == {"none", "owed", "torn"}

\* A list that nobody is bound to dump next, unless the file is damaged anyway.
Owed == IF excuse = "torn" THEN "torn" ELSE "owed"

Unlocked == dumping = NoOne

FileInit ==
  /\ list = NoPackages /\ file = NoPackages
  /\ last_dlist = NoPackages
  /\ dumping = NoOne /\ excuse = "none"

\* A list operation of a management command.
Change(new) == Unlocked /\ list' = new /\ UNCHANGED <<file, last_dlist, dumping>>

\* A download thread changes a status, a size or a file name; packages neither
\* come nor go by that.
BackgroundChange ==
  /\ list # NoPackages
  /\ \E new \in Lists \ {list, NoPackages} : list' = new
  /\ excuse' = Owed
  /\ UNCHANGED <<file, last_dlist, dumping>>

\* dump_to_file finds the text it wrote last, and does nothing.
DumpSkipped ==
  /\ Unlocked /\ last_dlist = list
  /\ excuse' = IF excuse = "owed" THEN "none" ELSE excuse
  /\ UNCHANGED <<list, file, last_dlist, dumping>>

\* Fault: the text counts as written before the file is known to be open.
DumpFailsAfterNoting ==
  /\ Unlocked /\ last_dlist # list
  /\ last_dlist' = list
  /\ excuse' = Owed
  /\ UNCHANGED <<list, file, dumping>>

\* The file cannot be opened for writing.
DumpFails ==
  /\ Unlocked /\ last_dlist # list
  /\ excuse' = Owed
  /\ UNCHANGED <<list, file, last_dlist, dumping>>

\* The file is opened, which empties it ...
Open(t) ==
  /\ Unlocked /\ last_dlist # list
  /\ dumping' = t
  /\ file' = NoPackages
  /\ last_dlist' = list
  /\ UNCHANGED <<list, excuse>>

\* Fault: a write that fails returns with the mutex held.
WriteKeepingMutex(t) ==
  /\ dumping = t
  /\ \/ /\ file' = last_dlist /\ dumping' = NoOne
        /\ excuse' = IF last_dlist = list THEN "none" ELSE "owed"
     \/ /\ file' = NoPackages /\ last_dlist # NoPackages
        /\ excuse' = "torn" /\ UNCHANGED dumping
  /\ UNCHANGED <<list, last_dlist>>

\* ... and the text written, all of it or, on a full disk, not.
Write(t) ==
  /\ dumping = t
  /\ dumping' = NoOne
  /\ \/ /\ file' = last_dlist
        /\ excuse' = IF last_dlist = list THEN "none" ELSE "owed"
     \/ /\ file' = NoPackages /\ last_dlist # NoPackages
        /\ excuse' = "torn"
  /\ UNCHANGED <<list, last_dlist>>

\* A dump without Open and Write.
DumpAtOnce == DumpSkipped \/ DumpFails

\* The program ends and is started again: from_file numbers the downloads anew
\* and takes a running download for a pending one, so that the text of the
\* restored list may differ from the file's, but not whether there is any.
FileRestart ==
  /\ list' \in IF file = NoPackages THEN {NoPackages} ELSE Lists \ {NoPackages}
  /\ last_dlist' = NoPackages
  /\ dumping' = NoOne
  /\ excuse' = IF list' = file THEN "none" ELSE "owed"
  /\ UNCHANGED file

FileTypeOK ==
  /\ list \in Lists /\ file \in Lists /\ last_dlist \in Lists
  /\ dumping \in Dumpers \cup {NoOne}
  /\ excuse \in Excuses
================================================================================
