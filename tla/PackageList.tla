------------------------------ MODULE PackageList ------------------------------
(***************************************************************************)
(* The two-level download list: packages (class download_container) of    *)
(* downloads, their numeric ids, the commands that change the list or     *)
(* its order, decrypter plugins that replace a link by others, deletion   *)
(* in two stages, and the dlist file the list is saved in and restored    *)
(* from.                                                                   *)
(*                                                                         *)
(* Clients, the scheduler and the download threads hold no pointers into  *)
(* the list but pairs of ids (dlindex) that they look up again in every   *)
(* call, so objects and ids are told apart: Packages and Downloads are    *)
(* objects, ids are numbers.  One step is one hold of                     *)
(* package_container::mx.  Which download may be started when is module   *)
(* Scheduler's subject; here a download_me thread is one step that starts *)
(* it and one that ends it.                                               *)
(***************************************************************************)
EXTENDS SubSequences, SequencesExt, FiniteSets

CONSTANTS
  Packages,   \* download_container objects
  Downloads,  \* download objects
  Clients,    \* management connections
  Commands,   \* the commands the clients issue
  Crashes,    \* may the program be killed and started again?
  Decrypters, \* may a plugin replace a download by others?
  Limit,      \* simultaneous_downloads
  MaxId,      \* bound on the ids given out
  MaxThreads  \* bound on the download_me threads of one download

AllCommands ==
  {"PKG ADD", "PKG DEL", "PKG MOVE", "PKG ACTIVATE", "PKG DEACTIVATE",
   "DL ADD", "DL DEL", "DL MOVE", "DL ACTIVATE", "DL DEACTIVATE"}

ASSUME PackageListAssumption ==
  /\ Crashes \in BOOLEAN /\ Decrypters \in BOOLEAN
  /\ Limit \in Nat /\ MaxId \in Nat /\ MaxThreads \in Nat

VARIABLES
  packages,  \* package_container::packages
  doomed,    \* package_container::packages_to_delete
  cid,       \* container_id of each package object
  content,   \* download_list of each package object
  id,        \* id of each download object
  parent,    \* the package id each download remembers
  status, running,
  threads,   \* number of download_me threads of each download
  unassigned,\* is a correct_invalid_ids thread due?
  pick,      \* the dlindex a start_next_downloadable thread is about to start
  cmd        \* the command each client's handler is at

vars == <<packages, doomed, cid, content, id, parent, status, running,
          threads, unassigned, pick, cmd>>
lists == <<packages, doomed, cid, content>>
downloads == <<id, parent, status, running>>

Status == {"PENDING", "INACTIVE", "FINISHED", "RUNNING", "DELETED"}
Ids == 0 .. MaxId
NoCommand == [op |-> "none", pkg |-> -1, ids |-> <<>>, sets |-> FALSE]
NoPick == [pkg |-> -1, id |-> -1]

Listed == UNION {ToSet(content[p]) : p \in ToSet(packages)}
Present == UNION {ToSet(content[p]) : p \in ToSet(packages) \cup ToSet(doomed)}

\* Memory that a new object may be given.
FreePackage == Packages \ (ToSet(packages) \cup ToSet(doomed))
FreeDownload == {d \in Downloads \ Present : threads[d] = 0}

--------------------------------------------------------------------------------
(* Ids.                                                                     *)

\* Fault: the next id is the number of downloads.
IsNextDownloadIdByCount(n) == n = Cardinality(Listed)

\* get_next_id and get_next_download_id: n is one more than the largest id in
\* use by the listed packages and by their downloads.
IsNextPackageId(n) ==
  LET used == {cid[p] : p \in ToSet(packages)} \cup {-1}
  IN  n - 1 \in used /\ \A i \in used : i < n

IsNextDownloadId(n) ==
  LET used == {id[d] : d \in Listed} \cup {-1}
  IN  n - 1 \in used /\ \A i \in used : i < n

\* package_by_id and get_download_by_id: the first match, if there is one.
HasPackage(n) == \E p \in ToSet(packages) : cid[p] = n
PackageById(n) ==
  packages[CHOOSE i \in DOMAIN packages :
             cid[packages[i]] = n /\ \A j \in 1 .. i - 1 : cid[packages[j]] # n]

IsDownloadById(p, n, d) ==
  \E i \in DOMAIN content[p] :
    /\ content[p][i] = d /\ id[d] = n
    /\ \A j \in 1 .. i - 1 : id[content[p][j]] # n

\* The download a dlindex stands for at the moment, if any.
Denotes(pkg, n, d) == HasPackage(pkg) /\ IsDownloadById(PackageById(pkg), n, d)

\* download::set_status.
StatusAfter(d, s) == IF status[d] = "DELETED" THEN "DELETED" ELSE s

--------------------------------------------------------------------------------
(* Order.  Every move swaps neighbours or shifts one element to an end.     *)

SwapAt(s, i, j) == [s EXCEPT ![i] = s[j], ![j] = s[i]]
ToTop(s, i) == <<s[i]>> \o RemoveAt(s, i)
ToBottom(s, i) == Append(RemoveAt(s, i), s[i])

\* The downloads that serialize saves and, once they have an id,
\* create_client_list shows.
Visible(s) == Kept(s, {d \in Downloads : status[d] # "DELETED"})

\* Fault: deleted downloads above are not passed over, only the top is.
MovedUpToTop(s, i) == IF i = 1 THEN s ELSE SwapAt(s, i, 1)

\* move_up: to the place of the next download above that is not deleted.
MovedUp(s, i) ==
  LET above == {j \in 1 .. i - 1 : status[s[j]] # "DELETED"}
  IN  IF above = {} THEN s
      ELSE SwapAt(s, i, CHOOSE j \in above : \A k \in above : k <= j)

MovedDown(s, i) ==
  LET below == {j \in i + 1 .. Len(s) : status[s[j]] # "DELETED"}
  IN  IF below = {} THEN s
      ELSE SwapAt(s, i, CHOOSE j \in below : \A k \in below : j <= k)

MovesOf(s, i) == {MovedUp(s, i), MovedDown(s, i), ToTop(s, i), ToBottom(s, i)}

\* move_pkg does not know of deleted packages: they are in another list.
PackageMovesOf(i) ==
  {ToTop(packages, i), ToBottom(packages, i)}
    \cup {SwapAt(packages, i, i - 1) : x \in {i} \ {1}}
    \cup {SwapAt(packages, i, i + 1) : x \in {i} \ {Len(packages)}}

--------------------------------------------------------------------------------
(* Management commands.  A handler answers one command at a time.           *)

Issues(c, op) == op \in Commands /\ cmd[c] = NoCommand

\* PKG ADD.
AddPackage(c) ==
  /\ Issues(c, "PKG ADD")
  /\ \E p \in FreePackage, n \in Ids :
       /\ IsNextPackageId(n)
       /\ cid' = [cid EXCEPT ![p] = n]
       /\ content' = [content EXCEPT ![p] = <<>>]
       /\ packages' = Append(packages, p)
  /\ UNCHANGED <<doomed, downloads, threads, unassigned, pick, cmd>>

\* DL ADD, with the id of a package the list has.
AddDownload(c) ==
  /\ Issues(c, "DL ADD")
  /\ \E p \in ToSet(packages), d \in FreeDownload, n \in Ids :
       /\ IsNextDownloadId(n)
       /\ id' = [id EXCEPT ![d] = n]
       /\ parent' = [parent EXCEPT ![d] = cid[p]]
       /\ status' = [status EXCEPT ![d] = "PENDING"]
       /\ running' = [running EXCEPT ![d] = FALSE]
       /\ content' = [content EXCEPT ![p] = Append(@, d)]
  /\ UNCHANGED <<packages, doomed, cid, threads, unassigned, pick, cmd>>

\* PKG DEL: the downloads become DELETED, the package waits for the purge.
DeletePackage(c) ==
  /\ Issues(c, "PKG DEL")
  /\ \E i \in DOMAIN packages :
       /\ status' = [d \in Downloads |->
                       IF d \in ToSet(content[packages[i]]) THEN "DELETED" ELSE status[d]]
       /\ doomed' = Append(doomed, packages[i])
       /\ packages' = RemoveAt(packages, i)
  /\ UNCHANGED <<cid, content, id, parent, running, threads, unassigned, pick, cmd>>

\* PKG UP, DOWN, TOP and BOTTOM.
MovePackage(c) ==
  /\ Issues(c, "PKG MOVE")
  /\ \E i \in DOMAIN packages : packages' \in PackageMovesOf(i)
  /\ UNCHANGED <<doomed, cid, content, downloads, threads, unassigned, pick, cmd>>

\* What a handler has still to do: the ids it has left to deal with, and
\* whether it sets the status (or moves the download) of the first one next.
Handling(op, n, ids, sets) == [op |-> op, pkg |-> n, ids |-> ids, sets |-> sets]

\* The DL commands look the package of an id up (pkg_that_contains_download).
LookUpDownload(c, op) ==
  /\ op \in {"DL DEL", "DL MOVE", "DL ACTIVATE", "DL DEACTIVATE"}
  /\ Issues(c, op)
  /\ \E p \in ToSet(packages) : \E d \in ToSet(content[p]) :
       /\ id[d] >= 0
       /\ cmd' = [cmd EXCEPT ![c] =
                    Handling(op, cid[p], <<id[d]>>, op \in {"DL DEL", "DL MOVE"})]
  /\ UNCHANGED <<lists, downloads, threads, unassigned, pick>>

\* The PKG commands take all ids of a package (get_download_list).
LookUpPackage(c, op) ==
  /\ op \in {"PKG ACTIVATE", "PKG DEACTIVATE"}
  /\ Issues(c, op)
  /\ \E p \in ToSet(packages) :
       /\ content[p] # <<>>
       /\ cmd' = [cmd EXCEPT ![c] =
                    Handling(op, cid[p],
                             [i \in DOMAIN content[p] |-> id[content[p][i]]], FALSE)]
  /\ UNCHANGED <<lists, downloads, threads, unassigned, pick>>

\* The handler is done with the first of its ids.
NextIdOf(c) ==
  cmd' = [cmd EXCEPT ![c] = IF Len(@.ids) = 1 THEN NoCommand
                            ELSE Handling(@.op, @.pkg, Tail(@.ids), FALSE)]

\* What the first id denotes now.
Hit(c) == {d \in Downloads : Denotes(cmd[c].pkg, Head(cmd[c].ids), d)}

\* The statuses from which a command goes on to set another one.
SwitchesDownload(op, s) ==
  \/ op = "DL ACTIVATE" /\ s = "INACTIVE"
  \/ op = "DL DEACTIVATE" /\ s # "INACTIVE"
SwitchesPackage(op, s) ==
  \/ op = "PKG ACTIVATE" /\ s = "INACTIVE"
  \/ op = "PKG DEACTIVATE" /\ s # "FINISHED"

\* get_status, and whether anything follows.
ReadStatus(c) ==
  /\ cmd[c].op \in {"DL ACTIVATE", "DL DEACTIVATE", "PKG ACTIVATE", "PKG DEACTIVATE"}
  /\ ~cmd[c].sets
  /\ LET s == IF Hit(c) = {} THEN "DELETED" ELSE status[CHOOSE d \in Hit(c) : TRUE]
     IN  IF SwitchesDownload(cmd[c].op, s) \/ SwitchesPackage(cmd[c].op, s)
           THEN cmd' = [cmd EXCEPT ![c].sets = TRUE]
           ELSE NextIdOf(c)
  /\ UNCHANGED <<lists, downloads, threads, unassigned, pick>>

\* set_status, whatever the status is by now.
CommandStatus ==
  [op \in {"DL DEL", "DL ACTIVATE", "DL DEACTIVATE", "PKG ACTIVATE", "PKG DEACTIVATE"} |->
     CASE op = "DL DEL" -> "DELETED"
       [] op \in {"DL ACTIVATE", "PKG ACTIVATE"} -> "PENDING"
       [] OTHER -> "INACTIVE"]
Apply(c) ==
  /\ cmd[c].op \in DOMAIN CommandStatus /\ cmd[c].sets
  /\ status' = [d \in Downloads |->
                   IF d \in Hit(c) THEN StatusAfter(d, CommandStatus[cmd[c].op])
                   ELSE status[d]]
  /\ NextIdOf(c)
  /\ UNCHANGED <<lists, id, parent, running, threads, unassigned, pick>>

\* move_dl.
Move(c) ==
  /\ cmd[c].op = "DL MOVE"
  /\ IF Hit(c) # {}
       THEN LET p == PackageById(cmd[c].pkg)
            IN  \E i \in DOMAIN content[p] :
                  /\ IsDownloadById(p, Head(cmd[c].ids), content[p][i])
                  /\ \E s \in MovesOf(content[p], i) : content' = [content EXCEPT ![p] = s]
       ELSE UNCHANGED content
  /\ NextIdOf(c)
  /\ UNCHANGED <<packages, doomed, cid, downloads, threads, unassigned, pick>>

ClientNext(c) ==
  \/ AddPackage(c) \/ AddDownload(c) \/ DeletePackage(c) \/ MovePackage(c)
  \/ \E op \in Commands : LookUpDownload(c, op) \/ LookUpPackage(c, op)
  \/ ReadStatus(c) \/ Apply(c) \/ Move(c)

--------------------------------------------------------------------------------
(* start_next_downloadable and download_me.                                 *)

Startable(d) == status[d] = "PENDING" /\ ~running[d] /\ id[d] >= 0

\* get_next_downloadable returns the ids of the first startable download.
PickNext ==
  /\ pick = NoPick
  /\ Cardinality({d \in Listed : running[d]}) < Limit
  /\ \E i \in DOMAIN packages : \E j \in DOMAIN content[packages[i]] :
       LET s == content[packages[i]]
       IN  /\ Startable(s[j])
           /\ \A k \in 1 .. j - 1 : ~Startable(s[k])
           /\ \A k \in 1 .. i - 1 : \A d \in ToSet(content[packages[k]]) : ~Startable(d)
           /\ pick' = [pkg |-> cid[packages[i]], id |-> id[s[j]]]
  /\ UNCHANGED <<lists, downloads, threads, unassigned, cmd>>

\* do_download, on what those ids denote now.
DoDownload ==
  /\ pick # NoPick
  /\ pick' = NoPick
  /\ IF \E d \in Downloads : Denotes(pick.pkg, pick.id, d)
       THEN \E d \in Downloads :
              /\ Denotes(pick.pkg, pick.id, d)
              /\ threads[d] < MaxThreads
              /\ running' = [running EXCEPT ![d] = TRUE]
              /\ status' = [status EXCEPT ![d] = StatusAfter(d, "RUNNING")]
              /\ threads' = [threads EXCEPT ![d] = @ + 1]
       ELSE UNCHANGED <<running, status, threads>>
  /\ UNCHANGED <<lists, id, parent, unassigned, cmd>>

\* download_me ends: what its plugin and its transfer make of the status is
\* assigned whatever the status has become meanwhile.
WorkerEnds(d) ==
  /\ threads[d] > 0
  /\ threads' = [threads EXCEPT ![d] = @ - 1]
  /\ running' = [running EXCEPT ![d] = FALSE]
  /\ \E s \in {"FINISHED", "INACTIVE",
               IF status[d] = "RUNNING" THEN "PENDING" ELSE status[d]} :
       status' = [status EXCEPT ![d] = s]
  /\ UNCHANGED <<lists, id, parent, unassigned, pick, cmd>>

\* A decrypter plugin puts a new download in the place of its own, which it
\* finds by the id (insert_downloads, replace_this_download); the new one has
\* no id for now.  A command may have changed the status of its own since.
Decrypt(d) ==
  /\ Decrypters /\ threads[d] > 0
  /\ \E p \in ToSet(packages) \cup ToSet(doomed), new \in FreeDownload :
       \E i \in DOMAIN content[p] :
         /\ content[p][i] = d /\ IsDownloadById(p, id[d], d)
         /\ content' = [content EXCEPT ![p] = InsertAt(@, i, new)]
         /\ id' = [id EXCEPT ![new] = -1]
         /\ parent' = [parent EXCEPT ![new] = cid[p]]
         /\ status' = [status EXCEPT ![new] = "PENDING", ![d] = "DELETED"]
         /\ running' = [running EXCEPT ![new] = FALSE]
  /\ unassigned' = TRUE
  /\ UNCHANGED <<packages, doomed, cid, threads, pick, cmd>>

\* correct_invalid_ids: ids for the downloads that have none, in list order.
CorrectIds ==
  /\ unassigned
  /\ LET order == FlattenSeq([i \in DOMAIN packages |-> content[packages[i]]])
         none == Kept(order, {d \in Downloads : id[d] = -1})
     IN  \E n \in Ids :
           /\ IsNextDownloadId(n)
           /\ n + Len(none) - 1 <= MaxId
           /\ id' = [d \in Downloads |->
                       IF d \in ToSet(none)
                         THEN n - 1 + CHOOSE i \in DOMAIN none : none[i] = d
                         ELSE id[d]]
  /\ unassigned' = FALSE
  /\ UNCHANGED <<lists, parent, status, running, threads, pick, cmd>>

WorkerNext(d) == WorkerEnds(d) \/ Decrypt(d)
SchedulerNext == PickNext \/ DoDownload \/ CorrectIds

--------------------------------------------------------------------------------
(* The ticker's purge_deleted.                                              *)

\* Fault: a download is destroyed whether it is running or not.
SparedUnlessDeleted(s, i) == status[s[i]] # "DELETED"

\* purge_deleted of one package: each download that is deleted and not running
\* has the first download with its id removed, itself unless they share -1.  So
\* the i-th stays if there are fewer of those than downloads with its id up to it.
Spared(s, i) ==
  LET same == {j \in DOMAIN s : id[s[j]] = id[s[i]]}
      dead == {j \in same : status[s[j]] = "DELETED" /\ ~running[s[j]]}
  IN  Cardinality(dead) < Cardinality({j \in same : j <= i})
Purged(s) == Kept(s, {s[i] : i \in {i \in DOMAIN s : Spared(s, i)}})

\* The doomed packages the loop gets to: it ends at the first it can destroy.
CanBeDestroyed(p) == \A i \in DOMAIN content[p] : ~Spared(content[p], i)
Reached == {i \in DOMAIN doomed : \A j \in 1 .. i - 1 : ~CanBeDestroyed(doomed[j])}
Emptied == {i \in Reached : CanBeDestroyed(doomed[i])}

\* The packages it purges, and whether it destroys a download of theirs.
Purging == ToSet(packages) \cup {doomed[i] : i \in Reached}
Destroys(d) ==
  \E p \in Purging : \E i \in DOMAIN content[p] :
    content[p][i] = d /\ ~Spared(content[p], i)

\* A destroyed object is blank.
PurgeLists ==
  LET freed == {doomed[i] : i \in Emptied}
  IN  /\ content' = [p \in Packages |-> IF p \in Purging THEN Purged(content[p])
                                       ELSE content[p]]
      /\ doomed' = Kept(doomed, Packages \ freed)
      /\ cid' = [p \in Packages |-> IF p \in freed THEN -1 ELSE cid[p]]
      /\ id' = [d \in Downloads |-> IF Destroys(d) THEN -1 ELSE id[d]]
      /\ parent' = [d \in Downloads |-> IF Destroys(d) THEN -1 ELSE parent[d]]

\* What the loop gets to and cannot destroy is marked DELETED again, for a
\* download thread may have overwritten the status.
Remarked ==
  UNION {ToSet(content[doomed[i]]) : i \in Reached \ Emptied}

\* Fault: nothing is marked DELETED again.
PurgeDeletedOnce ==
  /\ PurgeLists
  /\ UNCHANGED <<packages, status, running, threads, unassigned, pick, cmd>>

\* Deleted downloads that are not running are destroyed, in the doomed
\* packages too.
PurgeDeleted ==
  /\ PurgeLists
  /\ status' = [d \in Downloads |-> IF d \in Remarked THEN "DELETED" ELSE status[d]]
  /\ UNCHANGED <<packages, running, threads, unassigned, pick, cmd>>

--------------------------------------------------------------------------------
(* The dlist file: what is saved, and what a restart makes of it.  Module   *)
(* ListFile says when it is written.                                        *)

\* What dump_to_file would write: a line per package and per download that is
\* not deleted.
Text ==
  [i \in DOMAIN packages |->
     LET shown == Visible(content[packages[i]])
     IN  [pkg |-> cid[packages[i]],
          lines |-> [j \in DOMAIN shown |->
                       [id |-> id[shown[j]], status |-> status[shown[j]]]]]]

\* Fault: a download is restored with the status it was stored with.
RestoredAsStored(s) == s

\* The status from_serialized makes of a stored one.
Restored(s) == IF s \in {"INACTIVE", "FINISHED"} THEN s ELSE "PENDING"

\* The download lines of a file in order, each with the package it follows.
Lines(file) ==
  FlattenSeq([i \in DOMAIN file |->
    [j \in DOMAIN file[i].lines |->
      [pkg |-> file[i].pkg, status |-> Restored(file[i].lines[j].status)]]])

\* from_file: packages keep their stored ids, downloads are numbered anew.
FromFile(file) ==
  LET lines == Lines(file)
  IN  \E ps \in [DOMAIN file -> Packages], ds \in [DOMAIN lines -> Downloads] :
       LET Stored(p) == file[CHOOSE i \in DOMAIN file : ps[i] = p].pkg
           Line(d) == CHOOSE n \in DOMAIN lines : ds[n] = d
           Of(p) == Kept(ds, {d \in ToSet(ds) : lines[Line(d)].pkg = Stored(p)})
       IN  /\ IsInjective(ps) /\ IsInjective(ds) /\ Len(lines) - 1 <= MaxId
           /\ packages' = ps
           /\ cid' = [p \in Packages |-> IF p \in ToSet(ps) THEN Stored(p) ELSE -1]
           /\ content' = [p \in Packages |-> IF p \in ToSet(ps) THEN Of(p) ELSE <<>>]
           /\ id' = [d \in Downloads |-> IF d \in ToSet(ds) THEN Line(d) - 1 ELSE -1]
           /\ parent' = [d \in Downloads |->
                           IF d \in ToSet(ds) THEN lines[Line(d)].pkg ELSE -1]
           /\ status' = [d \in Downloads |->
                           IF d \in ToSet(ds) THEN lines[Line(d)].status ELSE "DELETED"]

\* The program ends at any moment and starts again.  The file holds the list of
\* now or of an earlier moment, which gives the same states as a crash at that
\* moment, or nothing at all.
Restart ==
  /\ Crashes
  /\ FromFile(Text) \/ FromFile(<<>>)
  /\ doomed' = <<>>
  /\ running' = [d \in Downloads |-> FALSE]
  /\ threads' = [d \in Downloads |-> 0]
  /\ unassigned' = FALSE /\ pick' = NoPick
  /\ cmd' = [c \in Clients |-> NoCommand]

--------------------------------------------------------------------------------
Init ==
  /\ packages = <<>> /\ doomed = <<>>
  /\ cid = [p \in Packages |-> -1] /\ content = [p \in Packages |-> <<>>]
  /\ id = [d \in Downloads |-> -1] /\ parent = [d \in Downloads |-> -1]
  /\ status = [d \in Downloads |-> "DELETED"]
  /\ running = [d \in Downloads |-> FALSE]
  /\ threads = [d \in Downloads |-> 0]
  /\ unassigned = FALSE /\ pick = NoPick
  /\ cmd = [c \in Clients |-> NoCommand]

Next ==
  \/ \E c \in Clients : ClientNext(c)
  \/ \E d \in Downloads : WorkerNext(d)
  \/ SchedulerNext
  \/ PurgeDeleted
  \/ Restart

Spec == Init /\ [][Next]_vars

\* The ticker goes on, and download_me threads end.
FairSpec ==
  /\ Spec
  /\ WF_vars(PurgeDeleted)
  /\ \A d \in Downloads : WF_vars(WorkerEnds(d))

--------------------------------------------------------------------------------
(* What should hold.                                                        *)

FileText ==
  Seq([pkg : Ids,
       lines : Seq([id : -1 .. MaxId, status : Status \ {"DELETED"}])])

\* The variables keep their types.
TypeOK ==
  /\ packages \in Seq(Packages) /\ doomed \in Seq(Packages)
  /\ cid \in [Packages -> -1 .. MaxId]
  /\ content \in [Packages -> Seq(Downloads)]
  /\ id \in [Downloads -> -1 .. MaxId] /\ parent \in [Downloads -> -1 .. MaxId]
  /\ status \in [Downloads -> Status] /\ running \in [Downloads -> BOOLEAN]
  /\ threads \in [Downloads -> 0 .. MaxThreads]
  /\ unassigned \in BOOLEAN
  /\ pick \in [pkg : -1 .. MaxId, id : -1 .. MaxId]
  /\ cmd \in [Clients -> [op : AllCommands \cup {"none"}, pkg : -1 .. MaxId,
                          ids : Seq(-1 .. MaxId), sets : BOOLEAN]]
  /\ Text \in FileText

\* The types hold, and ids identify: no two listed packages and no two listed downloads share one
\* (a decrypter's links have none for a while), and a download knows the id of
\* the package it is in.  Commands, dlindex lookups and the dlist file rest on
\* it, across additions, moves, purges, decrypters and restarts.
WellIdentified ==
  /\ TypeOK
  /\ \A p, q \in ToSet(packages) : p # q => cid[p] # cid[q]
  /\ \A d, e \in Listed : d # e /\ id[d] = id[e] => id[d] = -1
  /\ \A p \in ToSet(packages) \cup ToSet(doomed) :
       \A d \in ToSet(content[p]) : parent[d] = cid[p]

\* Where d is in the list shown, as a client sees it.
Place(shown, d) == CHOOSE i \in DOMAIN shown : shown[i] = d
\* The others.
Without(shown, d) == Kept(shown, Downloads \ {d})

\* DL UP and DOWN move a download one visible place, TOP and BOTTOM to the ends,
\* over the deleted ones that are still in the list; everything else keeps its
\* order and nothing is lost (protocol_spec, "one position upwards").
MovesAreExact ==
  \A p \in ToSet(packages) : \A i \in DOMAIN content[p] :
    LET s == content[p]
        d == s[i]
        shown == Visible(s)
        before == Place(shown, d)
        n == Len(shown)
        After(t) == Place(Visible(t), d)
    IN  /\ \A t \in MovesOf(s, i) :
             ToSet(t) = ToSet(s) /\ Without(Visible(t), d) = Without(shown, d)
        /\ status[d] # "DELETED" =>
             /\ After(MovedUp(s, i)) = IF before = 1 THEN 1 ELSE before - 1
             /\ After(MovedDown(s, i)) = IF before = n THEN n ELSE before + 1
             /\ After(ToTop(s, i)) = 1 /\ After(ToBottom(s, i)) = n

\* A deleted package is destroyed in the end, whatever the threads of its
\* downloads write into their status after the deletion.
DoomedAreDestroyed ==
  \A p \in Packages : p \in ToSet(doomed) ~> p \notin ToSet(doomed)

\* A download that counts against the limit as running has a download_me thread
\* that will end it: no restart and no deletion leaves one behind.  (That the
\* thread could not be created is a matter of module Scheduler.)
RunningHasThread ==
  \A d \in Downloads : status[d] = "RUNNING" \/ running[d] => threads[d] > 0

\* The object a download_me thread works on is still in a package, which may be
\* a deleted one: deletion goes by ids, some of them shared for a while, and by
\* a flag that is cleared elsewhere.
ThreadsHaveObjects == \A d \in Downloads : threads[d] > 0 => d \in Present
================================================================================
