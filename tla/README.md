# DownloadDaemon in TLA+

DownloadDaemon is a server that keeps a list of links, grouped in packages, and
downloads them one after the other or several at a time. Clients connect to it
over TCP, change the list and are told what happens to it. Everything works on
one global list, `global_download_list`, from many threads: one per client, one
per download, one that ticks every second, and short-lived ones that start
further downloads, check links, give out ids, unpack archives, or reconnect the
router. The graphical client has two threads that share a connection and a copy
of the list. This directory holds TLA+ models of the parts where these threads
meet, TLC configurations that check the models on small instances, and proofs
for all instances.

Paths below are relative to `src/src/daemon/`: PC is `dl/package_container.cpp`,
DC `dl/download_container.cpp`, DL `dl/download.cpp`, MG `mgmt/mgmt_thread.cpp`,
CM `mgmt/connection_manager.cpp`, GM `mgmt/global_management.cpp`; and LC is
`src/src/include/downloadc/downloadc.cpp`, CF
`src/src/include/cfgfile/cfgfile.cpp`, GUI
`src/src/ddclient-gui/ddclient_gui.cpp`, LH `ddclient_gui_list_handling.cpp` and CD
`ddclient_gui_configure_dialog.cpp` beside it.

    tlc -workers 2 -config Fair.cfg MCScheduler.tla       # one run
    tlapm SchedulerProofs.tla                             # the proofs of a module

## 1. Inventory

| Part | State | Operations | Talks to | What is hard |
|---|---|---|---|---|
| download list and scheduler (PC, DC) | `packages`, `packages_to_delete`, `mx`, `is_reconnecting`; per package `download_list`, `download_mutex` | `start_next_downloadable`, `get_next_downloadable`, `do_download`, `set_status`, `decrease_waits`, `purge_deleted` | every thread calls it; it creates `download_me` threads | some callers hold `mx` throughout, some not; a choice made in one hold is used in another |
| download (DL) | `status`, `wait_seconds`, `is_running`, `need_stop`, `error`, `proxy` | `download_me`, `download_me_worker`, `wait`, `set_status`, `post_process_download` | its plugin, libcurl, the list, `do_reconnect` | direct assignments to `status` race with commands; the thread outlives its flag |
| package list (PC, DC) | ids of packages and downloads, order, two lists of packages | add, delete, move, (de)activate, decrypter insertion, `correct_invalid_ids`, purge, restore | commands, plugins, the `dlist` file | everyone holds ids, not pointers; ids are reused; objects are deleted in two stages |
| list file (PC) | the file, `last_dlist` | `dump_to_file`, `from_file` | handlers and download threads | open empties the file; the comparison with `last_dlist`; crash, failing open and write |
| reconnect policy (PC) | `is_reconnecting`, a leaked `download_mutex` | `reconnect_needed`, `do_reconnect` | `download_me`, the router scripts | statuses are set back over a list that others changed |
| reconnect scripts (`reconnect/`) | rest of a line, data, a curl handle | interpret a script, wait for a new address | the router | functions that call each other share what they have read |
| ticker (GM) | condition variable, `ns_mutex` | `do_once_per_second` | purge, waits, download time, config | it starts downloads in the middle of its loop |
| management protocol (MG) | one thread per client | authenticate, answer commands, dump | the list, `connection_manager` | one thread serves a queue and a socket |
| subscriptions (CM) | `connections`, ids, topics, queues | `add_client`, `del_client`, `push_message`, `pop_message`, `subscribe` | handlers pop, everyone pushes | ids of clients are reused, pushes race with unsubscribing |
| captcha (`plugins/captcha.cpp`, PC) | one captcha object per host | `process_image`, `solve_captcha`, `CAPTCHA` commands | downloads poll, clients answer | deadline against late answer; an answer does not name its image |
| precheck (DL, DC, PC) | `presetter_running`, `is_running` | `preset_file_status` | a second kind of download thread | it starts its successor; two users of `is_running` |
| package extractor (PC, DC, `dl/package_extractor.cpp`) | archives of a package | `package_finished`, `extract_package` | external programs | who is the last to finish; what may be removed |
| plugin container | cache of what plugins say | `get_info`, `clear_cache` | configuration | what is remembered belongs to an account |
| plugins | - | one scraper per hoster | `plugin_helpers.h` | what they may do to the list |
| transfers (`tools/`, `dl/curl_speeder.cpp`) | points of time and size | curl callbacks, `speed_me` | libcurl | they keep each other back |
| configuration (CF) | file, stream, cache, mutex | get, set, reload | everyone | the mutex is given up in the middle |
| sockets (`netpptk`) | buffer, bytes to come | `send`, `recv` | TCP | streams are cut anywhere |
| client library (LC) | socket, mutex, `old_updates` | a command and its answer, updates | the protocol | answers and updates share a connection |
| graphical client (GUI, LH, CD) | copy of the list, tree of rows, two mutexes, windows | slots, `update_thread`, updates of the tree, `ok` | the library | rows are numbers in a list that changes; windows that stay open |
| console client, web client, helpers, vendored code | - | - | - | sequential, text |

What makes the parts correct:

* Scheduler and download: what is marked running is being run by a thread that
  will end the mark; a slot is given back and used again; a start that is made
  under `mx` is right at that moment; no wake-up is lost; a waiting download
  continues; deletion ends in destruction, and not while somebody uses the
  object.
* Reconnect: one at a time; the status RECONNECTING does not outlive it; what
  the script says is what the router is sent; it ends.
* Package list: ids identify; lookups by id hit what was meant; the order is what
  the clients asked for; deletion completes; restarts restore a list that runs.
* List file and configuration: what was set is on disk when nobody has anything
  to write, and nothing else is lost by it.
* Management: a handler has its client; messages go to those who subscribed, and
  go out.
* Captchas, transfers: an answer is an answer to what is asked; waiting ends.
* Prechecks, extraction: one check at a time, all of them in the end; a finished
  package is unpacked, and nothing removed that was not.
* Clients: each command gets its own answer; what is shown becomes the list, row
  by row; a command is for what the user has selected; the configuration window
  changes what the user has changed.

`PROJECT.json` lists all parts (`components`), and under `hazards` the lines at
which these demands are at risk, each with the properties that watch it.

## 2. Modules

| Module | Models |
|---|---|
| `DownloadState` | the record of one download and what its setters and the outcomes of `download_me_worker` make of it |
| `Scheduler` | the list (as one package), every thread that starts, runs, stops, counts down, purges or reconnects downloads |
| `SchedulerProofs` | theorems about `Scheduler` |
| `LockOrder` | `package_container::mx` and `ns_mutex`: who takes them in which order |
| `ReconnectProofs` | theorems about `Scheduler`, mainly its reconnects, and about `RouterScript` and `LockOrder` |
| `PackageList` | packages, ids, order, two-stage deletion, decrypters, restart |
| `PackageListProofs` | theorems about `PackageList` |
| `PackageJobs` | prechecks and the extraction of archives |
| `PackageJobsProofs` | theorems about `PackageJobs` |
| `ListFile` | the `dlist` file and `dump_to_file` step by step |
| `Management` | `ListFile` composed with connections, handlers, subscriptions and a download thread that dumps |
| `ManagementProofs` | theorems about `ListFile`, `Management`, `Settings`, `Captcha` and `ConfigureDialog` |
| `Settings` | a configuration file, the commands that use it, and the cache of what a plugin says of a host |
| `Captcha` | the captcha object of a host, `solve_captcha`, the handlers of clients that answer |
| `Speeder` | the common speed limit of the transfers |
| `RouterScript` | the interpreter of router scripts |
| `Socket` | `tkSock` over a stream of bytes |
| `RemoteCalls` | the abstract specification of a command and its answer |
| `Client` | the graphical client's threads, the library, the connection and the handler; it implements `RemoteCalls` |
| `ListView` | the tree of rows and the selection |
| `ConfigureDialog` | the configuration window against the variables of the program |
| `ClientProofs` | theorems about `Client` (its calls), `Socket` and `ListView` |
| `WindowProofs` | theorems about `Client` (its list and its types) |
| `SubSequences` | what a loop leaves of a vector (`Kept`, `KeptAt`), defined so that it can be reasoned about |
| `DataFacts` | induction, and facts about sequences that several proofs need |
| `MCScheduler`, `MCPackageList`, `MCPackageJobs`, `MCManagement`, `MCClient`, `MCReconnect` | model values, small instances and symmetry sets for TLC |

Some components share no variable with the ones they are checked beside.
`MCManagement`, `MCClient` and `MCReconnect` then have a variable `side` that
says which of them a behaviour is about; the others stay in their initial states.
The fairness conditions of the parts are used as they are where the initial state
enables nothing they speak of, and are guarded by `side` (`Goes` in `MCClient`)
where it does.

### Scheduler

One step is what a thread does in one uninterrupted hold of the mutexes it needs.
`package_container::mx` is a variable (`mx`), since threads keep it over several
steps and since which threads do is the point; `download_mutex` is taken inside
single steps, except that `reconnect_needed` can leave it locked (`leaked`).

| Code | Model |
|---|---|
| `start_next_downloadable` (PC 847-887) | program counter `st[t]` of every thread that calls it: `lock` or `entry`, `scan`, `picked`; actions `LockStart`, `EnterStart`, `PickNext`, `PickNone`, `DoDownload` |
| `get_next_downloadable` (PC 150, DC 266) | `IsNext`, `Startable` |
| `download_me`, `download_me_worker` (DL 323-) | `wk[w]`, one action per stretch: `WorkerStarts`, `PluginSetsWait`, `CaptchaFails`, `Prepared`, `CountdownOver`, `SetUp`, `TransferDone`, `PostProcessed`, `TransferFails`, `TransferAborted`, `Settle`, `AskReconnect`, `FinishPackage`, `Release`, `WorkerEnds` |
| `reconnect_needed`, `do_reconnect` (PC 590-712) | the answers of the four policies in `AskReconnect`; `rec[r]` with `BeginReconnect`, `MarkDownloads`, `RouterDone`, `UnmarkDownloads` |
| `do_once_per_second` (GM) | `tick` with `PurgeOne`, `DecreaseBegins`, `DecreaseDone`; `ClockTurns` for the download time |
| `decrease_waits` (DC 542-558) | a step for each call that takes the object's mutex, with the value read kept in `tick.wait`: `ReadWait`, `WriteWait`, `LookAtStatus`, `ZeroWait`, or `ReadWait`, `AskStatus`, `WaitOver` |
| commands (MG) | `Activate`, `Deactivate`, `Delete` look up, then `CommandSetsStatus`, `CommandZeroesWait`; `Stop`, `Add`, `OtherCommand` |

What is simplified:

* There is one package: its list stands for the concatenation. Moves, package
  commands, the id -1 and restarts are in `PackageList`.
* Errors are classes, and only told apart where the configuration lets them
  matter. Wait times are bounded (`MaxWait`).
* Slots: `Workers` are threads that can exist; if none is free, creating one
  fails, which the code only logs (DC 696-698): the download is then in
  `stranded`. Helper and reconnect threads instead wait for a slot; their number
  is a bound.
* The first call of `start_next_downloadable`, made by `main`, is made in the
  ticker's name. `purge_deleted` may be interrupted between two removals. A
  handler's two successive calls of `start_next_downloadable` are one.
  `do_reconnect` reads all statuses (`seen`) and then applies what follows from
  them. The scan in `get_next_downloadable` is one atomic read.
* A download's own mutex is held for one call at a time. `decrease_waits`, which
  writes what it has read in an earlier call, is modelled so. Three places with
  several calls are one step each; all are under `mx`, so that only the download's
  own thread can come between. `do_download` sets `is_running` and then the status
  (DC 693-694), and that thread reads or writes one of the two at a time: whatever
  it does is as before or after both. `do_reconnect` may read the status twice,
  and sets `need_stop` or the counter in a call of its own (PC 681-686, 700-702): a
  download that becomes WAITING between the two readings is not marked, and a
  counter that is set between the two writings is 0, to which ticks bring it in the
  model. `purge_deleted` reads the status and then `is_running` (DC 563): a deleted
  download whose thread puts another status over DELETED and ends between the two
  is purged, and in the model it is one of those that stay.
* A leaked `download_mutex` blocks every list operation but the tail of the
  thread that leaked it.
* Left out: the precheck threads (in `PackageJobs`), `ns_mutex` (in `LockOrder`), the mutex of
  the plugin container, recursive ftp directories (DL 461-474), the early return
  of a worker whose package has no downloads left (DL 562), the dump lock of post
  processing, `assume_proxys_online` (taken as false).

### LockOrder

`Scheduler` takes `ns_mutex` as not there: its steps are whole holds of `mx`, and
`in_dl_time_and_dl_active` is asked within one. `LockOrder` has both mutexes and
nothing of the list. `stage[t]` is where a thread is, and `keeps[t]` whether it
goes on with `mx` after `start_next_downloadable`.

* `CallStart` and `ChangeAndStart` begin `start_next_downloadable` without and with
  `mx` (as `set_status` does, PC 253); `LookForNext` takes `mx` (PC 151), `AskTime`
  `ns_mutex` for the moment of the question (PC 879).
* `SetTimes`, `TimesSet`: a handler after VAR (MG 262-268).
* `Tick`, `CountNone`, `CountWaits`, `WaitIsOver`, `CountDone`: the ticker, which
  takes `ns_mutex` first (GM 56-65). A wait that is over starts downloads with both
  held, as `download_container::decrease_waits` gives back its own mutex only (DC 552).
* Both are recursive: a thread may take again what it has. `AskTime` and the ends of
  the ticker's second give back what the thread took first.
* Left out: what is looked for and found, a hold of `mx` in which no other mutex is
  taken, and `main`, which sets the times before there are other threads.

### PackageList

Objects and ids are different things here: `Packages` and `Downloads` are
objects, ids are numbers, and commands and the scheduler keep ids (`cmd`, `pick`)
between two steps, as the code does. One step is one hold of `mx`.

* `AddPackage`, `AddDownload`, `DeletePackage`, `MovePackage` are the commands
  that work in one hold. The others look ids up (`LookUpDownload`,
  `LookUpPackage`) and resolve them again for each call: `Apply` or `Move`, and
  before it `ReadStatus` where a command asks for the status first.
* `PickNext`, `DoDownload`, `WorkerEnds` stand for the scheduler and the threads.
  WAITING and RECONNECTING are seen as PENDING. `WorkerEnds` writes a final status
  over whatever is there, as `download_me_worker` does (DL 695).
* `Decrypt` inserts a link with id -1 before the decrypter's own download
  (`plugin_helpers.h:180`, DC 671); a plugin that inserts several does it
  several times. `CorrectIds` is the thread that numbers them.
* `PurgeDeleted` is `package_container::purge_deleted` as a whole, with its loop
  that ends at the first package it destroys (PC 475-487), and with removal by id
  (DC 560-568).
* `Restart` reads back what `dump_to_file` would have written (`Text`,
  `FromFile`), or an empty file. An earlier text is an earlier crash. There are
  ids for as many lines as the file has (`MaxId`).
* Left out: names, passwords and urls. A download has at most `MaxThreads`
  threads.

### ListFile and Management

A list is known by its text. `Open` empties the file and notes `last_dlist`,
`Write` fills it or, on a full disk, does not; `DumpFails` is an open that
fails. Download threads change their downloads without `mx`, also during a dump
(`BackgroundChange`). `excuse` is auxiliary: it records why the file may differ
from the list: somebody changed it and nobody has to dump it now (`owed`), or a
write failed without anyone looking (`torn`, PC 733-735).

A handler (`phase`) authenticates, sends queued messages, receives a command,
dumps. Commands differ by their effect on list, subscriptions and dump:
`NoDumpCommand`, `OtherCommand`, `ListCommand`, `SetVariable`, `Subscribe`,
`Unsubscribe`. A command with the word LIST anywhere in it is not followed by a
dump (MG 259), whatever it changes; the model has that. Handlers that give up at
authentication, or whose thread cannot be created, leave their object in
`connections` (phase `left`).

### PackageJobs

One package; a download is its status, `is_running` and its file. `work[w]` is
where a `download_me` thread is, `check[k]` the same of a thread of
`download::preset_file_status`, `extract[e]` of one of `extract_package`.

* `Preset` is `package_container::preset_file_status` under `mx`: it is part of
  every action that calls it (`SchedulerPresets`, `AddDownload`, `CheckNext`).
  `EndProbe` and `EndAsk` are the ways out of `preset_file_status`, the two that
  do not clear `presetter_running` among them; `StartDecrypter` turns a checked
  decrypter into a download that runs.
* `CheckPackage` is the end of `download_me`: a finished download looks at the
  statuses of the others (`package_finished`) and creates an extraction.
* `BeginExtraction`, `NextArchive`, `EndTool`, `RemoveArchives` are
  `extract_package`; `ResultsOf` says which results each tool of
  `package_extractor.cpp` can have, `DeepResult` what an archive in an archive
  makes of them: the result of the inner one counts.
* Left out: a package or a download that is destroyed while a thread works on
  it, a thread that cannot be created (PC 789 is not guarded), names and
  directories.

### Settings

The program has three files of this class (variables, router, premium accounts);
one stands for all, with the commands of all. A step is one hold of
`cfgfile::mx`. `script[t]` are the calls a command still has to make, such as the
two `set_cfg_value` of `PREMIUM SET` followed by `clear_cache`; `place[t]` is
where it is in the first of them. `stream` has the states of the C++ stream that
the accessors look at: `good`, `atEnd` (eof), `ended` (eof and fail), `closed`.
`GivesUpMutex` is the moment at which an accessor reopens the file without the
mutex. `GetInfo` keeps `plugin_container::mx` over both reads of the account.

Left out: comments and order in the file, what a plugin does with the account,
ROUTER commands' calls of `reconnect_needed` (MG 1307-1314), values with newlines.

### Captcha

`p_mutex` of a plugin lets one download at a time into it (`user_of`); all of
them use one object (`image`, `result`, `retry_count`). `Poll` is a round of the
loop in `solve_captcha`: a second, then the time, then the result. A handler
reads the error, then the pointer, then uses the object, in three steps; what
its user looks at is `shown`. An answer keeps, as auxiliary data, the image it
was typed for and the image there was when it arrived. Left out: a torn read of
image and type (two calls), the text of images, plugins that ask a question.

### Speeder

Points are pairs of an age and a size; `Moment` makes them older. `MustWait` is
the condition of the loop, with the weighted mean of three thirds
(`RecalcSpeed`). The limit of a single transfer is left out: nothing calls
`set_speed`. Sizes only grow, and one point is noted per moment.

### RouterScript

`calls` are the functions that are active, `curr_line` the rest of the line they
share, `request` the handle with what has been set in it. A script is what its
author meant (`program`), written down (`Script`, from the last command to the
first by `LinesAfter`) with several tags on one line or one on each. Data are
lines of `Texts`: no tag, no method and nothing that is substituted. `Attempt` to
`GiveUpReconnecting` are the tries and the wait for an address. Left out: malformed lines and `DEFINE` (some make the interpreter loop
or throw), tags inside of a request, which no shipped script has, and that
addresses are text (any change is a success, also from an address that could not
be found out).

### Socket

Bytes go from `wire` to `inbox` at any time (`Arrive`); `SendSome` and `RecvSome`
take as many as they like of what there is. The header is peeked at as a whole, as
in the code; `Number` and `Colon` are what it makes of the bytes, which are
numbers. Bodies are shorter than ten bytes, and their length is one digit. Left out:
`EINTR`, and a `-1` from `::send`, from which the code subtracts one and goes on.

### RemoteCalls and Client

`RemoteCalls` says what a caller of the library may rely on: a command is carried
out once, at a moment between being sent and being answered, and its caller gets
what it produced then; only a lost connection leaves it without an answer.

`Client` has the list of the program (`list`), the connection with its handler
(`request`, `queue`, `channel`), the library (`mx`, `todo`, `old_updates` as
`stash`), the list handling (`lmx`, `view`, `newContent`, `newUpdates`, `events`)
and the two threads. `CallsAreAnswered` maps the socket, the mutex of the library
and what the threads hold (`CallsOf`) to the calls of `RemoteCalls`.

| Code | Model |
|---|---|
| a function of LC | the sequence of requests it sends (`DeleteFile`, `GetList`, ...); `Begin`, `SendNext`, `Receive`, `Returned` carry them out |
| `recv` between updates and answers (LC 1511-1581) | `Receive`, `ReceiveNothing`, `IsAnswer`: updates that come before the answer go to `stash` |
| `update_thread::run` | `FirstCheck`, `RequestSubscription`, `LoopChecks`, `EnterUpdates`, `GetUpdates`, `PrepareUpdates`, `ListReady`, `LoopEnds` |
| a slot of the window (GUI) | `On...`: it pauses updates, looks at the selection, asks, sends its commands, reloads and goes on; `OnConnect` with `Join` |
| events for the window's thread | `events`, `HandleEvent` |
| the handler | `Serve`, `CarryOut`, `SendMessage`; other clients are `Elsewhere` |

What is simplified: one package; connecting is one step with its greeting; a
download is an id and whether it is active; messages about configuration and
titles are left out; the user sets off `MaxSlots` slots, each with any selection.

### ListView

`content` is the copy of the list, `rows` the model of the tree with the cells
that are written (`FullUpdate`, `ApplyAll`), each as the code compares: text by
text, and a status cell if something that it shows has changed (`Facts`). A
message adds, replaces or removes a row of a package (`RowAdded`, `RowReplaced`,
`RowRemoved`) or one of its children. `ToggleRow` and `ToggleOpen` are the user. The status bar, progress sums and
`CONFIG` messages are left out.

### ConfigureDialog

`config` is what the program is set to, `all_variables` what VAR LIST said,
`panel` and `advanced` what the fields show, `left` what `ok` has still to write.
The variables of the list are read one after the other, and written one after
the other, while other clients set them. `Shown` says what a box, a list of lines
or a field makes of a text. `theirs` is what the program would be set to without
this client. Left out: premium accounts, the password, settings of the client
itself, and `get_var_list`'s treatment of values with `=` or `|`.

## 3. What is checked

Passing runs:

| Run | Instance | Properties |
|---|---|---|
| `Lifecycle` | 1 download, all commands, all ways a download can end, proxies, waits, download time | `TypeOK`, `RunningHasWorker`, `WakeupsAreKept` |
| `Reconnect` | list: 2 downloads, limit 1, 2 reconnect threads, policy HARD; locks: 3 threads and the ticker; router: every script of at most 2 commands, 2 tries; captcha: 2 downloads of a host, 1 client, 3 images; speeder: 2 transfers, limits 0 and 1 | `SlotHasWorker`, `LockedStartIsFresh`, `OneReconnect`, `ReconnectingIsTransient`, `OnlyTheTickerCrosses`, `ScriptIsCarriedOut`, `AnswerFitsTheImage`, `WaitsEnd` |
| `Fair` | 1 download, a client that deletes, a reconnect thread | `ReconnectEnds`, `SlotIsReleased`, `WaitingEnds`, `DeletedIsPurged` |
| `Packages` | 2 packages, 2 downloads, ids 0 and 1, all commands, decrypters, crashes | `WellIdentified`, `RunningHasThread`, `ThreadsHaveObjects` |
| `Moves` | 1 package, 3 downloads, decrypters | `MovesAreExact`, `DoomedAreDestroyed` |
| `Management` | list: 2 connections, a download thread, 2 lists and the empty one, crashes; settings: 2 threads, 3 identifiers, a file that cannot be opened once; dialog: 3 variables and 2 of the router, 2 edits, 1 change by others | `TypeOK`, `NothingUnsaved`, `HandlersHaveClients`, `OnlySubscribedIsQueued`, `MessagesAreSent`, `NoUpdateIsLost`, `PluginInfoIsFresh`, `OnlyEditsAreSaved` |
| `Client` | calls: 1 download and 1 to come, 1 slot of every kind, 1 lost connection, 1 change by others; rows: lists of 2 packages and 2 downloads, batches of 1 or 2 messages; socket: 3 bodies, 2 bytes at a time, 2 connections | `TypeOK`, `ViewIsTheList`, `CallsAreAnswered`, `SlotsEnd`, `RowsShowContent`, `SelectionIsTheUsers`, `MessagesArriveWhole`, `RecvReturns` |
| `Jobs` | 1 link and 1 to be added, 2 threads of each kind, 1 password, 2 changes by a client | `OnePrecheck`, `UnpackedBeforeRemoved`, `FinishedIsExtracted`, `PrecheckGoesOn` |

They show:

* `Lifecycle`: a download can be deactivated between being chosen and
  being started, and nothing is orphaned by it; every outcome in
  `download_me_worker` leads to a state in which the slot is free again.
* `Reconnect`: two downloads contend for one slot, and none is orphaned or started
  stale under a lock; reaching the limit together they make one reconnect, and
  the statuses it set are all set back although the list goes on. Threads that take
  `mx` and `ns_mutex` stop each other only with the ticker (`Crossed`; TLC checks
  that nothing else deadlocks). A script is
  carried out request by request, in the second try as in the first. An answer
  to a captcha is not taken for an answer to the next one, of the same or another
  download. And each of these waits ends, with or without an answer, at whatever
  limit of speed.
* `Fair`: under fairness waits, reconnects, slots and deletions come to an end.
* `Packages`, `Moves`: the numeric ids mean one thing over additions, deletions,
  decrypters and restarts; moves are what the protocol says although deleted
  downloads lie in between.
* `Management`: dumps, however they overlap with changes, leave the list on disk;
  and settings, read and set by two threads, are all in the file in the end. What
  is remembered of a plugin was asked with the present account. The configuration
  window saves what was entered and undoes nothing else.
* `Client`: each command gets its own answer although updates come in between
  (the refinement), the window shows the list when all messages have come, no
  slot blocks for ever, and a selection never moves to another download, although
  rows do. The messages themselves arrive whole.
* `Jobs`: one precheck at a time, although each starts the next, and all links
  have their turn; the last download to finish starts the extraction, whichever
  it is; no archive is removed that was not unpacked.

Bounds. The hazards concern two threads and one or two downloads: a choice and
its use, a flag and its owner, a status and the one who overwrites it. Two
downloads and a limit of one make the slot contended; two reconnect threads are
the contention for `is_reconnecting`; `MaxWait = 1` has both ways through
`decrease_waits` and a counter that is set, or set to 0, between being read and being
written; counting is the same at each value. Two packages are needed
for ids that are given out again while `packages_to_delete` holds one; three
downloads in a package let a move pass over a deleted one in the middle and at
both ends. Two client ids (`MaxClient = 1`) with two connections let an id be
given again while the other is in use. The limit of two queued messages lets a
queue hold both topics. Three threads and the ticker are
more than two mutexes can have waiting crosswise; `TicksStop` needs one of them.
Three images are one more than the two an answer can be mistaken between. A window
of three moments fills and empties the points of a transfer, but leaves the middle
one of their thirds empty (a weight, not a case).
Two commands make a script in which something can be left behind. Two bytes at a
time cut headers and bodies of three at every place. One slot at a time is what
the window allows; one change by others and one lost connection each fall between
any two of its steps. One edit in each of the two places where a variable is
shown is why there are two. One password gives an extraction two tries. The
theorems remove the bounds for all of the invariants: that slots survive clients that
deactivate one of several downloads, with any number of threads, is theirs to show.
The types of `PackageJobs` and `Settings` are only proved (`JobsTypes`,
`SettingsTypes`). Symmetry is used in runs
without liveness only.

Each property has a mutant of the code (`mutants` in `PROJECT.json`, `Fault:` in
the modules) that violates it.

Runs that are violated, each a disagreement between the code and what is said of
it:

| Run | Property | What TLC shows |
|---|---|---|
| `PurgedInUse` | `PurgedIsUnused` | DL 377: `is_running` is cleared, and the object used afterwards (387-391), while `purge_deleted` looks at `is_running` alone. |
| `SoftPolicy` | `LimitIsOvercome` | PC 625: an early return keeps `download_mutex` locked. No list operation ever ends again. |
| `LinesLost` | `LinesAreKept` | CF 143: `set_cfg_value` reopens the stream without the mutex and does not look at it again; a `get_cfg_value` of an identifier that is not in the file has read it to its end meanwhile. No line can be read, and the file is written anew with the new line alone. |
| `TicksStop` | `TicksGoOn` | GM 56: the ticker has `ns_mutex` and waits for `mx`, another thread has `mx` and waits for `ns_mutex` (PC 151, 879). No second is counted any more, though "each second" (`downloaddaemon.cpp` 352) it should. |

### What the code does not promise

`LockedStartIsFresh` speaks of the callers of `start_next_downloadable` that hold
`mx` throughout. For the others (a handler after its command, the end of
`download_me`, the ticker when the download time begins) there is no such
property: what they picked may have been started, stopped, deactivated or deleted
before `do_download` marks it RUNNING, and a deactivated download then runs. Two
of them may also find the same free slot and start two downloads for it (PC 867),
more than `simultaneous_downloads` (`downloaddaemon.conf` 35) allows. In the same
way these are behaviours that no property forbids:

* Scheduler: a download whose thread could not be created stays RUNNING
  (`stranded`). A deletion of a single download during its transfer can be
  overwritten by its end (DL 695): `DeletedIsPurged` excepts it; a deleted package
  marks its downloads again, so there it does not happen. The end of the wait of a
  PENDING download (DL 521) starts nothing. The ticker writes a counter it has read
  before (DC 545-547): a wait that a plugin or the end of a download sets in between
  is lost or cut short, and a counter that is set to 0 in between has the old wait,
  less one, again (`WriteWait`).
* Lock order: the deadlock of `TicksStop` stops the list for ever, with everything
  that needs it. The other models are of a program in which it does not happen.
* List: PKG DEACTIVATE reads a status in one hold of `mx` and sets it in the next
  (MG 1017): a download that finishes in between is INACTIVE, and downloaded
  again when it is activated (`ReadStatus`, `Apply`), although `protocol_spec`
  (line 77) speaks of unfinished downloads. In the same way two clients can add
  one link twice with `refuse_existing_links` set (MG 420).
* List file: a crash between opening and writing loses the list, and so does a
  full disk. A list that was restored and then emptied is not saved by its first
  dump, as `last_dlist` is empty too (PC 726). A command that has LIST in an
  argument is saved by somebody else's dump only.
* Prechecks: the exits at DL 974 and 988 leave `presetter_running` set, after
  which no link is checked any more until a restart (`Stuck`). The flag
  `is_running` is shared with `download_me`, and whoever ends first clears it.
  The exits also unlock a mutex that its lock object unlocks again (DL 973, 1024).
* Extraction: the archives of files that were added while it ran are removed
  with the others; the result of an inner archive hides that of the outer one
  (`disturbed`). A deleted download that is not yet purged keeps its package from
  being extracted.
* Settings: a password change with the format of `protocol_spec` (line 84) is
  cached with a blank in front; `set_cfg_value` says true when the file could not
  be opened; two `PREMIUM SET` at once may mix two accounts; a crash between
  emptying and writing loses all settings; `VAR SET downloading_active=1` starts
  downloads before the value is set; the configuration window shows `...` for a
  password it cannot read, and saves that as the password; `PREMIUM LIST` reads `plugin_cache` without
  its mutex.
* Captcha: an answer that is late when it is given counts for the image of the
  moment. Captchas solved by hand never count as tries, nor do answers of gocr of
  the wrong length, so `captcha_retrys` may never be reached. An empty answer is
  none.
* Router scripts: of the seconds of a `WAIT` only the first digit is used (all
  shipped scripts wait for 3). `reconnect_tries` 0 means no try, though the
  log says 3.
* Socket: a header that the stream cuts ends the connection; one that ends inside
  a body makes `recv` turn for ever.
* Client: `CAPTCHA REQUEST` of a download with a captcha is answered twice
  (MG 1536-1544; `protocol_spec` 16 has one answer), after which every command
  gets the answer to the one before (`doubled`). Unknown subcommands of PREMIUM
  and CAPTCHA are not answered at all. A slot looks up rows once, before its
  question is answered; after a modal window they may be other ones (GUI 780-832,
  919-966). Some early returns leave updates paused. A batch that comes while
  another waits, or before a list, is lost (LH 76-97), and so is what happens
  between the first list and the subscription (`missed`). A connection lost
  inside `get_updates` is not noticed there.
* List: rows that an update inserts lose their selection; packages never close.
* Configuration window: `ok` writes `enable_reconnect` and, if it is on, all
  variables of the router whatever was changed, and the password of the router
  from a field that starts empty; a box that shows "yes" as off writes it as 0; a
  text that is not in a list becomes its first line; of two texts for one
  variable the advanced panel's wins; refusals are not shown.

### Fairness

`Scheduler`: strong fairness for the steps of each thread, since a thread that
wants `mx` competes with the ticker, which has it for a moment each second, and
a mutex that is free again and again is got in the end. Transfers end, as curl is
given a low speed limit; plugins return; router scripts have a bounded number of
tries, and their requests come back (see `RouterScript` below). Clients need do nothing, but a command that has been begun is finished.
`ClockTurns` and `PluginSetsWait` have no fairness. `PackageList`: the ticker goes
on, threads end. `PackageJobs`: threads go on (weak), and
`start_next_downloadable`, which every command and every end of a download calls,
is called again.

`Management`: handlers go on (weak), get `mx` for their dump (strong), and a
subscriber's handler is in `recv` only if there is something to read; clients
read what they are sent. Without this last assumption a client that does not
read blocks its handler, and no message would go out. `Client`: the handler
answers (weak); each thread of the client gets the mutex it waits for, which its
owner gives back with every round (strong). The user need do nothing, and is free
to leave a question open. `Socket`: threads in `send` and `recv` go on; `::recv`
returns when nothing comes, as the socket has a limit of 60 seconds.

`LockOrder`, for `TicksStop`: each thread gets a mutex that is free again and again,
and a loop that starts downloads ends (strong); a handler gives `ns_mutex` back.
These hold of every thread, so that the counterexample is the two that wait for each
other and nobody else. Without the crossing the same fairness gives `TicksGoOn`.

`Captcha`: the clock runs; clients need not answer. `Speeder`: time passes and
threads wake up (weak: once time has passed a point may be noted however much
more of it passes). `RouterScript`: the thread goes on. Its requests come back, as the
handle is a `ddcurl` (`reconnect_parser.h`): `request` resets it (`reconnect_parser.cpp`
190), and `ddcurl::reset` sets the limits of a new handle again (`ddcurl.h` 132-140,
163-167), 1024 seconds for a connection and 20 for an answer slower than 1024 bytes a
second. An answer that goes on for ever above that speed is not considered, as for
transfers. A `WAIT` is at most nine seconds.

## 4. What is proved

TLAPS checks these theorems for every value of the constants: any list, number of
threads, clients, downloads, limits and messages. The bounds that keep TLC's runs
small are constants, too, and may be any number. What is assumed of the constants
are the `ASSUME`s of the modules: names that are to differ do, numbers are natural
numbers, what is called an initial list is a list without duplicates, and the like.
Four of them say more. `SettingsAssumption`: trimming a text twice is trimming it
once, and defaults are trimmed. `ScriptAssumption`: data are no tags, and who sends
data names the method. `BodyAssumption`: bodies are shorter than ten bytes, so that
the header is a digit and a colon. `DialogAssumption`: the three kinds of fields of
the window are for different variables.

| Module, theorem | Statement |
|---|---|
| `SchedulerProofs`, `TypeCorrect` | `[]TypeOK`: in particular no wait counter passes below zero, although it is read and written in separate steps, between which others set it to 0 |
| `SchedulerProofs`, `NoneStaysRunning` | `[]RunningHasWorker`: a download in status RUNNING has a thread that will look at the status before it ends |
| `SchedulerProofs`, `NoSlotLeaks` | `[]SlotHasWorker`: an `is_running` flag has a thread that will clear it |
| `ReconnectProofs`, `ReconnectsAreExclusive` | `[]OneReconnect`: `is_reconnecting` is set for as long as one thread gives the router a new address |
| `ReconnectProofs`, `ReconnectingEnds` | `[]ReconnectingIsTransient`: the status RECONNECTING is there only while that thread has still to set it back |
| `ReconnectProofs`, `LockedStartsAreFresh` | `[]LockedStartIsFresh`: what is started under the hold of `mx` under which it was chosen may be started |
| `ReconnectProofs`, `NoWakeupIsLost` | `WakeupsAreKept`: a step after which there is something to start comes with a thread that will look for it |
| `ReconnectProofs`, `ScriptIsDone` | `[]ScriptIsCarriedOut`: the router gets what the script says, in every attempt |
| `ReconnectProofs`, `OthersDoNotCross` | `[]OnlyTheTickerCrosses`: two threads that wait for each other over `mx` and `ns_mutex` are the ticker and another one |
| `PackageListProofs`, `IdsIdentify` | `[]WellIdentified`: ids are of one object, across purges and restarts |
| `PackageListProofs`, `RunningEnds` | `[]RunningHasThread`: a download that counts as running has a thread |
| `PackageListProofs`, `ThreadsKeepObjects` | `[]ThreadsHaveObjects`: no download is destroyed under its thread |
| `PackageListProofs`, `MovesArePrecise` | `[]MovesAreExact`: a move is by one place that is shown, or to the end |
| `PackageJobsProofs`, `JobsTypes` | `[]TypeOK` |
| `PackageJobsProofs`, `PrechecksAreExclusive` | `[]OnePrecheck`: two links are never checked at once |
| `PackageJobsProofs`, `NothingIsLost` | `[]UnpackedBeforeRemoved`: no archive is removed that was not unpacked |
| `ManagementProofs`, `ManagementTypes` | `[]TypeOK` |
| `ManagementProofs`, `ListIsSaved` | `[]NothingUnsaved`: the file has the list when nobody has anything to dump |
| `ManagementProofs`, `ClientsOutliveHandlers` | `[]HandlersHaveClients`: a handler has its client object |
| `ManagementProofs`, `SubscriptionsAreKept` | `[]OnlySubscribedIsQueued`: a client is told what it asked for |
| `ManagementProofs`, `SettingsTypes` | `[]SettingsTypeOK` |
| `ManagementProofs`, `SettingsAreKept` | `[]NoUpdateIsLost`: file and cache have what was set last |
| `ManagementProofs`, `PluginsAreAskedAnew` | `[]PluginInfoIsFresh`: what is known of a plugin was asked with the present account |
| `ManagementProofs`, `EditsAreSaved` | `[]OnlyEditsAreSaved`: the window sets what was entered and nothing else |
| `ManagementProofs`, `AnswersFit` | `[]AnswerFitsTheImage`: an answer counts for the image it was typed for |
| `ClientProofs`, `ClientImplementsRemoteCalls` | `Spec => CallsAreAnswered`: `Client` implements `RemoteCalls` |
| `ClientProofs`, `MessagesAreWhole` | `[]MessagesArriveWhole`: `recv` returns what `send` was given |
| `ClientProofs`, `RowsAreTheContent` | `[]RowsShowContent`: each row and cell shows what the list has there |
| `ClientProofs`, `SelectionIsKept` | `SelectionIsTheUsers`: no update selects what the user has not |
| `WindowProofs`, `ClientTypes` | `[]TypeOK` of `Client` |
| `WindowProofs`, `WindowShowsTheList` | `[]ViewIsTheList`: when all messages have come the window shows the list, whatever was fetched, applied or posted meanwhile |

### The arguments

*Data.* `DataFacts` has induction over numbers as a fact about sets of numbers
(`LeastNatural`, `NaturalInduction`), from the library's theorem that inclusion of
finite sets is well founded. Recursive functions are unfolded with it (`Kept`,
`LinesAfter`, `ApplyAll`, the lines of the list file): each is first shown to be
the function that its equation describes.

*Slots.* Neither `RunningHasWorker` nor `SlotHasWorker` is inductive. A worker's
step changes the record of *its* download, so one needs that it has one
(`WorkerHasDownload`), and of the right type; and a thread that stops being a
witness for one of them must leave the status, or the flag, that needs none. The
inductive invariant is

    SlotInv == TypeOK /\ WorkerHasDownload /\ RunningHasWorker /\ SlotHasWorker

`UpdateLemma` to `NewDownloadLemma` say what the operators on records preserve;
`FrameLemma` and `WorkerStepLemma` reduce a step to the one download it changes;
then there is one lemma per group of actions (`StarterPreserves`,
`WorkerPreserves`, `ReconnectPreserves`, `TickPreserves`, `ClientPreserves`). For the
counter, `TypeOK` says of the ticker that the value it will write back less one is not 0
(`VisitWrites`): the counter itself may be 0 by then.

*Reconnects.* That they exclude each other is inductive with the types: the flag
is read and set in one hold of `mx`. That RECONNECTING ends is not. The thread
goes by what it has read (`seen`), so nothing may leave the list in between; it
marks what it has read in the same hold of `mx`; and purging must not take a
download that is RECONNECTING. `ReconnectInv` adds to `SlotInv`:

* `MarkerHasMx`: a thread about to mark still has `mx`, and what it read is listed;
* `TickerHasMx`: `decrease_waits` has `mx` to its end, so that its unlocking is of
  its own lock;
* `ReconnectFirst`: a reconnect thread does not start downloads before it is
  through, so that it does not give `mx` away itself;
* `ReconnectingIsListed`: what is RECONNECTING is in the list when it is read again.

Steps outside of `do_reconnect` mark none (`OutsideMarksNone`), lose none
(`OutsideLosesNone`), and keep mutex and threads (`OutsideKeepsMx`,
`OutsideKeepsTicker`, `OutsideKeepsReconnector`); `InsidePreserves` has the steps of
the reconnect.

*Starting.* A thread with `mx` found that no reconnect goes on when it began, and
none can begin before it is through (`ScansUnhindered`). What it has chosen stays a
good choice, as no flag `is_running` is set by a thread without `mx` but that of
post processing, which takes no slot (`NoneBegun`, `StaysFresh`), and in the program
that of a precheck (DL 901), which is not part of `Scheduler`. That no wake-up is
lost is shown for each step with nothing to start before it: most change neither
the list nor the time (`NothingNew`) or only take from what there is to start; the
others call `start_next_downloadable`, or are those the property excepts. That
there is nothing to start (`NoneNext`) is brought to single downloads by the least
place in the list of one that could be.

*Lock order.* Who asks for the download time has `mx` (`AskersHaveList`), and who has
`ns_mutex` for longer than a moment is the ticker in its second or a handler that
sets the times and takes nothing else (`KeepersOfTime`). So of two threads that wait
for each other one waits for `ns_mutex`, and the other keeps it and waits for `mx`:
that is the ticker before it counts.

*Router scripts.* `ScriptInv` says where the interpreter is: before the first
command, behind the k-th, in the line of a pause, or in one of the lines of a
request (`Asking`), with what has been read of it in `request` and
`curr_post_data`, and with the stack of functions that goes with that place. What
is unread is the rest of that command and the lines of those that follow
(`LinesLeft`). The steps follow each other along the lines (`OpeningStep`,
`BetweenStep`, `PausingStep`, `AskingStep`, `ClosingStep`).

*The list of packages.* `PLInv` says that a package is in one place of the list or
among the doomed, and a download in one package (`Layout`); that listed ids are
different, but for -1, and parents right (`Identified`); that a download with a
thread has an id and a place (`ThreadsRun`), which the purge goes by; and that what
`start_next_downloadable` has chosen is not started by another one before it does
(`PickIsFree`), for which the ids must still be those of that download or of none.
The purge and the restart are taken apart into what they do to one package.
`MovesAreExact` then is about sequences: the loops of a move exchange two elements
with none that is shown between them, so that of what is shown two neighbours
change places, or one goes to the end.

*Prechecks and archives.* `presetter_running` may be set without a checker (DL 974,
988), but no checker is at work without it, and no two are (`PrecheckInv`). An
extraction that nobody has disturbed stands at an archive of the list and has left
none packed that it went over, as long as all went well (`Passed`).

*The list file and the handlers.* `SessionInv` has what `connection_manager` rests
on: ids grow along the list of connections (`IdsGrow`), so that the one after the
last is free, and a handler that has begun is listed (`HandlersAreListed`). Of the
dump one needs that the writer is the one who opened (`WriterIsDumping`), and that
`last_dlist` is what is in the file (`LastIsInFile`): then a dump that finds the
list unchanged need not write it.

*Settings.* A thread between the two steps of `set_cfg_value` has the mutex, so that
it writes over what was set last (`WritersHaveLatest`), and the cache has no other
value than the file (`CacheIsLatest`); both as long as no stream was spoilt. The
plugin's account is read in two calls. That both are of the present account takes
`Fits`: a command that sets an account ends with the call that clears what is
remembered, and whoever asks keeps `plugin_container::mx` up to remembering.

*Captchas.* `CaptchaInv` says that `p_mutex` leaves one download inside of a plugin,
and that a result which is there while a download waits was given for the image
of the moment (`ResultIsFresh`): `process_image` and `solve_captcha` reset it
before the image is offered.

*The configuration window.* Up to `ok` the program is set to what it would be
without this client (`SetsNothing`), the list read is what the others have left
alone since (`ReadAsIs`), and the fields show it where they were not changed
(`FieldsAreShown`). While `ok` writes, each write is of an edit, and each edit is
set or still to be written (`OkWrites`).

*Calls.* `CallInv` says that a request on a connection without double answers is
that of the owner of the mutex, and the one answer that may be there is to it
(`AnswersFit`). Each step of `Client` is then a step of `RemoteCalls` for one
thread or changes no call: what the handler, the messages and the loss of the
connection do to the channel is told apart by what it does to the first answer.

*Messages.* All that was given to `send`, with its headers, is a tape. What `recv`
has returned, the part of a message it has, what arrived, what is on its way and
what is left to send follow each other on it without a gap (`Follows`), wherever
the stream is cut. The tape is found anew for each state (`\E tape, ends`).

*Rows.* `Shows` relates the list and the rows place by place (`Matching`); each of
`RowAdded`, `RowReplaced` and `RowRemoved` keeps it, a batch by induction on the
messages. That of a cell, which is written only if what it shows has changed, is a
case of its own.

*The window.* What is under way between the list and the window is one stream of
messages: what waits to be applied (`newUpdates`), the batch that was fetched,
`old_updates`, what is on the connection and what the handler has queued, one after
the other. Messages do not say what to do but how things are, so a list may be newer
than messages that are still to come, and the order in which lists and batches are
applied need not be that of the program's changes. A list *leads* to the program's
by a stream (`Leads`) if for each download alone (`LeadsOf`) the last that the stream
tells of it is true, and where it tells nothing both lists agree; `Ordered` says the
same of the order, up to a move, which makes the client fetch the list anew (both:
`Good`). An empty stream leads from equal lists only; a message that is posted with
its change, one that is applied (`Applied`), and `Latest`, which drops what later
messages make superfluous, keep what leads leading. `ViewInv` asks this of
each list there is: the one shown with what waits (`Right(Base, Todo)`, `Shown`),
the one that a thread has fetched, and the answer with a list on its way, each with
the part of the stream behind it. It also says in which order threads, events and
locks go with each other, which is most of the types of `Client` (`ClientTypes`):
where a thread is says which mutex it has and what it has fetched.

### Model-checked only

* Liveness: `ReconnectEnds`, `SlotIsReleased`, `WaitingEnds`, `DeletedIsPurged`,
  `DoomedAreDestroyed`, `MessagesAreSent`, `SlotsEnd`, `RecvReturns`, `WaitsEnd`,
  `FinishedIsExtracted`, `PrecheckGoesOn`. Fairness and `ENABLED` are beyond the
  prover. `RemoteCalls` has no fairness, so that its refinement is proved as a
  whole.
* The four runs that are violated, `TicksGoOn` of `LockOrder` among them.

## 5. Not modelled

* The parser of recursive ftp directories, the command lines and outputs of the
  archive programs, options and text formats, regular expressions: they work on
  text and input of their own, and share no state with another thread. Their
  results are what the models choose from.
* The scraper plugins, one per hoster, follow web pages. What they may do to the
  list through `plugin_helpers.h` is modelled.
* The console client and the web client send one command at a time, in one
  thread; the dialogs of the graphical client for new downloads, captchas and
  files only build commands. Vendored code (AES, trex, boost).
* What FILE DEL does to the disk, and the decoding of link containers; bytes,
  speeds and names of files; passwords of packages. Passwords of clients are a
  step that succeeds or not: what encryption makes of them is not modelled.
* DL SET and PKG SET read a package or download and write it in two holds of `mx`
  (MG 638-680): what they check may have changed, so that the url of a running
  download can change.
* Undefined behaviour of the C++ program beyond what `PurgedInUse` and
  `ThreadsHaveObjects` are about: a torn read of a string that another thread
  writes, a mutex unlocked twice.

## 6. Plan

The order is by how much rests on a part and how hard it is to test.

1. `DownloadState`, `Scheduler`, `PackageList`, `ListFile`, `Management`: done.
2. `PackageJobs`, `Captcha`, `Settings`, `Speeder`, `RouterScript`, `Socket`: done.
3. `RemoteCalls`, `Client`, `ListView`, `ConfigureDialog`: done.
4. Theorems about each of these but `Speeder`, whose property is one of liveness
   (section 4): done. Every invariant of the runs is a theorem.
5. `LockOrder`: done.

Considered and dropped: an abstract specification of a slot (free, taken, given
back) that `Scheduler` implements. The code promises too little for one: callers
without `mx` may take a slot twice (see above), so that the abstract slot would be
one that can always be taken. What does hold of slots is `SlotHasWorker`,
`SlotIsReleased` and `LockedStartIsFresh`.
