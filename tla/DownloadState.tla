---------------------------- MODULE DownloadState ----------------------------
(***************************************************************************)
(* One download object (class download, src/daemon/dl/download.h) as the   *)
(* scheduler sees it: its status, the is_running and need_stop flags, the  *)
(* wait counter, the class of its last error and its position in the       *)
(* proxy list.  Each operator is what a thread does under one hold of the  *)
(* object's own mutex, or what it writes there in several when no other    *)
(* order of the writes can be told apart.                                  *)
(***************************************************************************)
EXTENDS Naturals

\* download_status, without the DOWNLOAD_ prefix.
Status == {"PENDING", "INACTIVE", "FINISHED", "RUNNING",
           "WAITING", "DELETED", "RECONNECTING"}

\* plugin_status by what the scheduler tells apart: LIMIT (LIMIT_REACHED) asks
\* for another proxy or a reconnect, CONNECTION (PLUGIN_ERROR, CONNECTION_ERROR,
\* CONNECTION_LOST, INVALID_HOST) for another proxy, NONE (SUCCESS and all the
\* others) for nothing.
ErrorClass == {"NONE", "LIMIT", "CONNECTION"}

DownloadRecord(maxWait, proxies) ==
  [status   : Status,
   running  : BOOLEAN,
   needStop : BOOLEAN,
   wait     : 0 .. maxWait,
   error    : ErrorClass,
   proxy    : 0 .. proxies]

\* The constructor download(url).
NewDownload ==
  [status |-> "PENDING", running |-> FALSE, needStop |-> FALSE,
   wait |-> 0, error |-> "NONE", proxy |-> 0]

\* download::set_status: a deleted download keeps its status.
SetStatus(r, s) ==
  IF r.status = "DELETED" THEN r
  ELSE IF s \in {"INACTIVE", "DELETED"}
    THEN [r EXCEPT !.status = s, !.needStop = TRUE, !.wait = 0]
    ELSE [r EXCEPT !.status = s]

\* The recurring tail of download_me_worker's error branches: n is the
\* configured <error>_wait, and 0 deactivates the download.  The status field
\* is assigned, not set through set_status.
RetryLater(r, n, e) ==
  [r EXCEPT !.status = IF n = 0 THEN "INACTIVE" ELSE "PENDING",
            !.wait   = IF n = 0 THEN @ ELSE n,
            !.error  = e]

\* A branch that gives the download up.
GiveUp(r, e) == [r EXCEPT !.status = "INACTIVE", !.error = e]

\* download::set_next_proxy on a list of n proxies; 0 stands for proxy = "".
HasNextProxy(r, n) == r.proxy < n
NextProxy(r, n) == [r EXCEPT !.proxy = IF @ < n THEN @ + 1 ELSE 0]

\* What download_me writes when the next proxy may be tried at once.
RetryWithProxy(r, n) ==
  [NextProxy(r, n) EXCEPT !.status = "PENDING", !.error = "NONE", !.wait = 0]
==============================================================================
