CONSTANTS
  d1 = d1  d2 = d2  w1 = w1  w2 = w2  c1 = c1  c2 = c2
  h1 = h1  h2 = h2  h3 = h3  r1 = r1  r2 = r2
  Ticker = ticker  NoThread = nobody  NoDownload = nothing
  Downloads = {d1, d2}
  Clients = {}
  Workers = {w1}
  Helpers = {h1}
  Reconnectors = {r1, r2}
  InitialList <- TwoList
  Limit = 1
  HostOf <- EachItsHost
  ParallelHosts = {}
  HasPlugin = {d1, d2}
  HasPostProcess = {}
  Resumable = {}
  Proxies = 0
  Policy = "HARD"
  RouterModelSet = TRUE
  Timed = FALSE
  Commands = {}
  MaxWait = 0
  ErrorWaits = {0}
  Solvers = {d1, d2}
  Typists = {c1}
  Nobody = nobody
  NoImage = noimage
  NoAnswerYet = noanswer
  MaxImages = 3
  MaxAnswerWait = 1
  MaxRetrys = 1
  Manual = TRUE
  Gocr = TRUE
  Transfers = {d1, d2}
  Second = 3
  Window = 3
  MinSpeed = 0
  Speeds = {0, 1}
  MaxSize = 1
  Texts = {"a", "pair"}
  Requests <- MCRequests
  MaxCommands = 2
  MaxTries = 2
  Callers = {w1, h1, c1}
  TickerId = ticker
  NoCaller = nobody
SPECIFICATION MCSpec
INVARIANT OnlyTheTickerCrosses
INVARIANT SlotHasWorker
INVARIANT LockedStartIsFresh
INVARIANT OneReconnect
INVARIANT ReconnectingIsTransient
INVARIANT AnswerFitsTheImage
INVARIANT ScriptIsCarriedOut
PROPERTY WaitsEnd
