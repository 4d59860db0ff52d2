CONSTANTS
  d1 = d1  d2 = d2  w1 = w1  w2 = w2  c1 = c1  c2 = c2
  h1 = h1  h2 = h2  h3 = h3  r1 = r1  r2 = r2
  Ticker = ticker  NoThread = nobody  NoDownload = nothing
  Downloads = {d1}
  Clients = {c1}
  Workers = {w1}
  Helpers = {h1, h2}
  Reconnectors = {}
  InitialList <- OneList
  Limit = 1
  HostOf <- EachItsHost
  ParallelHosts = {d1}
  HasPlugin = {d1}
  HasPostProcess = {d1}
  Resumable = {d1}
  Proxies = 1
  Policy = "OFF"
  RouterModelSet = TRUE
  Timed = TRUE
  Commands <- AllCommands
  MaxWait = 1
  ErrorWaits = {0, 1}
SPECIFICATION Spec
INVARIANT TypeOK
INVARIANT RunningHasWorker
PROPERTY WakeupsAreKept
SYMMETRY ThreadSymmetry
