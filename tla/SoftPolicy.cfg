CONSTANTS
  d1 = d1  d2 = d2  w1 = w1  w2 = w2  c1 = c1  c2 = c2
  h1 = h1  h2 = h2  h3 = h3  r1 = r1  r2 = r2
  Ticker = ticker  NoThread = nobody  NoDownload = nothing
  Downloads = {d1, d2}
  Clients = {}
  Workers = {w1, w2}
  Helpers = {h1, h2, h3}
  Reconnectors = {r1}
  InitialList <- TwoList
  Limit = 2
  HostOf <- EachItsHost
  ParallelHosts = {d1, d2}
  HasPlugin = {d1}
  HasPostProcess = {}
  Resumable = {}
  Proxies = 0
  Policy = "SOFT"
  RouterModelSet = TRUE
  Timed = FALSE
  Commands = {}
  MaxWait = 0
  ErrorWaits = {}
SPECIFICATION FairSpec
PROPERTY LimitIsOvercome
CHECK_DEADLOCK FALSE
