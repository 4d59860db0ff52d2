CONSTANTS
  d1 = d1  d2 = d2  w1 = w1  w2 = w2  c1 = c1  c2 = c2
  h1 = h1  h2 = h2  h3 = h3  r1 = r1  r2 = r2
  Ticker = ticker  NoThread = nobody  NoDownload = nothing
  Downloads = {d1}
  Clients = {c1}
  Workers = {w1}
  Helpers = {h1}
  Reconnectors = {r1}
  InitialList <- OneList
  Limit = 1
  HostOf <- EachItsHost
  ParallelHosts = {d1}
  HasPlugin = {d1}
  HasPostProcess = {}
  Resumable = {}
  Proxies = 0
  Policy = "HARD"
  RouterModelSet = TRUE
  Timed = FALSE
  Commands = {"DEL"}
  MaxWait = 1
  ErrorWaits = {}
SPECIFICATION FairSpec
PROPERTY ReconnectEnds
PROPERTY SlotIsReleased
PROPERTY WaitingEnds
PROPERTY DeletedIsPurged
