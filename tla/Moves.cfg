CONSTANTS
  p1 = p1  p2 = p2  d1 = d1  d2 = d2  d3 = d3  c1 = c1  c2 = c2
  Packages = {p1}
  Downloads = {d1, d2, d3}
  Clients = {c1}
  Commands = {"PKG ADD", "PKG DEL", "DL ADD", "DL DEL", "DL MOVE"}
  Crashes = FALSE
  Decrypters = TRUE
  Limit = 1
  MaxId = 2
  MaxThreads = 1
SPECIFICATION FairSpec
INVARIANT MovesAreExact
PROPERTY DoomedAreDestroyed
