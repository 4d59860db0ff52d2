CONSTANTS
  p1 = p1  p2 = p2  d1 = d1  d2 = d2  d3 = d3  c1 = c1  c2 = c2
  Packages = {p1, p2}
  Downloads = {d1, d2}
  Clients = {c1}
  Commands <- AllCommands
  Crashes = TRUE
  Decrypters = TRUE
  Limit = 1
  MaxId = 1
  MaxThreads = 1
SPECIFICATION Spec
INVARIANT WellIdentified
INVARIANT RunningHasThread
INVARIANT ThreadsHaveObjects
SYMMETRY ObjectSymmetry
