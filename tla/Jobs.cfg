CONSTANTS
  d1 = d1  d2 = d2
  w1 = w1  w2 = w2
  k1 = k1  k2 = k2
  e1 = e1  e2 = e2
  NoDownload = nothing
  Downloads = {d1, d2}
  InitialList <- OneLink
  Workers = {w1, w2}
  Checkers = {k1, k2}
  Extractors = {e1, e2}
  Limit = 2
  Settings <- OneAtATime
  HasPlugin = {d1}
  ToolFor <- RarAndTar
  Volumes = {}
  HasPassword = FALSE
  Passwords = 1
  DeleteArchives = TRUE
  MaxChanges = 2
SPECIFICATION FairSpec
PROPERTY FinishedIsExtracted
PROPERTY PrecheckGoesOn
INVARIANT OnePrecheck
INVARIANT UnpackedBeforeRemoved
CHECK_DEADLOCK FALSE
