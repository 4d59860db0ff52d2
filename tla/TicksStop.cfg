CONSTANTS
  Callers = {c1}
  TickerId = ticker
  NoCaller = nobody
SPECIFICATION FairLockSpec
PROPERTY TicksGoOn
CHECK_DEADLOCK FALSE
