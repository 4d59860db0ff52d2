CONSTANTS
  Gui = Gui
  Updater = Updater
  NoThread = NoThread
  NoRequest = NoRequest
  NoAnswer = NoAnswer
  InitialList <- MCOne
  MaxId = 1
  MaxChanges = 1
  MaxSlots = 1
  MaxBreaks = 1
  MaxEvents = 2
  PackageIds = {0, 1}
  PackageNames = {"x"}
  Items <- MCItems
  Contents <- MCContents
  Updates <- MCUpdates
  Bodies <- MCBodies
  MaxRecv = 2
  MaxSends = 2
  MaxConnects = 2
SPECIFICATION MCSpec
INVARIANT TypeOK
INVARIANT ViewIsTheList
INVARIANT RowsShowContent
INVARIANT MessagesArriveWhole
PROPERTY CallsAreAnswered
PROPERTY SlotsEnd
PROPERTY SelectionIsTheUsers
PROPERTY RecvReturns
CHECK_DEADLOCK FALSE
