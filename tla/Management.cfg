CONSTANTS
  c1 = c1  c2 = c2
  user = user  password = password  limit = limit  folder = folder
  a = a  aa = aa
  Conns = {c1, c2}
  Saver = saver
  Dumpers = {c1, c2, saver}
  NoOne = noone
  NoPackages = empty
  Lists = {empty, l1, l2}
  MaxClient = 1
  MaxQueue = 2
  Users = {c1, c2}
  NoUser = nouser
  Ids = {user, password, limit}
  UserId = user
  PasswordId = password
  Values = {none, a, aa}
  NewValues = {aa}
  Accounts <- AnAccount
  Trimmed <- WithoutBlanks
  Empty = none
  Default <- LimitHasDefault
  InitialLines <- UserIsSet
  NoLine = noline
  NotCached = notcached
  Faults = TRUE
  enable = enable  box = box  level = level
  ip = ip  pw = pw  on = on  off = off
  Vars = {enable, box, level}
  ListOrder <- MCListOrder
  PanelOrder <- MCPanelOrder
  EnableReconnect = enable
  RouterShown = {ip}
  RouterPassword = pw
  Boxes = {box}
  RetryBox = box
  Selections = {level}
  Fields = {}
  Texts = {on, off, empty}
  On = on
  Off = off
  NoText = empty
  Lines = {on, off}
  FirstLine = off
  Refusals <- MCRefusals
  InitialConfigs <- MCConfigs
  NotListed = notlisted
  MaxEdits = 2
  MaxOthers = 1
SPECIFICATION EitherSpec
INVARIANT TypeOK
INVARIANT NothingUnsaved
INVARIANT HandlersHaveClients
INVARIANT OnlySubscribedIsQueued
INVARIANT NoUpdateIsLost
INVARIANT PluginInfoIsFresh
INVARIANT OnlyEditsAreSaved
PROPERTY MessagesAreSent
