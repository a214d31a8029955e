\* Calls of the public functions, also from callbacks; no server.
SPECIFICATION Spec
CONSTANTS
  Null = Null
  Garbage = Garbage
  Malformed = Malformed
  Tty = Tty
  p1 = p1
  p2 = p2
  f1 = f1
  f2 = f2
  cb1 = cb1
  cb2 = cb2
  Paths = {p1}
  Formats = {f1, f2}
  DefaultFormat = f1
  Callbacks = {cb1, cb2}
  ExportPaths = {}
  UserLevels <- TwoLevels
  Verbosities <- Quiet
  JsonFiles <- CallFiles
  Ports <- NoPorts
  PortRange = 3
  CallbackReturns <- OneReturn
  MaxLevels = 4
  MaxInits = 2
  MaxServers = 0
  MaxEvents = 2
  MaxDepth = 2
INVARIANTS
  TypeOK
  OpenFileConsistent
  CallbackSeesLine
  LevelKeepsIndex
CHECK_DEADLOCK FALSE
