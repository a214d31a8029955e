\* Every line of every file: rotation, export, a server process with its stream.
SPECIFICATION Spec
CONSTANTS
  Null = Null
  Garbage = Garbage
  Malformed = Malformed
  Tty = Tty
  p1 = p1
  p2 = p2
  f1 = f1
  f2 = f2
  cb1 = cb1
  cb2 = cb2
  Paths = {p1, p2}
  Formats = {f1}
  DefaultFormat = f1
  Callbacks = {cb1, cb2}
  ExportPaths = {p1}
  UserLevels <- NoLevels
  Verbosities <- NoVerbosities
  JsonFiles <- NoFiles
  Ports <- OnePort
  PortRange = 3
  CallbackReturns <- OneReturn
  MaxLevels = 3
  MaxInits = 2
  MaxServers = 1
  MaxEvents = 3
  MaxDepth = 0
INVARIANTS
  LinesInOrder
PROPERTIES
  LinesKept
CHECK_DEADLOCK FALSE
