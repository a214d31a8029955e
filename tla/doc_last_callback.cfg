\* A callback that resets the levels frees the one its log call reads next.
SPECIFICATION Spec
CONSTANTS
  Null = Null
  Garbage = Garbage
  Malformed = Malformed
  Tty = Tty
  p1 = p1
  p2 = p2
  f1 = f1
  f2 = f2
  cb1 = cb1
  cb2 = cb2
  Paths = {p1, p2}
  Formats = {f1}
  DefaultFormat = f1
  Callbacks = {cb1, cb2}
  ExportPaths = {}
  UserLevels <- OneLevel
  Verbosities <- NoVerbosities
  JsonFiles <- NoFiles
  Ports <- NoPorts
  PortRange = 3
  CallbackReturns <- OneReturn
  MaxLevels = 4
  MaxInits = 1
  MaxServers = 0
  MaxEvents = 1
  MaxDepth = 1
INVARIANT LastCallbackSound
CHECK_DEADLOCK FALSE
