\* Server processes, re-initialisation, loads and exports; no callback runs.
SPECIFICATION Spec
CONSTANTS
  Null = Null
  Garbage = Garbage
  Malformed = Malformed
  Tty = Tty
  p1 = p1
  p2 = p2
  f1 = f1
  f2 = f2
  cb1 = cb1
  cb2 = cb2
  Paths = {p1, p2}
  Formats = {f1}
  DefaultFormat = f1
  Callbacks = {cb1, cb2}
  ExportPaths = {}
  UserLevels <- NoLevels
  Verbosities <- NoVerbosities
  JsonFiles <- ServerFiles
  Ports <- SomePorts
  PortRange = 3
  CallbackReturns <- OneReturn
  MaxLevels = 3
  MaxInits = 2
  MaxServers = 2
  MaxEvents = 1
  MaxDepth = 0
INVARIANTS
  ServerStoppable
  
  
CHECK_DEADLOCK FALSE
