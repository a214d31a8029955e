\* Every request of logs of up to six bytes, which grow during the answer.
SPECIFICATION Spec
CONSTANTS
  a = a
  b = b
  c = c
  note = note
  Null = Null
  Empty = Empty
  Bare <- NoDirectory
  Logs <- ThreeLogs
  Others <- OneOther
  LinkLength <- Lengths
  BUFSIZ = 3
  MaxSize = 6
INVARIANTS
  TypeOK
  LogPageExact
  OverrunOnlyByFullList
CHECK_DEADLOCK FALSE
