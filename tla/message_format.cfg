\* Every format of up to four pieces, parsed and expanded.
SPECIFICATION Spec
CONSTANTS
  Symbols <- FormatSymbols
  Formats <- Puzzles
  MSG <- MessageName
  Message <- TwoSymbols
  Garbled <- AnyText
  Environment <- Variable
  MSG_SIZE = 9
  VAR_SIZE = 1
INVARIANTS
  TypeOK
  ParserDecidesSyntax
  ExpansionExact
  OverrunOnlyIfLong
CHECK_DEADLOCK FALSE
