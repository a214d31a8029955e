\* Every list of up to three levels, exported whole or cut anywhere, and loaded.
SPECIFICATION Spec
CONSTANTS
  Null = Null
  Missing = Missing
  Numbers <- NumberSymbols
  Capacity = 76
  Addresses = {n1, n2, n3}
  Letters <- LetterSymbols
  Longest <- LongestStrings
  Formatted <- FormattedStrings
  UserLevels <- FourLevels
  cb_mappings <- Mappings
  Configs <- ThreeConfigs
  DefaultConfig <- DefaultOptions
  Leftovers <- EarlierParams
INVARIANTS
  TypeOK
  RoundTrip
  DamageIsLast
  BuffersFreed
  NoNodeLost
PROPERTIES
  ImplementsLevelList
CHECK_DEADLOCK FALSE
