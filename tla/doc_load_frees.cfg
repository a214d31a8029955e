\* Two levels, a file cut in the second: the strings of the first are freed twice.
SPECIFICATION Spec
CONSTANTS
  Null = Null
  Missing = Missing
  Numbers <- NumberSymbols
  Capacity = 76
  Addresses = {n1, n2, n3}
  Letters <- LetterSymbols
  Longest <- LongestStrings
  Formatted <- FormattedStrings
  UserLevels <- FourLevels
  cb_mappings <- Mappings
  Configs <- ThreeConfigs
  DefaultConfig <- DefaultOptions
  Leftovers <- EarlierParams
INVARIANT
  FreedOnce
CHECK_DEADLOCK FALSE
