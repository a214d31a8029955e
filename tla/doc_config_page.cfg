\* A page that is copied while the configuration changes.
SPECIFICATION Spec
CONSTANTS
  r1 = r1
  r2 = r2
  k1 = k1
  k2 = k2
  v1 = v1
  v2 = v2
  tight = tight
  tighter = tighter
  long = long
  overlong = overlong
  Unnamed = Unnamed
  NoValue = NoValue
  Readers <- OneReader
  Configs <- TwoConfigs
  Overlong <- OverlongValues
  MaxPublications = 1
  ParamNames <- Names
  ParamValues <- Values
  Loss <- LossOfValues
INVARIANTS
  BodyIsConfiguration
CHECK_DEADLOCK FALSE
