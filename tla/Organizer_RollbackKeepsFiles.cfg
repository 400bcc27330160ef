CONSTANTS
  a = a
  b = b
  Photos <- TwinPhotos
  Home <- TwinHome
  Target <- TwinTarget
  Roots <- SeveralRoots
  MaxSuffix = 3
  MaxFaults = 0
  MaxOps = 6
SPECIFICATION Spec
PROPERTY RollbackKeepsFiles
CHECK_DEADLOCK FALSE
