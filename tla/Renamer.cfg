CONSTANTS
  a = a
  b = b
  c = c
  Photos <- TrioPhotos
  Home <- TrioHome
  Key <- MCKey
  Patterns <- TrioPatterns
  MaxHistory = 2
  MaxSuffix = 4
  MaxClock = 1
  MaxFaults = 1
  MaxOps = 5
SPECIFICATION Spec
INVARIANT FreshOperationIsRestorable
PROPERTY RenamesNeverOverwrite
CHECK_DEADLOCK FALSE
INVARIANT PreflightIsSound
INVARIANT TagsFollowFiles
PROPERTY RenamesWhatWasPreviewed
