CONSTANTS
  x = x
  y = y
  z = z
  Contents <- ThreeContents
  Md5s <- TwoMd5s
  Md5 <- SharedMd5
  Libraries <- SmallLibraries
  UserPaths <- EditedPaths
  Targets <- EnvDirs
  MaxSuffix = 3
  MaxOps = 6
  MaxFaults = 1
SPECIFICATION Spec
INVARIANT OnePlaceIsKept
INVARIANT LibraryHasOneCopy
PROPERTY ImplementsFileStore
CHECK_DEADLOCK FALSE
