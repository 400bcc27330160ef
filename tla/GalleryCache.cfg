CONSTANTS
  a = a
  b = b
  p = p
  q = q
  r = r
  Envs = {"home", "work"}
  Files = {a, b}
  Profiles = {p, q, r}
  Under <- Sources
  MaxOps = 4
  MaxCrashes = 2
SPECIFICATION Spec
INVARIANT ProfileVouchesForCache
INVARIANT SuccessIsSaved
PROPERTY SavesKeepEntries
CHECK_DEADLOCK FALSE
