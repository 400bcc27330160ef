CONSTANTS
  f1 = f1
  twin = twin
  f2 = f2
  f3 = f3
  gone = gone
  Lower <- MCLower
  Basis = 0
  Mix <- MCMix
  Hex <- MCHex
  NameMax = 8
  ExtMax = 3
  Paths = {f1, twin, f2, f3, gone}
  Files = {f1, twin, f2, f3}
  Key <- MCKey
  Typed <- MCTyped
  Metadata <- MCMetadata
  Malformed = Malformed
  Whitelist = {"Keywords", "Subject"}
  Requests <- MCRequests
  TagSize = 8
  TagLimit = 2
  MaxPreviews = 2
  MaxEdits = 1
  MaxFaults = 1
SPECIFICATION Spec
INVARIANT DecisionsAreShown
INVARIANT FailsOnlyAtTheLimit
PROPERTY SameEditSameTags
CHECK_DEADLOCK FALSE
