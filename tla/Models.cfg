CONSTANTS
  clf = clf
  embed = embed
  c1 = c1
  c2 = c2
  e1 = e1
  e2 = e2
  wrong = wrong
  absent = absent
  torn = torn
  unsupported = unsupported
  ModelFiles <- TwoModels
  Payloads <- FivePayloads
  Absent <- absent
  Torn <- torn
  Unsupported <- unsupported
  Manifests <- FourManifests
  NeededBy <- TwoNeeds
  MaxOps = 4
  MaxFaults = 2
SPECIFICATION Spec
INVARIANT NoWrongModelStays
INVARIANT LockfileIsTrue
INVARIANT InferenceHasItsModels
PROPERTY InstallRepairs
CHECK_DEADLOCK FALSE
