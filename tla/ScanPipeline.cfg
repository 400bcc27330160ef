CONSTANTS
  Count = 5
  Jobs = 2
  Paths <- LinkedPaths
  Listed <- LinkedFiles
  Media <- MediaFiles
  Key <- OwnKey
  Ml = "missing"
  MaxScans = 2
  MaxEdits = 1
SPECIFICATION Spec
INVARIANT FreshEntriesAreTrue
INVARIANT CompleteOnSuccess
PROPERTY ImplementsWorkPool
PROPERTY InferredOnce
PROPERTY ScanEnds
CHECK_DEADLOCK FALSE
