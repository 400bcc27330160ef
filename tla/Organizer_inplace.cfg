CONSTANTS
  a = a
  b = b
  Photos <- TwinPhotos
  Home <- TwinHome
  Target <- TwinTarget
  Roots <- SeveralRoots
  MaxSuffix = 3
  MaxFaults = 1
  MaxOps = 6
SPECIFICATION Spec
INVARIANT JournalUndoesExecution
INVARIANT RollbackUndoesDisjointRun
INVARIANT FreshPlanOrganizes
PROPERTY ExecuteKeepsFiles
CHECK_DEADLOCK FALSE
