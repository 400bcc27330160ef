CONSTANT MaxTasks = 3
SPECIFICATION Spec
INVARIANT AppHasOneUser
INVARIANT ThreadIsJoined
INVARIANT StartsAreNeverRefused
INVARIANT CancelReachesItsTask
PROPERTY ResultIsShown
PROPERTY ExitEnds
CHECK_DEADLOCK FALSE
