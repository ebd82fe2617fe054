SPECIFICATION Spec
CONSTANTS
  Runs = {1, 2}
  a = a
  Labels <- MCLabels
  LockSets <- MCLockSets
  Nodes <- MCNodes
  NoRun = NoRun
  MaxTime = 1
  Order <- MCOrder
  Deps <- MCDeps
  Links <- MCLinks
  Kind <- MCKind
  AnyJoin = {}
  MaxAttempts <- MCMaxAttempts
  TermStatus <- MCTermStatus
  MaxFaults = 1
  MaxRestarts = 2
INVARIANT ReleasedMeansStopped
CHECK_DEADLOCK FALSE
