SPECIFICATION FairSpec
CONSTANTS
  Runs = {1, 2}
  a = a
  Labels <- MCLabels
  LockSets <- MCLockSets
  Nodes <- MCTwo
  NoRun = NoRun
  MaxTime = 1
  Order <- MCTwoOrder
  Deps <- MCTwoDeps
  Links <- MCLinks
  Kind <- MCTwoKind
  AnyJoin = {}
  MaxAttempts <- MCTwoAttempts
  TermStatus <- MCTwoTerm
  MaxFaults = 0
  MaxRestarts = 2
INVARIANTS
  EngineInv
  ExclusiveProcesses
PROPERTIES
  ImplementsLocks
  ImplementsQueue
  CancelEnds
  CloseEnds
  QueuedEnds
CHECK_DEADLOCK FALSE
