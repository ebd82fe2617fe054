SPECIFICATION Spec
CONSTANTS
  Runs = {1}
  a = a
  Labels <- MCLabels
  LockSets <- MCLockSets
  Nodes <- MCNodes
  NoRun = NoRun
  MaxTime = 1
  Order <- MCOrder
  Deps <- MCDeps
  Links <- MCLinks
  Kind <- MCKind
  AnyJoin = {6}
  MaxAttempts <- MCMaxAttempts
  TermStatus <- MCTermStatus
  MaxFaults = 1
  MaxRestarts = 2
INVARIANTS
  InputsSettled
  OneBranch
  FailureSticks
  LaunchesBounded
PROPERTIES
  UncertainKept
CHECK_DEADLOCK FALSE
