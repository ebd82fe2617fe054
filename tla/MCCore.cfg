SPECIFICATION CoreSpec
CONSTANTS
  a = a
  b = b
  c1 = c1
  c2 = c2
  c3 = c3
  h1 = h1
  h2 = h2
  h3 = h3
  k1 = k1
  k2 = k2
  k3 = k3
  direct = direct
  asked = asked
  upload = upload
  Runs = {1, 2, 3}
  Labels <- MCLabels
  LockSets <- MCLockSets
  Nodes = {}
  NoRun = NoRun
  MaxTime = 2
  Ids = {1, 2, 3, 4}
  Calls <- MCCalls
  Window = 3
  CallTime = 1
  LedgerTime = 5
  Invocations = {direct, asked, upload}
  NeedApproval = {asked, upload}
  Uploads = {upload}
  MaxExtFaults = 1
  Connections <- MCConnections
  Keys <- MCKeys
  Maximum = 2
  Free = Free
  Launching = Launching
  MoveFaults = 2
  Outsiders = 2
  MaxEvents = 5
  AuditFaults = 1
  LastOp = 2
  DbFaults = 3
  LastName = 3
  RestoreFaults = 2
INVARIANTS
  CoreTypeOK
  LocksMatch
  QueueFair
  CompilesRight
  LeastOrder
  OncePerWindow
  OnceAndHonest
  MoveSettled
  CheckpointKept
  NothingLost
  HonestOutcome
  RestoreSafe
PROPERTIES
  ImplementsOutcome
  RunnersBounded
  SourceLeavesLast
CHECK_DEADLOCK FALSE
SYMMETRY MCSymmetry
