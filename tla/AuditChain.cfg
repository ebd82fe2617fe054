SPECIFICATION AuditSpec
CONSTANTS
  MaxEvents = 3
  AuditFaults = 1
INVARIANT ChainVerifies
CHECK_DEADLOCK FALSE
