SPECIFICATION MoveSpec
CONSTANTS
  MoveFaults = 1
  Outsiders = 0
INVARIANT RecoveryConverges
CHECK_DEADLOCK FALSE
