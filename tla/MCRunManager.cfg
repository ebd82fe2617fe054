SPECIFICATION Spec
CONSTANTS
  Runs = {1, 2}
  s = s
  Script <- MCScript
  Strict = {1, 2}
  Timed = {1}
  NoRun = NoRun
  MaxBoots = 2
INVARIANTS
  RunInv
  AdmissionHolds
PROPERTIES
  ImplementsLifecycle
CHECK_DEADLOCK FALSE
