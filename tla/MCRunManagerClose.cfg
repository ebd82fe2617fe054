SPECIFICATION Spec
CONSTANTS
  Runs = {1}
  s = s
  Script <- MCScript
  Strict = {1}
  Timed = {1}
  NoRun = NoRun
  MaxBoots = 2
INVARIANT CloseStopsAll
CHECK_DEADLOCK FALSE
