SPECIFICATION MaintenanceSpec
CONSTANTS
  Schedules = {d}
  Overlapping = {}
  Toggled = {}
  MaxTime = 2
  MaxEdits = 0
  MaxFaults = 0
  Requests = {q1, q2}
INVARIANT QuietUpdate
CHECK_DEADLOCK FALSE
