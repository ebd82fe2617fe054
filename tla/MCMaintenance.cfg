SPECIFICATION FairMaintenance
CONSTANTS
  Schedules = {d}
  Overlapping = {}
  Toggled = {}
  MaxTime = 2
  MaxEdits = 1
  MaxFaults = 2
  Requests = {q}
INVARIANTS
  MaintenanceInv
  QuietUpdate
PROPERTIES
  FireOnce
  ServiceReturns
CHECK_DEADLOCK FALSE
