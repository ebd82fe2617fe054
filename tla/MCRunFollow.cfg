SPECIFICATION FollowingSpec
CONSTANTS
  Runs = {1}
  s = s
  Script <- MCScript
  Strict = {1}
  Timed = {1}
  NoRun = NoRun
  MaxBoots = 1
  Followers = {f1}
  MaxEvents = 1
  Streams = {"runs", "events"}
  LastEvent = 3
  OutboxPlaces = 3
  Threshold = 2
  EventFaults = 2
INVARIANTS
  FollowInv
  EventsKept
PROPERTIES
  EventsArrive
  TimeoutEnds
  CloseEnds
  FollowerEnds
CHECK_DEADLOCK FALSE
