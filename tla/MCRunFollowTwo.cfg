SPECIFICATION FollowingSpec
CONSTANTS
  Runs = {1}
  s = s
  Script <- MCScript
  Strict = {1}
  Timed = {}
  NoRun = NoRun
  MaxBoots = 1
  Followers = {f1, f2}
  MaxEvents = 0
  Streams = {"runs"}
  LastEvent = 0
  OutboxPlaces = 1
  Threshold = 1
  EventFaults = 0
PROPERTY FollowerEnds
CHECK_DEADLOCK FALSE
