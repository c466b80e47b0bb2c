SPECIFICATION Spec
CONSTANTS
  s1 = s1
  s2 = s2
  Schedules = {s1, s2}
  None = None
  Boots <- OneBoot
  Copies <- Stale
  Replays <- TheirReplays
  Sent <- TheirMessages
  EVENT_DEPTH = 1
  FEED_DEPTH = 1
  SCHEDULE_DEPTH = 1
  STATE_INTERVAL = 2
  RETAINED_GRACE = 1
  KEEP_ALIVE = 3
  MaxEvents = 0
  MaxSent = 0
  MaxDrops = 0
  MaxLosses = 1
PROPERTY NoBrokerIsSo
