SPECIFICATION FairSpec
CONSTANTS
  s1 = s1
  s2 = s2
  Schedules = {s1, s2}
  None = None
  Boots <- OneBoot
  Copies <- Stale
  Replays <- TheirReplays
  Sent <- TheirMessages
  EVENT_DEPTH = 1
  FEED_DEPTH = 1
  SCHEDULE_DEPTH = 1
  STATE_INTERVAL = 2
  RETAINED_GRACE = 1
  KEEP_ALIVE = 3
  MaxEvents = 2
  MaxSent = 1
  MaxDrops = 1
  MaxLosses = 1
INVARIANTS EventsInOrder LossBounded KeptAlive
PROPERTIES InStep
