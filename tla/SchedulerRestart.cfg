SPECIFICATION Spec
CONSTANTS
  LastDay = 1
  MinutesPerDay = 2
  SecondsPerMinute = 1
  MAX_LATENESS_S = 1
  ZoneShift = 0
  MaxRestarts = 1
  Sources = {"Live", "Retained", "Rtc", "Manual"}
  SyncWalls <- OneTime
  Schedules <- ShortDay
  FlashFails = TRUE
  None = None
INVARIANTS MarkerCovers TrustIsEarned
PROPERTIES FresherTimeKept FirstScheduleOnlyBaselines
