SPECIFICATION Spec
CONSTANTS
  LastDay = 1
  MinutesPerDay = 3
  SecondsPerMinute = 1
  MAX_LATENESS_S = 1
  ZoneShift = 0
  MaxRestarts = 0
  Sources = {"Live"}
  SyncWalls <- TwoTimes
  Schedules <- OneSchedule
  FlashFails = FALSE
  None = None
PROPERTY DateCorrectionNeverRepeats
