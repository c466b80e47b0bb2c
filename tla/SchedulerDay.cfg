SPECIFICATION Spec
CONSTANTS
  LastDay = 1
  MinutesPerDay = 3
  SecondsPerMinute = 1
  MAX_LATENESS_S = 1
  ZoneShift = 1
  MaxRestarts = 0
  Sources = {"Live"}
  SyncWalls <- TwoTimes
  Schedules <- FewSchedules
  FlashFails = FALSE
  None = None
INVARIANT NeverTwice
PROPERTIES PromptMeal
