SPECIFICATION FairSpec
CONSTANTS
  DetentSteps = 3
  Chatter = 1
  Calibrations <- Rescaled
  MIN_SPACING = 1
  MIN_JAM = 1
  MAX_CLICKS = 3
  FEED_DEPTH = 2
  CLICKS_DEPTH = 4
  DETENTS = 2
  CAL_JAM = 4
  Requests = {1, 2}
  MaxRequests = 2
  MaxRuns = 1
  MaxUploads = 2
  MaxCuts = 0
INVARIANTS NoTurnDuringWrite IdleOwesNothing RunIsNotAMeal
PROPERTIES HeldIsTurned EveryTurnEnds UploadRestarts
