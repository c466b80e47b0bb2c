SPECIFICATION Spec
CONSTANTS
  DetentSteps = 5
  Chatter = 2
  Calibrations <- Slower
  MIN_SPACING = 1
  MIN_JAM = 1
  MAX_CLICKS = 4
  FEED_DEPTH = 2
  CLICKS_DEPTH = 4
  DETENTS = 2
  CAL_JAM = 8
  Requests = {0, 1, 2}
  MaxRequests = 4
  MaxRuns = 1
  MaxUploads = 0
  MaxCuts = 1
INVARIANTS FoodMatchesClicks JamBounded
