SPECIFICATION Spec
CONSTANTS
  DetentSteps = 3
  Chatter = 1
  Calibrations <- Measured
  MIN_SPACING = 1
  MIN_JAM = 1
  MAX_CLICKS = 3
  FEED_DEPTH = 2
  CLICKS_DEPTH = 4
  DETENTS = 2
  CAL_JAM = 8
  Requests = {1, 2}
  MaxRequests = 1
  MaxRuns = 0
  MaxUploads = 1
  MaxCuts = 0
PROPERTY RestartLosesNoFeed
