SPECIFICATION FairSpec
CONSTANTS
  Networks = {home}
  Calibrations = {default, measured}
  DefaultCalibration = default
  Zones = {rome}
  Blank = Blank
  None = None
  Minutes = {0, 8}
  Portions = {0, 1}
  MaxSlots = 1
  Commands <- MCCommands
  QueueLen = 2
  MaxGapFeeds = 1
INVARIANTS InForceIsStored NothingWrittenBack LastCommandWins
PROPERTIES SettingsKept ResetEnds
