SPECIFICATION FairSpec
CONSTANTS
  FlashFails = TRUE
  MaxUploads = 3
  MaxMeals = 1
  MaxCuts = 3
INVARIANTS AlwaysBoots WayBack OneChance
PROPERTIES TrialEnds SelectedBoots
