SPECIFICATION FairSpec
CONSTANTS
  Forms = {home, cabin}
  Slots = {s0, s1, s2}
  None = None
INVARIANTS OnlyJoinedSaved OutcomeIsOfSubmitted ErasedStays
PROPERTIES TrialEnds LeavesSetup
