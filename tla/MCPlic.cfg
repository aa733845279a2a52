CONSTANTS
  NumSources = 3
  WordBits = 2
  Devices = {d1}
  Route <- MCRoute
  PrioritySlots <- MCInBounds
  Levels = {1}
SPECIFICATION FairSpec
INVARIANTS
  NoSignalLost
  ClaimIsPending
PROPERTIES
  SelectedIsServed
CHECK_DEADLOCK FALSE
