CONSTANTS
  NumSources = 3
  WordBits = 2
  Devices = {d1}
  Route <- MCRouteS
  PrioritySlots <- MCInBounds
  Levels = {1}
SPECIFICATION Spec
INVARIANTS
  NoBadComplete
CHECK_DEADLOCK FALSE
