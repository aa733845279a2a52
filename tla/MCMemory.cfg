CONSTANTS
  Entries = 2
  Regions <- MCRegions
  Contents <- MCContents
  Roots = {4, 7}
  MaxStores = 3
SPECIFICATION Spec
INVARIANTS
  WalkIsSv39
  FetchIsTwoLoads
PROPERTIES
  StoresStayInside
CHECK_DEADLOCK FALSE
