CONSTANTS
  MaxKeys = 2
  IerValues <- MCIerAll
  Depths = {0, 1}
SPECIFICATION FairSpec
INVARIANTS
  NoStrandedKey
  DataIsSignalled
PROPERTY
  KeyReachesGuest
