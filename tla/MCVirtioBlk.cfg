CONSTANTS
  Num = 2
  IdxMod = 4
  Requests <- MCRequests
  NoRequest = NoRequest
  Sectors = {0}
  Blank = "blank"
  Nums = {2, 1024}
  PageSize = 4096
  PageShift = 12
  Pages = {8}
  AckZero = FALSE
SPECIFICATION FairMmioSpec
INVARIANTS
  TypeOK
  NoLostCompletion
  CompletionIsWhole
  NoLostKick
  SetUpAgrees
PROPERTIES
  ImplementsBlockDevice
  EveryRequestReturns
CHECK_DEADLOCK FALSE
