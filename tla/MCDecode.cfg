CONSTANTS
  Registers = {10, 21}
  Csrs <- MCCsrs
  Patterns <- MCPatterns
  Others <- MCOthers
SPECIFICATION DecodeSpec
INVARIANTS
  CompressedIsExpansion
  AssembledIsDecoded
  NoStrayResult
CHECK_DEADLOCK FALSE
