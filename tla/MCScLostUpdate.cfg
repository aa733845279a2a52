SPECIFICATION Spec
CONSTANTS
  B = 1
  PageSize = 16
  Fault = Fault
  Unmapped = Fault
  NoIns = NoIns
  NoTrap = NoTrap
  PageTable <- MCPageTable
  Code <- ReservedCode
  Starts <- ReservedStarts
  Vector = 200
  ThreadAt = 160
  LockAddr = 0
  CsrKind <- MCCsrKind
  Clock <- MCClock
  FloatBits = 3
  DoubleBits = 6
INVARIANTS
  NoLostUpdate
CHECK_DEADLOCK FALSE
