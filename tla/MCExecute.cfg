SPECIFICATION Spec
CONSTANTS
  B = 1
  PageSize = 16
  Fault = Fault
  Unmapped = Fault
  NoIns = NoIns
  NoTrap = NoTrap
  PageTable <- MCPageTable
  Code <- MCCode
  Starts <- MCStarts
  Vector = 200
  ThreadAt = 160
  LockAddr = 0
  CsrKind <- MCCsrKind
  Clock <- MCClock
  FloatBits = 3
  DoubleBits = 6
INVARIANTS
  TypeOK
  NoLostUpdate
PROPERTIES
  ResultIsArchitectural
  FaultsArePrecise
  MemoryIsArchitectural
CHECK_DEADLOCK FALSE
