CONSTANTS
  Files <- MCFiles
  Kind <- MCKind
  Symbols <- MCSymbols
  NULL = NULL
  KernelSymbols <- MCKernel
  Elfs <- MCElfs
  Startpoints <- MCStartpoints
  RomSpace = 9
  FlashSpace = 26
  FLASH_HEAD = 1
  Bios = "bios.bin"
  Dtb = "virt.dtb"
  Sbi = "fw_jump.bin"
  Startup = "startup.bin"
  DTB_BASE = 3
  SBI_BASE = 6
  PAYLOAD_LOAD = 1
  SBI_LOAD = 6
  SBI_LINK = 0
  PAYLOAD_LINK = 4
  RamSize = 30
  Sizes <- MCSizes
SPECIFICATION FairBootSpec
CHECK_DEADLOCK FALSE
INVARIANTS
  LoadedAfterProviders
  LoadedOnce
  LoadedExactly
  PanicHasCause
  ImagesIntact
  RelocatedIntact
PROPERTY
  StartupEnds
