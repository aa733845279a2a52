-------------------------------- MODULE Boot --------------------------------
(***************************************************************************)
(* From main (src/xemu.c) to the guest's kernel: the files of the ROM, the *)
(* flash with startup.bin and the modules in the order of ModuleSort, and  *)
(* then the boot code in the ROM (src/bios/bios.S), which copies kernel    *)
(* and SBI to the RAM, from the last 8 bytes to the first.                 *)
(***************************************************************************)
EXTENDS ModuleSort, Images, Integers

CONSTANTS Bios, Dtb, Sbi, Startup,      \* the files main names
          DTB_BASE, SBI_BASE,           \* where main puts them, in cells
          PAYLOAD_LOAD,                 \* bios.h: PAYLOAD_LOAD_ADDR in the flash,
          SBI_LOAD,                     \* SBI_LOAD_ADDR in the ROM,
          SBI_LINK, PAYLOAD_LINK,       \* and the link addresses in the RAM
          RamSize,
          Sizes         \* per content of the modules: [length, image]

\* The addresses of bios.h are those main uses, the SBI is linked to the first cell
\* of the RAM and ends below the kernel, and a file is as long as its header.
ASSUME BootAssumption ==
  /\ {FlashSpace, SBI_BASE, PAYLOAD_LINK, RamSize} \subseteq Nat /\ DTB_BASE \in 1 .. SBI_BASE
  /\ PAYLOAD_LOAD = FLASH_HEAD /\ SBI_LOAD = SBI_BASE
  /\ SBI_LINK = 0 /\ RomSpace - SBI_BASE <= PAYLOAD_LINK
  /\ PAYLOAD_LINK + FlashSpace <= RamSize
  /\ \A e \in Elfs : \A s \in Sizes[e] :
       /\ s.image \in Nat
       /\ \A f \in Files \cup {Bios, Dtb, Sbi, Startup} : s.length[f] \in Nat
       /\ s.length[Startup] >= 24         \* an image header
       /\ \A f \in Files : Kind[f] \notin {"startup", "map"} => s.length[f] >= 40

VARIABLES stage,       \* rom, flash, modules; kernel, sbi, running; panic
          sizes,       \* the lengths of the files; the kernel's size in its header
          romFiles,    \* how many files the ROM has
          rom, flash,
          ram,
          copy         \* t3, t1 and t0 of _relocate, or none

NoCopy   == [from |-> 0, to |-> 0, low |-> 0]
images   == <<romFiles, rom, flash>>
bootVars == <<vars, stage, sizes, images, ram, copy>>

BootInit ==
  /\ Init
  /\ sizes \in Sizes[elf]
  /\ stage = "rom" /\ romFiles = 0 /\ rom = Empty /\ flash = flash_init
  /\ ram = [k \in 0 .. RamSize - 1 |-> Zero]
  /\ copy = NoCopy

Panic == stage' = "panic" /\ UNCHANGED <<vars, sizes, images, ram, copy>>

-----------------------------------------------------------------------------
(* main.                                                                   *)

RomFiles == <<[file |-> Bios, base |-> 0], [file |-> Dtb, base |-> DTB_BASE],
              [file |-> Sbi, base |-> SBI_BASE]>>

RomAddFile ==
  /\ stage = "rom"
  /\ LET new    == RomFiles[romFiles + 1]
         length == sizes.length[new.file]
     IN  \/ ~RomTakes(rom, new.base, length) /\ Panic
         \/ /\ RomTakes(rom, new.base, length)
            /\ rom' = rom_add_file(rom, new.file, new.base, length)
            /\ romFiles' = romFiles + 1
            /\ stage' = IF romFiles' = Len(RomFiles) THEN "flash" ELSE stage
            /\ UNCHANGED <<vars, sizes, flash, ram, copy>>

\* flash_load_modules: startup.bin first.
FlashAddStartup ==
  /\ stage = "flash"
  /\ \/ ~FlashTakes(flash, sizes.length[Startup]) /\ Panic
     \/ /\ FlashTakes(flash, sizes.length[Startup])
        /\ flash' = flash_add_file(flash, Startup, sizes.length[Startup], FALSE)
        /\ stage' = "modules"
        /\ UNCHANGED <<vars, sizes, romFiles, rom, ram, copy>>

\* sort_modules with sort_func as its callback: what it loads is appended.
SortModules ==
  /\ stage = "modules" /\ Next
  /\ IF loaded' = loaded
       THEN /\ stage' = CASE phase' = "panic" -> "panic"
                          [] phase' = "done"  -> "kernel"
                          [] OTHER -> stage
            /\ flash' = flash
       ELSE LET f == loaded'[Len(loaded')]
            IN  IF FlashTakes(flash, sizes.length[f])
                  THEN /\ flash' = flash_add_file(flash, f, sizes.length[f], TRUE)
                       /\ stage' = stage
                  ELSE stage' = "panic" /\ flash' = flash
  /\ UNCHANGED <<sizes, romFiles, rom, ram, copy>>

-----------------------------------------------------------------------------
(* The boot code.                                                          *)

\* The words `ld t4' reads: the image size in the header of startup.bin, whose
\* third 8 bytes the flash holds, and the length in front of the SBI.
KernelSize == IF flash_read(flash, PAYLOAD_LOAD + 2) = Piece(Startup, 2)
                THEN sizes.image ELSE 0
SbiSize    == rom.cell[SBI_LOAD - 1].number

_relocate(load, link, size) ==
  /\ copy = NoCopy
  /\ copy' = [from |-> load + Cells(size), to |-> link + Cells(size), low |-> link]
  /\ UNCHANGED <<vars, stage, sizes, images, ram>>

RelocateKernel == stage = "kernel" /\ _relocate(PAYLOAD_LOAD, PAYLOAD_LINK, KernelSize)
RelocateSbi    == stage = "sbi" /\ _relocate(SBI_LOAD, SBI_LINK, SbiSize)

\* A load outside of what the device has, or a store below the RAM.
Misses8(from, to) == \/ to < 0
                     \/ stage = "kernel" /\ from >= FlashSpace
                     \/ stage = "sbi" /\ from >= Size(rom)

\* Mutant: the loop ends one cell early.
GoesOnEarly(to) == copy.low + 1 < to

\* blt t0, t1, _loop
GoesOn(to) == copy.low < to

CopyCell ==
  /\ stage \in {"kernel", "sbi"} /\ copy # NoCopy
  /\ LET from == copy.from - 1
         to   == copy.to - 1
     IN  \/ Misses8(from, to) /\ Panic
         \/ /\ ~Misses8(from, to)
            /\ ram' = [ram EXCEPT ![to] = IF stage = "kernel" THEN flash_read(flash, from)
                                          ELSE rom.cell[from]]
            /\ copy'  = IF GoesOn(to) THEN [copy EXCEPT !.from = from, !.to = to] ELSE NoCopy
            /\ stage' = IF GoesOn(to) THEN stage
                        ELSE IF stage = "kernel" THEN "sbi" ELSE "running"
            /\ UNCHANGED <<vars, sizes, images>>

BootNext == \/ RomAddFile \/ FlashAddStartup \/ SortModules
            \/ RelocateKernel \/ RelocateSbi \/ CopyCell

BootSpec == BootInit /\ [][BootNext]_bootVars

\* main, and then the boot code, run without waiting for anything.
FairBootSpec == BootSpec /\ WF_bootVars(BootNext)

-----------------------------------------------------------------------------
(* Correctness.                                                            *)

\* The file of an image is there from its first to its last byte.
IsWhole(image, base, f, except) ==
  \A k \in 0 .. Cells(sizes.length[f]) - 1 :
    base + k \notin except => image.cell[base + k] = Piece(f, k)

\* The beginning of the i-th module: after startup.bin and the modules before.
Begin(i) ==
  LET upTo[n \in 1 .. i] ==
        IF n = 1 THEN FLASH_HEAD + Cells(sizes.length[Startup])
        ELSE upTo[n - 1] + Cells(flash.cell[upTo[n - 1] + 4].number)
  IN  upTo[i]

\* The images hold what main put there: every file of the ROM, except for the 8
\* bytes in front of its successor, and behind startup.bin the modules in the
\* order of sort_modules, where a guest finds them by adding up the lengths in
\* their headers (rom_add_file, flash_add_file, elf64_hdr_set_length).
ImagesIntact ==
  stage \in {"kernel", "sbi", "running"} =>
    /\ \A i \in DOMAIN RomFiles :
         IsWhole(rom, RomFiles[i].base, RomFiles[i].file, {DTB_BASE - 1, SBI_BASE - 1})
    /\ IsWhole(flash, FLASH_HEAD, Startup, {})
    /\ \A i \in DOMAIN loaded :
         /\ IsWhole(flash, Begin(i), loaded[i], {Begin(i) + 4})
         /\ flash.cell[Begin(i) + 4] = Holds(sizes.length[loaded[i]])

\* When the boot code jumps to the SBI, the RAM holds at the two link addresses
\* the whole SBI and as much of the flash as the kernel's header claims, which
\* may include modules and zeros behind it, and nothing else: the second copy
\* leaves the first alone (_start and _relocate).  Only a claim of 0 bytes
\* writes the 8 bytes below the kernel.
RelocatedIntact ==
  stage = "running" =>
    LET kernel == PAYLOAD_LINK .. PAYLOAD_LINK + Cells(sizes.image) - 1
        sbi    == SBI_LINK .. SBI_LINK + Cells(sizes.length[Sbi]) - 1
    IN  /\ sizes.length[Sbi] > 0
        /\ \A k \in sbi : ram[k] = Piece(Sbi, k - SBI_LINK)
        /\ \A k \in kernel :
             /\ ram[k] = flash_read(flash, FLASH_HEAD + (k - PAYLOAD_LINK))
             /\ k - PAYLOAD_LINK < Cells(sizes.length[Startup]) =>
                  ram[k] = Piece(Startup, k - PAYLOAD_LINK)
        /\ \A k \in (DOMAIN ram) \ (kernel \cup sbi) :
             ram[k] = Zero \/ (sizes.image = 0 /\ k = PAYLOAD_LINK - 1)

\* The start-up ends, with the jump to the SBI or with a panic, whatever the
\* dependencies of the modules (cyclic ones too) and the sizes of the files.
StartupEnds == <>(stage \in {"running", "panic"})
=============================================================================
