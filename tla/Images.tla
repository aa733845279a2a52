------------------------------- MODULE Images -------------------------------
(***************************************************************************)
(* The images that the guest starts from: the ROM (src/rom.c) and the      *)
(* flash (src/flash.c) as arrays of 8-byte cells.  All addresses the code  *)
(* uses here are multiples of 8; lengths are bytes, as in struct stat.     *)
(***************************************************************************)
EXTENDS Naturals

CONSTANTS RomSpace,      \* ROM_ADDRESS_SPACE_SIZE, in cells like the next two
          FlashSpace,    \* FLASH_ADDRESS_SPACE_SIZE
          FLASH_HEAD     \* FLASH_HEAD_SIZE

ASSUME ImagesAssumption == FLASH_HEAD \in 1 .. FlashSpace /\ RomSpace \in Nat

\* What a cell holds: a number, or the k-th 8 bytes of a file (the last ones
\* are filled with zeros).
Holds(n)    == [number |-> n]
Piece(f, k) == [file |-> f, at |-> k]
Zero        == Holds(0)       \* calloc

\* ROUND_UP(n, 8), in cells.
Cells(n) == (n + 7) \div 8

Size(image) == image.size
Empty       == [size |-> 0, cell |-> << >>]

\* calloc, memcpy of the old image and fread of the file behind it, at base.
Extended(image, f, base, length) ==
  LET size == base + Cells(length)
  IN  [size |-> size,
       cell |-> [k \in 0 .. size - 1 |->
                   CASE k >= base -> Piece(f, k - base)
                     [] k < Size(image) -> image.cell[k]
                     [] k < base /\ k >= Size(image) -> Zero]]

Put(image, k, v) == [image EXCEPT !.cell[k] = v]

-----------------------------------------------------------------------------
\* rom_add_file succeeds.
RomTakes(rom, base, length) ==
  base >= Size(rom) /\ base + Cells(length) <= RomSpace

\* The length goes to the 8 bytes before the file, whatever they hold.
rom_add_file(rom, f, base, length) ==
  LET new == Extended(rom, f, base, length)
  IN  IF base > 0 THEN Put(new, base - 1, Holds(length)) ELSE new

-----------------------------------------------------------------------------
flash_init == [size |-> FLASH_HEAD, cell |-> [k \in 0 .. FLASH_HEAD - 1 |-> Zero]]

FlashTakes(flash, length) == Size(flash) + Cells(length) <= FlashSpace

\* e_phoff of an ELF header is its fifth 8 bytes.
LengthCell == 4

\* Mutant: the length is put in place before the file is read.
flash_add_file_early(flash, f, length, isElf) ==
  Extended(flash, f, Size(flash), length)

\* Files follow one another; an ELF file gets its length into its header.
flash_add_file(flash, f, length, isElf) ==
  LET new == Extended(flash, f, Size(flash), length)
  IN  IF isElf THEN Put(new, Size(flash) + LengthCell, Holds(length)) ELSE new

\* Reads of whole cells: behind the last file the flash reads as zero.
flash_read(flash, k) == IF k < Size(flash) THEN flash.cell[k] ELSE Zero
=============================================================================
