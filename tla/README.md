# xemu: TLA+ models, checks and proofs

xemu is an emulator of a one-hart RISC-V machine: it boots a firmware, loads
kernel modules into an emulated flash and runs a kernel.  One host thread, the
*CPU thread*, runs the guest (interrupt, fetch, decode, execute); three more host
threads, one per active device, run beside it: the timer thread of `clint.c`, the
worker of `virtio_blk.c` and the input thread of `uart.c`.  This directory holds
TLA+ models of the parts where the order of events, or a table of special cases,
decides whether the machine is right; TLC configurations that check them on small
instances; and TLAPS proofs of the safety of every modelled part, for instances of
any size.

Source lines below are given as `file:line`, relative to `src/`.

## 1. Inventory

| part | sources | state | operations |
|---|---|---|---|
| clint | `clint.c` | `mtimecmp`, `timer_running`, `_timer_intr`, `_software_intr`, mutex, condition | `clint_write`, `clint_interrupt`, timer thread `_routine` |
| plic | `plic.c` | `priority[]`, thresholds, claim registers, `mie[]`/`sie[]`, `pending[]`, mutex | `plic_signal`, `plic_interrupt`, `plic_read`, `plic_write` |
| hart | `trap.c`, `trap.h`, `interrupt.h`, `csr.c` | privilege, pc, trap CSRs | `trap_enter`, `trap_exit`, `handle_interrupt`, `raise_except` |
| virtio block | `virtio_blk.c`, `virtio.c`, `virtio_mmio.c` | set-up registers, ring addresses and indices, `isr`, request slot, worker, file; rings in guest memory | MMIO reads and writes, `vqueue_pop`, `_routine`, `_complete` |
| uart | `uart.c` | `rbr`, `lsr`, `ier`, `iir`, `thr_pending`, DLAB | `uart_read`, `uart_write`, input thread `_routine` |
| module loader | `module.c`, used by `flash.c` | module list, symbol list, dependency lists, marks | `sort_modules` and what it calls |
| memory | `mmu.c`, `address_space.c`, `ram.c` | RAM, list of regions, `satp` | `mmu`, `as_read`, `as_write` |
| decoder | `decode.c`, `dec16.c`, `dec32.c` | none | `decode` |
| executor | `execute.c`, `regfile.c`, `operation.c` | register files, pc | one case per operation, `raise_except` |
| csr file | `csr.c` | 4096 words | `csr_read`, `csr_update` |
| images | `rom.c`, `flash.c`, `elf.h`, `bios/bios.S` | ROM and flash contents | `rom_add_file`, `flash_add_file`, the boot copy loop |
| rtc | `rtc.c` | latched high half | `rtc_read` |
| main loop | `xemu.c` | pc | `main`, `fetch` |
| others | `pci_host.c`, `fw_cfg.c`, `trace.c`, `yaml.c`, `system_map.c`, `util.c`, `list.h` | none that matters | constant answers, trace output, macros |

**How they interact.**  The guest reaches devices by loads and stores: `execute`
calls `as_read`/`as_write`, which translate with `mmu` and call the handler of the
region.  Device threads reach the hart through `plic_signal` (uart, virtio) or a
flag (`_timer_intr`).  The CPU thread looks at both before every instruction
(`handle_interrupt`, called at `xemu.c:131`): first the plic, then the clint.  The
virtio rings and the page tables live in guest RAM, so the guest writes them while
xemu reads them.  The images are loaded once, before the first instruction, and the
first instructions are those of `bios.S`, which copy kernel and SBI into the RAM.

**Where it is hard.**
- *Two threads, a lock and a condition variable*: clint, plic, the virtio slot.
- *Two threads without a lock*: `isr` of virtio, every uart register.
- *A value latched now and used later*: the claim register of the plic, the event
  index of the ring, the marks of an aborted module traversal.
- *Nested protocol*: trap registers are one set per mode, and traps of both modes
  nest.
- *Permuted and unrolled bit work*: page walks, compressed immediates, ring
  indices that wrap, two widths of arithmetic in one switch.
- *Read, then write, in two guest instructions*: load-reserved and
  store-conditional under a guest that switches threads.
- *Layouts known in two places*: ring addresses (driver and `vring_init`), image
  addresses and length words (`xemu.c`, `flash.c`, `bios.h`).

The complete list, with lines, is `hazards` in PROJECT.json; those with a note and
no property are known to go wrong, or lie outside the models, and the note says which.  No part persists
anything over a restart, and no message can be lost or duplicated, so there is
nothing on crashes or delivery.

**What makes each part correct.**
- clint: the timer interrupt is never early, always comes, and no wake-up is lost.
- plic: no signal is lost or invented, no claim is spurious, no source starves, a
  guest that follows the protocol never ends the program.
- hart: a trap returns to where it came from; a trap context survives until saved.
- virtio: every request is executed once, in order, and its completion noticed.
- uart: a typed key is announced and can be read.
- modules: everything is loaded after what it needs, once, and nothing else.
- memory: translation is Sv39; a store changes only what is mapped.
- decoder: a compressed instruction is its expansion; decoding undoes assembling.
- executor: results are those of the architecture, faults leave nothing behind,
  atomic operations are atomic for the threads of the guest.
- images: both hold every file whole, and the boot code copies what they hold.

## 2. Modules

| module | what it is |
|---|---|
| `OneShotTimer` | abstract: what the machine timer promises |
| `Clint` | `clint.c`, both threads; implements `OneShotTimer` |
| `ClintProofs` | proofs about `Clint` |
| `Plic` | `plic.c`, with device threads and a guest driver |
| `PlicProofs` | proofs about `Plic` |
| `Hart` | traps, delegation and the interrupt poll, with an operating system that follows the protocol |
| `HartProofs` | proofs about `Hart` |
| `BlockDevice` | abstract: what a block device promises its driver |
| `VirtioBlk` | ring, registers and worker; implements `BlockDevice` |
| `VirtioMmio` | set-up of the device by its driver, then `VirtioBlk` |
| `VirtioProofs` | proofs about `VirtioBlk` and `VirtioMmio` |
| `Uart` | the port, both threads, and the store buffers of the host |
| `UartProofs` | proofs about `Uart` |
| `ModuleSort` | `sort_modules` |
| `Images` | the contents of ROM and flash, as operators |
| `Boot` | from `main` to the jump to the SBI: `Images` filled in the order of `ModuleSort`, then `bios.S` |
| `BootProofs` | proofs about `ModuleSort`, alone and as `Boot` runs it, and about the images and the RAM in `Boot` |
| `Memory` | translation, routing, fetch and store |
| `Words` | the bit macros of `util.h`, on sets of bit positions |
| `Dec16`, `Dec32` | the two decoders |
| `Encoding` | reference: instruction listings, an assembler, the compressed expansions |
| `Decode` | `decode` over the words that a fetch can deliver |
| `FetchProofs` | proofs about `Memory` and `Decode` |
| `Widths` | integers of C, for a byte of `B` bits |
| `Ram` | `as_read`, `as_write` and `ram.c` with its atomic operations, byte by byte |
| `Isa` | reference: what the instructions mean, on integers |
| `Execute` | `execute`, registers, csr file and write-back |
| `Threads` | two guest threads with a shared counter on `Execute` |
| `ExecuteProofs` | proofs about `Execute` and `Threads`, on the numbers and bytes of `Widths`, `Ram` and `Isa` |
| `MC...` | the instances for TLC |

Definitions have the names of the code where TLA+ allows it, and `map` in
PROJECT.json gives the lines that each stands for.  A definition whose comment
begins with "Mutant" is a wrong variant of the one below it and is used by no
specification; it is there to show which property notices the mistake.

### Clint
Each thread has a program counter (`cpuPc`, `timerPc`).  The steps are cut at every
lock, unlock, wait and clock reading.  `pthread_cond_signal` (`clint.c:84`) is a
step after the unlock, as in the code.  `pthread_cond_timedwait` may time out at
any moment.  The host clock is `rtc`, a counter that stops at `MaxTime`: a bound.

### Plic
`pending[]` is a set of sources, but it is loaded and stored in words
(`WordBits`), so that setting a bit is a load step and a store step; the word
loaded is in `op`.  `raised` is history: what has been signalled and not claimed.
The poll looks in each word only at the lowest contender, as `first_one` does.
`WritePriority` also has the writes behind `priority[]`: the check at
`plic.c:132` admits five words too many, which are the thresholds, the claim
registers and `mie[0]`.  The guest claims in a context only when it has completed
its last claim there, and enables each source in one context.

### Hart
`sstatus` and `mstatus` are separate registers in the code, and `status[x]` is a
record per mode.  `frames` is the guest's own stack of unfinished traps: each trap
handler first saves the trap registers ("entry" to "saved"), may then enable
interrupts or trap again, restores them with interrupts off ("leaving") and
returns.  A store of a trap vector of 0 (`handle_interrupt` would report "no
interrupt" after changing the registers) is left out.  `MaxDepth` bounds nesting.

### VirtioBlk
The guest's driver is external: it submits, kicks when the event index asks for
it (or always, if event indices are not agreed), and its interrupt handler reads
`InterruptStatus`, acknowledges what it read, and reaps until it has caught up.
`isr &= ~data` is a load and a store; the worker's `isr |= 1` is one step, because
bit 0 is the only bit and what it stores does not depend on what it has loaded.
The steps of `_complete` are the sequence `Order`.  The 16-bit indices are taken
modulo `IdxMod`.  A request is a record with its kind, the number of data
segments, the sector and the data: the fields of its descriptors are not modelled,
except whether they are in a table.  A driver that has agreed on tables uses one
for every request; for any other the first kick ends the program
(`QueueNotifyDirect`).

### VirtioMmio
The driver writes the set-up registers in any order and with any selector, hands
the queue over, releases it, and starts over, as often as it likes; it keeps in
`mine` what it has told the device since it began.  A page number before number
and alignment is the panic of `vring_init`.  When it writes DRIVER_OK, `VirtioBlk`
begins; the worker runs from the start.  A running device is not reset.

### Uart
Every load and store of a shared register is a step, and there is no lock, so
the C program has races.  What the build can produce on an x86 host is modelled by
a store buffer per thread with up to `depth` entries; `plic_signal` takes a mutex
and drains it.  `depth = 0` is a host that keeps the program order.

### ModuleSort
Four loops over the module list, then the recursive traversal with an explicit
`stack`.  Reading ELF files is abstracted to the symbols a file exports and misses.
Directory order is arbitrary, because `scandir` is called without a comparison.

### Images, Boot
All addresses the code uses are multiples of 8, so both images are arrays of 8-byte
cells, and a file is the sequence of its pieces; a length is in bytes and rounded as
by `ROUND_UP`.  `Boot` extends `ModuleSort`: each file that `Finish` hands to
the callback is appended to the flash in the same step, as `sort_func` does.  Then
`CopyCell` is one turn of the loop of `_relocate`, which copies from the end.
The addresses it compares are far from the sign bit, so they are plain numbers.

### Memory
A cell holds one table entry, or data, or half an instruction.  A table has
`Entries` cells, which makes the three levels of Sv39 checkable exhaustively; `Regions` is the
list that `as_read` and `as_write` search, first match first.  The guest edits its tables by ordinary stores through the current translation.  The
code checks neither W, X or U bits nor misaligned large pages, and the model does
not either.

### Words, Dec16, Dec32, Encoding, Decode
A word is the set of the positions of its one bits, so 64-bit values are exact.
`Dec16` and `Dec32` translate the code; `Encoding` is written from the instruction
listings and knows nothing of the code: `Assemble` lays out an instruction by its
format, and `Expansion` reads a compressed one quadrant by quadrant, for RV64 with C
and D, as `csr_init` announces them; hints have their expansions too.  `Decode` starts
with what fetch has delivered and has one step.  That is any compressed instruction
with anything behind it, an assembled one (`Patterns` bounds the bits of its
immediates), or a word that need not be an instruction at all (`Others`), for which
the reference has no answer (`Bad`).  The decoders keep no state, so the properties
compare words with results.  `Misread` names the two compressed instructions that
`dec16` gets wrong and `KeepsRd` the eight operations that keep a stray rd; section 4
says what becomes of them.  What a reserved encoding does is left open by the
architecture and not judged (the word of zeros, which `dec16` takes for an addition,
is one), nor is it judged which floating-point arithmetic `dec32` lacks.

### Widths, Ram, Isa, Execute, Threads
Everything is defined for bytes of `B` bits: halves, words and registers have 2, 4
and 8 times as many, so that `B = 8` is the emulator, and one-bit bytes give a
machine with the same structure and 256 register values.  `Decode` puts one of the
instructions that may be at `pc` into `ins`, and each group of cases of `execute`
is an action; the write-back at its end is part of each.  `AccessFault` is the case
`has_except` of all of them.  The page table is a fixed map (`Memory` has the walk).
Floating-point registers hold integers, as in the code, rounded to the significant
bits of the type they pass through.  `Switch` is the guest's kernel changing between
two threads; it happens between instructions, because `handle_interrupt` does.
`Threads` has what they run: an increment under a spin lock taken with AMO_SWAP_W
(`Locked`) or with LR_W and SC_W (`Reserved`), the guest's code and not the emulator's.
`LockedGuest` is the premise that the guest is `Locked` twice, with the lock and the
counter in one mapped page; `MCExecute` has TLC evaluate it on its instance.
`Isa` knows nothing of the code and characterises results (n = q * d + r, bit by bit)
where `Execute` computes them.  Where `execute.c` is known to differ is in
`Deviates`, `ReportedAsStore` and the comment of `MemoryIsArchitectural`.
`rd_val` has no initial value, so a case that does not assign it
(`ExecuteNothing`) writes back any value if rd is not 0.  That branches, stores and
`NOP` come with rd 0 is an assumption, which `NoStrayResult` shows of the decoders; an
`ECALL` with a stray rd is in `Hart`, which has no registers.

## 3. Runs

Run `tlc -config X.cfg M` for any row.  Times are for two workers.

| run | distinct states | question | answer |
|---|---|---|---|
| clint | 926 | timer safety, lost wake-ups, deadlines, refinement | holds |
| plic | 98,304 | lost signals, spurious claims, service | holds |
| plic_complete | | is a guest that follows the protocol safe from "bad complete"? | no |
| hart | 1.3 million | nested traps | holds |
| virtio | 319,118 | set-up, lost kicks and completions, order, refinement, service | holds |
| virtio_race | | may a driver acknowledge nothing? | no |
| modules | 472,476 | load order, cycles, panics, images, relocation, end | holds |
| uart | 206,248 | keys and receive interrupts | holds |
| memory | 124,390 | Sv39, fetch over a page end, stores | holds |
| decode | 243,772 | all compressed and all 32-bit operations, other words | holds |
| execute | 70,165 | results, faults, memory, a lock | holds |
| sc_lost_update | 65 | do LR and SC make an atomic increment? | no |

**Bounds, and why they are enough.**  The safety properties are proved for any
size (section 5), so the bounds matter for liveness only.
- *clint*: deadlines in the past, at the first tick, at the last tick and beyond
  the end of the clock, against every phase of the timer thread.
- *plic*: three sources in words of two bits give one word with a single source and
  one with two, so a neighbour's bit and the order inside and between words are
  all there; one device thread races the CPU thread, which signals as well.  One priority level is enough for "above" and
  "not above".
- *hart*: depth 3 has each mode trapping out of a handler of the other and of its
  own.  A third interrupt type adds only another source of the same order.
- *virtio*: two entries and indices modulo 4 let the ring wrap and the indices
  wrap separately, with the ring full and empty; the slot, the worker and the
  ring can each hold a request at once.  A read and a write of one sector show
  order and content.  For set-up, a second ring size that the driver may try first
  leaves a wrong size and wrong addresses behind; page size and descriptor size are
  those of the code.
- *modules*: four candidates give diamonds and cycles of length one to four.  With
  the usual lengths ROM and flash are full but for one cell; for two of the graphs
  every file's length is varied to both sides of each limit (8 bytes more, one byte
  too long, empty), and the kernel's claim from 0 to more than the flash.
- *uart*: two keys are what an overrun or a lost key needs; store buffers of 0 and 1.
  `NoStrandedKey` is stated for those: with two delayed stores of one thread, the
  store that drops DR can pass the fetch of the next key.
- *memory*: two entries per table, eight pages, three stores: enough to build a
  path of three levels, a large page at either upper level, and to change a table
  that is in use.
- *decode*: exhaustive over compressed instructions.  For the others, each bit of
  each immediate alone, all of them, and two registers that differ in every bit:
  no two fields are combined by the decoder, and section 5 has all the others.
  `Others` has every opcode and funct3, with each funct7 and rs2 that `dec32` compares
  with and some that it does not, with an rd and without.
- *execute*: operands at 0, at the limits of both widths and around their sign bits,
  every pair for the operations on two registers; addresses at both ends of every
  mapped page, with two virtual pages on one frame and a mapped page before and
  after unmapped ones.  A value of 8 bits has as many kinds of carry, sign and shift
  count as one of 64.  Two threads of one increment each suffice to lose one.

`CHECK_DEADLOCK FALSE` is set where the system really stops: a decoded word, a
finished start-up, stores used up, a guest that has left its program, or the program
gone after a panic.

**Fairness.**  A host thread that can run does run (weak fairness of each
thread's steps).  A mutex that is free again and again is got in the end (strong
fairness for the CPU thread in `Plic`): the device threads hold it for a few
instructions and then wait for their device.  A guest answers a pending interrupt
(strong fairness, as it may be masked from time to time).  Nothing is assumed of
what starts things: typing, submitting requests, raising a device, writing a
deadline, setting up a device.  The start-up (`Boot`) is one thread that waits for
nothing.  In `Clint` the timer thread is *not* assumed to win the mutex from a
guest that writes deadlines forever, and `DeadlineFires` releases it then.

## 4. What the violated runs show

1. **plic_complete**: while the guest serves source A (claimed, not completed),
   the poll of the next instruction stores another source in the same claim
   register (`plic.c:243`).  Completing A then ends the program with "bad
   complete" (`plic.c:172`).  It needs an enabled second source and the interrupt
   poll, which runs even while interrupts are off in the hart.
2. **virtio_race**: an acknowledgement of 0 writes back an old `isr` over the bit
   that the worker has set meanwhile.  The run sets `AckZero`; a driver that
   acknowledges only what it has read as set cannot meet it, and the run `virtio`
   shows that.
3. **sc_lost_update**: `ram_write` always performs a store-conditional and returns 0
   (`ram.c:143`), so a guest thread that is interrupted after its LR overwrites what
   another has stored.  The run `execute` shows that a lock taken with AMOSWAP is
   safe under the same switches.

Seen while modelling, without a run:
- *clint*: with `tv_usec` 999999 the nanoseconds reach 10^9 and the timed wait fails at
  once, so the timer thread spins for a microsecond (`clint.c:111`).
- *plic*: priority writes reach the words behind the array (`plic.c:132`); if the
  lowest pending source of a word is at or below the threshold, every other source
  of that word waits (`plic.c:241`).
- *hart*: a masked external interrupt hides the timer, and a masked timer a software
  interrupt, because one type is looked at (`trap.c:95`).
- *uart*: nothing raises the transmitter interrupt after a character is sent, a full
  receive buffer is overwritten without `OE`, and a write to FCR replaces `iir`; on a host that delays stores, `IER` of one thread and
  `DR` of the other may both be under way when each tests the other one (`uart.c:211`).
- *virtio*: a discard, or a write of several segments, ends the program although the
  feature bits offer it (`virtio_blk.c:285`), and so does a chain without a table,
  which a driver that declines tables must use (`virtio.c:141`); a reset of a running
  device keeps the ring indices (`virtio_mmio.c:146`) and the page number; the end of
  avail is computed without its `used_event` (`virtio.c:161`), which matters for
  alignments far below a page only.
- *modules*: a file name without a dot ends the program (`module.c:36`).
- *memory*: an access that crosses a page is translated by its first byte; large
  pages that are not aligned are rounded down instead of faulting.
- *images*: the length of the SBI is stored in the last 8 bytes before it, which
  `bios.h:14` gives to the device tree; a kernel header that claims 0 bytes has 8
  bytes written below the kernel, and an empty SBI ends the program.
- *executor*: `MULH` and `MULHSU` widen their operands without a sign
  (`execute.c:343`), so a negative one gives the product of `MULHU`; `FLD`, `FLW`,
  `LR_D` and `LR_W` without a translation raise a *store* page fault
  (`execute.c:568`, 548, 433, 489); `JALR` keeps bit 0 of its target; the unsigned word
  divisions by zero and the word forms of AMO do not extend the sign; `FLD` and `FLW`
  convert numbers; and every readable csr can be written.
- *decoder*: there is no case for c.fsdsp, which ends the program (`dec16.c:403`)
  although C and D are announced in `misa`; c.add with x0 as its destination, a hint, is
  taken for c.ebreak (`dec16.c:364`), for which `execute` has no case
  (`execute.c:580`); rd is taken from every word and not cleared for OP_MISC and
  OP_SYSTEM (`dec32.c:358`, 373), so that a fence whose unused fields are not 0 has an
  uninitialised `rd_val` stored in a register (`execute.c:587`).  Several reserved
  compressed encodings are decoded as their neighbours.

## 5. Proofs

All theorems are for arbitrary values of the constants, from the `ASSUME` of the
module.  Each proof module begins with its inductive invariant; TLC has checked it on
the instance of the run before it was proved.  The proofs of a step have one case for
each action.

**ClintProofs** (any `MaxTime`, any set of deadlines).  `Invariance` proves an
inductive invariant `IInv`, which adds to the checked properties who holds
`_mutex` at each program counter, and what the clock has already passed at
`"fire"`: when the timer thread has compared, the lock keeps the deadline in place
until the interrupt is raised, so `rtc >= mtimecmp` persists.  Without the lock
clause the step into `"fire"` is not inductive.  `TypeCorrect`, `NeverEarly` and
`WakeupNotLost` follow.  `Refinement` maps every step to a step of `OneShotTimer`
or to a stutter.

**PlicProofs** (any number of sources and device threads, any word width).  The
invariant adds `RmwOK` (only the holder of the mutex is between its load and its
store, and the word it loaded is still the word in memory), `ClaimOK` (a claim in
progress is for the source in the claim register) and `RouteOK`.  `TypeCorrect`,
`SignalsKept` and `ClaimsAreReal` follow.  They have the premise `GuestInBounds`: the guest
writes the priority slots of real sources.  Without it `ClaimIsPending` is
false, as a write behind the array sets the claim register itself.

**HartProofs** (any depth, interrupts, exceptions and delegation).  A trap context
is safe because nothing can trap into its mode while it is unsaved: the hart runs in
the mode of the innermost trap (`NestingOK`), modes nest upwards, and above an unsaved
trap there is none of its own mode (`OrderOK`).  `ContextIntact`, `ReturnsResume` and
`PrivilegeLoweredByReturn` follow.

**VirtioProofs** (rings of any size that divides the range of the indices, any
requests).  `IInv` has what lies between the indices: the requests finished, with the
worker, in the slot and waiting are all different and not yet given back (`QueueOK`);
unless the driver is adding requests or kicking, the device has taken everything there
is, and a driver that is adding will kick (`KickOK`); what the worker has done at each
of its steps (`WorkerOK`); what is finished has its status (`WholeOK`).  `MmioIInv` adds the set-up.  `KickNeverLost`,
`CompletionsWhole` and `Refinement` (each step is one of `BlockDevice` or a stutter)
follow.  Two theorems have a premise:
- `CompletionNeverLost` that the driver never acknowledges 0 (`~AckZero`): the run
  `virtio_race` shows that it is needed.
- `Agreement`, that driver and device mean the same rings, `NoneEndsWithPage`: the end
  of avail is computed without its `used_event` (`virtio.c:161`), which is the same as
  long as no ring ends at the beginning of a page.  Every size that is a power of two
  up to 1024 satisfies it with pages of 4096.

**BootProofs** (any files, dependencies and order of the directory).  The traversal
is followed through its stack: each activation waits for the first dependency that it
has not done, and that is the activation above it (`StackOK`); `DONE` marks exactly what has been loaded
(`DoneOK`).  An activation that meets a cycle returns and leaves its module `DOING`:
from there the code only returns and panics (`DoomOK`), so the mark is never mistaken
for one of a module that is under way.  That a panic of the traversal has a cycle of the
files as its cause is shown on the stack itself.  `NeededOK`, `VisitedOK` and
`CoverOK` say that nothing superfluous is on the stack, nothing wanted has been
passed over, and the tables are complete.  `ProvidersBefore`, `Once`, `Exactly` and
`Cause` follow.  They are stated for `BootSpec`; `SortInvariance` is the invariant for
`ModuleSort` alone.

About the images (files of any length, any number of modules, any claim in the
kernel's header), on top of `IInv`: what the ROM has after n files, the places
of the modules in the flash (`FlashOK`: there are places b such that each
begins where the last one ends), and what the RAM has when the copy loop is at its m-th
cell, of the kernel and then of the SBI (`RamOK`).  The latter is not inductive unless
the SBI ends before the kernel begins, which follows from the addresses.
`ImagesWhole` states `ImagesIntact`, `Relocated` states `RelocatedIntact`.

**FetchProofs**, about `Memory` (tables of any size, any list of regions, any contents
of the tables).  `Sv39`: the three unrolled levels of `mmu` are the loop of the
architecture.  The loop is a recursive function; it is unrolled three times, with
the function given explicitly.  `Fetches` and `Confined` are about `fetch` and
stores; `TypeCorrect` is the invariant they need.

About `Decode` (any registers, any csrs, immediates of any bits).  The behaviours have
one step; the work is in what the two decoders compute, and it is done without
enumeration, in which every word would have to be looked at:
- `AssembledFields`: no two parts that the assembler joins overlap (`ImmPlaces`), so
  each field of a word holds what was put in (`NumberOfBits`).  `DecodedByFields` then
  goes through the listing: a word with these fields has this operation.
- `ImmediateIs`: each scattered immediate is described bit by bit, once as the
  assembler scatters it and once as the shifts and masks of `dec32` collect it.
  `Roundtrip` puts this together: for every legal instruction, what `dec32` makes of
  its word has the same effect.
- `CompressedImmediates` does the same for the immediates of `dec16`, and the
  `Quadrant` lemmas follow the cases: what is neither reserved nor `Misread` decodes to
  its expansion, and every expansion is legal (`ExpansionIs`), so that `Roundtrip`
  applies to it.
- `CompressedResult` and `LongSound`: whatever the word, of 16 or of 32 bits, reserved
  or not, the result is one that `execute` can index with, and no operation without a
  result has an rd, those of `KeepsRd` excepted.

`DecodeInv` says what the word is and that `out` and `len` come from it.
`DecodeAssembled` is about the assembled words, `DecodeCompressed` about the
compressed instructions that have an expansion and are not `Misread`; `DecodeNoStray`
and `DecodeTypeOK` are about all words, as `Others` may be any set of them.

**UartProofs** (any number of keys, any enables).  `KeysAnnounced` is for hosts that
delay at most one store of each thread, `DriverTold` for those that delay none, as
the properties are; the invariant says what may be in each buffer (`CpuOK`, `IoOK`),
and where the threads are while a key is not announced (`AnnouncedOK`) or an interrupt
is due (`ToldOK`).

**ExecuteProofs** (bytes of any number of bits `B`, the emulator's 8 among them, where
TLC has 1; any page table, memory, guest code and registers).  `IInv` adds to
`TypeOK` that the memory has a byte wherever an access can reach, that the
instruction in `ins` is one that the code can have, and that the suspended thread
has registers.  `TypeCorrect` and `Precise` need no more; `Precise` has the four loads of
`ReportedAsStore` as they are in the code: the architecture wants a load page fault.  The other theorems compare what `execute.c` computes with what `Isa`
says of it:
- `Results` (`ResultIsArchitectural`, wherever not `Deviates`).  That two numbers agree in their low n bits is
  congruence modulo 2^n (`Cong`), which sums, differences and products keep; a signed
  number is the only one in its range with its low part (`SignedUnique`); and `Bitwise`
  and the shifts are taken apart into bits (`BitOfBitwise`, `LeftBits`, `RightBits`,
  `SignedRightBits`).  A quotient toward zero is characterised by
  its remainder (`TruncDivides`).
- `MemoryMeetsArch` (`MemoryIsArchitectural`).  The bytes of an access that
  stays in its page lie one behind another (`PlacesAre`), `ram_read` sums their digits
  and a store cuts its number into them (`DigitsOf`, `CopiedIsNumber`); for an AMO,
  `AmoCombines`.
- `UpdateNotLost` (`NoLostUpdate`), for the guest of `LockedGuest`, wherever its code and
  its lock are.  The six instructions are taken through `Execute` one by one
  (`SwapStep` to `UnlockStep`), with `MemoryStep` of the theorem before for what each
  leaves in the lock, in the counter and in the registers.  `Guarded` is the argument:
  a thread `Holds` the lock from the swap that returned 0 to its last store, never
  both do, the word is 1 exactly while one does, and the counter is the number of
  threads that have stored; so what the holder has read stays true until it stores,
  although the kernel switches in between.  For `Reserved` there is no such invariant:
  `sc_lost_update` shows the lost increment.

The two sums are recursive functions.  That such a function exists and what it sums to
is shown by way of the least number for which it would fail (`SumExists`,
`SumIsNumber`, `SumUnique`).

**What the assumptions add.**  `DecodeAssumption`: a register
number has five bits and a csr number twelve.  `ModuleSortAssumption`: the directory
is finite, and there is one `startup.bin` and one `System.map`, because a directory
has each name once.  `BootAssumption`: the order of the addresses in `bios.h`, among them that the
part of the ROM from the SBI on, linked at 0, does not reach `PAYLOAD_LINK`;
and that an image and an ELF file have their headers, which the code reads from them.
`VirtioAssumption`: the range of the indices is a multiple of the ring size, as
2^16 is of the sizes a driver may choose.  `MmioAssumption`: a page is not empty.
`PowersAssumption`: 2^n is positive and 2^(n + 1) is its double, up to the width of a
register, which the provers do not know of exponentiation.  `RamAssumption`:
the address space is a whole number of pages.  `IsRam` of the start states: the
RAM has every mapped page and the seven bytes behind it, so that an access that
begins in RAM ends there (one that does not is under section 6).  `ExecuteAssumption`:
the fields of an instruction are as the decoder makes them, among them that a
store-conditional and an AMO carry the parameter of their kind, and that a branch, a
store and `NOP` have no rd (`NoStrayResult`).

**Model-checked only.**
All liveness (`DeadlineFires`, `SelectedIsServed`, `EveryRequestReturns`, `StartupEnds`,
`KeyReachesGuest`), which is out of the prover's reach.  No safety property of a
passing run is left.

## 6. Not modelled

- *rtc*: two assignments.
- *virtio*: the fields of descriptors and the configuration space; a reset of a
  running device.
- *flash* as a target of guest stores (`flash_write`).
- *address spaces*: accesses that begin in one region and end in another.
- *main*: the calls that create the devices, one after the other.
- *pci host, fw_cfg*: constant answers, no state.
- *tracing, yaml, system_map*: output only.
- *utilities*: seen through what uses them.
- Wall-clock durations, host errors (`fopen`, `pthread_*`), and terminal modes.

## 7. Plan

Written so far, in this order: clint, plic, hart, virtio, modules, uart, memory,
decoder, the proofs of the first two, executor, images and start-up, virtio set-up,
the proofs of all other parts, the decoders and the guest's lock last.

Next, models: the descriptors of a request, and `Machine`: clint, plic and hart
composed, so that "a raised line is taken if enabled" is a property of the whole.
