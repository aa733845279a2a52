----------------------------- MODULE VirtioMmio -----------------------------
(***************************************************************************)
(* The block device from the start of the program: the registers of        *)
(* src/virtio_mmio.c with which a driver agrees on features and hands over *)
(* the rings, vring_init of src/virtio.c, and then module VirtioBlk, whose *)
(* driver begins when this one has written DRIVER_OK.                      *)
(*                                                                         *)
(* The driver reads and writes the registers in any order, may start over, *)
(* and keeps account of what it has told the device.  Addresses are        *)
(* numbers, as in the code.                                                *)
(***************************************************************************)
EXTENDS VirtioBlk

CONSTANTS Nums,       \* the sizes of the rings that the driver tries
          PageSize,   \* of the guest: 2^PageShift
          PageShift,
          Pages       \* the numbers of the pages where it puts the rings

ASSUME MmioAssumption ==
  /\ Num \in Nums /\ Nums \subseteq Nat \ {0} /\ Pages \subseteq Nat \ {0}
  /\ PageShift \in Nat /\ PageSize = 2^PageShift /\ PageSize \in Nat \ {0}

VARIABLES regs,       \* the registers and the ring's addresses, in vdev and vring
          mine        \* what the driver knows

setupVars == <<regs, mine>>
allVars   == <<vars, setupVars>>

NoRings == [desc |-> 0, avail |-> 0, used |-> 0]
Unknown == [live |-> FALSE, offered |-> {}, agreed |-> {}, told |-> {}, num |-> 0,
            rings |-> NoRings]

MmioInit ==
  /\ Init /\ guest_features = {}
  /\ regs = [host_features_sel |-> FALSE, guest_features_sel |-> FALSE,
             guest_page_shift |-> 0, num |-> 0, align |-> 0, rings |-> NoRings,
             status |-> 0]
  /\ mine = Unknown

-----------------------------------------------------------------------------
(* The registers.                                                          *)

\* virtio_mmio_read of DEVICE_FEATURES and of QUEUE_PFN.
DeviceFeatures == IF regs.host_features_sel THEN {} ELSE Features
QueuePfn       == regs.rings.desc \div 2^regs.guest_page_shift

AlignUp(n, to) == ((n + to - 1) \div to) * to

\* The end of avail is taken without its used_event.
UsedAt(start, num, align) == AlignUp(start + 4 + (2 * num), align)

vring_init(pfn) ==
  LET desc  == pfn * 2^regs.guest_page_shift
      start == desc + (16 * regs.num)
  IN  [desc |-> desc, avail |-> start, used |-> UsedAt(start, regs.num, regs.align)]

NotYetSetup == regs.num = 0 \/ regs.align = 0

-----------------------------------------------------------------------------
(* The driver, with the handler of the register it writes.                 *)

Probing == Alive /\ ~mine.live
OnlyGuestFeatures == UNCHANGED <<guestMem, disk, last_avail_idx, used_idx, isr,
                                 _req, irq, panic, worker, cpu>>

SelectDevice(half) ==
  /\ Probing
  /\ regs' = [regs EXCEPT !.host_features_sel = half]
  /\ UNCHANGED <<vars, mine>>

SelectDriver(half) ==
  /\ Probing
  /\ regs' = [regs EXCEPT !.guest_features_sel = half]
  /\ UNCHANGED <<vars, mine>>

ReadFeatures ==
  /\ Probing /\ ~regs.host_features_sel
  /\ mine' = [mine EXCEPT !.offered = DeviceFeatures]
  /\ UNCHANGED <<vars, regs>>

\* Mutant: the selector is not looked at.
FeaturesNow(half, data) == data

\* DRIVER_FEATURES: only the low word is kept.
FeaturesAfter(half, data) == IF half THEN guest_features ELSE data

\* The high word holds none of these features.
WriteFeatures(f) ==
  /\ Probing
  /\ IF regs.guest_features_sel
       THEN f = {} /\ UNCHANGED mine
       ELSE /\ f \subseteq mine.offered
            /\ mine' = [mine EXCEPT !.agreed = f, !.told = @ \cup {"features"}]
  /\ guest_features' = FeaturesAfter(regs.guest_features_sel, f)
  /\ UNCHANGED regs /\ OnlyGuestFeatures

\* GUEST_PAGE_SIZE: ctz32.  Like the next two, before the rings are handed over.
WritePageSize ==
  /\ Probing /\ mine.rings = NoRings
  /\ regs' = [regs EXCEPT !.guest_page_shift = PageShift]
  /\ mine' = [mine EXCEPT !.told = @ \cup {"page size"}]
  /\ UNCHANGED vars

WriteNum(n) ==
  /\ Probing /\ mine.rings = NoRings
  /\ regs' = [regs EXCEPT !.num = n]
  /\ mine' = [mine EXCEPT !.told = @ \cup {"num"}, !.num = n]
  /\ UNCHANGED vars

WriteAlign ==
  /\ Probing /\ mine.rings = NoRings
  /\ regs' = [regs EXCEPT !.align = PageSize]
  /\ mine' = [mine EXCEPT !.told = @ \cup {"align"}]
  /\ UNCHANGED vars

\* The rings as the driver lays them out: used begins on the page behind avail,
\* with its flags, index, entries and used_event.
DriverRings(pfn) ==
  LET start == (pfn * PageSize) + (16 * mine.num)
  IN  [desc |-> pfn * PageSize, avail |-> start,
       used |-> AlignUp(start + (2 * (3 + mine.num)), PageSize)]

\* QUEUE_PFN: a driver that finds no queue there hands one over, also when it has
\* not told everything; then the device may not be set up and panics.
WritePfn(pfn) ==
  /\ Probing /\ QueuePfn = 0
  /\ \/ /\ NotYetSetup
        /\ panic' = TRUE
        /\ UNCHANGED <<setupVars, guestMem, guest_features, disk, last_avail_idx,
                       used_idx, isr, _req, irq, worker, cpu>>
     \/ /\ ~NotYetSetup
        /\ regs' = [regs EXCEPT !.rings = vring_init(pfn)]
        /\ mine' = [mine EXCEPT !.rings =
                      IF {"page size", "num", "align"} \subseteq mine.told
                        THEN DriverRings(pfn) ELSE NoRings]
        /\ UNCHANGED vars

\* QUEUE_PFN with 0.
ReleaseQueue ==
  /\ Probing /\ QueuePfn # 0
  /\ regs' = [regs EXCEPT !.rings.desc = 0]
  /\ mine' = [mine EXCEPT !.rings = NoRings]
  /\ UNCHANGED vars

\* STATUS with 0: the driver starts over, and the device keeps everything else.
Reset ==
  /\ Probing /\ mine # Unknown
  /\ regs' = [regs EXCEPT !.status = 0]
  /\ mine' = Unknown
  /\ UNCHANGED vars

\* STATUS with DRIVER_OK, selectors back at 0.
WriteDriverOk ==
  /\ Probing
  /\ ~regs.host_features_sel /\ ~regs.guest_features_sel
  /\ mine.rings # NoRings /\ mine.num = Num /\ "features" \in mine.told
  /\ regs' = [regs EXCEPT !.status = 7]
  /\ mine' = [mine EXCEPT !.live = TRUE]
  /\ UNCHANGED vars

SetUp == \/ \E half \in BOOLEAN : SelectDevice(half) \/ SelectDriver(half)
         \/ ReadFeatures \/ \E f \in SUBSET Features : WriteFeatures(f)
         \/ WritePageSize \/ WriteAlign \/ \E n \in Nums : WriteNum(n)
         \/ \E pfn \in Pages : WritePfn(pfn)
         \/ ReleaseQueue \/ Reset \/ WriteDriverOk

MmioNext == \/ SetUp
            \/ mine.live /\ (Driver \/ Mmio) /\ UNCHANGED setupVars
            \/ Routine /\ UNCHANGED setupVars

MmioSpec == MmioInit /\ [][MmioNext]_allVars

\* Nothing obliges a driver to set the device up.
FairMmioSpec == MmioSpec /\ Fairness

-----------------------------------------------------------------------------
\* Driver and device mean the same by what they have agreed on: once the queue is
\* handed over, by whatever way and at whichever attempt, the device looks for the
\* three parts of the ring where the driver has put them, none of which reaches
\* into another, and a running driver uses the features that the device uses
\* (vring_init and the selector of DRIVER_FEATURES).
SetUpAgrees ==
  /\ mine.rings # NoRings =>
       /\ regs.rings = mine.rings
       /\ regs.rings.avail + (2 * (3 + regs.num)) <= regs.rings.used
  /\ mine.live => guest_features = mine.agreed /\ regs.num = Num
=============================================================================
