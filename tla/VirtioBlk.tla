----------------------------- MODULE VirtioBlk -----------------------------
(***************************************************************************)
(* The virtio block device: the ring (src/virtio.c), the registers a       *)
(* running driver uses (src/virtio_mmio.c), and the device with its worker *)
(* thread (src/virtio_blk.c).                                              *)
(*                                                                         *)
(* The CPU thread runs the guest's driver and, on its behalf, the register *)
(* handlers; the worker thread executes one request at a time, handed over *)
(* in the slot _req.  isr is updated by both threads without a lock, so    *)
(* the acknowledgement is split into a load and a store.                   *)
(*                                                                         *)
(* The guest is a driver such as Linux': it batches submissions, kicks     *)
(* when the device asks for it (VIRTIO_RING_F_EVENT_IDX), and its          *)
(* interrupt handler reads and acknowledges isr before it looks at the     *)
(* used ring.                                                              *)
(***************************************************************************)
EXTENDS Naturals, Sequences, FiniteSets

CONSTANTS Num,        \* vring.num: the entries of a ring
          IdxMod,     \* ring indices are uint16_t: 2^16 in the code
          Requests,   \* the requests the guest makes
          NoRequest,  \* a free descriptor
          Sectors,    \* the sectors of the disk
          Blank,      \* what an untouched sector or buffer holds
          AckZero     \* the driver acknowledges even an isr it has read as 0

\* The features of the ring that the device offers (VIRTIO_COMMON_FEATURES).
Features == {"INDIRECT_DESC", "EVENT_IDX"}

Heads == 0..(Num - 1)
Index == 0..(IdxMod - 1)
None  == Num                 \* no descriptor

ASSUME VirtioAssumption ==
  /\ Num \in Nat \ {0}
  /\ IdxMod \in Nat /\ IdxMod > Num /\ IdxMod % Num = 0
  /\ NoRequest \notin Requests
  /\ AckZero \in BOOLEAN

VARIABLES
  (* guest memory *)
  request,         \* the request each descriptor holds
  buffer,          \* the data of each request
  statusByte,      \* the status byte of each request has been written
  avail,           \* vring->avail: the ring of submitted descriptors
  avail_idx,       \* vring->avail: idx
  used,            \* vring->used: the ring of completed descriptors
  used_mem,        \* vring->used: idx
  avail_event,     \* the avail index the device wants a kick for
  (* the device *)
  guest_features,  \* vdev->guest_features: what set-up has left (VirtioMmio)
  disk,            \* the file behind the device
  last_avail_idx,  \* vq->last_avail_idx
  used_idx,        \* vq->used_idx
  isr,             \* vdev->isr
  _req,            \* blk->_req: the slot to the worker
  workPc,          \* where the worker is in _routine
  working,         \* the request the worker has taken
  irq,             \* pending at the PLIC
  panic,           \* the program has panicked
  (* the CPU thread: guest driver and register handlers *)
  cpuPc,
  popped,          \* the request vqueue_pop has taken
  kickIdx,         \* avail_idx at the last kick
  lastUsed,        \* the used index up to which the driver has looked
  intStatus,       \* isr as the interrupt handler has read it
  ackIsr           \* isr as the acknowledgement has loaded it

guestMem == <<request, buffer, statusByte, avail, avail_idx, used, used_mem,
              avail_event>>
cpu      == <<cpuPc, popped, kickIdx, lastUsed, intStatus, ackIsr>>
worker   == <<workPc, working>>
device   == <<guest_features, disk, last_avail_idx, used_idx, isr, _req, irq, panic>>
vars     == <<guestMem, device, worker, cpu>>

TypeOK ==
  /\ request \in [Heads -> Requests \cup {NoRequest}]
  /\ statusByte \in [Heads -> BOOLEAN]
  /\ avail \in [Heads -> Heads] /\ used \in [Heads -> Heads]
  /\ {avail_idx, used_mem, avail_event, last_avail_idx, used_idx, kickIdx,
      lastUsed} \subseteq Index
  /\ {isr, intStatus, ackIsr} \subseteq {0, 1}
  /\ {_req, working, popped} \subseteq Heads \cup {None}
  /\ guest_features \subseteq Features
  /\ irq \in BOOLEAN /\ panic \in BOOLEAN
  /\ workPc \in {"lock", "asleep", "do", "status", "usedRing", "usedIdx",
                 "isr", "signal"}
  /\ cpuPc \in {"run", "adding", "pop", "handover", "signal", "claimed",
                "ackLoad", "ackStore", "reap"}

Init ==
  /\ request = [h \in Heads |-> NoRequest]
  /\ buffer = [h \in Heads |-> Blank]
  /\ statusByte = [h \in Heads |-> FALSE]
  /\ avail = [i \in Heads |-> 0] /\ used = [i \in Heads |-> 0]
  /\ avail_idx = 0 /\ used_mem = 0 /\ avail_event = 0
  /\ guest_features \in SUBSET Features
  /\ disk = [s \in Sectors |-> Blank]
  /\ last_avail_idx = 0 /\ used_idx = 0
  /\ isr = 0 /\ _req = None /\ irq = FALSE /\ panic = FALSE
  /\ workPc = "lock" /\ working = None
  /\ cpuPc = "run" /\ popped = None
  /\ kickIdx = 0 /\ lastUsed = 0 /\ intStatus = 0 /\ ackIsr = 0

\* After a panic the process is gone.
Alive == ~panic

\* Mutant: an index that does not wrap.
IncNoWrap(i) == i + 1

\* The uint16_t increment of an index, and the distance between two.
Inc(i)     == (i + 1) % IdxMod
Gap(i, j)  == (IdxMod + i - j) % IdxMod

-----------------------------------------------------------------------------
(* The guest's driver (external: modelled from the protocol that virtio.h  *)
(* describes and the handlers of virtio_mmio.c serve).                     *)

\* A request is put on the avail ring; the kick comes later.
Submit(h, r) ==
  /\ Alive
  /\ cpuPc \in {"run", "adding"}
  /\ request[h] = NoRequest
  /\ request' = [request EXCEPT ![h] = r]
  /\ buffer' = [buffer EXCEPT ![h] = r.data]
  /\ statusByte' = [statusByte EXCEPT ![h] = FALSE]
  /\ avail' = [avail EXCEPT ![avail_idx % Num] = h]
  /\ avail_idx' = Inc(avail_idx)
  /\ cpuPc' = "adding"
  /\ UNCHANGED <<used, used_mem, avail_event, device, worker, popped, kickIdx,
                 lastUsed, intStatus, ackIsr>>

\* The driver kicks if the index the device asked for is among the new ones, or
\* always if the two have not agreed on event indices.
NeedEvent == \/ "EVENT_IDX" \notin guest_features
             \/ Gap(avail_idx, Inc(avail_event)) < Gap(avail_idx, kickIdx)

Kick ==
  /\ Alive
  /\ cpuPc = "adding"
  /\ cpuPc' = IF NeedEvent THEN "pop" ELSE "run"
  /\ kickIdx' = avail_idx
  /\ UNCHANGED <<guestMem, device, worker, popped, lastUsed, intStatus, ackIsr>>

\* An interrupt is taken and claimed, between two driver operations.
IrqClaim ==
  /\ Alive
  /\ cpuPc = "run"
  /\ irq
  /\ irq' = FALSE
  /\ cpuPc' = "claimed"
  /\ UNCHANGED <<guestMem, guest_features, disk, last_avail_idx, used_idx,
                 isr, _req, panic, worker, popped, kickIdx, lastUsed,
                 intStatus, ackIsr>>

\* The driver looks for completions until it has caught up with the used index.
Reap ==
  /\ Alive
  /\ cpuPc = "reap"
  /\ \/ /\ lastUsed # used_mem
        /\ request' = [request EXCEPT ![used[lastUsed % Num]] = NoRequest]
        /\ lastUsed' = Inc(lastUsed)
        /\ UNCHANGED cpuPc
     \/ /\ lastUsed = used_mem
        /\ cpuPc' = "run"
        /\ UNCHANGED <<request, lastUsed>>
  /\ UNCHANGED <<buffer, statusByte, avail, avail_idx, used, used_mem,
                 avail_event, device, worker, popped, kickIdx, intStatus, ackIsr>>

-----------------------------------------------------------------------------
(* Registers of virtio_mmio.c.                                             *)

\* VIRTIO_MMIO_INTERRUPT_STATUS is read.
ReadInterruptStatus ==
  /\ Alive
  /\ cpuPc = "claimed"
  /\ intStatus' = isr
  /\ cpuPc' = IF isr = 1 \/ AckZero THEN "ackLoad" ELSE "run"
  /\ UNCHANGED <<guestMem, device, worker, popped, kickIdx, lastUsed, ackIsr>>

\* VIRTIO_MMIO_INTERRUPT_ACK is written: vdev->isr &= ~data, a load ...
InterruptAckLoad ==
  /\ Alive
  /\ cpuPc = "ackLoad"
  /\ ackIsr' = isr
  /\ cpuPc' = "ackStore"
  /\ UNCHANGED <<guestMem, device, worker, popped, kickIdx, lastUsed, intStatus>>

\* ... and a store.  The handler goes on only if isr told it to.
InterruptAckStore ==
  /\ Alive
  /\ cpuPc = "ackStore"
  /\ isr' = IF intStatus = 1 THEN 0 ELSE ackIsr
  /\ cpuPc' = IF intStatus = 1 THEN "reap" ELSE "run"
  /\ intStatus' = 0 /\ ackIsr' = 0
  /\ UNCHANGED <<guestMem, guest_features, disk, last_avail_idx, used_idx,
                 _req, irq, panic, worker, popped, kickIdx, lastUsed>>

\* Mutant: the event index is set before last_avail_idx is advanced.
EventAfterPopStale == last_avail_idx

\* The event index after a pop: the next request is to be announced.
EventAfterPop == Inc(last_avail_idx)

\* The head of the avail ring is taken off, and the event index follows.
TakeHead ==
  /\ cpuPc = "pop" /\ avail_idx # last_avail_idx
  /\ last_avail_idx' = Inc(last_avail_idx)
  /\ avail_event' = IF "EVENT_IDX" \in guest_features THEN EventAfterPop ELSE avail_event

NextHead == avail[last_avail_idx % Num]

\* The descriptor refers to a table.  A request has several descriptors, and a
\* driver that may puts them in a table.
Indirect == "INDIRECT_DESC" \in guest_features

\* VIRTIO_MMIO_QUEUE_NOTIFY: vqueue_pop until the avail ring is empty.
QueueNotifyPop ==
  /\ Alive
  /\ cpuPc = "pop"
  /\ \/ /\ avail_idx = last_avail_idx
        /\ cpuPc' = "run"
        /\ UNCHANGED <<popped, last_avail_idx, avail_event>>
     \/ /\ TakeHead /\ Indirect
        /\ popped' = NextHead
        /\ cpuPc' = "handover"
  /\ UNCHANGED <<request, buffer, statusByte, avail, avail_idx, used,
                 used_mem, guest_features, disk, used_idx, isr, _req, irq,
                 panic, worker, kickIdx, lastUsed, intStatus, ackIsr>>

\* The head of a chain that is in no table: panic.
QueueNotifyDirect ==
  /\ Alive
  /\ TakeHead /\ ~Indirect
  /\ popped' = NextHead
  /\ panic' = TRUE
  /\ UNCHANGED <<request, buffer, statusByte, avail, avail_idx, used,
                 used_mem, guest_features, disk, used_idx, isr, _req, irq,
                 worker, cpuPc, kickIdx, lastUsed, intStatus, ackIsr>>

\* virtio_blk_handle_request: waits, with a timeout, until the slot is empty.
HandleRequest ==
  /\ Alive
  /\ cpuPc = "handover"
  /\ _req = None
  /\ _req' = popped
  /\ popped' = None
  /\ cpuPc' = "signal"
  /\ UNCHANGED <<guestMem, guest_features, disk, last_avail_idx, used_idx,
                 isr, irq, panic, worker, kickIdx, lastUsed, intStatus,
                 ackIsr>>

\* Mutant: the worker is not woken.
WokenNobody == workPc

\* pthread_cond_signal: a worker asleep takes the mutex again.
Woken == IF workPc = "asleep" THEN "lock" ELSE workPc

HandleRequestSignal ==
  /\ Alive
  /\ cpuPc = "signal"
  /\ workPc' = Woken
  /\ cpuPc' = "pop"
  /\ UNCHANGED <<guestMem, device, working, popped, kickIdx, lastUsed,
                 intStatus, ackIsr>>

-----------------------------------------------------------------------------
(* The worker thread: _routine.                                            *)

\* Under the mutex the slot is found empty, or it is emptied.
RoutineTake ==
  /\ Alive
  /\ workPc = "lock"
  /\ \/ /\ _req = None
        /\ workPc' = "asleep"
        /\ UNCHANGED <<_req, working>>
     \/ /\ _req # None
        /\ working' = _req
        /\ _req' = None
        /\ workPc' = "do"
  /\ UNCHANGED <<guestMem, guest_features, disk, last_avail_idx, used_idx,
                 isr, irq, panic, cpu>>

\* The checks of _handle_read, _handle_write, _handle_flush on the number of
\* segments; every other type of request is refused.
Accepted(r) == \/ r.kind = "in" /\ r.segs >= 1
               \/ r.kind = "out" /\ r.segs = 1
               \/ r.kind = "flush" /\ r.segs = 0

\* Mutants: the status is written last of all; the interrupt is raised first.
OrderStatusLate == <<"do", "usedRing", "usedIdx", "isr", "status",
                     "signal", "lock">>
OrderSignalEarly == <<"do", "isr", "signal", "status", "usedRing",
                      "usedIdx", "lock">>

\* The steps of _complete.
Order == <<"do", "status", "usedRing", "usedIdx", "isr", "signal",
           "lock">>

\* The worker is at step pc and goes on to the next one.
Step(pc) == /\ Alive
            /\ workPc = pc
            /\ \E i \in 1..(Len(Order) - 1) :
                 Order[i] = pc /\ workPc' = Order[i + 1]

\* _do_request: the transfer between the file and the buffer.
DoRequest ==
  /\ Step("do")
  /\ LET r == request[working]
     IN  /\ Accepted(r)
         /\ disk' = IF r.kind = "out"
                    THEN [disk EXCEPT ![r.sector] = buffer[working]] ELSE disk
         /\ buffer' = IF r.kind = "in"
                      THEN [buffer EXCEPT ![working] = disk[r.sector]] ELSE buffer
  /\ UNCHANGED <<request, statusByte, avail, avail_idx, used, used_mem,
                 avail_event, guest_features, last_avail_idx, used_idx, isr,
                 _req, irq, panic, working, cpu>>

DoRequestPanic ==
  /\ Alive
  /\ workPc = "do"
  /\ ~Accepted(request[working])
  /\ panic' = TRUE
  /\ UNCHANGED <<guestMem, guest_features, disk, last_avail_idx, used_idx,
                 isr, _req, irq, worker, cpu>>

CompleteStatus ==
  /\ Step("status")
  /\ statusByte' = [statusByte EXCEPT ![working] = TRUE]
  /\ UNCHANGED <<request, buffer, avail, avail_idx, used, used_mem, avail_event,
                 device, working, cpu>>

\* Mutant: the next entry of the used ring.
UsedSlotNext == (used_idx + 1) % Num

UsedSlot == used_idx % Num

\* vring_used_write: the entry of the used ring ...
UsedWriteRing ==
  /\ Step("usedRing")
  /\ used' = [used EXCEPT ![UsedSlot] = working]
  /\ UNCHANGED <<request, buffer, statusByte, avail, avail_idx, used_mem, avail_event,
                 device, working, cpu>>

\* ... and then the index.
UsedWriteIdx ==
  /\ Step("usedIdx")
  /\ used_idx' = Inc(used_idx)
  /\ used_mem' = used_idx'
  /\ UNCHANGED <<request, buffer, statusByte, avail, avail_idx, used,
                 avail_event, guest_features, disk, last_avail_idx, isr, _req,
                 irq, panic, working, cpu>>

\* blk->vdev.isr |= 0x1: bit 0 is the only bit, so whatever the worker has loaded
\* it stores 1.
CompleteIsr ==
  /\ Step("isr")
  /\ isr' = 1
  /\ UNCHANGED <<guestMem, guest_features, disk, last_avail_idx, used_idx,
                 _req, irq, panic, working, cpu>>

\* plic_signal.
CompleteSignal ==
  /\ Step("signal")
  /\ irq' = TRUE
  /\ working' = None
  /\ UNCHANGED <<guestMem, guest_features, disk, last_avail_idx, used_idx,
                 isr, _req, panic, cpu>>

-----------------------------------------------------------------------------
Driver == \/ \E h \in Heads, r \in Requests : Submit(h, r)
          \/ Kick \/ IrqClaim \/ Reap

Mmio == \/ ReadInterruptStatus \/ InterruptAckLoad \/ InterruptAckStore
        \/ QueueNotifyPop \/ QueueNotifyDirect
        \/ HandleRequest \/ HandleRequestSignal

Routine == \/ RoutineTake \/ DoRequest \/ DoRequestPanic \/ CompleteStatus
           \/ UsedWriteRing \/ UsedWriteIdx \/ CompleteIsr \/ CompleteSignal

Next == Driver \/ Mmio \/ Routine

Spec == Init /\ [][Next]_vars

(* Both threads are scheduled, and the driver finishes what it has begun   *)
(* and answers its interrupt; nothing obliges it to make requests.         *)
Fairness == /\ WF_vars(Kick \/ Mmio \/ Reap)
            /\ SF_vars(IrqClaim)
            /\ WF_vars(Routine)

FairSpec == Spec /\ Fairness

-----------------------------------------------------------------------------
(* Correctness.                                                            *)

\* No completion is lost: when the used index is ahead of the driver, an
\* interrupt is pending, or the worker is about to raise one, or the driver is in
\* its handler and will look at the used ring because isr told it to.  isr is
\* updated by two threads without a lock.
NoLostCompletion ==
  used_mem # lastUsed =>
    \/ irq /\ isr = 1
    \/ workPc \in {"isr", "signal"}
    \/ cpuPc = "claimed" /\ isr = 1
    \/ cpuPc \in {"ackLoad", "ackStore"} /\ intStatus = 1
    \/ cpuPc = "reap"

\* What the driver finds on the used ring is finished: the status byte is written
\* before the used index moves.
CompletionIsWhole ==
  \A i \in 0..(Num - 1) :
    i < Gap(used_mem, lastUsed) => statusByte[used[(lastUsed + i) % Num]]

\* No kick is lost: whenever the driver is not submitting or kicking, the device
\* has taken everything off the avail ring, although a kick may be suppressed by
\* the event index.
NoLostKick == cpuPc \in {"run", "claimed", "reap"} => avail_idx = last_avail_idx

\* Every request comes back to the driver, unless the program panics.
EveryRequestReturns ==
  \A h \in Heads : request[h] # NoRequest ~> (request[h] = NoRequest \/ panic)

\* The entries of a ring from index i up to, and without, index j.
Window(ring, i, j) == [k \in 1..Gap(j, i) |-> ring[(i + k - 1) % Num]]

OneOrNone(h) == IF h = None THEN <<>> ELSE <<h>>

\* The rings, the slot and the two threads together implement a device that
\* executes every request once, in order, and gives it back once, in order.
Device == INSTANCE BlockDevice
            WITH todo <- OneOrNone(IF workPc = "do" THEN working ELSE None)
                           \o OneOrNone(_req) \o OneOrNone(popped)
                           \o Window(avail, last_avail_idx, avail_idx),
                 done <- Window(used, lastUsed, used_mem)
                           \o OneOrNone(IF workPc \in {"status", "usedRing", "usedIdx"}
                                        THEN working ELSE None)

ImplementsBlockDevice == Device!Spec
=============================================================================
