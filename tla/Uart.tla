-------------------------------- MODULE Uart --------------------------------
(***************************************************************************)
(* The serial port (src/uart.c).  Its registers are shared, without a      *)
(* lock, by the CPU thread (uart_read, uart_write) and by the input thread *)
(* (_routine) that fetches the keys.  Every load and store of a shared     *)
(* register is a step.                                                     *)
(*                                                                         *)
(* The accesses race, so what a load returns depends on the host: a store  *)
(* may wait in the store buffer of its thread while later loads of the     *)
(* thread are served, as on the x86 hosts xemu is built for.  `depth' is   *)
(* the number of stores that may wait on the host at hand; 0 is a host     *)
(* that keeps the program order.  plic_signal takes a mutex, which drains  *)
(* the buffer of its thread.                                               *)
(*                                                                         *)
(* The guest is any driver that reads RBR only after it saw DR, and whose  *)
(* interrupt handler reads until DR is clear.  Of LSR only DR changes      *)
(* (BI is never set), so `lsr |= DR' and `lsr &= ~DR' are stores of DR.    *)
(* The divisor, MCR, MSR and SCR have no effect on anything.               *)
(***************************************************************************)
EXTENDS Naturals, Sequences

CONSTANTS MaxKeys,      \* bound: keys typed, numbered from 1
          IerValues,    \* what the guest writes to IER, subsets of IerBits
          Depths        \* the hosts: stores a thread may have in flight

IerBits == {"RDI", "THRI", "RLSI", "MSI"}
Threads == {"cpu", "io"}
CtrlC   == MaxKeys + 1   \* the key that ends the input thread

ASSUME UartAssumption == /\ MaxKeys \in Nat /\ Depths \subseteq Nat
                         /\ IerValues \subseteq SUBSET IerBits

VARIABLES depth,        \* the store buffer of this host, a member of Depths
          mem,          \* the registers rbr, dr (a bit of lsr), ier, iir
          buf,          \* stores of each thread that memory has not seen
          thr_pending,  \* uart->thr_pending: the CPU thread's alone
          dlab,         \* uart->lcr & UART_LCR_DLAB: the CPU thread's alone
          cpuPc,        \* where the CPU thread is in uart_read or uart_write: idle,
                        \* rbrIir, rbrSignal, rbrReturn, iirReset, ierTest, ierSignal
          ioPc,         \* where the input thread is in _routine: getch, setDr,
                        \* testIer, setIir, signal, exit
          typed,        \* keys fetched by getch so far
          irq,          \* the interrupt of the port is pending in the PLIC
          guest,        \* what the driver does between its register accesses
          got           \* the last key the guest read

guestVars == <<guest, got>>
vars == <<depth, mem, buf, thr_pending, dlab, cpuPc, ioPc, typed, irq, guest,
          got>>

-----------------------------------------------------------------------------
(* The memory of the host.                                                 *)

Mine(t, reg) == {i \in DOMAIN buf[t] : buf[t][i][1] = reg}

Load(t, reg) ==
  IF Mine(t, reg) = {} THEN mem[reg]
  ELSE buf[t][CHOOSE i \in Mine(t, reg) : \A j \in Mine(t, reg) : j <= i][2]

Store(t, reg, val) ==
  IF depth = 0
    THEN mem' = [mem EXCEPT ![reg] = val] /\ UNCHANGED buf
    ELSE /\ Len(buf[t]) < depth
         /\ buf' = [buf EXCEPT ![t] = Append(@, <<reg, val>>)]
         /\ UNCHANGED mem

Drain(t) ==
  /\ buf[t] # << >>
  /\ mem' = [mem EXCEPT ![Head(buf[t])[1]] = Head(buf[t])[2]]
  /\ buf' = [buf EXCEPT ![t] = Tail(@)]
  /\ UNCHANGED <<depth, thr_pending, dlab, cpuPc, ioPc, typed, irq, guestVars>>

\* plic_signal(uart->irq_num): the mutex inside is a barrier.
plic_signal(t) == /\ buf[t] = << >> /\ irq' = TRUE
                  /\ UNCHANGED <<mem, buf>>

\* uart_init: calloc, so that iir is 0, the code of a modem interrupt.
Init == /\ depth \in Depths
        /\ mem = [rbr |-> 0, dr |-> FALSE, ier |-> {}, iir |-> "MSI"]
        /\ buf = [t \in Threads |-> << >>]
        /\ thr_pending = FALSE /\ dlab = FALSE
        /\ cpuPc = "idle" /\ ioPc = "getch"
        /\ typed = 0 /\ irq = FALSE
        /\ guest = "run" /\ got = 0

-----------------------------------------------------------------------------
(* uart_read(UART_RBR): drop DR, recompute IIR, signal, return the key.    *)

ReadRbr ==
  /\ cpuPc = "idle" /\ guest = "ready"
  /\ Store("cpu", "dr", FALSE)
  /\ cpuPc' = "rbrIir"
  /\ UNCHANGED <<depth, thr_pending, dlab, ioPc, typed, irq, guestVars>>

ReadRbrIir ==
  /\ cpuPc = "rbrIir"
  /\ Store("cpu", "iir", IF "THRI" \in Load("cpu", "ier") THEN "THRI" ELSE "NO_INT")
  /\ cpuPc' = "rbrSignal"
  /\ UNCHANGED <<depth, thr_pending, dlab, ioPc, typed, irq, guestVars>>

ReadRbrSignal ==
  /\ cpuPc = "rbrSignal"
  /\ \/ Load("cpu", "iir") # "NO_INT" /\ plic_signal("cpu")
     \/ Load("cpu", "iir") = "NO_INT" /\ UNCHANGED <<irq, mem, buf>>
  /\ cpuPc' = "rbrReturn"
  /\ UNCHANGED <<depth, thr_pending, dlab, ioPc, typed, guestVars>>

\* The driver looks at LSR again.
ReadRbrReturn ==
  /\ cpuPc = "rbrReturn"
  /\ got' = Load("cpu", "rbr")
  /\ cpuPc' = "idle" /\ guest' = "handler"
  /\ UNCHANGED <<depth, mem, buf, thr_pending, dlab, ioPc, typed, irq>>

(* uart_read(UART_IIR): a THRI report is dropped by reading it.            *)
ReadIir ==
  /\ cpuPc = "idle"
  /\ \/ Load("cpu", "iir") = "THRI" /\ thr_pending' = FALSE /\ cpuPc' = "iirReset"
     \/ Load("cpu", "iir") # "THRI" /\ UNCHANGED <<thr_pending, cpuPc>>
  /\ UNCHANGED <<depth, mem, buf, dlab, ioPc, typed, irq, guestVars>>

ReadIirReset ==
  /\ cpuPc = "iirReset"
  /\ Store("cpu", "iir", "NO_INT")
  /\ cpuPc' = "idle"
  /\ UNCHANGED <<depth, thr_pending, dlab, ioPc, typed, irq, guestVars>>

(* uart_read(UART_LSR).                                                    *)
ReadLsr ==
  /\ cpuPc = "idle" /\ guest # "ready"
  /\ guest' = IF Load("cpu", "dr") THEN "ready" ELSE "run"
  /\ UNCHANGED <<depth, mem, buf, thr_pending, dlab, cpuPc, ioPc, typed, irq, got>>

-----------------------------------------------------------------------------
(* uart_write.                                                             *)

\* UART_THR: with DLAB it is the divisor, otherwise the character goes out.
WriteThr ==
  /\ cpuPc = "idle" /\ ~dlab
  /\ thr_pending' = FALSE
  /\ UNCHANGED <<depth, mem, buf, dlab, cpuPc, ioPc, typed, irq, guestVars>>

\* UART_IER: nothing is re-evaluated when no bit changes.
WriteIer(data) ==
  /\ cpuPc = "idle" /\ ~dlab
  /\ Store("cpu", "ier", data)
  /\ cpuPc' = IF data # Load("cpu", "ier") THEN "ierTest" ELSE "idle"
  /\ thr_pending' = IF data # Load("cpu", "ier") /\ "THRI" \in data
                      THEN TRUE ELSE thr_pending
  /\ UNCHANGED <<depth, dlab, ioPc, typed, irq, guestVars>>

\* Mutant: the receiver is not looked at.
IdentifyNoData(ier, dr) ==
  CASE "RLSI" \in ier -> "RLSI"
    [] "RLSI" \notin ier /\ "THRI" \in ier /\ thr_pending -> "THRI"
    [] OTHER -> "NO_INT"

\* The priority of the sources after a change of IER.
Identify(ier, dr) ==
  IF "RLSI" \in ier                      THEN "RLSI"
  ELSE IF "RDI" \in ier /\ dr            THEN "RDI"
  ELSE IF "THRI" \in ier /\ thr_pending  THEN "THRI"
  ELSE IF "MSI" \in ier                  THEN "MSI" ELSE "NO_INT"

WriteIerTest ==
  /\ cpuPc = "ierTest"
  /\ Store("cpu", "iir", Identify(Load("cpu", "ier"), Load("cpu", "dr")))
  /\ cpuPc' = "ierSignal"
  /\ UNCHANGED <<depth, thr_pending, dlab, ioPc, typed, irq, guestVars>>

WriteIerSignal ==
  /\ cpuPc = "ierSignal"
  /\ \/ Load("cpu", "iir") # "NO_INT" /\ plic_signal("cpu")
     \/ Load("cpu", "iir") = "NO_INT" /\ UNCHANGED <<irq, mem, buf>>
  /\ cpuPc' = "idle"
  /\ UNCHANGED <<depth, thr_pending, dlab, ioPc, typed, guestVars>>

\* UART_IIR: the address of FCR; the code stores the value in iir.  A driver
\* writes 0 (FIFOs off) or an odd value (FIFOs on).
WriteFcr(enable) ==
  /\ cpuPc = "idle"
  /\ Store("cpu", "iir", IF enable THEN "NO_INT" ELSE "MSI")
  /\ UNCHANGED <<depth, thr_pending, dlab, cpuPc, ioPc, typed, irq, guestVars>>

\* UART_LCR.
WriteLcr(on) ==
  /\ cpuPc = "idle"
  /\ dlab' = on
  /\ UNCHANGED <<depth, mem, buf, thr_pending, cpuPc, ioPc, typed, irq, guestVars>>

-----------------------------------------------------------------------------
(* _routine: fetch a key, set DR, and interrupt if RDI is enabled.         *)

Getch ==
  /\ ioPc = "getch" /\ typed < MaxKeys
  /\ Store("io", "rbr", typed + 1)
  /\ typed' = typed + 1
  /\ ioPc' = "setDr"
  /\ UNCHANGED <<depth, thr_pending, dlab, cpuPc, irq, guestVars>>

\* CTRL_C: it is in RBR, over whatever was there, when the thread ends.
Escape ==
  /\ ioPc = "getch"
  /\ Store("io", "rbr", CtrlC)
  /\ ioPc' = "exit"
  /\ UNCHANGED <<depth, thr_pending, dlab, cpuPc, typed, irq, guestVars>>

\* Mutant: DR is only set for the interrupt.
SetDrIfEnabled ==
  /\ ioPc = "setDr"
  /\ Store("io", "dr", "RDI" \in Load("io", "ier"))
  /\ ioPc' = "testIer"
  /\ UNCHANGED <<depth, thr_pending, dlab, cpuPc, typed, irq, guestVars>>

SetDr ==
  /\ ioPc = "setDr"
  /\ Store("io", "dr", TRUE)
  /\ ioPc' = "testIer"
  /\ UNCHANGED <<depth, thr_pending, dlab, cpuPc, typed, irq, guestVars>>

TestIer ==
  /\ ioPc = "testIer"
  /\ ioPc' = IF "RDI" \in Load("io", "ier") THEN "setIir" ELSE "getch"
  /\ UNCHANGED <<depth, mem, buf, thr_pending, dlab, cpuPc, typed, irq, guestVars>>

SetIir ==
  /\ ioPc = "setIir"
  /\ Store("io", "iir", "RDI")
  /\ ioPc' = "signal"
  /\ UNCHANGED <<depth, thr_pending, dlab, cpuPc, typed, irq, guestVars>>

\* Mutant: a pending report is not signalled again.
SignalOnce ==
  /\ ioPc = "signal"
  /\ \/ mem["iir"] # "RDI" /\ plic_signal("io")
     \/ mem["iir"] = "RDI" /\ UNCHANGED <<irq, mem, buf>>
  /\ ioPc' = "getch"
  /\ UNCHANGED <<depth, thr_pending, dlab, cpuPc, typed, guestVars>>

Signal ==
  /\ ioPc = "signal"
  /\ plic_signal("io")
  /\ ioPc' = "getch"
  /\ UNCHANGED <<depth, thr_pending, dlab, cpuPc, typed, guestVars>>

-----------------------------------------------------------------------------
(* The driver claims the interrupt at the PLIC and enters its handler.     *)
Claim ==
  /\ cpuPc = "idle" /\ guest = "run" /\ irq
  /\ irq' = FALSE /\ guest' = "handler"
  /\ UNCHANGED <<depth, mem, buf, thr_pending, dlab, cpuPc, ioPc, typed, got>>

CpuStep == \/ ReadRbr \/ ReadRbrIir \/ ReadRbrSignal \/ ReadRbrReturn
           \/ ReadIirReset \/ WriteIerTest \/ WriteIerSignal
IoStep  == SetDr \/ TestIer \/ SetIir \/ Signal

\* The driver's handler.
Handler == Claim \/ (guest = "handler" /\ ReadLsr)

Next == \/ CpuStep \/ IoStep \/ Handler
        \/ Getch \/ Escape
        \/ ReadIir \/ (guest = "run" /\ ReadLsr) \/ WriteThr
        \/ \E data \in IerValues : WriteIer(data)
        \/ \E on \in BOOLEAN : WriteFcr(on)
        \/ \E on \in BOOLEAN : WriteLcr(on)
        \/ \E t \in Threads : Drain(t)

Spec == Init /\ [][Next]_vars

\* Both threads keep running, a store buffer drains, and a driver with a
\* pending interrupt enters its handler and goes on with it, however often it
\* accesses other registers.  Nothing is assumed of the keyboard.
FairSpec == /\ Spec
            /\ WF_vars(CpuStep) /\ WF_vars(IoStep)
            /\ SF_vars(Claim) /\ SF_vars(guest = "handler" /\ ReadLsr)
            /\ SF_vars(ReadRbr)
            /\ \A t \in Threads : WF_vars(Drain(t))

-----------------------------------------------------------------------------
(* Neither thread is inside an access and memory has seen every store.     *)
Quiet == /\ cpuPc = "idle" /\ ioPc \in {"getch", "exit"}
         /\ \A t \in Threads : buf[t] = << >>

\* RBR holds a key (the last one is not meant for the guest) it has not read.
Unread == mem["rbr"] \notin {got, CtrlC}

\* DR is dropped before the key is fetched and set after the key is stored, so
\* a key that arrives during the read of its predecessor is either returned by
\* that read or announced: no key is left in RBR with DR clear, if the host
\* delays at most one store (the stores of DR and IIR may both be delayed past
\* the fetch on a host that delays two).
NoStrandedKey == depth <= 1 /\ Quiet /\ Unread => mem["dr"]

\* With the receiver interrupt enabled, data the driver has not been told of
\* is pending in the PLIC or being handled.
Signalled == Quiet /\ mem["dr"] /\ "RDI" \in mem["ier"] => irq \/ guest # "run"

\* On a host that keeps program order it makes no difference whether `ier' or
\* `lsr' is stored first: uart_write and _routine each store one and then test
\* the other, so at least one of them signals.
DataIsSignalled == depth = 0 => Signalled

\* On such a host a key is read, unless another replaces it or the interrupt is
\* turned off, however the driver interleaves its other accesses.
KeyReachesGuest ==
  \A k \in 1 .. MaxKeys :
    (depth = 0 /\ mem["rbr"] = k /\ Unread /\ mem["dr"] /\ "RDI" \in mem["ier"])
      ~> (got = k \/ mem["rbr"] # k \/ "RDI" \notin mem["ier"])
=============================================================================
