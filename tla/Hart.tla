-------------------------------- MODULE Hart --------------------------------
(***************************************************************************)
(* The hart's traps: trap_enter, trap_exit and handle_interrupt of         *)
(* src/trap.c, the delegation of src/trap.h and src/interrupt.h, and the   *)
(* registers of src/csr.c they use, driven by the main loop of src/xemu.c. *)
(*                                                                         *)
(* The code keeps sstatus and mstatus, sie and mie, sip and mip as separate*)
(* registers, so each is a field per mode here.  The guest is a disciplined*)
(* operating system: a trap handler saves its trap registers before it     *)
(* enables interrupts or does anything that may trap into its own mode,    *)
(* and restores them, with interrupts off, before it returns.              *)
(***************************************************************************)
EXTENDS Naturals, Sequences

CONSTANTS Types,       \* the interrupt types devices raise
          Exceptions,  \* the exceptions instructions raise
          Configs,     \* delegation and enables the firmware may choose
          Code,        \* program locations outside the trap vectors
          MaxDepth     \* bound: nesting depth of traps

U_MODE == 0
S_MODE == 1
M_MODE == 3
Modes  == {S_MODE, M_MODE}           \* the modes traps are handled in
Vector == [x \in Modes |-> IF x = S_MODE THEN "stvec" ELSE "mtvec"]
Causes == Types \cup Exceptions \cup {"none"}
Locs   == Code \cup {"stvec", "mtvec"}

ASSUME HartAssumption ==
  /\ Types \subseteq {"software", "timer", "external"}
  /\ Exceptions \subseteq STRING /\ Types \cap Exceptions = {}
  /\ MaxDepth \in Nat
  /\ \A k \in Configs : /\ k.mideleg \subseteq Types
                        /\ k.medeleg \subseteq Exceptions
                        /\ k.ie \in [Modes -> SUBSET Types]

VARIABLES priv,       \* _priv
          pc,         \* _pc
          status,     \* sstatus and mstatus: SIE/MIE, SPIE/MPIE, SPP/MPP
          epc,        \* sepc, mepc
          cause,      \* scause, mcause
          xip,        \* sip, mip
          config,     \* mideleg, medeleg, and ie: sie and mie
          lines,      \* the interrupt types the devices raise now
          frames      \* the guest: the traps it is handling, innermost first

csrs == <<status, epc, cause, xip>>
vars == <<priv, pc, csrs, config, lines, frames>>

NoConfig == [mideleg |-> {}, medeleg |-> {}, ie |-> [x \in Modes |-> {}]]

Frames == [mode : Modes, priv : {U_MODE, S_MODE, M_MODE}, pc : Locs,
           ie : BOOLEAN, cause : Causes, phase : {"entry", "saved", "leaving"}]

TypeOK == /\ priv \in {U_MODE, S_MODE, M_MODE}
          /\ pc \in Locs
          /\ status \in [Modes -> [ie : BOOLEAN, pie : BOOLEAN,
                                   pp : {U_MODE, S_MODE, M_MODE}]]
          /\ epc \in [Modes -> Locs]
          /\ cause \in [Modes -> Causes]
          /\ xip \in [Modes -> SUBSET Types]
          /\ config \in Configs \cup {NoConfig}
          /\ lines \subseteq Types
          /\ frames \in Seq(Frames)

Init == /\ priv = M_MODE
        /\ pc \in Code
        /\ status = [x \in Modes |-> [ie |-> FALSE, pie |-> FALSE, pp |-> U_MODE]]
        /\ epc = [x \in Modes |-> pc]
        /\ cause = [x \in Modes |-> "none"]
        /\ xip = [x \in Modes |-> {}]
        /\ config = NoConfig
        /\ lines = {}
        /\ frames = <<>>

-----------------------------------------------------------------------------
(* Delegation: intr_next_priv and except_next_priv.                        *)

\* Mutant: the delegation holds in M_MODE too.
intr_next_priv_always(type) ==
  IF type \in config.mideleg THEN S_MODE ELSE M_MODE

intr_next_priv(type) ==
  IF priv # M_MODE /\ type \in config.mideleg THEN S_MODE ELSE M_MODE

except_next_priv(e) ==
  IF priv # M_MODE /\ e \in config.medeleg THEN S_MODE ELSE M_MODE

-----------------------------------------------------------------------------
(* trap_enter and trap_exit.                                               *)

\* Mutant: the low bit of MPP is not stored.
PreviousModeHighBit(x) == IF x = S_MODE /\ priv # U_MODE THEN S_MODE
                          ELSE IF priv = M_MODE THEN 2 ELSE U_MODE

\* SPP is one bit, MPP holds any mode.
PreviousMode(x) == IF x = S_MODE /\ priv # U_MODE THEN S_MODE ELSE priv

\* Mutant: the interrupt enable is left on.
TrapStatusEnabled(x) == [status EXCEPT ![x].pie = status[x].ie,
                                       ![x].pp  = PreviousMode(x)]

\* The stacked interrupt enable and privilege of a trap into mode x.
TrapStatus(x) == [status EXCEPT ![x] = [ie  |-> FALSE,
                                        pie |-> status[x].ie,
                                        pp  |-> PreviousMode(x)]]

trap_enter(x, why) ==
  /\ status' = TrapStatus(x)
  /\ epc' = [epc EXCEPT ![x] = pc]
  /\ cause' = [cause EXCEPT ![x] = why]
  /\ priv' = x
  /\ pc' = Vector[x]

\* Mutant: the interrupt enable is not restored.
trap_exit_disabled(x) ==
  /\ priv' = status[x].pp
  /\ pc' = epc[x]
  /\ UNCHANGED csrs

\* SRET and MRET: the previous-mode bits stay as they are.
trap_exit(x) ==
  /\ priv' = status[x].pp
  /\ status' = [status EXCEPT ![x].ie = status[x].pie]
  /\ pc' = epc[x]
  /\ UNCHANGED <<epc, cause, xip>>

\* The guest is now inside a handler for mode x.
Push(x, why) ==
  /\ Len(frames) < MaxDepth
  /\ frames' = <<[mode |-> x, priv |-> priv, pc |-> pc, ie |-> status[x].ie,
                  cause |-> why, phase |-> "entry"]>> \o frames

-----------------------------------------------------------------------------
(* handle_interrupt, called before every instruction.  One type is looked  *)
(* at: the external one if the PLIC has something, else the timer, else    *)
(* the software interrupt.                                                 *)

Head1st == <<"external", "timer", "software">>

Pending(type) ==
  /\ type \in lines
  /\ \A i, j \in 1..3 : Head1st[i] = type /\ j < i => Head1st[j] \notin lines

\* The target mode has interrupts, and this one, enabled.
Takes(x, type) == status[x].ie /\ type \in config.ie[x]

HandleInterrupt ==
  \E type \in Types :
    LET x == intr_next_priv(type)
    IN  /\ Pending(type)
        /\ Takes(x, type)
        /\ xip' = [xip EXCEPT ![x] = @ \cup {type}]
        /\ trap_enter(x, type)
        /\ Push(x, type)
        /\ UNCHANGED <<config, lines>>

-----------------------------------------------------------------------------
(* Instructions of the guest.                                              *)

\* The guest is not in the entry or exit sequence of a handler.
Settled == frames # <<>> => Head(frames).phase = "saved"

\* ECALL has a cause of its own for each mode.
RaisedFrom(e) == CASE e = "ecallU" -> priv = U_MODE
                   [] e = "ecallS" -> priv = S_MODE
                   [] e = "ecallM" -> priv = M_MODE
                   [] OTHER        -> TRUE

\* raise_except, from a fetch, a load, a store, a CSR instruction or ECALL.
RaiseExcept(e) ==
  /\ Settled
  /\ RaisedFrom(e)
  /\ trap_enter(except_next_priv(e), e)
  /\ Push(except_next_priv(e), e)
  /\ UNCHANGED <<xip, config, lines>>

Run == /\ Settled
       /\ pc' \in Code
       /\ UNCHANGED <<priv, csrs, config, lines, frames>>

\* The firmware sets up delegation and enables before it launches anything.
Configure == /\ priv = M_MODE
             /\ Settled
             /\ config' \in Configs
             /\ config = NoConfig
             /\ UNCHANGED <<priv, pc, csrs, lines, frames>>

\* A CSR instruction on SIE or MIE in sstatus or mstatus.
WriteIe(b) == /\ priv \in Modes
              /\ Settled
              /\ status' = [status EXCEPT ![priv].ie = b]
              /\ UNCHANGED <<priv, pc, epc, cause, xip, config, lines, frames>>

\* The handler has saved epc, cause and status to memory.
Save == /\ frames # <<>>
        /\ Head(frames).phase = "entry"
        /\ frames' = [frames EXCEPT ![1].phase = "saved"]
        /\ UNCHANGED <<priv, pc, csrs, config, lines>>

\* CSR writes that make the next xRET resume f.
Load(f) == /\ status' = [status EXCEPT ![f.mode] =
                           [ie |-> FALSE, pie |-> f.ie, pp |-> f.priv]]
           /\ epc' = [epc EXCEPT ![f.mode] = f.pc]
           /\ UNCHANGED <<priv, pc, cause, xip, config, lines>>

\* The handler restores what it saved, with interrupts disabled.
Restore == /\ frames # <<>>
           /\ Head(frames).phase = "saved"
           /\ Load(Head(frames))
           /\ frames' = [frames EXCEPT ![1].phase = "leaving"]

\* The firmware prepares to start the kernel, or the kernel a program.
Launch(b) ==
  /\ frames = <<>>
  /\ priv \in Modes
  /\ config # NoConfig
  /\ \E l \in Code :
       LET f == [mode |-> priv, priv |-> IF priv = M_MODE THEN S_MODE ELSE U_MODE,
                 pc |-> l, ie |-> b, cause |-> "none", phase |-> "leaving"]
       IN  Load(f) /\ frames' = <<f>>

\* SRET or MRET.
Return == /\ frames # <<>>
          /\ Head(frames).phase # "saved"
          /\ trap_exit(priv)
          /\ frames' = Tail(frames)
          /\ UNCHANGED <<config, lines>>

\* The devices raise and withdraw their interrupts.
DeviceLine == /\ lines' \in SUBSET Types
              /\ UNCHANGED <<priv, pc, csrs, config, frames>>

Next == \/ HandleInterrupt
        \/ \E e \in Exceptions : RaiseExcept(e)
        \/ Run
        \/ Configure
        \/ \E b \in BOOLEAN : WriteIe(b) \/ Launch(b)
        \/ Save
        \/ Restore
        \/ Return
        \/ DeviceLine

Spec == Init /\ [][Next]_vars

-----------------------------------------------------------------------------
(* Correctness.                                                            *)

\* A trap context is intact while a handler depends on it: until the handler has
\* saved it, and again once it is restored, the trap registers of its mode hold
\* the interrupted program, whatever interrupts arrive and whichever traps into
\* the other mode nest inside.
TrapContextIntact ==
  \A i \in 1..Len(frames) :
    LET f == frames[i]
    IN  f.phase # "saved" =>
          /\ epc[f.mode] = f.pc
          /\ status[f.mode] = [ie |-> FALSE, pie |-> f.ie, pp |-> f.priv]
          /\ f.phase = "entry" => cause[f.mode] = f.cause

\* Every trap returns to where it came from: SRET and MRET resume the program
\* that the innermost unfinished trap interrupted, at its privilege and with its
\* interrupt enable.
ReturnResumes ==
  [][Len(frames') < Len(frames) =>
       LET f == Head(frames)
       IN  /\ pc' = f.pc
           /\ priv' = f.priv
           /\ status'[f.mode].ie = f.ie]_vars

\* Privilege is only lowered by a return: a trap, delegated or not, never leaves
\* the hart less privileged, and a delegated one never interrupts M_MODE.
TrapsNeverLowerPrivilege ==
  [][priv' < priv => Len(frames') < Len(frames)]_vars
=============================================================================
