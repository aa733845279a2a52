----------------------------- MODULE HartProofs -----------------------------
(***************************************************************************)
(* Proofs about Hart, for any nesting depth, any interrupts, exceptions    *)
(* and delegation: a trap context is intact while it is needed, and every  *)
(* trap returns to where it came from.                                     *)
(***************************************************************************)
EXTENDS Hart, SequenceTheorems, TLAPS

\* The hart runs in the mode of the innermost trap, and each trap has
\* interrupted the mode of the one around it.
NestingOK == /\ frames # <<>> => priv = frames[1].mode
             /\ \A i \in 1..Len(frames) :
                  i + 1 <= Len(frames) => frames[i].priv = frames[i + 1].mode

\* Traps nest upwards, and none nests in a trap of its own mode that has not been
\* saved or is being left.
Unsaved(i) == frames[i].phase # "saved"

OrderOK == \A i, j \in 1..Len(frames) :
             j < i => /\ frames[j].mode >= frames[i].mode
                      /\ Unsaved(i) => frames[j].mode # frames[i].mode

\* The inductive invariant.
IInv == TypeOK /\ NestingOK /\ OrderOK /\ TrapContextIntact

-----------------------------------------------------------------------------
(* The guest's stack of traps.                                             *)

\* What is left of a stack when a level is pushed.
LEMMA PushProperties ==
  ASSUME NEW S, NEW s \in Seq(S), NEW f \in S
  PROVE  /\ <<f>> \o s \in Seq(S)
         /\ Len(<<f>> \o s) = Len(s) + 1
         /\ (<<f>> \o s)[1] = f
         /\ \A i \in 1..Len(s) : (<<f>> \o s)[i + 1] = s[i]
<1>1. <<f>> \in Seq(S) /\ Len(<<f>>) = 1 /\ <<f>>[1] = f
  OBVIOUS
<1> QED
  BY <1>1, ConcatProperties

\* What is left of it when the top level is popped.
LEMMA PopProperties ==
  ASSUME NEW S, NEW s \in Seq(S), s # <<>>
  PROVE  /\ Head(s) = s[1] /\ Head(s) \in S
         /\ 1 \in 1..Len(s)
         /\ Tail(s) \in Seq(S)
         /\ Len(Tail(s)) = Len(s) - 1
         /\ \A i \in 1..(Len(s) - 1) : Tail(s)[i] = s[i + 1]
OBVIOUS

-----------------------------------------------------------------------------
LEMMA InitIInv == Init => IInv
<1> SUFFICES ASSUME Init PROVE IInv
  OBVIOUS
<1> USE DEF Init
<1>1. TypeOK
  BY DEF TypeOK, Locs, Causes, Modes, NoConfig, U_MODE, S_MODE, M_MODE
<1>2. NestingOK /\ OrderOK /\ TrapContextIntact
  BY DEF NestingOK, OrderOK, TrapContextIntact
<1> QED
  BY <1>1, <1>2 DEF IInv

\* A trap into a mode that no unsaved trap is in.
LEMMA TrapKeepsIInv ==
  ASSUME IInv,
         NEW x \in Modes, NEW why \in Types \cup Exceptions,
         x >= priv,
         \A i \in 1..Len(frames) : Unsaved(i) => frames[i].mode # x,
         trap_enter(x, why), Push(x, why),
         xip' \in [Modes -> SUBSET Types], UNCHANGED <<config, lines>>
  PROVE  IInv'
<1> DEFINE f == [mode |-> x, priv |-> priv, pc |-> pc, ie |-> status[x].ie,
                 cause |-> why, phase |-> "entry"]
<1>1. f \in Frames
  BY DEF IInv, TypeOK, Frames, Causes
<1>2. /\ f.mode = x /\ f.priv = priv /\ f.pc = pc /\ f.ie = status[x].ie
      /\ f.cause = why /\ f.phase = "entry"
  OBVIOUS
<1> HIDE DEF f
<1>3. /\ frames' = <<f>> \o frames
      /\ frames \in Seq(Frames)
  BY DEF Push, f, IInv, TypeOK
<1>4. /\ frames' \in Seq(Frames) /\ Len(frames') = Len(frames) + 1 /\ frames'[1] = f
      /\ \A i \in 1..Len(frames) : frames'[i + 1] = frames[i]
  BY <1>1, <1>3, PushProperties
<1>5. \A i \in 1..Len(frames') : i = 1 \/ (i - 1 \in 1..Len(frames) /\ frames'[i] = frames[i - 1])
  <2> SUFFICES ASSUME NEW i \in 1..Len(frames'), i # 1
               PROVE  i - 1 \in 1..Len(frames) /\ frames'[i] = frames[i - 1]
    OBVIOUS
  <2>1. i - 1 \in 1..Len(frames) /\ (i - 1) + 1 = i
    BY <1>3, <1>4
  <2> QED
    BY <1>4, <2>1
<1>6. /\ x \in {S_MODE, M_MODE} /\ priv \in {U_MODE, S_MODE, M_MODE}
      /\ \A i \in 1..Len(frames) : frames[i].mode \in Modes
  <2>1. \A i \in 1..Len(frames) : frames[i] \in Frames
    BY <1>3, ElementOfSeq
  <2> QED
    BY <2>1 DEF IInv, TypeOK, Modes, Frames
<1>7a. PreviousMode(x) = priv
  BY <1>6 DEF PreviousMode, U_MODE, S_MODE, M_MODE
<1>7. /\ priv' = x
      /\ epc' = [epc EXCEPT ![x] = pc]
      /\ cause' = [cause EXCEPT ![x] = why]
      /\ status' = [status EXCEPT ![x] = [ie |-> FALSE, pie |-> f.ie, pp |-> priv]]
      /\ pc' \in Locs
  BY <1>2, <1>6, <1>7a DEF trap_enter, TrapStatus, Vector, Locs
<1>8. TypeOK'
  BY <1>2, <1>4, <1>6, <1>7 DEF IInv, TypeOK, Causes
<1>9. NestingOK'
  <2>1. frames # <<>> => priv = frames[1].mode
    BY DEF IInv, NestingOK
  <2> QED
    BY <1>2, <1>3, <1>4, <1>5, <1>7, <2>1 DEF IInv, NestingOK
<1>10. OrderOK'
  <2> SUFFICES ASSUME NEW i \in 1..Len(frames'), NEW j \in 1..Len(frames'), j < i
               PROVE  /\ frames'[j].mode >= frames'[i].mode
                      /\ frames'[i].phase # "saved" => frames'[j].mode # frames'[i].mode
    BY DEF OrderOK, Unsaved
  <2>1. i - 1 \in 1..Len(frames) /\ frames'[i] = frames[i - 1]
    BY <1>5, <1>4, <1>3
  <2>2. CASE j = 1
    <3>1. frames[1].mode >= frames[i - 1].mode
      <4>1. CASE i - 1 = 1
        BY <1>6, <2>1, <4>1 DEF Modes, S_MODE, M_MODE
      <4>2. CASE i - 1 # 1
        <5>1. 1 \in 1..Len(frames) /\ 1 < i - 1
          BY <2>1, <4>2
        <5> QED
          BY <2>1, <5>1 DEF IInv, OrderOK
      <4> QED
        BY <4>1, <4>2
    <3>2. frames[1].mode = priv
      BY <1>3, <2>1 DEF IInv, NestingOK
    <3>3. x >= frames[i - 1].mode
      BY <1>6, <2>1, <3>1, <3>2 DEF Modes, U_MODE, S_MODE, M_MODE
    <3> QED
      BY <1>2, <1>4, <2>1, <2>2, <3>3 DEF Unsaved
  <2>3. CASE j # 1
    <3>1. j - 1 \in 1..Len(frames) /\ frames'[j] = frames[j - 1] /\ j - 1 < i - 1
      BY <1>5, <2>3
    <3> QED
      BY <2>1, <3>1 DEF IInv, OrderOK, Unsaved
  <2> QED
    BY <2>2, <2>3
<1>11. TrapContextIntact'
  <2> SUFFICES ASSUME NEW i \in 1..Len(frames'), frames'[i].phase # "saved"
               PROVE  /\ epc'[frames'[i].mode] = frames'[i].pc
                      /\ status'[frames'[i].mode] =
                           [ie |-> FALSE, pie |-> frames'[i].ie, pp |-> frames'[i].priv]
                      /\ frames'[i].phase = "entry" =>
                           cause'[frames'[i].mode] = frames'[i].cause
    BY DEF TrapContextIntact
  <2>1. CASE i = 1
    BY <1>2, <1>4, <1>7, <2>1 DEF IInv, TypeOK
  <2>2. CASE i # 1
    <3>1. i - 1 \in 1..Len(frames) /\ frames'[i] = frames[i - 1]
      BY <1>5, <2>2
    <3>2. frames[i - 1].mode # x /\ frames[i - 1].mode \in Modes
      BY <1>6, <3>1 DEF Unsaved
    <3> QED
      BY <1>7, <3>1, <3>2 DEF IInv, TypeOK, TrapContextIntact
  <2> QED
    BY <2>1, <2>2
<1> QED
  BY <1>8, <1>9, <1>10, <1>11 DEF IInv

\* The frames, and what a change of the phase of the innermost one leaves.
LEMMA FrameTypes ==
  ASSUME IInv
  PROVE  /\ frames \in Seq(Frames) /\ Len(frames) \in Nat
         /\ \A i \in 1..Len(frames) : /\ frames[i] \in Frames
                                       /\ frames[i].mode \in Modes
                                       /\ frames[i].priv \in {U_MODE, S_MODE, M_MODE}
         /\ frames # <<>> => Head(frames) = frames[1] /\ 1 \in 1..Len(frames)
<1>1. frames \in Seq(Frames) /\ Len(frames) \in Nat
  BY DEF IInv, TypeOK
<1>2. \A i \in 1..Len(frames) : frames[i] \in Frames
  BY <1>1, ElementOfSeq
<1> QED
  BY <1>1, <1>2, PopProperties DEF Frames

\* What is left of the stack when the phase of its top level moves on.
LEMMA PhaseChange ==
  ASSUME IInv, frames # <<>>,
         NEW p \in {"entry", "saved", "leaving"},
         frames' = [frames EXCEPT ![1].phase = p]
  PROVE  /\ frames' \in Seq(Frames) /\ Len(frames') = Len(frames) /\ frames' # <<>>
         /\ frames'[1] = [frames[1] EXCEPT !.phase = p]
         /\ frames'[1].mode = frames[1].mode /\ frames'[1].priv = frames[1].priv
         /\ frames'[1].pc = frames[1].pc /\ frames'[1].ie = frames[1].ie
         /\ frames'[1].phase = p
         /\ \A i \in 1..Len(frames) : i # 1 => frames'[i] = frames[i]
<1>1. frames[1] \in Frames /\ 1 \in 1..Len(frames) /\ frames \in Seq(Frames)
  BY FrameTypes
<1> DEFINE e == [frames[1] EXCEPT !.phase = p]
<1>2. /\ e \in Frames /\ e.mode = frames[1].mode /\ e.priv = frames[1].priv
      /\ e.pc = frames[1].pc /\ e.ie = frames[1].ie /\ e.phase = p
  BY <1>1 DEF Frames
<1>3. frames' = [frames EXCEPT ![1] = e]
  OBVIOUS
<1> HIDE DEF e
<1>4. /\ frames' \in Seq(Frames) /\ Len(frames') = Len(frames)
      /\ \A i \in 1..Len(frames) : frames'[i] = IF i = 1 THEN e ELSE frames[i]
  BY <1>1, <1>2, <1>3, ExceptSeq
<1>5. frames' # <<>>
  BY <1>1, <1>4
<1> QED
  BY <1>1, <1>2, <1>4, <1>5 DEF e

\* Every step keeps the invariant.
LEMMA NextIInv == IInv /\ [Next]_vars => IInv'
<1> SUFFICES ASSUME IInv, [Next]_vars PROVE IInv'
  OBVIOUS
<1> USE HartAssumption
<1>0. /\ frames \in Seq(Frames) /\ Len(frames) \in Nat
      /\ \A i \in 1..Len(frames) : frames[i] \in Frames /\ frames[i].mode \in Modes
      /\ frames # <<>> => Head(frames) = frames[1] /\ 1 \in 1..Len(frames)
  BY FrameTypes
<1>1. CASE HandleInterrupt
  <2>1. PICK type \in Types :
          LET x == intr_next_priv(type)
          IN  /\ Takes(x, type)
              /\ xip' = [xip EXCEPT ![x] = @ \cup {type}]
              /\ trap_enter(x, type) /\ Push(x, type)
              /\ UNCHANGED <<config, lines>>
    BY <1>1 DEF HandleInterrupt
  <2> DEFINE x == intr_next_priv(type)
  <2>2. x \in Modes /\ x >= priv
    BY DEF IInv, TypeOK, intr_next_priv, Modes, U_MODE, S_MODE, M_MODE
  <2> HIDE DEF x
  <2>3. \A i \in 1..Len(frames) : Unsaved(i) => frames[i].mode # x
    <3> SUFFICES ASSUME NEW i \in 1..Len(frames), Unsaved(i), frames[i].mode = x
                 PROVE  FALSE
      OBVIOUS
    <3>1. status[frames[i].mode] =
            [ie |-> FALSE, pie |-> frames[i].ie, pp |-> frames[i].priv]
      BY DEF IInv, TrapContextIntact, Unsaved
    <3>2. status[x].ie = FALSE
      BY <3>1
    <3> QED
      BY <2>1, <3>2 DEF x, Takes
  <2>4. xip' \in [Modes -> SUBSET Types]
    BY <2>1, <2>2 DEF x, IInv, TypeOK
  <2>5. /\ trap_enter(x, type) /\ Push(x, type) /\ UNCHANGED <<config, lines>>
        /\ type \in Types \cup Exceptions
    BY <2>1 DEF x
  <2> QED
    BY <2>2, <2>3, <2>4, <2>5, TrapKeepsIInv
<1>2. ASSUME NEW e \in Exceptions, RaiseExcept(e) PROVE IInv'
  <2> DEFINE x == except_next_priv(e)
  <2>1. x \in Modes /\ x >= priv
    BY DEF IInv, TypeOK, except_next_priv, Modes, U_MODE, S_MODE, M_MODE
  <2>2. x = M_MODE \/ priv # M_MODE
    BY DEF except_next_priv
  <2> HIDE DEF x
  <2>3. /\ trap_enter(x, e) /\ Push(x, e) /\ UNCHANGED <<xip, config, lines>>
        /\ frames # <<>> => frames[1].phase = "saved"
    BY <1>0, <1>2 DEF RaiseExcept, Settled, x
  <2>4. \A i \in 1..Len(frames) : Unsaved(i) => frames[i].mode # x
    <3> SUFFICES ASSUME NEW i \in 1..Len(frames), Unsaved(i), frames[i].mode = x
                 PROVE  FALSE
      OBVIOUS
    <3>1. frames # <<>>
      BY <1>0
    <3>2. 1 < i
      BY <1>0, <2>3, <3>1 DEF Unsaved
    <3>3. frames[1].mode >= x /\ frames[1].mode # x
      BY <1>0, <3>1, <3>2 DEF IInv, OrderOK
    <3>4. priv = frames[1].mode
      BY <3>1 DEF IInv, NestingOK
    <3>5. frames[1].mode = M_MODE /\ x = S_MODE
      BY <1>0, <2>1, <3>1, <3>3 DEF Modes, S_MODE, M_MODE
    <3> QED
      BY <2>2, <3>4, <3>5 DEF S_MODE, M_MODE
  <2>5. xip' \in [Modes -> SUBSET Types] /\ e \in Types \cup Exceptions
    BY <2>3 DEF IInv, TypeOK
  <2> QED
    BY <2>1, <2>3, <2>4, <2>5, TrapKeepsIInv
<1>3. CASE Run
  <2>1. UNCHANGED <<priv, csrs, config, lines, frames>> /\ pc' \in Locs
    BY <1>3 DEF Run, Locs
  <2> QED
    BY <2>1 DEF IInv, TypeOK, NestingOK, OrderOK, Unsaved, TrapContextIntact, csrs
<1>4. CASE Configure
  BY <1>4 DEF Configure, IInv, TypeOK, NestingOK, OrderOK, Unsaved, TrapContextIntact, csrs
<1>5. CASE DeviceLine
  BY <1>5 DEF DeviceLine, IInv, TypeOK, NestingOK, OrderOK, Unsaved, TrapContextIntact, csrs
<1>6. ASSUME NEW b \in BOOLEAN, WriteIe(b) PROVE IInv'
  <2>1. /\ priv \in Modes
        /\ frames # <<>> => frames[1].phase = "saved"
        /\ status' = [status EXCEPT ![priv].ie = b]
        /\ UNCHANGED <<priv, pc, epc, cause, xip, config, lines, frames>>
    BY <1>0, <1>6 DEF WriteIe, Settled
  <2>2. TypeOK'
    BY <2>1 DEF IInv, TypeOK
  <2>3. \A i \in 1..Len(frames) : Unsaved(i) => frames[i].mode # priv
    BY <1>0, <2>1 DEF IInv, NestingOK, OrderOK, Unsaved
  <2>4. TrapContextIntact'
    BY <1>0, <2>1, <2>3 DEF IInv, TypeOK, TrapContextIntact, Unsaved
  <2> QED
    BY <2>1, <2>2, <2>4 DEF IInv, NestingOK, OrderOK, Unsaved
<1>7. ASSUME NEW b \in BOOLEAN, Launch(b) PROVE IInv'
  <2>1. PICK l \in Code :
          LET f == [mode |-> priv, priv |-> IF priv = M_MODE THEN S_MODE ELSE U_MODE,
                    pc |-> l, ie |-> b, cause |-> "none", phase |-> "leaving"]
          IN  Load(f) /\ frames' = <<f>>
    BY <1>7 DEF Launch
  <2> DEFINE p == IF priv = M_MODE THEN S_MODE ELSE U_MODE
             f == [mode |-> priv, priv |-> p,
                   pc |-> l, ie |-> b, cause |-> "none", phase |-> "leaving"]
  <2>2. p \in {U_MODE, S_MODE} /\ priv \in Modes
    BY <1>7 DEF Launch
  <2> HIDE DEF p
  <2>3. f \in Frames /\ f.mode = priv /\ f.priv = p /\ f.pc = l /\ f.ie = b /\ f.phase = "leaving"
    BY <2>2 DEF Frames, Causes, Locs
  <2>4. /\ status' = [status EXCEPT ![priv] = [ie |-> FALSE, pie |-> b, pp |-> p]]
        /\ epc' = [epc EXCEPT ![priv] = l]
        /\ UNCHANGED <<priv, pc, cause, xip, config, lines>>
        /\ frames' = <<f>>
    BY <2>1 DEF Load, p
  <2> HIDE DEF f
  <2>5. frames' \in Seq(Frames) /\ Len(frames') = 1 /\ frames'[1] = f
    BY <2>3, <2>4
  <2>6. TypeOK'
    BY <2>2, <2>4, <2>5 DEF IInv, TypeOK, Locs
  <2>7. NestingOK' /\ OrderOK'
    BY <2>3, <2>4, <2>5 DEF NestingOK, OrderOK
  <2>8. TrapContextIntact'
    <3>1. /\ epc'[priv] = l
          /\ status'[priv] = [ie |-> FALSE, pie |-> b, pp |-> p]
      BY <2>2, <2>4 DEF IInv, TypeOK
    <3>2. \A i \in 1..Len(frames') : frames'[i] = f
      BY <2>5
    <3> QED
      BY <2>3, <3>1, <3>2 DEF TrapContextIntact
  <2> QED
    BY <2>6, <2>7, <2>8 DEF IInv
<1>8. CASE Save
  <2>1. /\ frames # <<>> /\ frames[1].phase = "entry"
        /\ frames' = [frames EXCEPT ![1].phase = "saved"]
        /\ UNCHANGED <<priv, pc, csrs, config, lines>>
    BY <1>0, <1>8 DEF Save
  <2>2. /\ frames' \in Seq(Frames) /\ Len(frames') = Len(frames) /\ frames' # <<>>
        /\ frames'[1].mode = frames[1].mode /\ frames'[1].priv = frames[1].priv
        /\ frames'[1].phase = "saved"
        /\ \A i \in 1..Len(frames) : i # 1 => frames'[i] = frames[i]
    BY <2>1, PhaseChange
  <2>3. TypeOK'
    BY <2>1, <2>2 DEF IInv, TypeOK, csrs
  <2>4. NestingOK' /\ OrderOK'
    BY <1>0, <2>1, <2>2 DEF IInv, NestingOK, OrderOK, Unsaved
  <2>5. TrapContextIntact'
    BY <1>0, <2>1, <2>2 DEF IInv, TrapContextIntact, csrs
  <2> QED
    BY <2>3, <2>4, <2>5 DEF IInv
<1>9. CASE Restore
  <2> DEFINE f == frames[1]
  <2>1. /\ frames # <<>> /\ f.phase = "saved"
        /\ frames' = [frames EXCEPT ![1].phase = "leaving"]
        /\ status' = [status EXCEPT ![f.mode] = [ie |-> FALSE, pie |-> f.ie, pp |-> f.priv]]
        /\ epc' = [epc EXCEPT ![f.mode] = f.pc]
        /\ UNCHANGED <<priv, pc, cause, xip, config, lines>>
    BY <1>0, <1>9 DEF Restore, Load
  <2>2. /\ f.mode \in Modes /\ f.ie \in BOOLEAN
        /\ f.priv \in {U_MODE, S_MODE, M_MODE} /\ f.pc \in Locs
    BY <1>0, <2>1 DEF Frames
  <2>3. /\ frames' \in Seq(Frames) /\ Len(frames') = Len(frames) /\ frames' # <<>>
        /\ frames'[1].mode = frames[1].mode /\ frames'[1].priv = frames[1].priv
        /\ frames'[1].pc = frames[1].pc /\ frames'[1].ie = frames[1].ie
        /\ frames'[1].phase = "leaving"
        /\ \A i \in 1..Len(frames) : i # 1 => frames'[i] = frames[i]
    BY <2>1, PhaseChange
  <2>4. TypeOK'
    BY <2>1, <2>2, <2>3 DEF IInv, TypeOK
  <2>5. NestingOK' /\ OrderOK'
    BY <1>0, <2>1, <2>3 DEF IInv, NestingOK, OrderOK, Unsaved
  <2>6. \A i \in 1..Len(frames) : i # 1 /\ Unsaved(i) => frames[i].mode # f.mode
    BY <1>0, <2>1 DEF IInv, OrderOK
  <2>7. TrapContextIntact'
    <3> SUFFICES ASSUME NEW i \in 1..Len(frames), frames'[i].phase # "saved"
                 PROVE  /\ epc'[frames'[i].mode] = frames'[i].pc
                        /\ status'[frames'[i].mode] =
                             [ie |-> FALSE, pie |-> frames'[i].ie, pp |-> frames'[i].priv]
                        /\ frames'[i].phase = "entry" =>
                             cause'[frames'[i].mode] = frames'[i].cause
      BY <2>3 DEF TrapContextIntact
    <3>1. CASE i = 1
      BY <2>1, <2>2, <2>3, <3>1 DEF IInv, TypeOK
    <3>2. CASE i # 1
      BY <1>0, <2>1, <2>2, <2>3, <2>6, <3>2 DEF IInv, TypeOK, TrapContextIntact, Unsaved
    <3> QED
      BY <3>1, <3>2
  <2> QED
    BY <2>4, <2>5, <2>7 DEF IInv
<1>10. CASE Return
  <2> DEFINE f == frames[1]
  <2>1. /\ frames # <<>> /\ Unsaved(1) /\ frames' = Tail(frames)
        /\ priv' = status[priv].pp
        /\ status' = [status EXCEPT ![priv].ie = status[priv].pie]
        /\ pc' = epc[priv]
        /\ UNCHANGED <<epc, cause, xip, config, lines>>
    BY <1>0, <1>10 DEF Return, trap_exit, Unsaved
  <2>2. /\ priv = f.mode /\ f.mode \in Modes /\ f.priv \in {U_MODE, S_MODE, M_MODE}
        /\ f.ie \in BOOLEAN
    BY <1>0, <2>1 DEF IInv, NestingOK, Frames
  <2>3. status[priv] = [ie |-> FALSE, pie |-> f.ie, pp |-> f.priv]
    BY <1>0, <2>1, <2>2 DEF IInv, TrapContextIntact, Unsaved
  <2>4. /\ frames' \in Seq(Frames) /\ Len(frames') = Len(frames) - 1
        /\ \A i \in 1..(Len(frames) - 1) : frames'[i] = frames[i + 1]
    BY <1>0, <2>1, PopProperties
  <2>5. \A i \in 1..Len(frames') : i + 1 \in 1..Len(frames) /\ frames'[i] = frames[i + 1]
    BY <1>0, <2>4
  <2>6. TypeOK'
    BY <2>1, <2>2, <2>3, <2>4 DEF IInv, TypeOK
  <2>7. NestingOK'
    <3>1. frames' # <<>> => priv' = frames'[1].mode
      <4> SUFFICES ASSUME frames' # <<>> PROVE priv' = frames'[1].mode
        OBVIOUS
      <4>1. 1 \in 1..Len(frames')
        BY <1>0, <2>1, <2>4, PopProperties
      <4>2. 1 + 1 <= Len(frames) /\ frames'[1] = frames[1 + 1]
        BY <2>5, <4>1
      <4>3. f.priv = frames[1 + 1].mode
        BY <1>0, <2>1, <4>2 DEF IInv, NestingOK
      <4> QED
        BY <2>1, <2>3, <4>2, <4>3
    <3>2. \A i \in 1..Len(frames') :
            i + 1 <= Len(frames') => frames'[i].priv = frames'[i + 1].mode
      BY <1>0, <2>4, <2>5 DEF IInv, NestingOK
    <3> QED
      BY <3>1, <3>2 DEF NestingOK
  <2>8. OrderOK'
    <3> SUFFICES ASSUME NEW i \in 1..Len(frames'), NEW j \in 1..Len(frames'), j < i
                 PROVE  /\ frames'[j].mode >= frames'[i].mode
                        /\ frames'[i].phase # "saved" => frames'[j].mode # frames'[i].mode
      BY DEF OrderOK, Unsaved
    <3>1. j + 1 < i + 1 /\ j + 1 \in 1..Len(frames) /\ i + 1 \in 1..Len(frames)
      BY <2>5
    <3> QED
      BY <2>5, <3>1 DEF IInv, OrderOK, Unsaved
  <2>9. TrapContextIntact'
    <3> SUFFICES ASSUME NEW i \in 1..Len(frames'), frames'[i].phase # "saved"
                 PROVE  /\ epc'[frames'[i].mode] = frames'[i].pc
                        /\ status'[frames'[i].mode] =
                             [ie |-> FALSE, pie |-> frames'[i].ie, pp |-> frames'[i].priv]
                        /\ frames'[i].phase = "entry" =>
                             cause'[frames'[i].mode] = frames'[i].cause
      BY DEF TrapContextIntact
    <3> DEFINE g == frames[i + 1]
    <3>1. i + 1 \in 1..Len(frames) /\ frames'[i] = g /\ Unsaved(i + 1)
      BY <2>5 DEF Unsaved
    <3>2. f.mode # g.mode
      BY <1>0, <2>1, <3>1 DEF IInv, OrderOK
    <3>3. /\ epc[g.mode] = g.pc
          /\ status[g.mode] = [ie |-> FALSE, pie |-> g.ie, pp |-> g.priv]
          /\ g.phase = "entry" => cause[g.mode] = g.cause
      BY <3>1 DEF IInv, TrapContextIntact, Unsaved
    <3> QED
      BY <1>0, <2>1, <2>2, <3>1, <3>2, <3>3 DEF IInv, TypeOK
  <2> QED
    BY <2>6, <2>7, <2>8, <2>9 DEF IInv
<1>11. CASE UNCHANGED vars
  BY <1>11 DEF vars, csrs, IInv, TypeOK, NestingOK, OrderOK, Unsaved, TrapContextIntact
<1> QED
  BY <1>1, <1>2, <1>3, <1>4, <1>5, <1>6, <1>7, <1>8, <1>9, <1>10, <1>11 DEF Next

-----------------------------------------------------------------------------
\* The inductive invariant holds in every reachable state.
THEOREM Invariance == Spec => []IInv
<1> QED
  BY InitIInv, NextIInv, PTL DEF Spec

\* Privilege, trap registers and the guest's stack keep their types: SPP never
\* becomes 3, and delegation leads to a mode that exists (trap_enter, trap_exit).
THEOREM TypeCorrect == Spec => []TypeOK
<1>1. IInv => TypeOK
  BY DEF IInv
<1> QED
  BY <1>1, Invariance, PTL

\* Until a handler has saved its trap registers, and again once it has restored
\* them, they hold the interrupted program, at any depth of nesting and whatever
\* is delegated (trap_enter, trap_exit, handle_interrupt).
THEOREM ContextIntact == Spec => []TrapContextIntact
<1>1. IInv => TrapContextIntact
  BY DEF IInv
<1> QED
  BY <1>1, Invariance, PTL

-----------------------------------------------------------------------------
(* The two action properties: what a step does to the depth of nesting.    *)

\* Only a return makes the guest's stack shorter.
LEMMA OnlyReturnPops ==
  ASSUME IInv, [Next]_vars, Len(frames') < Len(frames)
  PROVE  Return
<1>0. /\ frames \in Seq(Frames) /\ Len(frames) \in Nat
      /\ frames # <<>> => Len(frames) > 0
  BY FrameTypes
<1>1. ASSUME NEW x, NEW why, Push(x, why) PROVE FALSE
  <2> DEFINE f == [mode |-> x, priv |-> priv, pc |-> pc, ie |-> status[x].ie,
                   cause |-> why, phase |-> "entry"]
  <2>1. frames' = <<f>> \o frames
    BY <1>1 DEF Push
  <2> HIDE DEF f
  <2>2. <<f>> \in Seq({f}) /\ Len(<<f>>) = 1
    OBVIOUS
  <2>3. Len(<<f>> \o frames) = Len(frames) + 1
    <3>1. <<f>> \in Seq({f} \cup Frames) /\ frames \in Seq({f} \cup Frames)
      BY <1>0, SeqMonotonic
    <3> QED
      BY <2>2, <3>1, ConcatProperties
  <2> QED
    BY <1>0, <2>1, <2>3
<1>2. ~HandleInterrupt
  BY <1>1 DEF HandleInterrupt
<1>3. ASSUME NEW e \in Exceptions PROVE ~RaiseExcept(e)
  BY <1>1 DEF RaiseExcept
<1>4. ASSUME NEW b \in BOOLEAN PROVE ~WriteIe(b) /\ ~Launch(b)
  <2>1. ~WriteIe(b)
    BY <1>0 DEF WriteIe
  <2>2. ~Launch(b)
    BY <1>0 DEF Launch
  <2> QED
    BY <2>1, <2>2
<1>5. ~Run /\ ~Configure /\ ~DeviceLine /\ ~UNCHANGED vars
  BY <1>0 DEF Run, Configure, DeviceLine, vars
<1>6. ~Save
  <2> SUFFICES ASSUME Save PROVE FALSE
    OBVIOUS
  <2>1. frames # <<>> /\ frames' = [frames EXCEPT ![1].phase = "saved"]
    BY DEF Save
  <2> QED
    BY <1>0, <2>1, PhaseChange
<1>7. ~Restore
  <2> SUFFICES ASSUME Restore PROVE FALSE
    OBVIOUS
  <2>1. frames # <<>> /\ frames' = [frames EXCEPT ![1].phase = "leaving"]
    BY DEF Restore
  <2> QED
    BY <1>0, <2>1, PhaseChange
<1> QED
  BY <1>2, <1>3, <1>4, <1>5, <1>6, <1>7 DEF Next

\* SRET and MRET resume what the innermost unfinished trap interrupted, at its
\* privilege and with its interrupt enable (trap_exit after trap_enter).
THEOREM ReturnsResume == Spec => ReturnResumes
<1>1. IInv /\ [Next]_vars =>
        (Len(frames') < Len(frames) =>
           LET f == Head(frames)
           IN  pc' = f.pc /\ priv' = f.priv /\ status'[f.mode].ie = f.ie)
  <2> SUFFICES ASSUME IInv, [Next]_vars, Len(frames') < Len(frames)
               PROVE  LET f == Head(frames)
                      IN  pc' = f.pc /\ priv' = f.priv /\ status'[f.mode].ie = f.ie
    OBVIOUS
  <2> DEFINE f == frames[1]
  <2>1. Return
    BY OnlyReturnPops
  <2>2. frames # <<>> /\ Head(frames) = f /\ 1 \in 1..Len(frames) /\ f.mode \in Modes
    BY <2>1, FrameTypes DEF Return
  <2>3. /\ priv' = status[priv].pp /\ pc' = epc[priv] /\ f.phase # "saved"
        /\ status' = [status EXCEPT ![priv].ie = status[priv].pie]
    BY <2>1, <2>2 DEF Return, trap_exit
  <2>4. /\ priv = f.mode /\ epc[f.mode] = f.pc
        /\ status[f.mode] = [ie |-> FALSE, pie |-> f.ie, pp |-> f.priv]
    BY <2>2, <2>3 DEF IInv, NestingOK, TrapContextIntact
  <2> QED
    BY <2>2, <2>3, <2>4 DEF IInv, TypeOK
<1> QED
  BY <1>1, Invariance, PTL DEF Spec, ReturnResumes

\* A trap never leaves the hart with less privilege, whatever is delegated; only a
\* return lowers it (except_next_priv, intr_next_priv).
THEOREM PrivilegeLoweredByReturn == Spec => TrapsNeverLowerPrivilege
<1>1. IInv /\ [Next]_vars => (priv' < priv => Len(frames') < Len(frames))
  <2> SUFFICES ASSUME IInv, [Next]_vars, priv' < priv
               PROVE  Len(frames') < Len(frames)
    OBVIOUS
  <2>1. priv \in {U_MODE, S_MODE, M_MODE}
    BY DEF IInv, TypeOK
  <2>2. ~HandleInterrupt
    BY <2>1 DEF HandleInterrupt, trap_enter, intr_next_priv, U_MODE, S_MODE, M_MODE
  <2>3. ASSUME NEW e \in Exceptions PROVE ~RaiseExcept(e)
    BY <2>1 DEF RaiseExcept, trap_enter, except_next_priv, U_MODE, S_MODE, M_MODE
  <2>4. priv' # priv
    BY <2>1 DEF U_MODE, S_MODE, M_MODE
  <2>5. Return
    BY <2>2, <2>3, <2>4 DEF Next, Run, Configure, WriteIe, Launch, Load, Save, Restore,
                            DeviceLine, vars
  <2> QED
    BY <2>5, FrameTypes, PopProperties DEF Return
<1> QED
  BY <1>1, Invariance, PTL DEF Spec, TrapsNeverLowerPrivilege
=============================================================================
