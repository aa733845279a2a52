---------------------------- MODULE ClintProofs ----------------------------
(***************************************************************************)
(* Proofs about Clint, for every clock bound and every set of deadlines:   *)
(* the timer interrupt is never early, no wakeup of the timer thread is    *)
(* lost, and the two threads implement OneShotTimer.                       *)
(***************************************************************************)
EXTENDS Clint, TLAPS

\* _mutex is held exactly inside the critical sections.
MutexOK == /\ _mutex = "cpu"   <=> cpuPc \in {"compare", "arm"}
           /\ _mutex = "timer" <=> timerPc \in {"testRunning", "testTime", "fire"}

\* The timer thread runs its second loop, and fires, only for an armed timer, and
\* the deadline it is about to fire for is the one in mtimecmp: nobody can have
\* rewritten it since the clock was compared, for the mutex is held.
FireOK == /\ timerPc \in {"testTime", "timedwait", "relock", "fire"} => timer_running
          /\ timerPc = "fire" => rtc >= mtimecmp

\* The inductive invariant.
IInv == TypeOK /\ MutexOK /\ FireOK /\ TimerNeverEarly /\ NoLostWakeup

LEMMA InitIInv == Init => IInv
<1> SUFFICES ASSUME Init PROVE IInv
  OBVIOUS
<1> USE DEF Init
<1>1. TypeOK
  BY DEF TypeOK, CpuPcs, TimerPcs, Owners
<1>2. MutexOK
  BY DEF MutexOK
<1>3. FireOK
  BY DEF FireOK
<1>4. ~_timer_intr /\ ~timer_running
  BY Zenon
<1> QED
  BY <1>1, <1>2, <1>3, <1>4 DEF IInv, TimerNeverEarly, NoLostWakeup

LEMMA NextIInv == IInv /\ [Next]_vars => IInv'
<1> SUFFICES ASSUME IInv, [Next]_vars PROVE IInv'
  OBVIOUS
<1> USE ClintAssumption
<1> USE DEF IInv, TypeOK, MutexOK, FireOK, TimerNeverEarly, NoLostWakeup,
            CpuPcs, TimerPcs, Owners
<1>1. CASE Tick
  BY <1>1 DEF Tick
<1>2. ASSUME NEW data \in {0, 1}, WriteMsip(data) PROVE IInv'
  BY <1>2 DEF WriteMsip
<1>3. ASSUME NEW data \in Deadlines, WriteMtimecmp(data) PROVE IInv'
  <2>1. ~_timer_intr'
    BY <1>3, Zenon DEF WriteMtimecmp
  <2> QED
    BY <1>3, <2>1 DEF WriteMtimecmp
<1>4. CASE WriteCompare
  <2>1. mtimecmp \in Nat
    OBVIOUS
  <2>2. CASE rtc > mtimecmp
    <3>1. rtc >= mtimecmp
      BY <2>1, <2>2
    <3> QED
      BY <1>4, <2>2, <3>1 DEF WriteCompare
  <2>3. CASE ~(rtc > mtimecmp)
    BY <1>4, <2>3 DEF WriteCompare
  <2> QED
    BY <2>2, <2>3
<1>5. CASE WriteArm
  BY <1>5 DEF WriteArm
<1>6. CASE WriteSignal
  BY <1>6 DEF WriteSignal, WakeTimer
<1>7. CASE RoutineLock
  BY <1>7 DEF RoutineLock
<1>8. CASE RoutineTestRunning
  BY <1>8 DEF RoutineTestRunning
<1>9. CASE RoutineTestTime
  BY <1>9 DEF RoutineTestTime
<1>10. CASE RoutineTimeout
  BY <1>10 DEF RoutineTimeout
<1>11. CASE RoutineRelock
  BY <1>11 DEF RoutineRelock
<1>12. CASE RoutineFire
  BY <1>12 DEF RoutineFire
<1>13. CASE UNCHANGED vars
  BY <1>13 DEF vars
<1> QED
  BY <1>1, <1>2, <1>3, <1>4, <1>5, <1>6, <1>7, <1>8, <1>9, <1>10, <1>11, <1>12,
     <1>13 DEF Next, Cpu, Routine

\* The inductive invariant holds in every reachable state.
THEOREM Invariance == Spec => []IInv
<1> QED
  BY InitIInv, NextIInv, PTL DEF Spec

\* Every variable of the timer keeps its type.
THEOREM TypeCorrect == Spec => []TypeOK
<1>1. IInv => TypeOK
  BY DEF IInv
<1> QED
  BY <1>1, Invariance, PTL

\* The timer interrupt of clint.c is never early: it is only set while the clock
\* has reached the deadline now in mtimecmp.
THEOREM NeverEarly == Spec => []TimerNeverEarly
<1>1. IInv => TimerNeverEarly
  BY DEF IInv
<1> QED
  BY <1>1, Invariance, PTL

\* The timer thread never sleeps on an armed timer without a signal on its way.
THEOREM WakeupNotLost == Spec => []NoLostWakeup
<1>1. IInv => NoLostWakeup
  BY DEF IInv
<1> QED
  BY <1>1, Invariance, PTL

LEMMA TimerInit == Init => Timer!Init
BY DEF Init, Timer!Init

LEMMA TimerStep == IInv /\ [Next]_vars => [Timer!Next]_(Timer!vars)
<1> SUFFICES ASSUME IInv, [Next]_vars PROVE [Timer!Next]_(Timer!vars)
  OBVIOUS
<1> USE ClintAssumption
<1> USE DEF IInv, TypeOK, FireOK, MutexOK, CpuPcs, Timer!vars, Timer!Next
<1>1. CASE Tick
  BY <1>1 DEF Tick, Timer!Tick
<1>2. ASSUME NEW data \in {0, 1}, WriteMsip(data) PROVE UNCHANGED Timer!vars
  BY <1>2 DEF WriteMsip
<1>3. ASSUME NEW data \in Deadlines, WriteMtimecmp(data) PROVE Timer!SetDeadline
  <2>1. (cpuPc' \in {"compare", "arm"} \/ timer_running' \/ _timer_intr') = TRUE
    BY <1>3 DEF WriteMtimecmp
  <2> QED
    BY <1>3, <2>1 DEF WriteMtimecmp, Timer!SetDeadline
<1>4. CASE WriteCompare
  <2>1. mtimecmp \in Nat
    OBVIOUS
  <2>2. CASE rtc > mtimecmp
    <3>1. rtc >= mtimecmp
      BY <2>1, <2>2
    <3>2. _timer_intr' = TRUE /\ _timer_intr \in BOOLEAN
      BY <1>4, <2>2 DEF WriteCompare
    <3>3. UNCHANGED <<rtc, mtimecmp>> /\ cpuPc = "compare"
      BY <1>4 DEF WriteCompare
    <3> QED
      BY <3>1, <3>2, <3>3 DEF Timer!Raise
  <2>3. CASE ~(rtc > mtimecmp)
    BY <1>4, <2>3 DEF WriteCompare
  <2> QED
    BY <2>2, <2>3
<1>5. CASE WriteArm
  BY <1>5 DEF WriteArm
<1>6. CASE WriteSignal
  BY <1>6 DEF WriteSignal
<1>7. CASE RoutineLock
  BY <1>7 DEF RoutineLock
<1>8. CASE RoutineTestRunning
  BY <1>8 DEF RoutineTestRunning
<1>9. CASE RoutineTestTime
  BY <1>9 DEF RoutineTestTime
<1>10. CASE RoutineTimeout
  BY <1>10 DEF RoutineTimeout
<1>11. CASE RoutineRelock
  BY <1>11 DEF RoutineRelock
<1>12. CASE RoutineFire
  BY <1>12 DEF RoutineFire, Timer!Raise
<1>13. CASE UNCHANGED vars
  BY <1>13 DEF vars
<1> QED
  BY <1>1, <1>2, <1>3, <1>4, <1>5, <1>6, <1>7, <1>8, <1>9, <1>10, <1>11, <1>12,
     <1>13 DEF Next, Cpu, Routine

\* clint.c, with its thread, mutex and condition variable, implements OneShotTimer.
THEOREM Refinement == Spec => ImplementsOneShotTimer
<1> QED
  BY TimerInit, TimerStep, Invariance, PTL
     DEF Spec, ImplementsOneShotTimer, Timer!Spec
=============================================================================
