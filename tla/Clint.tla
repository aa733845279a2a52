------------------------------- MODULE Clint -------------------------------
(***************************************************************************)
(* The core-local interruptor (src/clint.c): the machine timer comparator, *)
(* shared by the CPU thread (clint_write, clint_interrupt) and the timer   *)
(* thread (_routine), and the software interrupt bit.                      *)
(*                                                                         *)
(* Each thread has a program counter.  The steps are split wherever the    *)
(* other thread can observe or change something: at every acquisition and  *)
(* release of _mutex, at every wait on _cond, and between the reading of   *)
(* the clock and what is done with the value.                              *)
(***************************************************************************)
EXTENDS Naturals

CONSTANTS MaxTime,     \* bound: the clock stops there
          Deadlines    \* the values the guest writes to mtimecmp

ASSUME ClintAssumption == /\ MaxTime \in Nat
                          /\ Deadlines \subseteq Nat

VARIABLES rtc,             \* cpu_read_rtc(), a monotone clock
          mtimecmp,        \* clint->mtimecmp
          timer_running,   \* clint->timer_running
          _timer_intr,     \* static _timer_intr
          _software_intr,  \* static _software_intr
          _mutex,          \* clint->_mutex: the thread that holds it
          cpuPc,           \* where the CPU thread is in clint_write
          timerPc          \* where the timer thread is in _routine

vars == <<rtc, mtimecmp, timer_running, _timer_intr, _software_intr, _mutex,
          cpuPc, timerPc>>

CpuPcs   == {"idle", "compare", "arm", "signal"}
TimerPcs == {"lock", "testRunning", "wait", "relock", "testTime", "timedwait",
             "fire"}
Owners   == {"none", "cpu", "timer"}

TypeOK == /\ rtc \in Nat
          /\ mtimecmp \in Deadlines \cup {0}
          /\ timer_running \in BOOLEAN
          /\ _timer_intr \in BOOLEAN
          /\ _software_intr \in BOOLEAN
          /\ _mutex \in Owners
          /\ cpuPc \in CpuPcs
          /\ timerPc \in TimerPcs

-----------------------------------------------------------------------------
(* clint_init: calloc, then the timer thread is started.                   *)

Init == /\ rtc = 0
        /\ mtimecmp = 0
        /\ timer_running = FALSE
        /\ _timer_intr = FALSE
        /\ _software_intr = FALSE
        /\ _mutex = "none"
        /\ cpuPc = "idle"
        /\ timerPc = "lock"

(* The clock (CLOCK_MONOTONIC in ticks).                                   *)
Tick == /\ rtc < MaxTime
        /\ rtc' = rtc + 1
        /\ UNCHANGED <<mtimecmp, timer_running, _timer_intr, _software_intr,
                       _mutex, cpuPc, timerPc>>

-----------------------------------------------------------------------------
(* The CPU thread.                                                         *)

\* clint_write(CLINT_MSIP): no lock, the bit is only read by this thread.
WriteMsip(data) ==
  /\ cpuPc = "idle"
  /\ _software_intr' = (data # 0)
  /\ UNCHANGED <<rtc, mtimecmp, timer_running, _timer_intr, _mutex, cpuPc,
                 timerPc>>

\* Mutants: the same write without the lock; with the deadline rounded up.
WriteMtimecmpUnlocked(data) ==
  /\ cpuPc = "idle"
  /\ _mutex' = "cpu"
  /\ _timer_intr' = FALSE
  /\ mtimecmp' = data
  /\ cpuPc' = "compare"
  /\ UNCHANGED <<rtc, timer_running, _software_intr, timerPc>>

WriteMtimecmpRounded(data) ==
  /\ cpuPc = "idle"
  /\ _mutex = "none"
  /\ _mutex' = "cpu"
  /\ _timer_intr' = FALSE
  /\ mtimecmp' = data + 1
  /\ cpuPc' = "compare"
  /\ UNCHANGED <<rtc, timer_running, _software_intr, timerPc>>

\* clint_write(CLINT_MTIMECMP): lock, drop the interrupt, store the deadline.
WriteMtimecmp(data) ==
  /\ cpuPc = "idle"
  /\ _mutex = "none"
  /\ _mutex' = "cpu"
  /\ _timer_intr' = FALSE
  /\ mtimecmp' = data
  /\ cpuPc' = "compare"
  /\ UNCHANGED <<rtc, timer_running, _software_intr, timerPc>>

\* Mutant: a deadline equal to the clock is neither raised nor armed.
WriteCompareGap ==
  /\ cpuPc = "compare"
  /\ _timer_intr' = (rtc > mtimecmp)
  /\ IF rtc < mtimecmp THEN cpuPc' = "arm" /\ UNCHANGED _mutex
                       ELSE cpuPc' = "signal" /\ _mutex' = "none"
  /\ UNCHANGED <<rtc, mtimecmp, timer_running, _software_intr, timerPc>>

\* The clock is read: a deadline already passed raises the interrupt here, any
\* other one is left to the timer thread.  The clock may advance before the
\* timer is armed.
WriteCompare ==
  /\ cpuPc = "compare"
  /\ \/ /\ rtc > mtimecmp
        /\ _timer_intr' = TRUE
        /\ _mutex' = "none"
        /\ cpuPc' = "signal"
     \/ /\ ~(rtc > mtimecmp)
        /\ cpuPc' = "arm"
        /\ UNCHANGED <<_timer_intr, _mutex>>
  /\ UNCHANGED <<rtc, mtimecmp, timer_running, _software_intr, timerPc>>

WriteArm ==
  /\ cpuPc = "arm"
  /\ timer_running' = TRUE
  /\ _mutex' = "none"
  /\ cpuPc' = "signal"
  /\ UNCHANGED <<rtc, mtimecmp, _timer_intr, _software_intr, timerPc>>

\* Mutant: only the sleeper in pthread_cond_timedwait is woken.
WakeTimedwaiter == IF timerPc = "timedwait" THEN "relock" ELSE timerPc

\* pthread_cond_signal, after the unlock: wakes the timer thread if it waits.
\* A woken thread takes the mutex again before it re-evaluates its condition.
WakeTimer == CASE timerPc = "wait"      -> "lock"
               [] timerPc = "timedwait" -> "relock"
               [] OTHER                 -> timerPc

WriteSignal ==
  /\ cpuPc = "signal"
  /\ cpuPc' = "idle"
  /\ timerPc' = WakeTimer
  /\ UNCHANGED <<rtc, mtimecmp, timer_running, _timer_intr, _software_intr,
                 _mutex>>

-----------------------------------------------------------------------------
(* The timer thread: _routine.                                             *)

\* pthread_mutex_lock, also at the end of the first pthread_cond_wait.
RoutineLock ==
  /\ timerPc = "lock"
  /\ _mutex = "none"
  /\ _mutex' = "timer"
  /\ timerPc' = "testRunning"
  /\ UNCHANGED <<rtc, mtimecmp, timer_running, _timer_intr, _software_intr,
                 cpuPc>>

\* while (!clint->timer_running) pthread_cond_wait(...)
RoutineTestRunning ==
  /\ timerPc = "testRunning"
  /\ \/ /\ timer_running
        /\ timerPc' = "testTime"
        /\ UNCHANGED _mutex
     \/ /\ ~timer_running
        /\ timerPc' = "wait"
        /\ _mutex' = "none"
  /\ UNCHANGED <<rtc, mtimecmp, timer_running, _timer_intr, _software_intr,
                 cpuPc>>

\* while (cpu_read_rtc() < clint->mtimecmp) pthread_cond_timedwait(...)
RoutineTestTime ==
  /\ timerPc = "testTime"
  /\ \/ /\ rtc < mtimecmp
        /\ timerPc' = "timedwait"
        /\ _mutex' = "none"
     \/ /\ ~(rtc < mtimecmp)
        /\ timerPc' = "fire"
        /\ UNCHANGED _mutex
  /\ UNCHANGED <<rtc, mtimecmp, timer_running, _timer_intr, _software_intr,
                 cpuPc>>

\* The microsecond of pthread_cond_timedwait is over.
RoutineTimeout ==
  /\ timerPc = "timedwait"
  /\ timerPc' = "relock"
  /\ UNCHANGED <<rtc, mtimecmp, timer_running, _timer_intr, _software_intr,
                 _mutex, cpuPc>>

\* Mutant: the same return without the mutex.
RoutineRelockUnlocked ==
  /\ timerPc = "relock"
  /\ timerPc' = "testTime"
  /\ UNCHANGED <<rtc, mtimecmp, timer_running, _timer_intr, _software_intr,
                 _mutex, cpuPc>>

\* pthread_cond_timedwait returns with the mutex held.
RoutineRelock ==
  /\ timerPc = "relock"
  /\ _mutex = "none"
  /\ _mutex' = "timer"
  /\ timerPc' = "testTime"
  /\ UNCHANGED <<rtc, mtimecmp, timer_running, _timer_intr, _software_intr,
                 cpuPc>>

RoutineFire ==
  /\ timerPc = "fire"
  /\ _timer_intr' = TRUE
  /\ timer_running' = FALSE
  /\ _mutex' = "none"
  /\ timerPc' = "lock"
  /\ UNCHANGED <<rtc, mtimecmp, _software_intr, cpuPc>>

-----------------------------------------------------------------------------
\* clint_interrupt: what the hart sees of this device between two instructions.
clint_interrupt == IF _timer_intr THEN "timer"
                   ELSE IF _software_intr THEN "software" ELSE "none"

Cpu == \/ \E data \in {0, 1} : WriteMsip(data)
       \/ \E data \in Deadlines : WriteMtimecmp(data)
       \/ WriteCompare
       \/ WriteArm
       \/ WriteSignal

Routine == \/ RoutineLock
           \/ RoutineTestRunning
           \/ RoutineTestTime
           \/ RoutineTimeout
           \/ RoutineRelock
           \/ RoutineFire

Next == Tick \/ Cpu \/ Routine

Spec == Init /\ [][Next]_vars

(* Both threads are scheduled by the operating system, a write that has    *)
(* begun runs to its end, and time passes.  Weak fairness is enough: the   *)
(* timer thread is not assumed to win the mutex against a guest that       *)
(* writes deadlines forever.                                               *)
Fairness == /\ WF_vars(Tick)
            /\ WF_vars(WriteCompare \/ WriteArm \/ WriteSignal)
            /\ WF_vars(Routine)

FairSpec == Spec /\ Fairness

-----------------------------------------------------------------------------
(* Correctness.                                                            *)

\* The timer interrupt is never early: while _timer_intr is set the clock has
\* reached the deadline now in mtimecmp, although the deadline may be rewritten
\* while the timer thread sleeps on, or is about to fire for, an earlier one.
TimerNeverEarly == _timer_intr => rtc >= mtimecmp

\* Nobody is asleep on an armed timer: when the timer thread sits in the first
\* pthread_cond_wait while timer_running is set, the signal that wakes it is
\* still to come.
NoLostWakeup == timer_running /\ timerPc = "wait" => cpuPc = "signal"

\* Every deadline that the clock reaches raises the interrupt, unless the guest
\* begins to write another one first.  The two comparisons, > in clint_write and
\* < in _routine, leave no gap at rtc = mtimecmp.
DeadlineFires ==
  \A d \in Deadlines :
    (cpuPc = "signal" /\ mtimecmp = d /\ d <= MaxTime)
      ~> (_timer_intr \/ cpuPc = "compare")

\* The two threads together implement the promise of OneShotTimer: the interrupt
\* is withdrawn only by a write and raised only for a deadline that is reached.
Timer == INSTANCE OneShotTimer
           WITH now      <- rtc,
                deadline <- mtimecmp,
                armed    <- cpuPc \in {"compare", "arm"} \/ timer_running
                              \/ _timer_intr,
                raised   <- _timer_intr

ImplementsOneShotTimer == Timer!Spec
=============================================================================
