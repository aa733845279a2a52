---------------------------- MODULE OneShotTimer ----------------------------
(***************************************************************************)
(* What the machine timer of xemu promises the guest, without its thread,  *)
(* mutex and condition variable: a deadline is written, and from then on   *)
(* the timer interrupt is raised once the clock has reached the deadline,  *)
(* never before, and stays raised until the next deadline is written.      *)
(* Clint implements this specification (that a reached deadline does fire  *)
(* is stated there, as DeadlineFires).                                     *)
(***************************************************************************)
EXTENDS Naturals

CONSTANT Deadlines    \* the values the guest writes to mtimecmp

VARIABLES now,        \* the clock
          deadline,   \* the last deadline written
          armed,      \* a deadline has been written
          raised      \* the interrupt level

vars == <<now, deadline, armed, raised>>

Init == /\ now = 0
        /\ deadline = 0
        /\ armed = FALSE
        /\ raised = FALSE

Tick == /\ now' = now + 1
        /\ UNCHANGED <<deadline, armed, raised>>

\* Writing a deadline withdraws the interrupt of the previous one.
SetDeadline == \E d \in Deadlines :
                 /\ deadline' = d
                 /\ armed' = TRUE
                 /\ raised' = FALSE
                 /\ UNCHANGED now

Raise == /\ armed
         /\ ~raised
         /\ now >= deadline
         /\ raised' = TRUE
         /\ UNCHANGED <<now, deadline, armed>>

Next == Tick \/ SetDeadline \/ Raise

Spec == Init /\ [][Next]_vars
=============================================================================
