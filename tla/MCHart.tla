------------------------------- MODULE MCHart -------------------------------
(***************************************************************************)
(* Hart for TLC: timer and external interrupts, a system call and a page   *)
(* fault, two choices of delegation, nesting depth 3.                      *)
(***************************************************************************)
EXTENDS Hart

MCExceptions == {"ecallU", "fault"}

\* Everything is delegated, or the kernel keeps user traps and devices while the
\* firmware takes faults and the timer.
MCConfigs ==
  {[mideleg |-> Types, medeleg |-> Exceptions, ie |-> [x \in Modes |-> Types]],
   [mideleg |-> {"external"}, medeleg |-> {"ecallU"},
    ie |-> [x \in Modes |-> IF x = S_MODE THEN {"external"} ELSE {"timer"}]]}
=============================================================================
