------------------------------ MODULE MCClint ------------------------------
(***************************************************************************)
(* Clint for TLC.  The clock runs to 3; deadline 0 is in the past at once, *)
(* 1 and 3 are reached (3 exactly when the clock stops), and 5 is the      *)
(* "never" that a guest writes to silence the timer.                       *)
(***************************************************************************)
EXTENDS Clint

MCDeadlines == {0, 1, 3, 5}
=============================================================================
