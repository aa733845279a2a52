------------------------------- MODULE MCPlic -------------------------------
(***************************************************************************)
(* Plic for TLC: three sources in words of two bits, so that source 1 is   *)
(* alone in word 0 and sources 2 and 3 share word 1.                       *)
(***************************************************************************)
EXTENDS Plic

\* Firmware keeps source 3, the supervisor gets the others.
MCRoute == [id \in Sources |-> IF id = 3 THEN "M" ELSE "S"]

\* Everything goes to the supervisor.
MCRouteS == [id \in Sources |-> "S"]

\* The slots of real sources.
MCInBounds == Sources
=============================================================================
