---------------------------- MODULE MCVirtioBlk ----------------------------
(***************************************************************************)
(* VirtioBlk for TLC: rings of two entries, indices modulo 4 so that they  *)
(* wrap, one sector, and the requests below.                               *)
(***************************************************************************)
EXTENDS VirtioMmio

Read(n)  == [kind |-> "in", segs |-> n, sector |-> 0, data |-> "blank"]
Write(n) == [kind |-> "out", segs |-> n, sector |-> 0, data |-> "a"]

\* Two requests that the device executes and one that it refuses with a panic.
MCRequests == {Read(1), Write(1), Write(2)}
=============================================================================
