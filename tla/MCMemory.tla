------------------------------ MODULE MCMemory ------------------------------
(***************************************************************************)
(* Memory for TLC: tables of two entries, so that an address has four bits *)
(* and there are eight pages.  Page 1 is a device, pages 4 to 7 are RAM,   *)
(* the others are holes.                                                   *)
(***************************************************************************)
EXTENDS Memory

MCRegions == <<[start |-> 2, end |-> 3, kind |-> "mmio"],
               [start |-> 8, end |-> 15, kind |-> "ram"]>>

Pte(v, r, w, x, ppn) == [v |-> v, r |-> r, w |-> w, x |-> x, ppn |-> ppn]

\* Pointers to three tables; leaves with and without R, one of them on a hole's
\* side of an aligned block; an entry with W and without R.
MCContents == {Pte(TRUE, FALSE, FALSE, FALSE, 4), Pte(TRUE, FALSE, FALSE, FALSE, 5),
               Pte(TRUE, TRUE, TRUE, FALSE, 6), Pte(TRUE, FALSE, FALSE, TRUE, 5),
               Pte(TRUE, FALSE, TRUE, FALSE, 7)}
=============================================================================
