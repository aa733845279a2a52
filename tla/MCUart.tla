------------------------------- MODULE MCUart -------------------------------
(***************************************************************************)
(* Uart for TLC: the interrupt enables that drivers write, and one of each *)
(* of the others, which take precedence over or yield to the receiver.     *)
(***************************************************************************)
EXTENDS Uart

MCIerAll == {{}, {"RDI"}, {"RDI", "THRI"}, {"RLSI"}, {"MSI"}}
=============================================================================
