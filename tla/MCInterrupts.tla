--------------------------- MODULE MCInterrupts ---------------------------
(***************************************************************************)
(* Interrupts for TLC.                                                     *)
(***************************************************************************)
EXTENDS Interrupts
=============================================================================
