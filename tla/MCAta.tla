------------------------------- MODULE MCAta -------------------------------
(***************************************************************************)
(* Ata for TLC: two adjacent sectors and one apart, whose addresses differ *)
(* in every register.                                                      *)
(***************************************************************************)
EXTENDS Ata

Sectors == {4, 5, 8}
=============================================================================
