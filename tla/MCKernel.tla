------------------------------ MODULE MCKernel ------------------------------
(***************************************************************************)
(* Kernel for TLC: the shell and three more processes, and two queue       *)
(* objects with one name, so that a destroyed queue's slot is used again   *)
(* while a process still waits in the list it had.                         *)
(***************************************************************************)
EXTENDS Kernel
=============================================================================
