------------------------------- MODULE MCHeap -------------------------------
(***************************************************************************)
(* Heap on a unit of 8 bytes: header 3, alignment 2, least remainder 4.    *)
(* The heap is four pages of 8 units; two frames are free outside it.      *)
(***************************************************************************)
EXTENDS Heap
=============================================================================
