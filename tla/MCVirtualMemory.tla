-------------------------- MODULE MCVirtualMemory --------------------------
(***************************************************************************)
(* Page tables of six entries, 24 pages in the identity map, and few       *)
(* enough frames that stacks, regions and tables run out of them.          *)
(***************************************************************************)
EXTENDS VirtualMemory
=============================================================================
