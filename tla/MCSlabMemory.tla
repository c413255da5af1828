------------------------------ MODULE MCSlabMemory ------------------------------
(***************************************************************************)
(* SlabMemory for TLC: slabs of 1 to 512 entries, below and above a large  *)
(* page of 32 bytes.                                                       *)
(***************************************************************************)
EXTENDS SlabMemory

MCRequests == {EntrySize * 2 ^ k : k \in 0 .. 9}
=============================================================================
