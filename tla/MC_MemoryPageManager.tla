------------------------ MODULE MC_MemoryPageManager ------------------------
(* MemoryPageManager on a small instance: handles are interchangeable. *)
EXTENDS MemoryPageManager, TLC

HandleSymmetry == Permutations(Handles)
=============================================================================
