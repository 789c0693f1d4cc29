------------------------------ MODULE MCSmallMem ------------------------------
(* Two threads that hold blocks of a heap of a few dozen words.                 *)
EXTENDS SmallMem, TLC

Symmetry == Permutations(Threads)
=============================================================================
