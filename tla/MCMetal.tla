------------------------------ MODULE MCMetal -------------------------------
(* A small instance of MetalQueues. *)
EXTENDS MetalQueues, TLC

Symmetry == Permutations(Buffers)
=============================================================================
