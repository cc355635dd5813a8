------------------------------ MODULE MCArenas ------------------------------
(* Small instances of Arenas. *)
EXTENDS Arenas, TLC

Symmetry == Permutations(Images)
=============================================================================
