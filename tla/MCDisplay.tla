------------------------------ MODULE MCDisplay ------------------------------
(***************************************************************************)
(* The display on windows of a few pixels.  A device of three buffers has  *)
(* all the pass holds and nothing more; classes are powers of two, of 16   *)
(* bytes at least.                                                         *)
(***************************************************************************)
EXTENDS Display, TLC

WindowSizes == {<<1, 2>>, <<5, 1>>}

PowerOfTwo(n) ==
  LET fits == {c \in {16, 32, 64, 128, 256, 512} : n <= c}
  IN  CHOOSE c \in fits : \A d \in fits : c <= d

Symmetry == Permutations(Buffers)
=============================================================================
