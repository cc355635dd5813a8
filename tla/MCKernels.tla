------------------------------ MODULE MCKernels ------------------------------
(***************************************************************************)
(* Two bundles that bring a kernel of the same name, one of them the other *)
(* built anew.                                                             *)
(***************************************************************************)
EXTENDS Kernels, TLC

Symmetry == Permutations(Bundles)
=============================================================================
