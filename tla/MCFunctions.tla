---------------------------- MODULE MCFunctions ----------------------------
(***************************************************************************)
(* The functions of the engine on requests past the largest class of two   *)
(* doublings, dispatches past what the header of a blob can count, and two *)
(* bundles.                                                                *)
(***************************************************************************)
EXTENDS EngineFunctions, TLC

Symmetry == Permutations(Bundles)
=============================================================================
