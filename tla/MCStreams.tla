----------------------------- MODULE MCStreams ------------------------------
(* Small instances of Streams. *)
EXTENDS Streams, TLC

Symmetry == Permutations(Buffers)
=============================================================================
