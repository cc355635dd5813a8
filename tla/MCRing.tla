------------------------------- MODULE MCRing -------------------------------
(***************************************************************************)
(* A small instance of Ring: two threads that compete on one side, and a   *)
(* capacity that makes the indices wrap.                                   *)
(***************************************************************************)
EXTENDS Ring
=============================================================================
