------------------------------ MODULE MCPlayer ------------------------------
(* Small instances of Player: the images are the slots. *)
EXTENDS Player

MCImages == 0 .. kSlots - 1
=============================================================================
