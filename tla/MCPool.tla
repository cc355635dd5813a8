------------------------------- MODULE MCPool -------------------------------
(***************************************************************************)
(* Small instances of Pool, with the size classes of Buckets at the real   *)
(* page size.                                                              *)
(***************************************************************************)
EXTENDS Pool, TLC

B == INSTANCE Buckets WITH MinShift <- 12, MaxShift <- 40, Steps <- 4

\* Two sizes of two classes, and two requests of one class.
TwoSizes == {4096, 5000}
SameClass == {4000, 4096}

MCClasses == {B!bucketFor(r) : r \in Requests}

MCClassBytes == [c \in MCClasses |-> B!bucketBytes(c)]

MCClassOf == [b \in Requests \cup {MCClassBytes[c] : c \in MCClasses} |-> B!bucketFor(b)]

Symmetry == Permutations(Natives)
=============================================================================
