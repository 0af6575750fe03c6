-------------------------------- MODULE MCGc --------------------------------
(* A heap of a few slots. *)
EXTENDS Gc, TLC

CONSTANTS s1, s2, s3

OneSlotPages == {{s1}, {s2}, {s3}}
Symmetry == Permutations({s1, s2, s3})
=============================================================================
