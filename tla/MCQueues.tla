------------------------------ MODULE MCQueues ------------------------------
(* Small instances of Queues. *)
EXTENDS Queues

\* The threads other than the main one are interchangeable.
Symmetry == Permutations(Thread \ {Main})
=============================================================================
