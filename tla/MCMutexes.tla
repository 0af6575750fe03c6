----------------------------- MODULE MCMutexes -----------------------------
(* Small instances of Mutexes. *)
EXTENDS Mutexes, TLC

\* The threads other than the main one are interchangeable.
Symmetry == Permutations(Thread \ {Main})
=============================================================================
