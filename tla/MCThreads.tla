----------------------------- MODULE MCThreads -----------------------------
(* Small instances of Threads. *)
EXTENDS Threads, TLC

\* The threads other than the main one are interchangeable.
Symmetry == Permutations(Thread \ {Main})
=============================================================================
