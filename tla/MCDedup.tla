------------------------------ MODULE MCDedup ------------------------------
(* Small instances of Dedup for TLC.                                       *)
EXTENDS Dedup, TLC

Symmetry == Permutations(Handles) \cup Permutations(Keys) \cup Permutations(Threads)
=============================================================================
