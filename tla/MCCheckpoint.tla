---------------------------- MODULE MCCheckpoint ----------------------------
(* Small instances of Checkpoint for TLC.                                  *)
EXTENDS Checkpoint, TLC

Symmetry == Permutations(Ids) \cup Permutations(Tasks)
=============================================================================
