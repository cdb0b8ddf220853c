-------------------------------- MODULE MCTask --------------------------------
(* Instances of Task for TLC. *)
EXTENDS Task, TLC

Symmetry == Permutations(Thread) \cup Permutations(Task)
=============================================================================
