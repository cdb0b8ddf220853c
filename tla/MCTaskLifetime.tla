---------------------------- MODULE MCTaskLifetime ----------------------------
(* Instances of TaskLifetime for TLC. *)
EXTENDS TaskLifetime, TLC

Symmetry == Permutations(Task) \cup Permutations(Awaiter)
=============================================================================
