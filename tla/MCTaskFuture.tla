----------------------------- MODULE MCTaskFuture -----------------------------
(* Small instances of TaskFutureManager. *)
EXTENDS TaskFutureManager, TLC

CONSTANTS c1, c2, c3, e1

Symmetry == Permutations(Co)

=============================================================================
