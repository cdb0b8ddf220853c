----------------------------- MODULE MCTaskManager -----------------------------
(* Instances of TaskManager and TaskManagerTick for TLC. *)
EXTENDS TaskManagerTick, TLC

Symmetry == Permutations(Task) \cup Permutations(Manager)

\* In seconds and nanoseconds
Seconds == {<<1, 0>>, <<2, 0>>, <<3, 0>>}
TwoTicks == {<<1, 0>>, <<3, 0>>}
Timeouts == {<<0, 0>>, <<1, 0>>}
OneTimeout == {<<1, 0>>}
=============================================================================
