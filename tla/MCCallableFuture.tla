--------------------------- MODULE MCCallableFuture ---------------------------
(* Small instances of CallableFuture. *)
EXTENDS CallableFuture, TLC

CONSTANTS c1, c2, c3, c4, e1, e2

OnlyTimeout == {TIMEOUT}
Symmetry == Permutations(Co) \cup Permutations(Event)

=============================================================================
