----------------------------- MODULE MCStackPool -----------------------------
(* A pool that is configured while it caches stacks, for TLC. *)
EXTENDS StackPool, TLC

Plain == [gc_number |-> 0, max_number |-> 0, max_size |-> 0,
          min_number |-> 0, min_size |-> 0, auto_gc |-> TRUE]

OneSmall == {[Plain EXCEPT !.max_number = 2]}

Symmetry == Permutations(Client) \cup Permutations(Stack)
=============================================================================
