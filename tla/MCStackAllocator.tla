---------------------------- MODULE MCStackAllocator ----------------------------
(* Instances of StackAllocator for TLC. *)
EXTENDS StackAllocator, TLC

\* A buffer of two pages and a half.
BufferSizes == [b \in Buffer |-> 20]
Requests == {[stack_size |-> 20, private |-> 1, extra |-> 3]}
=============================================================================
