---------------------------- MODULE MCSomeDelegate ----------------------------
(* Small instances of SomeDelegate. *)
EXTENDS SomeDelegate

CONSTANTS f1, f2, f3, f4

=============================================================================
