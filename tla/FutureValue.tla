------------------------------- MODULE FutureValue -------------------------------
(***************************************************************************)
(* What a future promises: each cell is pending, or ready with one value.  *)
(* A value is set, replaced, moved to another cell, swapped with another   *)
(* cell's, or dropped; no cell changes by what happens to another one.     *)
(***************************************************************************)
CONSTANTS Cell, Datum, Pending

VARIABLE content

ValueInit == content = [c \in Cell |-> Pending]

SetValue(c, v) == content' = [content EXCEPT ![c] = v]

MoveValue(to, from) == content' = [content EXCEPT ![to] = content[from], ![from] = Pending]

SwapValues(l, r) == content' = [content EXCEPT ![l] = content[r], ![r] = content[l]]

ValueNext ==
  \/ \E c \in Cell, v \in Datum \cup {Pending} : SetValue(c, v)
  \/ \E l, r \in Cell : MoveValue(l, r) \/ SwapValues(l, r)

ValueSpec == ValueInit /\ [][ValueNext]_content

=============================================================================
