------------------------------ MODULE CallChain ------------------------------
(***************************************************************************)
(* What coroutine_context promises its clients, with no stacks, saved      *)
(* registers or compare-and-swap: each thread runs a chain of coroutines,  *)
(* the innermost last.  Resuming a ready coroutine enters it at the end of *)
(* the chain of the calling thread; only the innermost coroutine leaves,   *)
(* to continue later or for good, and it leaves to the one that resumed    *)
(* it.  A coroutine is in at most one chain.                               *)
(***************************************************************************)
EXTENDS SequencesExt

CONSTANTS Thread, Coroutine

VARIABLES chain, state

vars == <<chain, state>>

Init ==
  /\ chain = [t \in Thread |-> <<>>]
  /\ state = [c \in Coroutine |-> "none"]

\* A coroutine without a runner ("idle") gets one before it can be resumed.
Make(c) ==
  /\ state[c] \in {"none", "idle"}
  /\ \E s \in {"idle", "ready"} : state' = [state EXCEPT ![c] = s]
  /\ UNCHANGED chain

Resume(t, c) ==
  /\ state[c] = "ready"
  /\ state' = [state EXCEPT ![c] = "active"]
  /\ chain' = [chain EXCEPT ![t] = Append(@, c)]

Leave(t) ==
  /\ chain[t] # <<>>
  /\ \E s \in {"ready", "done"} : state' = [state EXCEPT ![Last(chain[t])] = s]
  /\ chain' = [chain EXCEPT ![t] = Front(@)]

Next ==
  \/ \E c \in Coroutine : Make(c)
  \/ \E t \in Thread : Leave(t) \/ \E c \in Coroutine : Resume(t, c)

Spec == Init /\ [][Next]_vars
=============================================================================
