-------------------------- MODULE MCCoroutineContext --------------------------
(***************************************************************************)
(* The two implementations of coroutines for TLC: CoroutineContext and, in *)
(* a build with fibers, FiberContext.  Both implement CallChain.  The      *)
(* chain of a thread is read off the caller_ pointers, from the stack it   *)
(* executes on to its own.  A coroutine is in a chain from the jump into   *)
(* it to the jump out of it.                                               *)
(***************************************************************************)
EXTENDS FiberContext, Sequences, TLC

VARIABLE build   \* the implementation that the program is built with

mcVars == <<fiberVars, build>>

MCInit == FiberInit /\ build \in {"fcontext", "fiber"}

MCNext ==
  /\ \/ build = "fcontext" /\ Next /\ UNCHANGED jump_data
     \/ build = "fiber" /\ FiberNext
  /\ UNCHANGED build

MCSpec == MCInit /\ [][MCNext]_mcVars

RECURSIVE ChainTo(_)
ChainTo(f) == IF f \in Thread THEN <<>> ELSE Append(ChainTo(caller[f]), f)

Chain == [t \in Thread |-> ChainTo(on[t])]

InChain(c) == \E f \in Frame : pc[f] = "in_start" /\ arg[f] = c

State == [c \in Coroutine |->
  IF callee[c] = Null THEN "none"
  ELSE IF InChain(c) THEN "active"
  ELSE IF finished[c] THEN "done"
  ELSE IF runner[c] THEN "ready" ELSE "idle"]

Promise == INSTANCE CallChain WITH chain <- Chain, state <- State

\* start() and yield() are call and return: each thread's coroutines form a
\* stack, a coroutine is entered by one thread at a time and always leaves to
\* the stack it was resumed from.
CallDiscipline == Promise!Spec

Symmetry == Permutations(Thread) \cup Permutations(Coroutine)
=============================================================================
