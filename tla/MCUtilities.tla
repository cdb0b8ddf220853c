------------------------------- MODULE MCUtilities -------------------------------
(***************************************************************************)
(* The utilities that the rest is built on, for TLC.  They do not touch    *)
(* one another's state: a behaviour is one of one utility, while the       *)
(* others rest in their initial states.                                    *)
(***************************************************************************)
EXTENDS IdAllocator, SpinLock, IntrusivePtr, AtomicInt, FutureStorage, StackPool,
        StackAllocator, Bitwise, TLC

CONSTANTS h1, h2, h3, u1, u2, p1, p2, p3, m1, m2

\* Two threads: one with two holders; one with two pointers.
HolderOwner == h1 :> u1 @@ h2 :> u1 @@ h3 :> u2
VariableUser == p1 :> u1 @@ p2 :> u1 @@ p3 :> u2

\* Cells of two bits
AndBits(x, y) == x & y
OrBits(x, y) == x | y
XorBits(x, y) == x ^^ y

\* Pools: no limit but a number that is reached, a size limit with the collector
\* on a leash, pools with a minimum, and one that is collected by hand.
Plain == [gc_number |-> 0, max_number |-> 0, max_size |-> 0,
          min_number |-> 0, min_size |-> 0, auto_gc |-> TRUE]

Configs ==
  {[Plain EXCEPT !.max_number = 2],
   [Plain EXCEPT !.max_size = 5, !.gc_number = 1],
   [Plain EXCEPT !.min_number = 2],
   [Plain EXCEPT !.min_size = 6, !.min_number = 1],
   [Plain EXCEPT !.auto_gc = FALSE, !.gc_number = 2]}

\* Buffers of two and of three pages of 8; requests for a default and for an exact
\* stack, one that is too small and one that fills a buffer.
BufferSizes == m1 :> 16 @@ m2 :> 24

Requests ==
  {[stack_size |-> 0, private |-> 0, extra |-> 0],
   [stack_size |-> 5, private |-> 1, extra |-> 3],
   [stack_size |-> 11, private |-> 1, extra |-> 3],
   [stack_size |-> 15, private |-> 5, extra |-> 4]}

VARIABLE utility

IdsRun == utility = "ids" /\ Next /\ UNCHANGED <<lockVars, ptrVars, cellVars, storageVars, poolVars, stackVars>>
LockRuns == utility = "lock" /\ SpinNext /\ UNCHANGED <<vars, ptrVars, cellVars, storageVars, poolVars, stackVars>>
PtrRuns == utility = "pointer" /\ PtrNext /\ UNCHANGED <<vars, lockVars, cellVars, storageVars, poolVars, stackVars>>
CellRuns == utility = "cell" /\ CellNext /\ UNCHANGED <<vars, lockVars, ptrVars, storageVars, poolVars, stackVars>>
StorageRuns == utility = "storage" /\ StorageNext /\ UNCHANGED <<vars, lockVars, ptrVars, cellVars, poolVars, stackVars>>
PoolRuns ==
  utility = "pool" /\ PoolNext /\ UNCHANGED <<vars, lockVars, ptrVars, cellVars, storageVars, stackVars>>
StackRuns ==
  utility = "stack" /\ StackNext
    /\ UNCHANGED <<vars, lockVars, ptrVars, cellVars, storageVars, poolVars>>

UInit ==
  /\ utility \in {"ids", "lock", "pointer", "cell", "storage", "pool", "stack"}
  /\ Init /\ SpinInit /\ PtrInit /\ CellInit /\ StorageInit /\ PoolInit
  /\ StackInit
  /\ utility # "cell" => build = "std"
  /\ utility # "storage" => type = "void"
  /\ utility # "pool" => conf = [Plain EXCEPT !.max_number = 2] /\ stack_size = 1
  /\ utility # "stack" => kind = "malloc" /\ native = "fcontext"

UNext == (IdsRun \/ LockRuns \/ PtrRuns \/ CellRuns \/ StorageRuns \/ PoolRuns \/ StackRuns)
         /\ UNCHANGED utility

USpec == UInit /\ [][UNext]_<<utility, vars, lockVars, ptrVars, cellVars, storageVars, poolVars, stackVars>>

Symmetry == Permutations(Stack)
=============================================================================
