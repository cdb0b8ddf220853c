------------------------------ MODULE StackPool ------------------------------
(***************************************************************************)
(* copp::stack_pool (include/libcopp/stack/stack_pool.h): a cache of       *)
(* coroutine stacks in front of an allocator, with limits on what is used  *)
(* and a collector that gives half of the free stacks back.                *)
(*                                                                         *)
(* A stack context is [sp, size]; the origin allocator is the function     *)
(* mapped, the size it holds mapped at each address (0: none).  Sizes are  *)
(* counted in pages.  Everything under action_lock_ is one step; what gc() *)
(* reads before it takes the lock is read in two steps, the used limits    *)
(* and the free ones.  The setters other than set_stack_size() are part    *)
(* of the initial choice of conf.                                          *)
(***************************************************************************)
EXTENDS Integers, Sequences, FiniteSets, FiniteSetsExt, SequencesExt

CONSTANTS
  Client,     \* the threads that use the pool
  Stack,      \* addresses the origin allocator may return
  Sizes,      \* stack sizes set_stack_size() is called with
  Offset,     \* pages the origin allocator adds (the guard page of mmap)
  Config,     \* the settings the pool may be given
  MaxResize   \* bound: calls of set_stack_size() and clear()

Setting == [gc_number : Nat, max_number : Nat, max_size : Nat,
            min_number : Nat, min_size : Nat, auto_gc : BOOLEAN]

ASSUME StackPoolAssumption ==
  /\ Sizes \subseteq Nat \ {0}
  /\ Offset \in Nat
  /\ Config \subseteq Setting
  /\ MaxResize \in Nat

Context == [sp : Stack, size : Nat \ {0}]

VARIABLES
  conf,          \* conf_, the settings that stay
  stack_size,    \* conf_.stack_size
  stack_offset,  \* conf_.stack_offset
  used_number, used_size, free_number, free_size,  \* limits_
  free_list,     \* free_list_
  used,          \* the contexts the clients hold
  mapped,        \* what the origin allocator holds
  freed_twice,   \* history: addresses given back that were not mapped
  pool_pc,            \* where each thread is
  used_seen,          \* the used limits gc() has read
  new_size,      \* the argument of set_stack_size()
  resizes,       \* used up bound
  destroyed

limits == <<used_number, used_size, free_number, free_size>>
poolVars == <<conf, stack_size, stack_offset, limits, free_list, used, mapped,
          freed_twice, pool_pc, used_seen, new_size, resizes, destroyed>>

PoolTypeOK ==
  /\ conf \in Config
  /\ stack_size \in Sizes
  /\ stack_offset \in {0, Offset}
  /\ limits \in Nat \X Nat \X Nat \X Nat
  /\ free_list \in Seq(Context)
  /\ used \subseteq Context
  /\ mapped \in [Stack -> Nat]
  /\ freed_twice \subseteq Stack
  /\ pool_pc \in [Client -> {"client", "gc_used", "gc_free", "gc_lock", "resize"}]
  /\ used_seen \in [Client -> Nat \X Nat]
  /\ new_size \in [Client -> Sizes \cup {0}]
  /\ resizes \in 0..MaxResize
  /\ destroyed \in BOOLEAN

PoolInit ==
  /\ conf \in Config
  /\ stack_size \in Sizes
  /\ stack_offset = 0
  /\ used_number = 0 /\ used_size = 0 /\ free_number = 0 /\ free_size = 0
  /\ free_list = <<>>
  /\ used = {}
  /\ mapped = [s \in Stack |-> 0]
  /\ freed_twice = {}
  /\ pool_pc = [t \in Client |-> "client"]
  /\ used_seen = [t \in Client |-> <<0, 0>>]
  /\ new_size = [t \in Client |-> 0]
  /\ resizes = 0
  /\ destroyed = FALSE

AtPool(t, label) == pool_pc[t] = label /\ ~destroyed
GotoPool(t, label) == pool_pc' = [pool_pc EXCEPT ![t] = label]

\* alloc_.deallocate() of each context of S.
GiveBack(S) ==
  LET sps == {c.sp : c \in S}
  IN  /\ mapped' = [s \in Stack |-> IF s \in sps THEN 0 ELSE mapped[s]]
      /\ freed_twice' = freed_twice \cup {s \in sps : mapped[s] = 0}

\* The free limits after one context left a list in which `left' remain.
Dropped(free, c, left) ==
  [number |-> IF free.number > 0 THEN free.number - 1 ELSE left,
   size |-> IF free.size >= c.size THEN free.size - c.size ELSE 0]

Free == [number |-> free_number, size |-> free_size]
SetFree(free) == free_number' = free.number /\ free_size' = free.size

-----------------------------------------------------------------------------
(* allocate() *)

Use(c) ==
  /\ used' = used \cup {c}
  /\ used_number' = used_number + 1
  /\ used_size' = used_size + c.size

Refused ==
  \/ conf.max_number # 0 /\ used_number >= conf.max_number
  \/ conf.max_size # 0 /\ used_size + stack_size > conf.max_size

\* Pop the context at the end of the list (MUTANT: the one at the front).
Popped_Front(list) == Tail(list)
Popped(list) == Front(list)

LargeEnough(c) == c.size >= stack_size

\* The stack that was freed last is used again ...
Reuse(t) ==
  /\ AtPool(t, "client")
  /\ ~Refused
  /\ free_list # <<>>
  /\ LargeEnough(Last(free_list))
  /\ Use(Last(free_list))
  /\ SetFree(Dropped(Free, Last(free_list), Len(free_list) - 1))
  /\ free_list' = Popped(free_list)
  /\ UNCHANGED <<conf, stack_size, stack_offset, mapped, freed_twice, pool_pc, used_seen, new_size, resizes, destroyed>>

\* ... or, when there is none or it is too small now, which drops it from the
\* list, one of the origin allocator, which may fail.
PopSmall ==
  \/ /\ free_list = <<>>
     /\ UNCHANGED <<free_list, free_number, free_size>>
  \/ /\ free_list # <<>>
     /\ ~LargeEnough(Last(free_list))
     /\ SetFree(Dropped(Free, Last(free_list), Len(free_list) - 1))
     /\ free_list' = Popped(free_list)

Allocate(t) ==
  /\ AtPool(t, "client")
  /\ ~Refused
  /\ PopSmall
  /\ \/ \E s \in {x \in Stack : mapped[x] = 0} :
          LET c == [sp |-> s, size |-> stack_size + Offset]
          IN  /\ mapped' = [mapped EXCEPT ![s] = c.size]
              /\ Use(c)
              /\ stack_offset' = c.size - stack_size
     \/ UNCHANGED <<mapped, used, used_number, used_size, stack_offset>>
  /\ UNCHANGED <<conf, stack_size, freed_twice, pool_pc, used_seen, new_size, resizes, destroyed>>

-----------------------------------------------------------------------------
(* deallocate() *)

Fits(c) == c.size = stack_size + stack_offset

\* MUTANT: the stacks are not counted.
Unused_Size(c) ==
  /\ used' = used \ {c}
  /\ used_size' = IF used_size >= c.size THEN used_size - c.size ELSE 0
  /\ UNCHANGED used_number
Unused(c) ==
  /\ used' = used \ {c}
  /\ used_size' = IF used_size >= c.size THEN used_size - c.size ELSE 0
  /\ used_number' = IF used_number > 0 THEN used_number - 1 ELSE used_number

Deallocate(t, c) ==
  /\ AtPool(t, "client")
  /\ Unused(c)
  /\ IF Fits(c)
     THEN /\ free_list' = Append(free_list, c)
          /\ SetFree([number |-> free_number + 1, size |-> free_size + c.size])
          /\ UNCHANGED <<mapped, freed_twice>>
     ELSE /\ GiveBack({c})
          /\ UNCHANGED <<free_list, free_number, free_size>>
  /\ GotoPool(t, IF conf.auto_gc THEN "gc_used" ELSE "client")
  /\ UNCHANGED <<conf, stack_size, stack_offset, used_seen, new_size, resizes, destroyed>>

-----------------------------------------------------------------------------
(* gc() *)

Gc(t) ==
  /\ AtPool(t, "client")
  /\ GotoPool(t, "gc_used")
  /\ UNCHANGED <<conf, stack_size, stack_offset, limits, free_list, used, mapped,
                 freed_twice, used_seen, new_size, resizes, destroyed>>

GcReadUsed(t) ==
  /\ AtPool(t, "gc_used")
  /\ used_seen' = [used_seen EXCEPT ![t] = <<used_number, used_size>>]
  /\ GotoPool(t, "gc_free")
  /\ UNCHANGED <<conf, stack_size, stack_offset, limits, free_list, used, mapped,
                 freed_twice, new_size, resizes, destroyed>>

\* More is used than free, or the pool is not larger than it is meant to be.
NothingToCollect(number, size) ==
  \/ size >= free_size /\ number >= free_number
  \/ /\ conf.min_size # 0 \/ conf.min_number # 0
     /\ conf.min_size = 0 \/ size + free_size <= conf.min_size
     /\ conf.min_number = 0 \/ free_number + number <= conf.min_number

GcReadFree(t) ==
  /\ AtPool(t, "gc_free")
  /\ GotoPool(t, IF NothingToCollect(used_seen[t][1], used_seen[t][2]) THEN "client" ELSE "gc_lock")
  /\ UNCHANGED <<conf, stack_size, stack_offset, limits, free_list, used, mapped,
                 freed_twice, used_seen, new_size, resizes, destroyed>>

\* What stays free of n stacks or pages.
Kept(n) == n \div 2

\* n contexts are popped from the front.
Collected(list, n) == SubSeq(list, n + 1, Len(list))

\* The free limits after n contexts were popped from the front
FreeAfter ==
  LET after[n \in 0..Len(free_list)] ==
        IF n = 0 THEN Free ELSE Dropped(after[n - 1], free_list[n], Len(free_list) - n)
  IN  after

\* Stacks are given back from the front, the oldest first, until both limits are
\* halved, the list is empty or gc_number stacks went.
GcCollect(t) ==
  LET len == Len(free_list)
      after == FreeAfter
      More(n) == after[n].size > Kept(free_size) \/ after[n].number > Kept(free_number)
      Stop(n) == n = len \/ ~More(n) \/ (n > 0 /\ n = conf.gc_number)
      count == Min({n \in 0..len : Stop(n)})
      emptied == More(count) /\ ~(count > 0 /\ count = conf.gc_number)
  IN  /\ AtPool(t, "gc_lock")
      /\ GiveBack({free_list[i] : i \in 1..count})
      /\ free_list' = Collected(free_list, count)
      /\ SetFree(IF emptied THEN [number |-> 0, size |-> 0] ELSE after[count])
      /\ GotoPool(t, "client")
      /\ UNCHANGED <<conf, stack_size, stack_offset, used_number, used_size, used,
                     used_seen, new_size, resizes, destroyed>>

-----------------------------------------------------------------------------
(* clear(), set_stack_size() and the destructor *)

\* clear() gives every free stack back and leaves free_list_ as it is.
ClearList ==
  /\ SetFree([number |-> 0, size |-> 0])
  /\ GiveBack(ToSet(free_list))
  /\ UNCHANGED <<free_list, used_number, used_size>>

Clear(t) ==
  /\ AtPool(t, "client")
  /\ resizes < MaxResize
  /\ resizes' = resizes + 1
  /\ ClearList
  /\ UNCHANGED <<conf, stack_size, stack_offset, used, pool_pc, used_seen, new_size, destroyed>>

SetStackSize(t, size) ==
  /\ AtPool(t, "client")
  /\ resizes < MaxResize
  /\ resizes' = resizes + 1
  /\ size # stack_size
  /\ ClearList
  /\ new_size' = [new_size EXCEPT ![t] = size]
  /\ GotoPool(t, "resize")
  /\ UNCHANGED <<conf, stack_size, stack_offset, used, used_seen, destroyed>>

StoreStackSize(t) ==
  /\ AtPool(t, "resize")
  /\ stack_size' = new_size[t]
  /\ GotoPool(t, "client")
  /\ UNCHANGED <<conf, stack_offset, limits, free_list, used, mapped, freed_twice,
                 used_seen, new_size, resizes, destroyed>>

\* Whoever holds a stack holds the pool, and so does the thread that is in a
\* call: stack_allocator_pool has a shared_ptr to it.
Destroy ==
  /\ ~destroyed
  /\ used = {}
  /\ \A t \in Client : AtPool(t, "client")
  /\ ClearList
  /\ destroyed' = TRUE
  /\ UNCHANGED <<conf, stack_size, stack_offset, used, pool_pc, used_seen, new_size, resizes>>

-----------------------------------------------------------------------------

PoolStep(t) ==
  \/ Reuse(t) \/ Allocate(t)
  \/ \E c \in used : Deallocate(t, c)
  \/ Gc(t) \/ GcReadUsed(t) \/ GcReadFree(t) \/ GcCollect(t)
  \/ StoreStackSize(t)

Configure(t) == Clear(t) \/ \E size \in Sizes : SetStackSize(t, size)

Destroyed == destroyed /\ UNCHANGED poolVars

\* The client contract: the pool is configured while nothing is cached, and not by two
\* threads at once.
MayConfigure == free_list = <<>> /\ \A t \in Client : pool_pc[t] # "resize"

PoolNext ==
  \/ \E t \in Client : PoolStep(t) \/ (MayConfigure /\ Configure(t))
  \/ Destroy
  \/ Destroyed

PoolSpec == PoolInit /\ [][PoolNext]_poolVars

\* A pool that is configured at any time.
ResizeNext == (\E t \in Client : PoolStep(t) \/ Configure(t)) \/ Destroy \/ Destroyed

ResizeSpec == PoolInit /\ [][ResizeNext]_poolVars

-----------------------------------------------------------------------------
(* Properties *)

\* What is used stays within the maximum; the size may exceed it by the pages the
\* origin allocator adds, because the check counts stack_size alone.
WithinMax ==
  /\ conf.max_number # 0 => used_number <= conf.max_number
  /\ conf.max_size # 0 => used_size <= conf.max_size + Offset

\* The pages of a set of stacks
Pages(S) == MapThenSumSet(LAMBDA c : c.size, S)

\* limits_ say exactly what is used and what is cached, however allocation,
\* deallocation and collection interleave, and although every counter of them
\* is saturating; and the configured limits hold.
LimitsExact ==
  ~destroyed =>
    /\ WithinMax
    /\ used_number = Cardinality(used)
    /\ used_size = Pages(used)
    /\ free_number = Len(free_list)
    /\ free_size = Pages(ToSet(free_list))

\* A stack that a client holds is mapped, with its size, and is neither cached
\* nor handed to another client; and no stack is given back twice.
UsedIsLive ==
  /\ freed_twice = {}
  /\ \A c \in used : mapped[c.sp] = c.size
  /\ \A c, d \in used : c.sp = d.sp => c = d
  /\ \A c \in used : \A i \in DOMAIN free_list : free_list[i].sp # c.sp

\* A stack that is mapped and that neither a client nor the pool knows of.
Lost(s) ==
  /\ mapped[s] # 0
  /\ \A c \in used : c.sp # s
  /\ destroyed \/ \A i \in DOMAIN free_list : free_list[i].sp # s

\* No stack gets lost, but a cached one that has become too small: allocate()
\* takes it off the list and does not give it back.
NothingLeaks == [][\A s \in Stack : Lost(s)' => Lost(s) \/ mapped[s] < stack_size]_poolVars
=============================================================================
