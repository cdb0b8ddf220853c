---------------------------- MODULE StackAllocator ----------------------------
(***************************************************************************)
(* Where the stack of a coroutine comes from (src/libcopp/stack/allocator  *)
(* and stack_traits) and what lies where in it                             *)
(* (coroutine_context_container.h and its fiber variant): at the top the   *)
(* private buffer, below it the container, below that what the client asked *)
(* room for, a task and its action, and below that the machine stack.      *)
(*                                                                         *)
(* A stack is a block, what one call of malloc() or mmap() returned or a   *)
(* buffer of the client, up to a size; sp is at its end.  A size near the  *)
(* largest size_t, at which rounding up would wrap, is not asked for.      *)
(***************************************************************************)
EXTENDS Integers, FiniteSets, FiniteSetsExt

CONSTANTS
  Allocator,   \* the clients' variables of type stack_allocator_memory
  Container,     \* coroutine containers
  Buffer, BufferSize,  \* the memory that clients attach
  Heap,        \* what malloc() and mmap() may return
  Page, Unit, StackUnit,   \* units of rounding
  Minimum, Maximum,        \* of a stack; MINSIGSTKSZ and RLIMIT_STACK
  ThisSize,    \* of a container
  Request,     \* the arguments of create()
  NoMemory

ASSUME StackAllocatorAssumption ==
  /\ BufferSize \in [Buffer -> Nat \ {0}]
  /\ {Page, Unit, StackUnit, Minimum, Maximum, ThisSize} \subseteq Nat \ {0}
  /\ Page % StackUnit = 0 /\ StackUnit % Unit = 0 /\ Minimum <= Maximum
  /\ Request \subseteq [stack_size : Nat, private : Nat, extra : Nat]
  /\ NoMemory \notin Buffer \cup Heap /\ Buffer \cap Heap = {}

VARIABLES
  kind,      \* the allocator that the containers are instantiated with
  native,    \* the build: "fcontext" or "fiber"
  attached,  \* start_ptr_, memory_size_ and is_used_ of each allocator
  kept,      \* ... and of the one in each container, alloc_
  context,   \* callee_stack_ of each container
  parts,     \* the sizes of the parts of each container's stack
  held       \* the size that the system holds mapped at each block

stackVars == <<kind, native, attached, kept, context, parts, held>>

Empty == [start |-> NoMemory, size |-> 0, used |-> FALSE]
Memory == [start : Buffer \cup {NoMemory}, size : Nat, used : BOOLEAN]

NoStack == [block |-> NoMemory, size |-> 0]
NoParts == [private |-> 0, object |-> 0, offset |-> 0]

StackTypeOK ==
  /\ kind \in {"memory", "malloc", "posix"}
  /\ native \in {"fcontext", "fiber"}
  /\ attached \in [Allocator -> Memory]
  /\ kept \in [Container -> Memory]
  /\ context \in [Container -> [block : Buffer \cup Heap \cup {NoMemory}, size : Nat]]
  /\ parts \in [Container -> [private : Nat, object : Nat, offset : Nat]]
  /\ held \in [Heap -> Nat]

StackInit ==
  /\ kind \in {"memory", "malloc", "posix"}
  /\ native \in {"fcontext", "fiber"}
  /\ attached = [a \in Allocator |-> Empty]
  /\ kept = [c \in Container |-> Empty]
  /\ context = [c \in Container |-> NoStack]
  /\ parts = [c \in Container |-> NoParts]
  /\ held = [b \in Heap |-> 0]

Live(c) == context[c] # NoStack
InUse(b) == \E c \in Container : context[c].block = b

-----------------------------------------------------------------------------
(* Sizes *)

Aligned(size, unit) == ((size + unit - 1) \div unit) * unit

DefaultSize == Min({8 * Minimum, Maximum})

\* What allocate() gets from the system, or takes of the attached memory
Guard == IF kind = "posix" THEN Page ELSE 0

Taken(size, memory) ==
  LET clamped == Min({Max({size, Minimum}), Maximum})
  IN  Aligned(IF kind = "memory" THEN Min({clamped, memory}) ELSE clamped, Page) + Guard

\* The parts above the machine stack, and where it begins (MUTANT: the private
\* buffer is forgotten).
Private(request) == Aligned(request.private, Unit)
Below(request) == Aligned(request.extra, Unit) + Aligned(ThisSize, Unit)

StackOffset_NoPrivate(private, object) == Aligned(object, StackUnit)
StackOffset(private, object) ==
  IF native = "fiber" THEN private + object ELSE Aligned(private + object, StackUnit)

Parts(request) ==
  [private |-> Private(request), object |-> Below(request),
   offset |-> StackOffset(Private(request), Below(request))]

\* The size that is asked for: a fiber has its machine stack elsewhere.
Asked(request) ==
  CASE native = "fiber" -> Private(request) + Below(request)
    [] native = "fcontext" /\ request.stack_size = 0 -> DefaultSize
    [] OTHER -> request.stack_size

LeavesRoom(request) == Asked(request) > Private(request) + Below(request)

-----------------------------------------------------------------------------
(* stack_allocator_memory *)

\* The client contract of attach(): the memory is not in use, nor attached to
\* another allocator that would hand it out.
Attach(a, b) ==
  /\ kind = "memory"
  /\ ~InUse(b)
  /\ \A x \in Allocator \ {a} : attached[x].start = b => attached[x].used
  /\ attached' = [attached EXCEPT ![a] = [start |-> b, size |-> BufferSize[b], used |-> FALSE]]
  /\ UNCHANGED <<kind, native, kept, context, parts, held>>

\* An allocator whose memory is in use is not moved.
Movable(memory) == ~memory.used

Move(a, x) ==
  /\ a # x /\ Movable(attached[x])
  /\ attached' = [attached EXCEPT ![a] = attached[x], ![x] = attached[a]]
  /\ UNCHANGED <<kind, native, kept, context, parts, held>>

\* The memory is handed out once (MUTANT: as often as it is asked for).
HandsOut_Used(memory) == memory.start # NoMemory
HandsOut(memory) == memory.start # NoMemory /\ ~memory.used

\* allocate() by the allocator a, if there is one, at block b
MemoryTaken(a, b) ==
  /\ attached[a].start = b /\ HandsOut(attached[a])
  /\ LET inUse == [attached[a] EXCEPT !.used = TRUE]
     IN  attached' = [attached EXCEPT ![a] = IF Movable(inUse) THEN Empty ELSE inUse]
  /\ UNCHANGED held

\* A block of the system is taken for a stack: with malloc(), or with mmap() and
\* the guard page in it.
SystemTaken(b, size) ==
  /\ b \in Heap /\ held[b] = 0
  /\ held' = [held EXCEPT ![b] = size]
  /\ UNCHANGED attached

-----------------------------------------------------------------------------
(* The container *)

\* A container is placed in its stack, and with the stack the allocator is moved
\* into it, which leaves one in use where it is.
Placed(c, a, b, request) ==
  LET size == Taken(Asked(request), attached[a].size)
      needed == Parts(request)
      inUse == [attached[a] EXCEPT !.used = TRUE]
  IN  /\ ~Live(c)
      /\ size > needed.offset
      /\ IF kind = "memory" THEN MemoryTaken(a, b) ELSE SystemTaken(b, size)
      /\ context' = [context EXCEPT ![c] = [block |-> b, size |-> size]]
      /\ parts' = [parts EXCEPT ![c] = needed]
      /\ kept' = [kept EXCEPT ![c] =
                    IF kind = "memory" /\ Movable(inUse) THEN inUse ELSE Empty]
      /\ UNCHANGED <<kind, native>>

CreateContainer(c, a, b, request) ==
  native = "fcontext" /\ LeavesRoom(request) /\ Placed(c, a, b, request)

\* A container of a fiber allocates no more than its parts.
CreateFiberContainer(c, a, b, request) == native = "fiber" /\ Placed(c, a, b, request)

\* What the parts leave is too small: the container is released at once.  Memory
\* of the system is given back, that of a buffer stays in use with the allocator
\* of the client.
CreateFails(a, b, request) ==
  /\ native = "fcontext" => LeavesRoom(request)
  /\ Taken(Asked(request), attached[a].size) <= Parts(request).offset
  /\ kind = "memory" /\ MemoryTaken(a, b)
  /\ UNCHANGED <<kind, native, kept, context, parts>>

\* intrusive_ptr_release() of the last pointer: a copy of the allocator and of the
\* stack context outlive the container (MUTANT: the size without the guard page).
Returned_Unguarded(c) == context[c].size - Guard
Returned(c) == context[c].size

ReleaseContainer(c) ==
  /\ Live(c)
  /\ LET b == context[c].block
     IN  held' = [x \in Heap |-> IF x = b THEN held[x] - Returned(c) ELSE held[x]]
  /\ context' = [context EXCEPT ![c] = NoStack]
  /\ parts' = [parts EXCEPT ![c] = NoParts]
  /\ kept' = [kept EXCEPT ![c] = Empty]
  /\ UNCHANGED <<kind, native, attached>>

-----------------------------------------------------------------------------

StackNext ==
  \/ \E a \in Allocator, b \in Buffer : Attach(a, b)
  \/ \E a, x \in Allocator : Move(a, x)
  \/ \E c \in Container, a \in Allocator, b \in Buffer \cup Heap, request \in Request :
       CreateContainer(c, a, b, request) \/ CreateFiberContainer(c, a, b, request)
  \/ \E a \in Allocator, b \in Buffer, request \in Request : CreateFails(a, b, request)
  \/ \E c \in Container : ReleaseContainer(c)

StackSpec == StackInit /\ [][StackNext]_stackVars

-----------------------------------------------------------------------------
(* Properties *)

\* allocate() does not hand out more than the attached memory: the assertion at
\* stack_allocator_memory.cpp:104, which fails for a size that no page divides.
WithinMemory ==
  \A c \in Container :
    context[c].block \in Buffer => context[c].size <= BufferSize[context[c].block]

\* The parts of a stack lie below one another in its block, the machine stack
\* above the guard page; no two coroutines share a block; and the system holds
\* the stacks that are in use, each with its size, and nothing else.
StacksFit ==
  /\ WithinMemory
  /\ \A c \in Container :
       Live(c) =>
         LET stack == context[c]
             p == parts[c]
         IN  /\ p.private + p.object <= p.offset
             /\ p.offset + Guard <= stack.size
             /\ stack.block \in Heap => held[stack.block] = stack.size
             /\ \A d \in Container \ {c} : context[d].block # stack.block
  /\ \A b \in Heap : held[b] # 0 => InUse(b)
=============================================================================
