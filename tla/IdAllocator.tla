----------------------------- MODULE IdAllocator -----------------------------
(***************************************************************************)
(* copp::util::uint64_id_allocator                                         *)
(* (src/libcopp/utils/uint64_id_allocator.cpp): the ids of tasks.  A       *)
(* process wide atomic word holds a second and a sequence number in it;    *)
(* a thread takes a base from it, by compare-and-swap, and counts a block  *)
(* of ids from each base on its own.                                       *)
(*                                                                         *)
(* The word is the number second * SeqCount + sequence and an id is        *)
(* base * BlockSize + n, with the powers of two of the code as constants.  *)
(* Each load, CAS and reading of the clock is one step; the thread local   *)
(* part of a call is one step.                                             *)
(***************************************************************************)
EXTENDS Integers, FiniteSets

CONSTANTS
  Thread,
  SeqCount,   \* 2^24, sequence numbers in a second
  BlockSize,  \* 2^5, ids counted from one base
  MaxClock    \* bound: seconds on the clock, which starts in 2020

ASSUME IdAssumption ==
  /\ SeqCount \in Nat /\ SeqCount > 1
  /\ BlockSize \in Nat \ {0}
  /\ MaxClock \in Nat \ {0}

VARIABLES
  seq_alloc,   \* the atomic word
  clock,       \* time(nullptr), from 2020-01-01
  base, inner_seq,  \* tls_cache of each thread
  pc,          \* where each thread is in allocate()
  res,         \* the value of seq_alloc it has loaded
  now_time,    \* the second it has read
  issued,      \* history: the ids allocate() returned
  served       \* history: how many

vars == <<seq_alloc, clock, base, inner_seq, pc, res, now_time, issued, served>>

TypeOK ==
  /\ seq_alloc \in Nat
  /\ clock \in 1..MaxClock
  /\ base \in [Thread -> Nat]
  /\ inner_seq \in [Thread -> 0..BlockSize]
  /\ pc \in [Thread -> {"call", "load", "clock", "time", "bump"}]
  /\ res \in [Thread -> Nat]
  /\ now_time \in [Thread -> 0..MaxClock]
  /\ issued \subseteq Nat
  /\ served \in Nat

Init ==
  /\ seq_alloc = 0
  /\ clock = 1
  /\ base = [t \in Thread |-> 0]
  /\ inner_seq = [t \in Thread |-> 0]
  /\ pc = [t \in Thread |-> "call"]
  /\ res = [t \in Thread |-> 0]
  /\ now_time = [t \in Thread |-> 0]
  /\ issued = {}
  /\ served = 0

At(t, label) == pc[t] = label
Goto(t, label) == pc' = [pc EXCEPT ![t] = label]

TimePart(word) == word \div SeqCount

-----------------------------------------------------------------------------
(* allocate() *)

BlockLeft(t) == base[t] # 0 /\ inner_seq[t] < BlockSize

Return(t) ==
  LET id == base[t] * BlockSize + inner_seq[t]
  IN  /\ At(t, "call")
      /\ BlockLeft(t)
      /\ inner_seq' = [inner_seq EXCEPT ![t] = @ + 1]
      /\ issued' = issued \cup {id}
      /\ served' = served + 1
      /\ UNCHANGED <<seq_alloc, clock, base, pc, res, now_time>>

Refill(t) ==
  /\ At(t, "call")
  /\ ~BlockLeft(t)
  /\ Goto(t, "load")
  /\ UNCHANGED <<seq_alloc, clock, base, inner_seq, res, now_time, issued, served>>

-----------------------------------------------------------------------------
(* allocate_id_by_atomic() *)

\* A sequence number that would carry into the second asks for a new second, and
\* so does the first call of all.
NewSecond(word) == TimePart(word) = 0 \/ TimePart(word + 1) # TimePart(word)

Load(t) ==
  /\ At(t, "load")
  /\ res' = [res EXCEPT ![t] = seq_alloc]
  /\ Goto(t, IF NewSecond(seq_alloc) THEN "clock" ELSE "bump")
  /\ UNCHANGED <<seq_alloc, clock, base, inner_seq, now_time, issued, served>>

\* The clock is read until it shows another second than the word loaded.
Awaited(t) == clock # TimePart(res[t])

ReadClock(t) ==
  /\ At(t, "clock")
  /\ Awaited(t)
  /\ now_time' = [now_time EXCEPT ![t] = clock]
  /\ Goto(t, "time")
  /\ UNCHANGED <<seq_alloc, clock, base, inner_seq, res, issued, served>>

\* compare_exchange: the base is the new word, or the loop starts over
\* (MUTANT: store without comparing).
Swap_Blindly(t, word) == seq_alloc' = word /\ base' = [base EXCEPT ![t] = word] /\ Goto(t, "call")
Swap(t, word) ==
  \/ /\ seq_alloc = res[t]
     /\ seq_alloc' = word
     /\ base' = [base EXCEPT ![t] = word]
     /\ Goto(t, "call")
  \/ /\ seq_alloc # res[t]
     /\ Goto(t, "load")
     /\ UNCHANGED <<seq_alloc, base>>

\* A new base is counted from its beginning.  (The count is not read meanwhile.)
SwapTime(t) ==
  /\ At(t, "time")
  /\ Swap(t, now_time[t] * SeqCount)
  /\ inner_seq' = [inner_seq EXCEPT ![t] = 0]
  /\ UNCHANGED <<clock, res, now_time, issued, served>>

\* The weak form may also fail when the word did not change.
SwapNext(t) ==
  /\ At(t, "bump")
  /\ \/ Swap(t, res[t] + 1)
     \/ Goto(t, "load") /\ UNCHANGED <<seq_alloc, base>>
  /\ inner_seq' = [inner_seq EXCEPT ![t] = 0]
  /\ UNCHANGED <<clock, res, now_time, issued, served>>

-----------------------------------------------------------------------------

Tick ==
  /\ clock < MaxClock
  /\ clock' = clock + 1
  /\ UNCHANGED <<seq_alloc, base, inner_seq, pc, res, now_time, issued, served>>

Step(t) ==
  \/ Return(t) \/ Refill(t) \/ Load(t) \/ ReadClock(t) \/ SwapTime(t) \/ SwapNext(t)

\* The bound: the ids of the last second are used up.
TimeIsUp == clock = MaxClock /\ UNCHANGED vars

Next == (\E t \in Thread : Step(t)) \/ Tick \/ TimeIsUp

Spec == Init /\ [][Next]_vars

-----------------------------------------------------------------------------
(* Properties *)

\* No id is returned twice, by one thread or by two, whatever the threads do
\* between their loads and their swaps, and when the sequence numbers of a second
\* run out: an id more is returned by each call.
IdsAreUnique == Cardinality(issued) = served

\* The word never runs ahead of the clock, so the next second is always fresh.
WordBehindClock == TimePart(seq_alloc) <= clock
=============================================================================
