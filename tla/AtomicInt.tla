-------------------------------- MODULE AtomicInt --------------------------------
(***************************************************************************)
(* util::lock::atomic_int_type (include/libcopp/utils/atomic_int_type.h):  *)
(* one cell, in each build of it.                                          *)
(*   "std"     std::atomic                                                 *)
(*   "atomic"  the __atomic builtins                                       *)
(*   "sync"    the __sync builtins, which have no exchange and no          *)
(*             compare_exchange: both are made of several accesses         *)
(*   "unsafe"  unsafe_int_type, a plain variable used by one thread only   *)
(* A step is one access to the cell.  Memory orders are not modelled.      *)
(***************************************************************************)
EXTENDS Integers

CONSTANTS
  Writer,   \* the threads
  Modulus,  \* 2^n, for a cell of n bits
  BitAnd(_, _), BitOr(_, _), BitXor(_, _)  \* on the bits of two values

Value == 0..(Modulus - 1)

ASSUME CellAssumption ==
  /\ Modulus \in Nat \ {0}
  /\ \A x, y \in Value : BitAnd(x, y) \in Value /\ BitOr(x, y) \in Value /\ BitXor(x, y) \in Value

Fetches == {"add", "sub", "and", "or", "xor"}
Compares == {"weak", "strong"}
Calls == Fetches \cup Compares \cup {"load", "store", "exchange"}

VARIABLES
  build,
  users,    \* the threads that use the cell
  data,     \* data_
  call,     \* of each thread: the call it is in
  arg,      \* and what it passed: the argument or `desired'
  expected, \* `expected', old_value, or what was read before it is changed
  at,       \* "idle", "start", "swap", "reload", "write"
  balance   \* history: what all calls together say they added to the cell

cellVars == <<build, users, data, call, arg, expected, at, balance>>

CellTypeOK ==
  /\ build \in {"std", "atomic", "sync", "unsafe"}
  /\ users \subseteq Writer
  /\ data \in Value /\ balance \in Value
  /\ call \in [Writer -> Calls]
  /\ arg \in [Writer -> Value] /\ expected \in [Writer -> Value]
  /\ at \in [Writer -> {"idle", "start", "swap", "reload", "write"}]

CellInit ==
  /\ build \in {"std", "atomic", "sync", "unsafe"}
  /\ users \in IF build = "unsafe" THEN {{t} : t \in Writer} ELSE {Writer}
  /\ data = 0 /\ balance = 0
  /\ call = [t \in Writer |-> "load"]
  /\ arg = [t \in Writer |-> 0]
  /\ expected = [t \in Writer |-> 0]
  /\ at = [t \in Writer |-> "idle"]

\* What the cell becomes: ++ and -- add and subtract 1, and nothing stops at the width.
Modified(op, old, a) ==
  CASE op = "add" -> (old + a) % Modulus
    [] op = "sub" -> (old + Modulus - a) % Modulus
    [] op = "and" -> BitAnd(old, a)
    [] op = "or" -> BitOr(old, a)
    [] op = "xor" -> BitXor(old, a)
    [] op = "load" -> old
    [] OTHER -> a

\* The call writes, and tells its caller that `old' was there before.
Write(t, old) ==
  /\ data' = Modified(call[t], old, arg[t])
  /\ balance' = (balance + Modified(call[t], old, arg[t]) + Modulus - old) % Modulus

Then(t, place) == at' = [at EXCEPT ![t] = place] /\ UNCHANGED <<call, arg>>

\* The caller has its answer, and what the call had is forgotten.
Answer(t) ==
  /\ at' = [at EXCEPT ![t] = "idle"]
  /\ call' = [call EXCEPT ![t] = "load"]
  /\ arg' = [arg EXCEPT ![t] = 0]
  /\ expected' = [expected EXCEPT ![t] = 0]

Call(t, op, a, e) ==
  /\ t \in users /\ at[t] = "idle"
  /\ call' = [call EXCEPT ![t] = op]
  /\ arg' = [arg EXCEPT ![t] = a]
  /\ expected' = [expected EXCEPT ![t] = e]
  /\ at' = [at EXCEPT ![t] = "start"]
  /\ UNCHANGED <<build, users, data, balance>>

\* load(), store() and fetch_*() are one access in every build with threads, and so is
\* exchange() where there is an instruction for it.
InOneStep(t) ==
  /\ at[t] = "start" /\ build # "unsafe"
  /\ call[t] \notin Compares
  /\ build = "sync" => call[t] # "exchange"
  /\ Write(t, data)
  /\ Answer(t)
  /\ UNCHANGED <<build, users>>

\* MUTANT: the value is stored whatever is there.
SameAsExpected_Any(t) == TRUE
SameAsExpected(t) == data = expected[t]

\* compare_exchange_weak() may fail for no reason, except with __sync; a failure tells
\* the caller what is there.
CompareInOneStep(t) ==
  /\ at[t] = "start" /\ build \in {"std", "atomic"}
  /\ call[t] \in Compares
  /\ \/ SameAsExpected(t) /\ Write(t, expected[t])
     \/ (SameAsExpected(t) => call[t] = "weak") /\ UNCHANGED <<data, balance>>
  /\ Answer(t)
  /\ UNCHANGED <<build, users>>

\* __sync_bool_compare_and_swap(), and after a failure one more access: `expected = data_'.
SyncCompare(t) ==
  /\ at[t] = "start" /\ build = "sync"
  /\ call[t] \in Compares
  /\ \/ SameAsExpected(t) /\ Write(t, expected[t]) /\ Answer(t)
     \/ ~SameAsExpected(t) /\ Then(t, "reload") /\ UNCHANGED <<data, balance, expected>>
  /\ UNCHANGED <<build, users>>

SyncReload(t) ==
  /\ at[t] = "reload"
  /\ Answer(t)
  /\ UNCHANGED <<build, users, data, balance>>

\* exchange() reads, swaps if nothing has changed, and starts over if something has.
SyncRead(t) ==
  /\ at[t] = "start" /\ build = "sync" /\ call[t] = "exchange"
  /\ expected' = [expected EXCEPT ![t] = data]
  /\ Then(t, "swap")
  /\ UNCHANGED <<build, users, data, balance>>

SyncSwap(t) ==
  /\ at[t] = "swap"
  /\ \/ SameAsExpected(t) /\ Write(t, expected[t]) /\ Answer(t)
     \/ ~SameAsExpected(t) /\ Then(t, "start") /\ UNCHANGED <<data, balance, expected>>
  /\ UNCHANGED <<build, users>>

\* unsafe_int_type reads and then writes.
UnsafeRead(t) ==
  /\ at[t] = "start" /\ build = "unsafe"
  /\ \/ call[t] \in Compares /\ ~SameAsExpected(t) /\ Answer(t)
     \/ /\ call[t] \in Compares => SameAsExpected(t)
        /\ expected' = [expected EXCEPT ![t] = data]
        /\ Then(t, "write")
  /\ UNCHANGED <<build, users, data, balance>>

UnsafeWrite(t) ==
  /\ at[t] = "write"
  /\ Write(t, expected[t])
  /\ Answer(t)
  /\ UNCHANGED <<build, users>>

Access(t) ==
  \/ InOneStep(t) \/ CompareInOneStep(t)
  \/ SyncCompare(t) \/ SyncReload(t) \/ SyncRead(t) \/ SyncSwap(t)
  \/ UnsafeRead(t) \/ UnsafeWrite(t)

CellNext ==
  \/ \E t \in Writer, op \in Calls :
       \E a \in IF op = "load" THEN {0} ELSE Value, e \in IF op \in Compares THEN Value ELSE {0} :
         Call(t, op, a, e)
  \/ \E t \in Writer : Access(t)

CellSpec == CellInit /\ [][CellNext]_cellVars

-----------------------------------------------------------------------------
(* Properties. *)

\* The cell is the sum, at its width, of what the calls say they changed it from and to:
\* each call returns what it really replaced, so no call's effect is lost in another's,
\* also where an exchange is a loop over compare-and-swap (atomic_int_type.h:431).
NothingLost == data = balance

=============================================================================
