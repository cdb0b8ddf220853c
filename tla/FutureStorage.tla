------------------------------ MODULE FutureStorage ------------------------------
(***************************************************************************)
(* The storages behind a future, a poller and a result                     *)
(* (include/libcopp/future/storage.h, poller.h, future.h).  All cells of a *)
(* behaviour have the same type, one of:                                   *)
(*   "void"     poll_storage_base<void>: a unique_ptr with a deleter that  *)
(*              does nothing, which points to itself when there is a value *)
(*   "small"    a trivially copyable object next to such a pointer, which  *)
(*              points to the object when it is the value                  *)
(*   "pointer"  a unique_ptr to an object on the heap                      *)
(*   "result"   result_base<TOK, TERR, false>: a success and an error, of  *)
(*              which mode_ selects one or none                            *)
(*   "plain"    result_base<TOK, TERR, true>: a union of the two           *)
(***************************************************************************)
EXTENDS Naturals, FiniteSets

CONSTANTS
  Cell,
  Datum,    \* values
  Block,    \* objects on the heap
  Zero,     \* what memset(0) leaves
  Pending   \* no value, a null pointer

ASSUME StorageAssumption ==
  /\ Pending \notin Cell \cup Block \cup Datum \cup {Zero}
  /\ Cell \cap Block = {}

Pollers == {"void", "small", "pointer"}
Results == {"result", "plain"}

VARIABLES
  type,
  first,   \* the object in the storage; the success of a result
  second,  \* where its pointer points: a cell (the storage itself), a block, or nowhere
  error,   \* the error of a result; a plain one has it in the place of `first'
  mode,    \* mode_ of a result
  heap     \* what is in the blocks in use

storageVars == <<type, first, second, error, mode, heap>>

StorageTypeOK ==
  /\ type \in Pollers \cup Results
  /\ first \in [Cell -> Datum \cup {Zero}]
  /\ second \in [Cell -> Cell \cup Block \cup {Pending}]
  /\ error \in [Cell -> Datum \cup {Zero}]
  /\ mode \in [Cell -> {"success", "error", "none"}]
  /\ heap \in [Block -> Datum \cup {Pending}]

\* A plain result has no constructor: what it is before it is made, nobody reads.
StorageInit ==
  /\ type \in Pollers \cup Results
  /\ first = [c \in Cell |-> Zero]
  /\ second = [c \in Cell |-> Pending]
  /\ error = [c \in Cell |-> Zero]
  /\ mode = [c \in Cell |-> "none"]
  /\ heap = [b \in Block |-> Pending]

IsReady(c) == IF type \in Pollers THEN second[c] # Pending ELSE mode[c] # "none"

\* unique_ptr::reset() and the block it deletes
Deleted(h, p) == [b \in Block |-> IF b = p THEN Pending ELSE h[b]]
Point(c, p) == second' = [second EXCEPT ![c] = p]

-----------------------------------------------------------------------------
(* poller and future *)

\* construct_storage(), by every setup_from() that is not a move
Construct(c, v) ==
  /\ type \in Pollers
  /\ \/ type = "void" /\ Point(c, c) /\ UNCHANGED <<first, heap>>
     \/ /\ type = "small" /\ Point(c, c)
        /\ first' = [first EXCEPT ![c] = v]
        /\ UNCHANGED heap
     \/ \E b \in Block :
          /\ type = "pointer" /\ heap[b] = Pending
          /\ Point(c, b)
          /\ heap' = [Deleted(heap, second[c]) EXCEPT ![b] = v]
          /\ UNCHANGED first
  /\ UNCHANGED <<type, error, mode>>

\* ... from an empty pointer, and reset(): the object in a small storage stays
ResetStorage(c, zeroed) ==
  /\ type \in Pollers
  /\ Point(c, Pending)
  /\ heap' = Deleted(heap, second[c])
  /\ first' = IF type = "small" /\ zeroed THEN [first EXCEPT ![c] = Zero] ELSE first
  /\ UNCHANGED <<type, error, mode>>

\* move_storage(): a pointer into the storage is made anew, one to the heap is given.
MovedPointer(to, from) == IF type = "pointer" \/ second[from] = Pending THEN second[from] ELSE to

MoveStorage(to, from) ==
  /\ type \in Pollers /\ to # from
  /\ second' = [second EXCEPT ![to] = MovedPointer(to, from), ![from] = Pending]
  /\ heap' = IF type = "pointer" THEN Deleted(heap, second[to]) ELSE heap
  /\ first' = CASE type # "small" -> first
                [] type = "small" /\ second[from] = Pending -> [first EXCEPT ![to] = Zero]
                [] OTHER -> [first EXCEPT ![to] = first[from]]
  /\ UNCHANGED <<type, error, mode>>

\* swap() of pollers: where the pointers point into the storages, they are left alone when
\* both or none have a value.  (MUTANT: the pointers are swapped)
SwappedPointer_AsItIs(l, r) == second[r]
SwappedPointer(l, r) ==
  CASE type = "pointer" \/ second[r] = Pending -> second[r]
    [] OTHER -> l

SwapStorages(l, r) ==
  /\ type \in Pollers /\ l # r
  /\ second' = [second EXCEPT ![l] = SwappedPointer(l, r), ![r] = SwappedPointer(r, l)]
  /\ first' = IF type = "small" THEN [first EXCEPT ![l] = first[r], ![r] = first[l]] ELSE first
  /\ UNCHANGED <<type, error, mode, heap>>

-----------------------------------------------------------------------------
(* result_base *)

\* construct_*(), make_*_base() and make_object(): the old one is destroyed first.
MakeSuccess(c, v) ==
  /\ type \in Results
  /\ first' = [first EXCEPT ![c] = v]
  /\ mode' = [mode EXCEPT ![c] = "success"]
  /\ error' = IF type = "plain" THEN [error EXCEPT ![c] = v] ELSE error
  /\ UNCHANGED <<type, second, heap>>

MakeError(c, v) ==
  /\ type \in Results
  /\ error' = [error EXCEPT ![c] = v]
  /\ mode' = [mode EXCEPT ![c] = "error"]
  /\ first' = IF type = "plain" THEN [first EXCEPT ![c] = v] ELSE first
  /\ UNCHANGED <<type, second, heap>>

ResetResult(c) ==
  /\ type = "result"
  /\ mode' = [mode EXCEPT ![c] = "none"]
  /\ UNCHANGED <<type, first, second, error, heap>>

Exchanged(f, l, r) == [f EXCEPT ![l] = f[r], ![r] = f[l]]

\* swap() of results, where the mode goes with the data.  A plain result swaps the
\* member in use, and with it the whole union where both have one size.
SwappedMode(l, r) == Exchanged(mode, l, r)

SwapResults(l, r) ==
  /\ type \in Results /\ l # r
  /\ type = "plain" => IsReady(l) /\ IsReady(r)
  /\ first' = Exchanged(first, l, r)
  /\ error' = Exchanged(error, l, r)
  /\ mode' = SwappedMode(l, r)
  /\ UNCHANGED <<type, second, heap>>

\* operator=(result_base&&) swaps and resets the other one; a plain result is copied.
MoveResult(to, from) ==
  /\ type = "result" /\ to # from
  /\ first' = Exchanged(first, to, from)
  /\ error' = Exchanged(error, to, from)
  /\ mode' = [SwappedMode(to, from) EXCEPT ![from] = "none"]
  /\ UNCHANGED <<type, second, heap>>

StorageNext ==
  \/ \E c \in Cell, v \in Datum : Construct(c, v) \/ MakeSuccess(c, v) \/ MakeError(c, v)
  \/ \E c \in Cell, zeroed \in BOOLEAN : ResetStorage(c, zeroed)
  \/ \E c \in Cell : ResetResult(c)
  \/ \E l, r \in Cell :
       MoveStorage(l, r) \/ SwapStorages(l, r) \/ MoveResult(l, r) \/ SwapResults(l, r)

StorageSpec == StorageInit /\ [][StorageNext]_storageVars

-----------------------------------------------------------------------------
(* Properties. *)

\* What data(), get_success() and get_error() lead to, and which of them may be called
Data(c) ==
  CASE type = "void" -> IF second[c] = c THEN Zero ELSE Pending
    [] type = "small" -> first[second[c]]
    [] type = "pointer" -> heap[second[c]]
    [] OTHER -> IF mode[c] = "error" THEN error[c] ELSE first[c]
Kind(c) == IF type \in Pollers THEN "success" ELSE mode[c]

Shown(c) == IF IsReady(c) THEN <<Kind(c), Data(c)>> ELSE Pending

Promised == INSTANCE FutureValue WITH
  Datum <- {"success", "error"} \X (Datum \cup {Zero}),
  content <- [c \in Cell |-> Shown(c)]

\* Every storage is a future: a value is neither lost nor duplicated, and no cell changes
\* with another one, when storages that point into themselves are moved and swapped
\* (storage.h:186-213), and when results with different modes are (storage.h:501).
ImplementsFuture == Promised!ValueSpec

=============================================================================
