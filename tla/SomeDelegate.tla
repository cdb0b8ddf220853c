----------------------------- MODULE SomeDelegate -----------------------------
(***************************************************************************)
(* some(), any() and all() (include/libcopp/coroutine/algorithm.h): a      *)
(* callable that ends when enough of the futures it was given are ready.   *)
(* some_delegate_base (callable_promise.h) adds the one coroutine to the   *)
(* callers of each pending future and then counts how often it is resumed. *)
(*                                                                         *)
(* A future is here what is_pending() says of it and whether it has        *)
(* resumed its callers: one that was killed is not pending any more while  *)
(* it still runs.  All of it is one thread; the steps are the stretches    *)
(* between two resumptions of the coroutine.                               *)
(***************************************************************************)
EXTENDS Naturals, FiniteSets

CONSTANTS
  Future,
  MaxCount,         \* bound: the count asked for; all() asks for every future
  MaxGiven,         \* bound: what the output already holds from an earlier call
  ReadyAtEntry,     \* client contract if FALSE: see Fits
  InlineCallbacks,  \* may the callback of a generator set its value at once?
  MayKill           \* may the futures and the coroutine be killed?

ASSUME SomeAssumption ==
  /\ IsFiniteSet(Future) /\ MaxCount \in Nat \ {0} /\ MaxCount >= Cardinality(Future)
  /\ MaxGiven \in Nat
  /\ ReadyAtEntry \in BOOLEAN /\ InlineCallbacks \in BOOLEAN /\ MayKill \in BOOLEAN

RUNNING == 2
DONE == 3
KILLED == 5

VARIABLES
  future,         \* of each future: "pending", "exiting" or "over"
  registered,     \* the futures that have the coroutine among their callers
  pending, ready, \* the lists of the context
  ready_bound, scan_bound,
  result,         \* status of the context
  caller_handle,  \* is it set?
  promise,        \* status of the coroutine itself
  copy_pending,   \* what await_suspend() has yet to register at
  pc,             \* where the coroutine is
  count           \* what was asked for

ctxVars == <<pending, ready, ready_bound, scan_bound, result, caller_handle>>
vars == <<future, registered, ctxVars, promise, copy_pending, pc, count>>

TypeOK ==
  /\ future \in [Future -> {"pending", "exiting", "over"}]
  /\ registered \subseteq Future
  /\ pending \subseteq Future /\ ready \subseteq Future \ pending
  /\ ready_bound \in 0..MaxCount
  /\ scan_bound \in 0..Cardinality(Future) + 1
  /\ result \in {RUNNING, DONE, KILLED}
  /\ caller_handle \in BOOLEAN
  /\ promise \in {RUNNING, DONE, KILLED}
  /\ copy_pending \subseteq Future
  /\ pc \in {"loop", "suspended", "resumed", "leave", "final"}
  /\ count \in 0..MaxCount

IsPending(f) == future[f] = "pending"
Pending == {f \in Future : IsPending(f)}

\* The count is no more than what is there.  (MUTANT: the count itself)
Bound_Count(n, given) == n
Bound(n, given) ==
  IF n >= Cardinality(Pending) + given THEN Cardinality(Pending) + given ELSE n

\* How many some(), any() and all() ask for
ReadyCount == [some |-> 0..MaxCount, any |-> {1}, all |-> {Cardinality(Future)}]

\* Nothing was ready and the output was empty, or it did not matter.  (An output with
\* more in it than there are futures makes an impossible count possible: the loop of
\* run() then spins.)
Fits(n, given) ==
  \/ ReadyAtEntry
  \/ Pending = {} /\ given <= Cardinality(Future)
  \/ Pending = Future /\ given = 0
  \/ n <= Cardinality(Pending)
  \/ n <= Cardinality(Future \ Pending)

\* run(): up to its loop.
Init ==
  /\ \E over \in SUBSET Future :
       future = [f \in Future |-> IF f \in over THEN "over" ELSE "pending"]
  /\ registered = {} /\ copy_pending = {}
  /\ pending = Pending /\ ready = Future \ Pending
  /\ count \in UNION {ReadyCount[call] : call \in {"some", "any", "all"}}
  /\ caller_handle = FALSE
  /\ promise = RUNNING
  /\ \E given \in 0..MaxGiven :
       /\ Fits(count, given)
       /\ IF Cardinality(ready) >= count
          THEN ready_bound = 0 /\ scan_bound = 0 /\ result = DONE /\ pc = "leave"
          ELSE /\ ready_bound = Bound(count, given)
               /\ scan_bound = Cardinality(ready)
               /\ result = RUNNING /\ pc = "loop"

\* The head of the loop of run(): it is over, or the coroutine was killed, or it
\* awaits the promise, which is at once over when no future is pending.
Leaves == result >= DONE \/ promise >= DONE

Leave ==
  /\ pc = "loop" /\ Leaves
  /\ result' = IF result < DONE THEN promise ELSE result
  /\ pc' = "leave"
  /\ UNCHANGED <<future, registered, pending, ready, ready_bound, scan_bound,
                 caller_handle, promise, copy_pending, count>>

AwaitReady ==
  /\ pc = "loop" /\ ~Leaves /\ pending = {}
  /\ pc' = "resumed"
  /\ UNCHANGED <<future, registered, ctxVars, promise, copy_pending, count>>

\* await_suspend(): the first time it registers at all that are pending.
AwaitSuspend ==
  /\ pc = "loop" /\ ~Leaves /\ pending # {}
  /\ pc' = "suspended"
  /\ caller_handle' = TRUE
  /\ copy_pending' = IF caller_handle THEN copy_pending ELSE pending
  /\ UNCHANGED <<future, registered, pending, ready, ready_bound, scan_bound, result,
                 promise, count>>

\* suspend_future(): the callback of a generator may set its value, which resumes
\* the coroutine inside of await_suspend().
SuspendFuture(f) ==
  /\ f \in copy_pending /\ pc \in {"suspended", "final"}
  /\ copy_pending' = copy_pending \ {f}
  /\ \/ /\ registered' = IF caller_handle THEN registered \cup {f} ELSE registered
        /\ UNCHANGED <<future, pc>>
     \/ /\ InlineCallbacks /\ IsPending(f) /\ pc = "suspended"
        /\ future' = [future EXCEPT ![f] = "over"]
        /\ pc' = "resumed"
        /\ UNCHANGED registered
  /\ UNCHANGED <<ctxVars, promise, count>>

\* scan_ready(): what is not pending any more forgets the caller and changes lists.
Scanned == {f \in pending : ~IsPending(f)}
StillPending == pending \ Scanned

\* The count is corrected by what was found.  (MUTANT: it is not)
Recounted_Resumed == scan_bound + 1
Recounted == Cardinality(ready \cup Scanned)

\* await_resume() counts, and looks at the futures only if the count may be enough.
\* (MUTANT: one too late)
Enough_More(n) == n > ready_bound
Enough(n) == n >= ready_bound

AwaitResume ==
  /\ pc = "resumed"
  /\ IF Enough(scan_bound + 1)
     THEN /\ pending' = StillPending
          /\ ready' = ready \cup Scanned
          /\ registered' = registered \ Scanned
          /\ scan_bound' = Recounted
          /\ result' = IF Recounted >= ready_bound /\ result < DONE THEN DONE ELSE result
     ELSE /\ scan_bound' = scan_bound + 1
          /\ UNCHANGED <<pending, ready, registered, result>>
  /\ pc' = "loop"
  /\ UNCHANGED <<future, ready_bound, caller_handle, promise, copy_pending, count>>

\* ~promise_type(): force_resume_all() takes the caller back from those that are
\* pending (MUTANT: it does not); then co_return.
StillRegistered_All == registered
StillRegistered == registered \ pending

Return ==
  /\ pc = "leave"
  /\ registered' = IF caller_handle THEN StillRegistered ELSE registered
  /\ caller_handle' = FALSE
  /\ promise' = IF promise >= DONE THEN promise ELSE DONE
  /\ pc' = "final"
  /\ UNCHANGED <<future, pending, ready, ready_bound, scan_bound, result, copy_pending, count>>

-----------------------------------------------------------------------------
(* The futures, and whoever kills them or the coroutine. *)

Idle == pc \in {"suspended", "final"} /\ copy_pending = {}

\* A callable is killed: it is not pending, and runs to its end.
KillFuture(f) ==
  /\ MayKill /\ Idle /\ IsPending(f)
  /\ future' = [future EXCEPT ![f] = "exiting"]
  /\ UNCHANGED <<registered, ctxVars, promise, copy_pending, pc, count>>

\* The end of a future resumes its callers.
Finish(f) ==
  /\ Idle /\ future[f] # "over"
  /\ future' = [future EXCEPT ![f] = "over"]
  /\ registered' = registered \ {f}
  /\ pc' = IF f \in registered /\ pc = "suspended" THEN "resumed" ELSE pc
  /\ UNCHANGED <<ctxVars, promise, copy_pending, count>>

Kill ==
  /\ MayKill /\ Idle /\ pc = "suspended" /\ promise < DONE
  /\ promise' = KILLED
  /\ pc' = "resumed"
  /\ UNCHANGED <<future, registered, ctxVars, copy_pending, count>>

Next ==
  \/ Leave \/ AwaitReady \/ AwaitSuspend \/ AwaitResume \/ Return \/ Kill
  \/ \E f \in Future : SuspendFuture(f) \/ KillFuture(f) \/ Finish(f)

\* The coroutine runs as long as it can; the futures end some time.
Fairness ==
  /\ WF_vars(Leave \/ AwaitReady \/ AwaitSuspend \/ AwaitResume \/ Return)
  /\ \A f \in Future : WF_vars(SuspendFuture(f)) /\ WF_vars(Finish(f))

Spec == Init /\ [][Next]_vars /\ Fairness

-----------------------------------------------------------------------------
(* Properties. *)

\* some() that succeeds found as many ready futures as were asked for, or all there
\* are, and reports no future that is pending (callable_promise.h:628 takes the size
\* of the output for that of what was ready).
EnoughReady ==
  /\ pc = "final" /\ result = DONE =>
       Cardinality(ready) >= IF count < Cardinality(Future) THEN count ELSE Cardinality(Future)
  /\ \A f \in ready : ~IsPending(f)

\* No wake-up is lost by counting resumptions instead of looking: while it sleeps,
\* fewer futures are over than it waits for.
SomeWakes ==
  Idle /\ pc = "suspended" => Cardinality({f \in Future : future[f] = "over"}) < ready_bound

\* A coroutine that has ended is nobody's caller: it may be destroyed, and who is
\* left over would resume a frame that is gone.
LeavesNoCaller == pc = "final" => registered = {}

\* await_suspend() works on the context of a coroutine that has not ended.
ContextLives == copy_pending # {} => pc # "final"

\* It ends once the futures do, killed or not.
SomeEnds == <>(pc = "final")

=============================================================================
