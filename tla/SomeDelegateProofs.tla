-------------------------- MODULE SomeDelegateProofs --------------------------
(***************************************************************************)
(* Proofs about SomeDelegate, for any number of futures and any count: who *)
(* has the coroutine among its callers, how many futures a call that       *)
(* succeeds has found, and, under the contract of the run, that the number *)
(* of times it was resumed stays the number of futures that answered.      *)
(***************************************************************************)
EXTENDS SomeDelegate, FiniteSetTheorems, TLAPS

-----------------------------------------------------------------------------
(* The lists: what holds of them whatever the output held before the call. *)

\* The futures that have answered: scanned already, or over without the delegate
\* having looked.
NotOver == {f \in pending : future[f] # "over"}
Answered == ready \cup (pending \ NotOver)

ListTypeOK ==
  /\ future \in [Future -> {"pending", "exiting", "over"}]
  /\ pending \subseteq Future /\ ready = Future \ pending
  /\ result \in {RUNNING, DONE, KILLED}
  /\ caller_handle \in BOOLEAN
  /\ promise \in {RUNNING, DONE, KILLED}
  /\ pc \in {"loop", "suspended", "resumed", "leave", "final"}

\* await_suspend() has not run yet: nobody knows the coroutine, nothing has happened.
BeforeSuspend == copy_pending = {} /\ registered = {} /\ \A f \in pending : IsPending(f)

\* A future that has not answered has the coroutine among its callers, or is one that
\* await_suspend() comes to; nobody else has.
CallersExact ==
  /\ copy_pending \subseteq NotOver
  /\ caller_handle => registered = NotOver \ copy_pending
  /\ ~caller_handle /\ pc # "final" => BeforeSuspend
  /\ pc = "final" => registered = {} /\ ~caller_handle

\* Where the coroutine is, and what of its statuses that leaves.
PcOK ==
  /\ copy_pending # {} => pc = "suspended"
  /\ pc = "suspended" => caller_handle /\ promise = RUNNING /\ pending # {}
  /\ pc \in {"suspended", "resumed"} => result = RUNNING
  /\ pc \in {"leave", "final"} => result # RUNNING
  /\ promise = DONE => pc = "final"

ReadyIsOver == \A f \in ready : ~IsPending(f)

ListInv == ListTypeOK /\ CallersExact /\ PcOK /\ ReadyIsOver

LEMMA ListInitially == Init => ListInv
<1> SUFFICES ASSUME Init PROVE ListInv
  OBVIOUS
<1>1. future \in [Future -> {"pending", "exiting", "over"}]
  BY DEF Init
<1>2. /\ pending = Pending /\ ready = Future \ Pending
      /\ registered = {} /\ copy_pending = {} /\ caller_handle = FALSE /\ promise = RUNNING
      /\ (pc = "loop" /\ result = RUNNING) \/ (pc = "leave" /\ result = DONE)
  BY DEF Init
<1>3. (\A f \in pending : IsPending(f)) /\ ReadyIsOver /\ pending \subseteq Future
  BY <1>1, <1>2 DEF ReadyIsOver, Pending, IsPending
<1>4. ListTypeOK
  BY <1>1, <1>2, <1>3 DEF ListTypeOK, RUNNING, DONE, KILLED
<1>5. CallersExact
  BY <1>2, <1>3 DEF CallersExact, BeforeSuspend
<1>6. PcOK
  BY <1>2 DEF PcOK, RUNNING, DONE
<1> QED
  BY <1>3, <1>4, <1>5, <1>6 DEF ListInv

LEMMA ListStep ==
  ASSUME ~InlineCallbacks, ListInv, [Next]_vars
  PROVE  ListInv'
<1> USE DEF ListInv, ListTypeOK, CallersExact, BeforeSuspend, PcOK, ReadyIsOver, NotOver,
            IsPending, ctxVars, RUNNING, DONE, KILLED
<1>1. CASE Leave
  BY <1>1 DEF Leave, Leaves
<1>2. CASE AwaitReady
  BY <1>2 DEF AwaitReady, Leaves
<1>3. CASE AwaitSuspend
  BY <1>3 DEF AwaitSuspend, Leaves
<1>4. CASE AwaitResume
  BY <1>4 DEF AwaitResume, Scanned, StillPending
<1>5. CASE Return
  BY <1>5 DEF Return, StillRegistered
<1>6. CASE Kill
  BY <1>6 DEF Kill, Idle
<1>7. ASSUME NEW f \in Future, SuspendFuture(f) PROVE ListInv'
  BY <1>7 DEF SuspendFuture
<1>8. ASSUME NEW f \in Future, KillFuture(f) PROVE ListInv'
  BY <1>8 DEF KillFuture, Idle
<1>9. ASSUME NEW f \in Future, Finish(f) PROVE ListInv'
  BY <1>9 DEF Finish, Idle
<1>10. CASE UNCHANGED vars
  BY <1>10 DEF vars
<1> QED
  BY <1>1, <1>2, <1>3, <1>4, <1>5, <1>6, <1>7, <1>8, <1>9, <1>10 DEF Next

\* A callable that has ended is nobody's caller any more, whatever it was asked for and
\* whatever was ready when it was called: ~promise_type() takes it back from all futures
\* that have not answered (callable_promise.h:505).
THEOREM SomeLeavesNoCaller ==
  ASSUME ~InlineCallbacks
  PROVE  Spec => []LeavesNoCaller
<1>1. ListInv /\ [Next]_vars => ListInv'
  BY ListStep
<1>2. ListInv => LeavesNoCaller
  BY DEF ListInv, CallersExact, LeavesNoCaller
<1> QED
  BY ListInitially, <1>1, <1>2, PTL DEF Spec

\* await_suspend() never goes on with a coroutine that has ended.
THEOREM SomeContextLives ==
  ASSUME ~InlineCallbacks
  PROVE  Spec => []ContextLives
<1>1. ListInv /\ [Next]_vars => ListInv'
  BY ListStep
<1>2. ListInv => ContextLives
  BY DEF ListInv, PcOK, ContextLives
<1> QED
  BY ListInitially, <1>1, <1>2, PTL DEF Spec

-----------------------------------------------------------------------------
(* What a call that succeeds has found, whatever was ready when it was made *)
(* and whatever its output held.                                            *)

N == Cardinality(Future)
Wanted == IF count < N THEN count ELSE N

\* Sets of futures are finite, and as many as there are members; one more has one more.
LEMMA Sizes ==
  /\ N \in Nat
  /\ \A S \in SUBSET Future : Cardinality(S) \in 0..N
  /\ \A S, T \in SUBSET Future : S \subseteq T => Cardinality(S) <= Cardinality(T)
  /\ \A S \in SUBSET Future : \A f \in Future \ S : Cardinality(S \cup {f}) = Cardinality(S) + 1
  /\ \A S \in SUBSET Future : Cardinality(Future \ S) = N - Cardinality(S)
<1>1. IsFiniteSet(Future) /\ N \in Nat
  BY SomeAssumption, FS_CardinalityType DEF N
<1>2. ASSUME NEW S \in SUBSET Future
      PROVE  IsFiniteSet(S) /\ Cardinality(S) \in 0..N
  BY <1>1, FS_Subset, FS_CardinalityType DEF N
<1>3. ASSUME NEW S \in SUBSET Future, NEW T \in SUBSET Future, S \subseteq T
      PROVE  Cardinality(S) <= Cardinality(T)
  BY <1>2, <1>3, FS_Subset
<1>4. ASSUME NEW S \in SUBSET Future, NEW f \in Future \ S
      PROVE  Cardinality(S \cup {f}) = Cardinality(S) + 1
  BY <1>2, FS_AddElement
<1>5. ASSUME NEW S \in SUBSET Future
      PROVE  Cardinality(Future \ S) = N - Cardinality(S)
  <2>1. Future \cap S = S
    OBVIOUS
  <2> QED
    BY <1>1, <2>1, FS_Difference DEF N
<1> QED
  BY <1>1, <1>2, <1>3, <1>4, <1>5

\* What was asked for, but no more than p.
Floor(p) == IF Wanted < p THEN Wanted ELSE p

\* It has found Floor(p), or waits for as many; without pending futures it has all.
FloorInv(p) ==
  /\ count \in Nat /\ ready_bound \in Nat
  /\ result = DONE => Cardinality(ready) >= Floor(p)
  /\ result = RUNNING => ready_bound >= Floor(p) \/ pending = {}

\* At the call: the number that is waited for will not be cut below what was asked for.
\* It is cut when some futures are ready and some are not, and neither are enough.
NotCut ==
  \/ pending = {} \/ ready = {}
  \/ count <= Cardinality(pending) \/ count <= Cardinality(ready)

\* run() up to its loop waits for as many as are asked for or are pending, and the
\* output can only add to that.
LEMMA FloorInitially ==
  ASSUME Init, NEW p \in 0..N, p <= Cardinality(pending) \/ NotCut
  PROVE  FloorInv(p)
<1>1. N = Cardinality(Future) /\ N \in Nat /\ Wanted = IF count < N THEN count ELSE N
  BY Sizes DEF N, Wanted
<1>2. /\ pending = Pending /\ ready = Future \ Pending /\ Pending \in SUBSET Future
      /\ Cardinality(Pending) \in 0..N /\ Cardinality(ready) = N - Cardinality(Pending)
  BY Sizes DEF Init, Pending
<1>3. count \in Nat /\ MaxGiven \in Nat
  BY <1>1, SomeAssumption DEF Init, ReadyCount
<1>4. pending = {} \/ p <= Cardinality(pending) \/ Wanted <= Cardinality(pending)
        \/ count <= Cardinality(ready)
  <2>1. CASE ready = {}
    <3>1. Pending = Future
      BY <1>2, <2>1
    <3> QED
      BY <1>1, <1>2, <3>1
  <2>2. CASE ready # {}
    BY <1>1, <1>2, <1>3, <2>2 DEF NotCut
  <2> QED
    BY <2>1, <2>2
<1>5. CASE Cardinality(ready) >= count
  <2>1. ready_bound = 0 /\ result = DONE
    BY <1>5 DEF Init
  <2>2. Cardinality(ready) >= Floor(p)
    BY <1>1, <1>2, <1>3, <1>5 DEF Floor
  <2> QED
    BY <1>3, <2>1, <2>2 DEF FloorInv, RUNNING, DONE
<1>6. CASE ~(Cardinality(ready) >= count)
  <2>1. PICK given \in 0..MaxGiven : ready_bound = Bound(count, given) /\ result = RUNNING
    BY <1>6 DEF Init
  <2>2. ready_bound = IF count >= Cardinality(Pending) + given
                      THEN Cardinality(Pending) + given ELSE count
    BY <2>1 DEF Bound
  <2>3. ready_bound \in Nat /\ (ready_bound >= Floor(p) \/ pending = {})
    BY <1>1, <1>2, <1>3, <1>4, <1>6, <2>2 DEF Floor
  <2> QED
    BY <1>3, <2>1, <2>3 DEF FloorInv, RUNNING, DONE
<1> QED
  BY <1>2, <1>3, <1>5, <1>6

LEMMA FloorStep ==
  ASSUME ListInv, NEW p \in 0..N, FloorInv(p), [Next]_vars, ListInv'
  PROVE  FloorInv(p)'
<1>1. N \in Nat /\ N = Cardinality(Future) /\ RUNNING # DONE /\ KILLED # DONE /\ RUNNING < DONE
  BY Sizes DEF N, RUNNING, DONE, KILLED
<1>2. count' = count /\ ready_bound' = ready_bound
  BY DEF Next, vars, ctxVars, Leave, AwaitReady, AwaitSuspend, AwaitResume, Return, Kill,
         SuspendFuture, KillFuture, Finish
<1>3. Floor(p)' = Floor(p) /\ Floor(p) \in Nat /\ Floor(p) <= N
  BY <1>1, <1>2 DEF Floor, Wanted, N, FloorInv
<1>4. CASE UNCHANGED <<pending, ready, result>>
  BY <1>2, <1>3, <1>4 DEF FloorInv
<1>5. CASE Leave
  <2>1. UNCHANGED <<pending, ready>> /\ result' # RUNNING /\ (result' = DONE => result = DONE)
    BY <1>5 DEF Leave, Leaves, ListInv, ListTypeOK, PcOK, RUNNING, DONE, KILLED
  <2> QED
    BY <1>2, <1>3, <2>1 DEF FloorInv
<1>6. CASE AwaitResume
  <2>1. result = RUNNING /\ (ready_bound >= Floor(p) \/ pending = {}) /\ ready_bound \in Nat
    BY <1>6 DEF AwaitResume, ListInv, PcOK, FloorInv
  <2>2. CASE UNCHANGED <<pending, ready, result>>
    BY <1>4, <2>2
  <2>3. CASE /\ pending' = StillPending /\ ready' = ready \cup Scanned
             /\ result' = IF Recounted >= ready_bound /\ result < DONE THEN DONE ELSE result
    <3>1. Recounted = Cardinality(ready') /\ ready' \in SUBSET Future /\ Cardinality(ready') \in 0..N
      BY <2>3, Sizes DEF Recounted, ListInv, ListTypeOK, Scanned
    <3>2. pending = {} => pending' = {} /\ Cardinality(ready') = N
      BY <2>3, <1>1 DEF StillPending, ListInv, ListTypeOK
    <3>3. (ready_bound >= Floor(p) /\ Cardinality(ready') >= ready_bound) \/ pending = {}
            => Cardinality(ready') >= Floor(p)
      BY <1>3, <2>1, <3>1, <3>2
    <3>4. pending' # {} => pending # {}
      BY <2>3 DEF StillPending
    <3> QED
      BY <1>1, <1>2, <1>3, <2>1, <2>3, <3>1, <3>2, <3>3, <3>4 DEF FloorInv
  <2> QED
    BY <1>6, <2>2, <2>3 DEF AwaitResume
<1> QED
  BY <1>4, <1>5, <1>6 DEF Next, vars, ctxVars, AwaitReady, AwaitSuspend, Return, Kill,
                          SuspendFuture, KillFuture, Finish

\* some(), any() and all() that report success found as many futures ready as they were
\* asked for, or all there are, and none of those they list is pending: for each call
\* whose count is not cut, that is with no or with all futures ready when it is made, or
\* with enough of either kind.  (Of the others callable_promise.h:628 fails some, as the
\* run some_all shows; SomeFindsPending says what is left.)
THEOREM SomeFindsEnough ==
  ASSUME ~InlineCallbacks
  PROVE  Spec /\ NotCut => []EnoughReady
<1>1. N \in 0..N
  BY Sizes
<1>2. Init /\ NotCut => ListInv /\ FloorInv(N)
  BY <1>1, ListInitially, FloorInitially
<1>3. ListInv /\ FloorInv(N) /\ [Next]_vars => (ListInv /\ FloorInv(N))'
  BY <1>1, ListStep, FloorStep
<1>4. ListInv /\ FloorInv(N) => EnoughReady
  BY Sizes DEF ListInv, ReadyIsOver, FloorInv, Floor, Wanted, N, EnoughReady
<1> QED
  BY <1>2, <1>3, <1>4, PTL DEF Spec

\* What is left of it when the count is cut: success means that as many are ready as were
\* asked for, or as many as were pending at the call, whichever is less.
FindsPending(p) ==
  /\ pc = "final" /\ result = DONE => Cardinality(ready) >= Floor(p)
  /\ \A f \in ready : ~IsPending(f)

\* Every call that succeeds, whatever is ready when it is made and whatever its output
\* holds, found that many (callable_promise.h:628-629 cut the count to no less).
THEOREM SomeFindsPending ==
  ASSUME ~InlineCallbacks, NEW p \in 0..N
  PROVE  Spec /\ p <= Cardinality(pending) => []FindsPending(p)
<1>1. Init /\ p <= Cardinality(pending) => ListInv /\ FloorInv(p)
  BY ListInitially, FloorInitially
<1>2. ListInv /\ FloorInv(p) /\ [Next]_vars => (ListInv /\ FloorInv(p))'
  BY ListStep, FloorStep
<1>3. ListInv /\ FloorInv(p) => FindsPending(p)
  BY DEF ListInv, ReadyIsOver, FloorInv, FindsPending
<1> QED
  BY <1>1, <1>2, <1>3, PTL DEF Spec

-----------------------------------------------------------------------------
(* The count, under the contract on what the output and the futures hold.  *)

\* What was counted is what has answered, and while it sleeps that is not enough.
Counted ==
  result = RUNNING /\ promise = RUNNING /\ pending # {} =>
    /\ pc \in {"loop", "suspended"} =>
         scan_bound = Cardinality(Answered) /\ scan_bound < ready_bound
    /\ pc = "resumed" => scan_bound + 1 = Cardinality(Answered)

\* Only a call that never had anything to wait for meets its loop with nothing pending.
NothingToWaitFor ==
  result = RUNNING /\ pending = {} =>
    /\ pc \in {"loop", "resumed"} /\ promise = RUNNING
    /\ scan_bound = N /\ ready_bound <= N

CountInv ==
  /\ count \in 0..MaxCount /\ ready_bound \in 0..MaxCount /\ scan_bound \in 0..N + 1
  /\ result = RUNNING /\ pending # {} => ready_bound = Wanted
  /\ pc = "resumed" => scan_bound <= N
  /\ Counted /\ NothingToWaitFor

LEMMA CountInitially ==
  ASSUME ~ReadyAtEntry, Init
  PROVE  CountInv
<1>1. /\ future \in [Future -> {"pending", "over"}]
      /\ pending = Pending /\ ready = Future \ Pending /\ promise = RUNNING
  BY DEF Init
<1>2. count \in 0..MaxCount
  BY SomeAssumption, Sizes DEF Init, ReadyCount, N
<1>3. /\ Pending \in SUBSET Future /\ Answered = ready
      /\ Cardinality(ready) = N - Cardinality(Pending) /\ Cardinality(Pending) \in 0..N
  BY <1>1, Sizes DEF Pending, IsPending, Answered, NotOver
<1>4. Cardinality(Future) = N /\ N \in Nat
  BY Sizes DEF N
<1>5. /\ Pending = {} <=> Cardinality(Pending) = 0
      /\ Pending = Future => Cardinality(Pending) = N
  BY <1>3, <1>4, SomeAssumption, FS_Subset, FS_EmptySet
<1>6. CASE Cardinality(ready) >= count
  <2>1. ready_bound = 0 /\ scan_bound = 0 /\ result = DONE /\ pc = "leave"
    BY <1>6 DEF Init
  <2> QED
    BY <1>2, <1>3, <1>6, <2>1, SomeAssumption, Sizes
    DEF CountInv, Counted, NothingToWaitFor, Wanted, RUNNING, DONE
<1>7. CASE ~(Cardinality(ready) >= count)
  <2>1. PICK given \in 0..MaxGiven :
          /\ Fits(count, given)
          /\ ready_bound = Bound(count, given)
          /\ scan_bound = Cardinality(ready) /\ result = RUNNING /\ pc = "loop"
    BY <1>7 DEF Init
  <2>2. \/ Pending = {} /\ given <= N
        \/ Pending = Future /\ given = 0
        \/ count <= Cardinality(Pending)
    BY <1>1, <1>3, <1>2, <1>7, <2>1, <1>4 DEF Fits
  <2>3. MaxGiven \in Nat /\ MaxCount \in Nat
    BY SomeAssumption
  <2>4. /\ ready_bound \in 0..MaxCount
        /\ pending = {} => ready_bound <= N
        /\ pending # {} => ready_bound = Wanted /\ scan_bound < ready_bound
    <3>1. CASE pending = {}
      <4>1. ready_bound = IF count >= given THEN given ELSE count
        BY <1>1, <1>5, <2>1, <3>1, <2>3, <1>2 DEF Bound
      <4> QED
        BY <1>1, <1>2, <1>3, <1>4, <1>5, <1>7, <2>2, <2>3, <3>1, <4>1
    <3>2. CASE pending # {}
      <4>0. (given = 0 /\ Cardinality(Pending) = N) \/ count <= Cardinality(Pending)
        BY <1>1, <1>5, <2>2, <3>2
      <4>1. ready_bound = Wanted
        BY <1>2, <1>3, <1>4, <2>1, <2>3, <4>0 DEF Bound, Wanted
      <4>2. scan_bound < Wanted
        BY <1>1, <1>2, <1>3, <1>4, <1>5, <1>7, <2>1, <3>2 DEF Wanted
      <4> QED
        BY <1>2, <1>4, <2>3, <3>2, <4>1, <4>2 DEF Wanted
    <3> QED
      BY <3>1, <3>2
  <2> QED
    BY <1>1, <1>2, <1>3, <1>5, <2>1, <2>4, Sizes
    DEF CountInv, Counted, NothingToWaitFor, RUNNING, DONE
<1> QED
  BY <1>6, <1>7

\* The futures that have answered are futures: they are at most N, one that answers is
\* one more, and none of them is missed by looking at all of the pending ones.
LEMMA AnsweredSize ==
  ASSUME ListInv
  PROVE  /\ Answered \in SUBSET Future /\ ready \in SUBSET Future
         /\ Cardinality(Answered) \in 0..N /\ Cardinality(ready) \in 0..N
         /\ ready \subseteq Answered /\ Cardinality(ready) <= Cardinality(Answered)
         /\ pending = {} => Cardinality(ready) = N
BY Sizes DEF ListInv, ListTypeOK, Answered, NotOver, N

\* await_resume(), which alone changes what was counted and what was found.
LEMMA ResumeCounts ==
  ASSUME ListInv, CountInv, AwaitResume, ListInv'
  PROVE  CountInv'
<1>1. /\ pc = "resumed" /\ pc' = "loop" /\ result = RUNNING
      /\ ready_bound' = ready_bound /\ count' = count /\ promise' = promise /\ future' = future
      /\ ready_bound \in 0..MaxCount /\ count \in 0..MaxCount /\ scan_bound \in 0..N
  BY DEF AwaitResume, ListInv, PcOK, CountInv
<1>2. N \in Nat /\ MaxCount \in Nat /\ RUNNING # DONE /\ RUNNING < DONE
  BY Sizes, SomeAssumption DEF RUNNING, DONE
<1>3. /\ pending = {} => promise = RUNNING /\ scan_bound = N /\ ready_bound <= N
      /\ pending # {} => ready_bound = Wanted
      /\ pending # {} /\ promise = RUNNING => scan_bound + 1 = Cardinality(Answered)
  BY <1>1 DEF CountInv, Counted, NothingToWaitFor
<1>4. Wanted' = Wanted /\ Wanted \in Nat /\ Wanted <= N /\ Wanted <= count
  BY <1>1, <1>2 DEF Wanted, N
<1>5. CASE Enough(scan_bound + 1)
  <2>1. /\ pending' = pending \ Scanned /\ ready' = ready \cup Scanned
        /\ scan_bound' = Cardinality(ready')
        /\ result' = IF Cardinality(ready') >= ready_bound THEN DONE ELSE RUNNING
    BY <1>1, <1>2, <1>5 DEF AwaitResume, Recounted, StillPending
  <2>2. ready' \in SUBSET Future /\ Cardinality(ready') \in 0..N
    BY AnsweredSize, <2>1, Sizes DEF Scanned, ListInv, ListTypeOK
  <2>3. Answered \subseteq ready' /\ Cardinality(Answered) <= Cardinality(ready')
    <3>1. Answered \subseteq ready'
      BY <2>1 DEF Answered, NotOver, Scanned, IsPending
    <3> QED
      BY <3>1, <2>2, AnsweredSize, Sizes
  <2>4. ready_bound <= scan_bound + 1
    BY <1>1, <1>5 DEF Enough
  <2>5. pending' = {} => Cardinality(ready') = N
    BY <2>2 DEF ListInv, ListTypeOK, N
  <2>6. CASE Cardinality(ready') >= ready_bound
    BY <1>1, <1>2, <1>4, <2>1, <2>2, <2>6 DEF CountInv, Counted, NothingToWaitFor
  <2>7. CASE Cardinality(ready') < ready_bound
    <3>1. pending # {} /\ pending' # {} /\ promise # RUNNING
      BY <1>1, <1>2, <1>3, <1>4, <2>1, <2>2, <2>3, <2>4, <2>5, <2>7, AnsweredSize
    <3> QED
      BY <1>1, <1>2, <1>3, <1>4, <2>1, <2>2, <2>7, <3>1 DEF CountInv, Counted, NothingToWaitFor
  <2> QED
    BY <1>1, <2>2, <2>6, <2>7
<1>6. CASE ~Enough(scan_bound + 1)
  <2>1. /\ pending' = pending /\ ready' = ready /\ result' = RUNNING
        /\ scan_bound' = scan_bound + 1
    BY <1>1, <1>6 DEF AwaitResume
  <2>2. scan_bound + 1 < ready_bound
    BY <1>1, <1>6 DEF Enough
  <2>3. pending # {}
    BY <1>1, <1>3, <2>2
  <2>4. Answered' = Answered
    BY <1>1, <2>1 DEF Answered, NotOver
  <2> QED
    BY <1>1, <1>2, <1>3, <1>4, <2>1, <2>2, <2>3, <2>4 DEF CountInv, Counted, NothingToWaitFor
<1> QED
  BY <1>5, <1>6

LEMMA CountStep ==
  ASSUME ListInv, CountInv, [Next]_vars, ListInv', ~InlineCallbacks
  PROVE  CountInv'
<1>1. N \in Nat /\ MaxCount \in Nat
  BY Sizes, SomeAssumption
<1>2. /\ ListTypeOK /\ PcOK
      /\ count \in 0..MaxCount /\ ready_bound \in 0..MaxCount /\ scan_bound \in 0..N + 1
  BY DEF ListInv, CountInv
<1>3. CASE Leave
  <2>1. result' # RUNNING /\ (result' = DONE => result = DONE) /\ pc' = "leave"
    BY <1>2, <1>3 DEF Leave, Leaves, ListTypeOK, PcOK, RUNNING, DONE, KILLED
  <2>2. UNCHANGED <<pending, ready, ready_bound, scan_bound, promise, count>>
    BY <1>3 DEF Leave
  <2> QED
    BY <2>1, <2>2 DEF CountInv, Counted, NothingToWaitFor, Wanted, N
<1>4. CASE AwaitReady
  <2>1. /\ pc' = "resumed" /\ pending = {} /\ scan_bound = N
        /\ UNCHANGED <<pending, ready, ready_bound, scan_bound, result, promise, count>>
    BY <1>2, <1>4 DEF AwaitReady, Leaves, ctxVars, ListTypeOK, CountInv, NothingToWaitFor,
                      RUNNING, DONE, KILLED
  <2> QED
    BY <1>1, <2>1 DEF CountInv, Counted, NothingToWaitFor, Wanted, N
<1>5. CASE AwaitSuspend
  <2>1. /\ pc = "loop" /\ pc' = "suspended" /\ pending # {}
        /\ UNCHANGED <<future, pending, ready, ready_bound, scan_bound, result, promise, count>>
    BY <1>5 DEF AwaitSuspend
  <2> QED
    BY <2>1 DEF CountInv, Counted, NothingToWaitFor, Wanted, N, Answered, NotOver
<1>6. CASE AwaitResume
  BY <1>6, ResumeCounts
<1>7. CASE Return
  <2>1. /\ pc' = "final" /\ result' # RUNNING
        /\ UNCHANGED <<ready, ready_bound, scan_bound, result, count>>
    BY <1>2, <1>7 DEF Return, PcOK
  <2> QED
    BY <2>1 DEF CountInv, Counted, NothingToWaitFor, Wanted, N
<1>8. CASE Kill
  <2>1. /\ pc = "suspended" /\ pc' = "resumed" /\ promise' = KILLED /\ promise = RUNNING
        /\ pending # {} /\ result = RUNNING
        /\ UNCHANGED <<pending, ready, ready_bound, scan_bound, result, count>>
    BY <1>2, <1>8 DEF Kill, ctxVars, PcOK
  <2>2. scan_bound <= N
    BY <2>1, AnsweredSize DEF CountInv, Counted
  <2> QED
    BY <2>1, <2>2 DEF CountInv, Counted, NothingToWaitFor, Wanted, N, RUNNING, KILLED
<1>9. ASSUME NEW f \in Future, SuspendFuture(f) PROVE CountInv'
  <2>1. UNCHANGED <<future, pending, ready, ready_bound, scan_bound, result, promise, pc, count>>
    BY <1>9 DEF SuspendFuture, ctxVars
  <2> QED
    BY <2>1 DEF CountInv, Counted, NothingToWaitFor, Wanted, N, Answered, NotOver
<1>10. ASSUME NEW f \in Future, KillFuture(f) PROVE CountInv'
  <2>1. /\ future[f] = "pending" /\ future' = [future EXCEPT ![f] = "exiting"]
        /\ UNCHANGED <<pending, ready, ready_bound, scan_bound, result, promise, pc, count>>
    BY <1>10 DEF KillFuture, IsPending, ctxVars
  <2>2. Answered' = Answered
    BY <1>2, <2>1 DEF Answered, NotOver, ListTypeOK
  <2> QED
    BY <2>1, <2>2 DEF CountInv, Counted, NothingToWaitFor, Wanted, N
<1>11. ASSUME NEW f \in Future, Finish(f) PROVE CountInv'
  <2>1. /\ future[f] # "over" /\ future' = [future EXCEPT ![f] = "over"] /\ copy_pending = {}
        /\ pc \in {"suspended", "final"}
        /\ UNCHANGED <<pending, ready, ready_bound, scan_bound, result, promise, count>>
    BY <1>11 DEF Finish, Idle, ctxVars
  <2>2. CASE pc = "final"
    BY <1>2, <1>11, <2>1, <2>2 DEF Finish, PcOK, CountInv, Counted, NothingToWaitFor, Wanted, N
  <2>3. CASE pc = "suspended" /\ f \in pending
    <3>1. pc' = "resumed"
      BY <1>2, <1>11, <2>1, <2>3 DEF Finish, ListInv, CallersExact, PcOK, NotOver
    <3>2. Answered' = Answered \cup {f} /\ f \notin Answered
      BY <1>2, <2>1, <2>3 DEF Answered, NotOver, ListTypeOK
    <3>3. /\ scan_bound = Cardinality(Answered) /\ Cardinality(Answered) \in 0..N
          /\ Cardinality(Answered') = Cardinality(Answered) + 1
      BY <1>2, <2>3, <3>2, AnsweredSize, Sizes DEF PcOK, CountInv, Counted
    <3> QED
      BY <1>2, <2>1, <2>3, <3>1, <3>3 DEF CountInv, Counted, NothingToWaitFor, Wanted, N
  <2>4. CASE pc = "suspended" /\ f \notin pending
    <3>1. pc' = pc
      BY <1>11, <2>1, <2>4, <1>2 DEF Finish, ListInv, CallersExact, PcOK, NotOver
    <3>2. Answered' = Answered
      BY <1>2, <2>1, <2>4 DEF Answered, NotOver, ListTypeOK
    <3> QED
      BY <2>1, <3>1, <3>2 DEF CountInv, Counted, NothingToWaitFor, Wanted, N
  <2> QED
    BY <2>1, <2>2, <2>3, <2>4
<1>12. CASE UNCHANGED vars
  BY <1>12 DEF vars, ctxVars, CountInv, Counted, NothingToWaitFor, Wanted, N, Answered, NotOver
<1> QED
  BY <1>3, <1>4, <1>5, <1>6, <1>7, <1>8, <1>9, <1>10, <1>11, <1>12 DEF Next

\* What the theorems about counting rest on.
LEMMA SomeInvariant ==
  ASSUME ~ReadyAtEntry, ~InlineCallbacks
  PROVE  Spec => [](ListInv /\ CountInv)
<1>1. Init => ListInv /\ CountInv
  BY ListInitially, CountInitially
<1>2. ListInv /\ CountInv /\ [Next]_vars => (ListInv /\ CountInv)'
  BY ListStep, CountStep
<1> QED
  BY <1>1, <1>2, PTL DEF Spec

\* Counting resumptions instead of looking at the futures misses none: as long as the
\* coroutine sleeps, fewer futures are over than it waits for.
THEOREM SomeWakesInTime ==
  ASSUME ~ReadyAtEntry, ~InlineCallbacks
  PROVE  Spec => []SomeWakes
<1>1. ASSUME ListInv, CountInv, Idle, pc = "suspended"
      PROVE  Cardinality({f \in Future : future[f] = "over"}) < ready_bound
  <2> DEFINE Over == {f \in Future : future[f] = "over"}
  <2>1. Over \subseteq Answered /\ Answered \in SUBSET Future
    BY <1>1, AnsweredSize DEF ListInv, ListTypeOK, Answered, NotOver
  <2>2. Cardinality(Over) <= Cardinality(Answered) /\ Cardinality(Over) \in Nat
    BY <2>1, Sizes
  <2>3. scan_bound = Cardinality(Answered) /\ scan_bound < ready_bound
    BY <1>1 DEF ListInv, PcOK, CountInv, Counted
  <2> QED
    BY <1>1, <2>2, <2>3, AnsweredSize, SomeAssumption DEF CountInv
<1> QED
  BY SomeInvariant, <1>1, PTL DEF SomeWakes

\* Everything is of its type: above all the count, which never exceeds the number of
\* futures by more than the resumption of a kill.
THEOREM SomeTypes ==
  ASSUME ~ReadyAtEntry, ~InlineCallbacks
  PROVE  Spec => []TypeOK
<1>1. ListInv /\ CountInv => TypeOK
  BY DEF ListInv, ListTypeOK, CallersExact, BeforeSuspend, NotOver, CountInv, N, TypeOK
<1> QED
  BY SomeInvariant, <1>1, PTL
=============================================================================
