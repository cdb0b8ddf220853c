------------------------------ MODULE TaskProofs ------------------------------
(***************************************************************************)
(* Proofs about Task, for any number of threads, tasks and calls: the task *)
(* layer keeps the contract of the coroutines below, and a task's action   *)
(* is told of its end when it is over, and once.                           *)
(*                                                                         *)
(* All that matters of a stack of calls is its innermost one: those below  *)
(* run other tasks (Below).  A call that OWNS its task is alone with it    *)
(* until the coroutine is finished; status_ is what keeps others out.      *)
(***************************************************************************)
EXTENDS Task, FiniteSetTheorems, TLAPS

-----------------------------------------------------------------------------
(* The calls on a frame *)

OnTask == {"await_next", "await_push", "await_loop", "leave"}
ForSelf == {"push", "await_push", "await_next"}
\* The calls that other calls are nested in.
Below == {"activate", "await_loop"}

GoodCall(f) ==
  {c \in Call :
     /\ c.pc \in OnTask => f \in Task
     /\ c.pc \in ForSelf => c.self \in Task}

BelowCall(f) == {c \in GoodCall(f) : c.pc \in Below}

StacksOK ==
  \A f \in Frame :
    /\ calls[f] \in Seq(GoodCall(f))
    /\ calls[f] # <<>> => Tail(calls[f]) \in Seq(BelowCall(f))

\* The innermost call on each frame: where it is, for which task, and why.
pcOf == [f \in Frame |-> IF calls[f] = <<>> THEN "idle" ELSE Head(calls[f]).pc]
taskOf == [f \in Frame |-> Head(calls[f]).task]
spinOf == [f \in Frame |-> Head(calls[f]).spin]

\* A step changes the innermost call of one frame: to c, or to one that was below.
SameBut(f) ==
  \A g \in Frame \ {f} :
    calls'[g] = calls[g] /\ pcOf'[g] = pcOf[g] /\ taskOf'[g] = taskOf[g] /\ spinOf'[g] = spinOf[g]

Goes(f, c) ==
  /\ calls' \in [Frame -> Seq(Call)] /\ StacksOK'
  /\ SameBut(f)
  /\ pcOf'[f] = c.pc /\ taskOf'[f] = c.task /\ spinOf'[f] = c.spin

Drops(f) ==
  /\ calls' \in [Frame -> Seq(Call)] /\ StacksOK'
  /\ SameBut(f)
  /\ pcOf'[f] \in Below \cup {"idle"}

Stacks == calls \in [Frame -> Seq(Call)] /\ StacksOK

LEMMA GoodIsCall ==
  ASSUME NEW f
  PROVE  /\ \A s \in Seq(GoodCall(f)) : s \in Seq(Call)
         /\ \A s \in Seq(BelowCall(f)) : s \in Seq(GoodCall(f))
BY DEF GoodCall, BelowCall

LEMMA Cons ==
  ASSUME NEW S, NEW c \in S, NEW r \in Seq(S)
  PROVE  <<c>> \o r \in Seq(S) /\ <<c>> \o r # <<>> /\ Head(<<c>> \o r) = c /\ Tail(<<c>> \o r) = r
OBVIOUS

LEMMA Uncons ==
  ASSUME NEW S, NEW s \in Seq(S), s # <<>>
  PROVE  Head(s) \in S /\ Tail(s) \in Seq(S) /\ s = <<Head(s)>> \o Tail(s)
OBVIOUS

\* What a stack of good calls, pushed at f, leaves.
LEMMA Replaced ==
  ASSUME Stacks, NEW f \in Frame, NEW c \in GoodCall(f), NEW r \in Seq(BelowCall(f)),
         calls' = [calls EXCEPT ![f] = <<c>> \o r]
  PROVE  Goes(f, c)
<1>1. calls'[f] = <<c>> \o r /\ \A g \in Frame \ {f} : calls'[g] = calls[g]
  BY DEF Stacks
<1>2. r \in Seq(GoodCall(f))
  BY GoodIsCall
<1>3. calls'[f] \in Seq(GoodCall(f)) /\ calls'[f] # <<>> /\ Head(calls'[f]) = c /\ Tail(calls'[f]) = r
  <2>1. /\ <<c>> \o r \in Seq(GoodCall(f)) /\ <<c>> \o r # <<>>
        /\ Head(<<c>> \o r) = c /\ Tail(<<c>> \o r) = r
    BY <1>2, Cons
  <2> QED
    BY <1>1, <2>1
<1>4. calls' \in [Frame -> Seq(Call)]
  BY <1>1, <1>3, GoodIsCall DEF Stacks
<1>5. StacksOK'
  BY <1>1, <1>3 DEF Stacks, StacksOK
<1> QED
  BY <1>1, <1>3, <1>4, <1>5 DEF Goes, SameBut, pcOf, taskOf, spinOf

LEMMA Dropped ==
  ASSUME Stacks, NEW f \in Frame, calls[f] # <<>>,
         calls' = [calls EXCEPT ![f] = Tail(@)]
  PROVE  Drops(f)
<1>1. /\ calls'[f] = Tail(calls[f]) /\ Tail(calls[f]) \in Seq(BelowCall(f))
      /\ \A g \in Frame \ {f} : calls'[g] = calls[g]
  BY DEF Stacks, StacksOK
<1>2. /\ calls'[f] # <<>> => Head(calls'[f]) \in BelowCall(f) /\ Tail(calls'[f]) \in Seq(BelowCall(f))
      /\ calls'[f] \in Seq(GoodCall(f))
  BY <1>1, GoodIsCall
<1>3. calls' \in [Frame -> Seq(Call)]
  BY <1>1, <1>2, GoodIsCall DEF Stacks
<1>4. StacksOK'
  BY <1>1, <1>2 DEF Stacks, StacksOK
<1>5. pcOf'[f] \in Below \cup {"idle"}
  BY <1>1, <1>2 DEF pcOf, BelowCall
<1> QED
  BY <1>1, <1>3, <1>4, <1>5 DEF Drops, SameBut, pcOf, taskOf, spinOf

\* A stack that another call may be put on.
LEMMA BelowStack ==
  ASSUME Stacks, NEW f \in Frame, pcOf[f] \in Below \cup {"idle"}
  PROVE  calls[f] \in Seq(BelowCall(f))
<1>1. CASE calls[f] = <<>>
  BY <1>1
<1>2. CASE calls[f] # <<>>
  <2>1. /\ calls[f] = <<Head(calls[f])>> \o Tail(calls[f])
        /\ Head(calls[f]) \in GoodCall(f) /\ Tail(calls[f]) \in Seq(BelowCall(f))
    BY <1>2, Uncons DEF Stacks, StacksOK
  <2>2. Head(calls[f]) \in BelowCall(f)
    BY <1>2, <2>1 DEF pcOf, BelowCall, Below
  <2>3. <<Head(calls[f])>> \o Tail(calls[f]) \in Seq(BelowCall(f))
    BY <2>1, <2>2, Cons
  <2> QED
    BY <2>1, <2>3
<1> QED
  BY <1>1, <1>2

\* The four ways in which a thread changes the stack it executes on.
LEMMA Pushed ==
  ASSUME Stacks, NEW t \in Thread, on[t] \in Frame, pcOf[on[t]] \in Below \cup {"idle"},
         NEW c \in GoodCall(on[t]), Push(t, c)
  PROVE  Goes(on[t], c)
<1>1. calls[on[t]] \in Seq(BelowCall(on[t]))
  BY BelowStack
<1>2. calls' = [calls EXCEPT ![on[t]] = <<c>> \o calls[on[t]]]
  BY DEF Push
<1> QED
  BY <1>1, <1>2, Replaced

LEMMA Became ==
  ASSUME Stacks, NEW t \in Thread, on[t] \in Frame, calls[on[t]] # <<>>,
         NEW c \in GoodCall(on[t]), Become(t, c)
  PROVE  Goes(on[t], c)
<1>1. Tail(calls[on[t]]) \in Seq(BelowCall(on[t]))
  BY DEF Stacks, StacksOK
<1>2. calls' = [calls EXCEPT ![on[t]] = <<c>> \o Tail(calls[on[t]])]
  BY DEF Become
<1> QED
  BY <1>1, <1>2, Replaced

LEMMA Popped ==
  ASSUME Stacks, NEW t \in Thread, on[t] \in Frame, calls[on[t]] # <<>>, Pop(t)
  PROVE  Drops(on[t])
BY Dropped DEF Pop

LEMMA Nested ==
  ASSUME Stacks, NEW t \in Thread, on[t] \in Frame, calls[on[t]] # <<>>,
         NEW c \in GoodCall(on[t]), NEW d \in BelowCall(on[t]),
         calls' = [calls EXCEPT ![on[t]] = <<c, d>> \o Tail(@)]
  PROVE  Goes(on[t], c)
<1>1. Tail(calls[on[t]]) \in Seq(BelowCall(on[t]))
  BY DEF Stacks, StacksOK
<1>2. <<d>> \o Tail(calls[on[t]]) \in Seq(BelowCall(on[t]))
  BY <1>1, Cons
<1>3. <<c, d>> \o Tail(calls[on[t]]) = <<c>> \o (<<d>> \o Tail(calls[on[t]]))
  <2> DEFINE S == GoodCall(on[t])
             r == Tail(calls[on[t]])
  <2>1. c \in S /\ d \in S
    BY DEF BelowCall
  <2>2. r \in Seq(S)
    BY <1>1, GoodIsCall
  <2> HIDE DEF S, r
  <2>3. <<c, d>> \o r \in Seq(S) /\ <<c, d>> \o r # <<>>
    BY <2>1, <2>2
  <2>4. Head(<<c, d>> \o r) = c /\ Tail(<<c, d>> \o r) = <<d>> \o r
    BY <2>1, <2>2
  <2>5. <<c, d>> \o r = <<c>> \o (<<d>> \o r)
    BY <2>3, <2>4, Uncons
  <2> QED
    BY <2>5 DEF r
<1>4. calls' = [calls EXCEPT ![on[t]] = <<c>> \o (<<d>> \o Tail(calls[on[t]]))]
  BY <1>3
<1> QED
  BY <1>2, <1>4, Replaced

-----------------------------------------------------------------------------
(* The invariant *)

Drives == {"inside", "returned"}
Owns == Drives \cup {"enter", "to_done", "to_waiting", "notify"}
Tells == Owns \cup {"finished"}

\* The coroutine is running, or has published READY or FINISHED and is about to jump.
Entered(k) == co[k] = "RUNNING" \/ pcOf[k] = "leave"

\* The same of the next state.
EnteredNext(k) == co'[k] = "RUNNING" \/ pcOf'[k] = "leave"

\* Threads execute on frames of their own, none of which waits for a coroutine; a
\* coroutine that is entered returns to the one frame that is inside of it.
FrameInv ==
  /\ \A t, u \in Thread : on[t] = on[u] => t = u
  /\ \A t \in Thread : pcOf[on[t]] # "inside" /\ (on[t] \in Task => Entered(on[t]))
  /\ \A k \in Task :
       /\ pcOf[k] = "inside" => co[k] = "RUNNING"
       /\ pcOf[k] = "leave" => co[k] # "RUNNING" /\ \E t \in Thread : on[t] = k
       /\ Entered(k) => caller[k] \in Frame /\ pcOf[caller[k]] = "inside" /\ taskOf[caller[k]] = k
  /\ \A f \in Frame :
       pcOf[f] = "inside" =>
         taskOf[f] \in Task /\ caller[taskOf[f]] = f /\ Entered(taskOf[f])

\* What a call that will tell the action, unless the task waits again, knows of its task.
CallInv ==
  \A f \in Frame : pcOf[f] \in Tells =>
    /\ taskOf[f] \in Task
    /\ status[taskOf[f]] \notin {CREATED, WAITING}
    /\ pcOf[f] \in {"enter", "to_waiting"} => co[taskOf[f]] = "READY"
    /\ pcOf[f] \in {"to_done", "finished"} => co[taskOf[f]] = "FINISHED"
    /\ pcOf[f] # "inside" => ~Entered(taskOf[f])
    /\ pcOf[f] \in {"notify", "finished"} \/ spinOf[f] => Exiting(taskOf[f])

\* A task that is not finished has one owner; one that is never has two that drive it.
OneInv ==
  \A f, g \in Frame :
    f # g /\ pcOf[f] \in Owns /\ pcOf[g] \in Owns /\ taskOf[f] = taskOf[g] =>
      /\ co[taskOf[f]] = "FINISHED"
      /\ pcOf[f] \notin Drives \/ pcOf[g] \notin Drives

StatusInv == \A k \in Task : status[k] \in {CREATED, WAITING} => co[k] = "READY" /\ ~Entered(k)

\* Who will still tell the action of k.
Tellers(k) == {f \in Frame : pcOf[f] \in Tells /\ taskOf[f] = k}

TellInv ==
  \A k \in Task :
    /\ ~Exiting(k) => notified[k] = 0 /\ late[k] = 0
    /\ late[k] <= kills
    /\ IsFiniteSet(Tellers(k)) /\ Cardinality(Tellers(k)) + notified[k] <= 1 + late[k]

Core == FrameInv /\ CallInv /\ OneInv /\ StatusInv /\ TellInv

IInv == TypeOK /\ StacksOK /\ Core

Quiet(pc) == pc \notin Tells \cup {"leave"}

-----------------------------------------------------------------------------
(* What keeps the invariant, by the kind of change of the innermost call   *)

\* The types that the steps rely on, calls aside.
Typed ==
  /\ status \in [Task -> CREATED..KILLED]
  /\ co \in [Task -> {"READY", "RUNNING", "FINISHED"}]
  /\ on \in [Thread -> Frame]
  /\ caller \in [Task -> Frame \cup {Null}]
  /\ notified \in [Task -> Nat]
  /\ late \in [Task -> 0..MaxKill]
  /\ kills \in 0..MaxKill

LEMMA Disjoint == /\ Thread \cap Task = {} /\ Thread \subseteq Frame /\ Task \subseteq Frame
BY TaskAssumption DEF Frame

\* A step that moves a call which neither tells nor leaves to another such call.
LEMMA QuietKeeps ==
  ASSUME Typed, Core, NEW f \in Frame, SameBut(f), Quiet(pcOf[f]), Quiet(pcOf'[f]),
         UNCHANGED <<status, co, on, caller, notified, late, kills>>
  PROVE  Core'
<1>1. \A k \in Task : Entered(k)' <=> Entered(k)
  BY Disjoint DEF Entered, SameBut, Quiet
<1>2. \A k \in Task : Tellers(k)' = Tellers(k)
  BY DEF Tellers, SameBut, Quiet
<1>3. FrameInv'
  BY <1>1, Disjoint DEF Core, FrameInv, SameBut, Quiet, Tells, Owns, Drives, Typed
<1>4. CallInv'
  BY <1>1 DEF Core, CallInv, SameBut, Quiet, Exiting
<1>5. OneInv'
  BY DEF Core, OneInv, SameBut, Quiet, Tells
<1>6. StatusInv'
  BY <1>1 DEF Core, StatusInv
<1>7. TellInv'
  BY <1>2 DEF Core, TellInv, Exiting
<1> QED
  BY <1>3, <1>4, <1>5, <1>6, <1>7 DEF Core

\* The call goes on with its task after the coroutine came back, and may end it.
LEMMA SettlingKeeps ==
  ASSUME Typed, Core, NEW f \in Frame, NEW k \in Task, SameBut(f),
         pcOf[f] \in Tells \ {"inside"}, taskOf[f] = k, taskOf'[f] = k,
         pcOf'[f] \in {"to_done", "to_waiting", "notify", "finished"},
         pcOf'[f] \in Owns => pcOf[f] \in Owns,
         pcOf'[f] = "to_waiting" => co[k] = "READY",
         pcOf'[f] \in {"to_done", "finished"} => co[k] = "FINISHED",
         \A j \in Task \ {k} : status'[j] = status[j],
         status'[k] \in RUNNING..KILLED \ {WAITING},
         Exiting(k) => status'[k] >= DONE,
         pcOf'[f] \in {"notify", "finished"} \/ spinOf'[f] => status'[k] >= DONE,
         UNCHANGED <<co, on, caller, notified, late, kills>>
  PROVE  Core'
<1> USE DEF CREATED, RUNNING, WAITING, DONE, CANCELED, KILLED
<1>1. \A j \in Task : Entered(j)' <=> Entered(j)
  BY Disjoint DEF Entered, SameBut, Tells, Owns, Drives
<1>2. \A j \in Task : Tellers(j)' = Tellers(j)
  BY DEF Tellers, SameBut, Tells, Owns
<1>3. FrameInv'
  BY <1>1, Disjoint DEF Core, FrameInv, SameBut, Tells, Owns, Drives, Typed
<1>4. CallInv'
  BY <1>1 DEF Core, CallInv, SameBut, Exiting
<1>5. OneInv'
  BY DEF Core, OneInv, SameBut, Tells, Owns, Drives
<1>6. StatusInv'
  BY <1>1 DEF Core, StatusInv
<1>7. TellInv'
  BY <1>2 DEF Core, TellInv, Exiting
<1> QED
  BY <1>3, <1>4, <1>5, <1>6, <1>7 DEF Core

\* A task that start() accepts has nobody who tells its action, and after it one call has.
LEMMA NobodyTells ==
  ASSUME Core, NEW k \in Task, Startable(k)
  PROVE  Tellers(k) = {} /\ notified[k] = 0 /\ late[k] = 0
<1>1. ASSUME NEW f \in Tellers(k) PROVE FALSE
  BY <1>1 DEF Core, CallInv, Tellers, Startable
<1> QED
  BY <1>1 DEF Core, TellInv, Startable, Exiting, CREATED, WAITING, DONE

LEMMA StartKeeps ==
  ASSUME Typed, Core, NEW f \in Frame, NEW k \in Task, SameBut(f), Quiet(pcOf[f]), Startable(k),
         pcOf'[f] = "enter", taskOf'[f] = k, ~spinOf'[f],
         status' = [status EXCEPT ![k] = RUNNING],
         UNCHANGED <<co, on, caller, notified, late, kills>>
  PROVE  Core'
<1> USE DEF CREATED, RUNNING, WAITING, DONE, CANCELED, KILLED
<1>0. Tellers(k) = {} /\ notified[k] = 0 /\ late[k] = 0
  BY NobodyTells
<1>1. \A j \in Task : Entered(j)' <=> Entered(j)
  BY Disjoint DEF Entered, SameBut, Quiet
<1>2. Tellers(k)' = {f} /\ \A j \in Task \ {k} : Tellers(j)' = Tellers(j)
  BY <1>0 DEF Tellers, SameBut, Quiet, Tells, Owns
<1>3. FrameInv'
  BY <1>1, Disjoint DEF Core, FrameInv, SameBut, Quiet, Tells, Owns, Drives, Typed
<1>4. CallInv'
  BY <1>1 DEF Core, CallInv, StatusInv, SameBut, Exiting, Startable, Typed
<1>5. OneInv'
  BY <1>0 DEF Core, OneInv, Tellers, SameBut, Tells, Owns, Drives
<1>6. StatusInv'
  BY <1>1 DEF Core, StatusInv, Typed
<1>7. TellInv'
  <2>1. IsFiniteSet({f}) /\ Cardinality({f}) = 1
    BY FS_Singleton
  <2>2. status'[k] = RUNNING /\ \A j \in Task \ {k} : status'[j] = status[j]
    BY DEF Typed
  <2> QED
    BY <1>0, <1>2, <2>1, <2>2 DEF Core, TellInv, Exiting
<1> QED
  BY <1>3, <1>4, <1>5, <1>6, <1>7 DEF Core

\* kill() and cancel() of a task that is not running: their call ends it.
LEMMA KillKeeps ==
  ASSUME Typed, Core, NEW f \in Frame, NEW k \in Task, SameBut(f), Quiet(pcOf[f]),
         NotKilledInAction(k), status[k] # RUNNING, NEW s \in {CANCELED, KILLED},
         pcOf'[f] = "notify", taskOf'[f] = k, ~spinOf'[f],
         status' = [status EXCEPT ![k] = s], CountLate(k), kills' = kills + 1,
         UNCHANGED <<co, on, caller, notified>>
  PROVE  Core'
<1> USE DEF CREATED, RUNNING, WAITING, DONE, CANCELED, KILLED
<1>0. /\ ~Entered(k) /\ (Startable(k) \/ Exiting(k))
      /\ Exiting(k) => co[k] = "FINISHED"
  BY DEF Typed, Core, FrameInv, StatusInv, Entered, Startable, Exiting, NotKilledInAction, Completed
<1>1. \A j \in Task : Entered(j)' <=> Entered(j)
  BY Disjoint DEF Entered, SameBut, Quiet
<1>2. Tellers(k)' = Tellers(k) \cup {f} /\ \A j \in Task \ {k} : Tellers(j)' = Tellers(j)
  BY DEF Tellers, SameBut, Quiet, Tells, Owns
<1>3. FrameInv'
  BY <1>1, Disjoint DEF Core, FrameInv, SameBut, Quiet, Tells, Owns, Drives, Typed
<1>4. CallInv'
  BY <1>0, <1>1 DEF Core, CallInv, SameBut, Exiting, Typed
<1>5. OneInv'
  <2>1. CASE Startable(k)
    BY <2>1, NobodyTells DEF Core, OneInv, Tellers, SameBut, Tells, Owns, Drives
  <2>2. CASE Exiting(k)
    BY <1>0, <2>2 DEF Core, OneInv, SameBut, Quiet, Tells, Owns, Drives
  <2> QED
    BY <1>0, <2>1, <2>2
<1>6. StatusInv'
  BY <1>1 DEF Core, StatusInv, Typed
<1>7. TellInv'
  <2>1. /\ IsFiniteSet(Tellers(k)) /\ Cardinality(Tellers(k)) \in Nat
        /\ IsFiniteSet(Tellers(k)') /\ Cardinality(Tellers(k)') \in Nat
        /\ Cardinality(Tellers(k)') <= Cardinality(Tellers(k)) + 1
    <3>1. IsFiniteSet(Tellers(k))
      BY DEF Core, TellInv
    <3>2. /\ IsFiniteSet(Tellers(k) \cup {f})
          /\ Cardinality(Tellers(k) \cup {f}) =
               IF f \in Tellers(k) THEN Cardinality(Tellers(k)) ELSE Cardinality(Tellers(k)) + 1
      BY <3>1, FS_AddElement
    <3>3. Cardinality(Tellers(k)) \in Nat
      BY <3>1, FS_CardinalityType
    <3> QED
      BY <1>2, <3>1, <3>2, <3>3
  <2>2. late'[k] = late[k] + (IF Exiting(k) THEN 1 ELSE 0) /\ late[k] <= kills
    BY DEF CountLate, Typed, Core, TellInv
  <2>3. status'[k] >= DONE /\ \A j \in Task \ {k} : status'[j] = status[j] /\ late'[j] = late[j]
    BY DEF Typed, CountLate
  <2>4. ASSUME Startable(k) PROVE Cardinality(Tellers(k)) = 0 /\ notified[k] = 0 /\ late[k] = 0
    BY <2>4, NobodyTells, FS_EmptySet
  <2>5. notified[k] \in Nat /\ late[k] \in Nat
    BY DEF Typed
  <2>6. Cardinality(Tellers(k)') + notified[k] <= 1 + late'[k]
    BY <1>0, <2>1, <2>2, <2>4, <2>5 DEF Core, TellInv
  <2>7. late'[k] <= kills'
    BY <2>2, <2>5 DEF Typed
  <2>8. ASSUME NEW j \in Task \ {k}
        PROVE  /\ ~(status'[j] >= DONE) => notified'[j] = 0 /\ late'[j] = 0
               /\ late'[j] <= kills'
               /\ IsFiniteSet(Tellers(j)') /\ Cardinality(Tellers(j)') + notified'[j] <= 1 + late'[j]
    BY <1>2, <2>3, <2>8 DEF Core, TellInv, Exiting, Typed
  <2> QED
    BY <2>1, <2>3, <2>6, <2>7, <2>8 DEF TellInv, Exiting
<1> QED
  BY <1>3, <1>4, <1>5, <1>6, <1>7 DEF Core

\* kill() of a task that runs: whoever started it will see.
LEMMA KillRunningKeeps ==
  ASSUME Typed, Core, NEW k \in Task, status[k] = RUNNING,
         status' = [status EXCEPT ![k] = KILLED], kills' = kills + 1,
         UNCHANGED <<calls, pcOf, taskOf, spinOf, co, on, caller, notified, late>>
  PROVE  Core'
<1> USE DEF CREATED, RUNNING, WAITING, DONE, CANCELED, KILLED
<1>1. \A j \in Task : Entered(j)' <=> Entered(j)
  BY DEF Entered
<1>2. \A j \in Task : Tellers(j)' = Tellers(j)
  BY DEF Tellers
<1>3. FrameInv'
  BY <1>1 DEF Core, FrameInv
<1>4. CallInv'
  BY <1>1 DEF Core, CallInv, Exiting, Typed
<1>5. OneInv'
  BY DEF Core, OneInv
<1>6. StatusInv'
  BY <1>1 DEF Core, StatusInv, Typed
<1>7. TellInv'
  BY <1>2 DEF Core, TellInv, Exiting, Typed
<1> QED
  BY <1>3, <1>4, <1>5, <1>6, <1>7 DEF Core

\* The task waits again: nobody owns it any more.
LEMMA WaitKeeps ==
  ASSUME Typed, Core, NEW f \in Frame, NEW k \in Task, SameBut(f),
         pcOf[f] = "to_waiting", taskOf[f] = k, ~Exiting(k), Quiet(pcOf'[f]),
         status' = [status EXCEPT ![k] = WAITING],
         UNCHANGED <<co, on, caller, notified, late, kills>>
  PROVE  Core'
<1> USE DEF CREATED, RUNNING, WAITING, DONE, CANCELED, KILLED
<1>1. \A j \in Task : Entered(j)' <=> Entered(j)
  BY Disjoint DEF Entered, SameBut, Quiet
<1>2. Tellers(k)' = Tellers(k) \ {f} /\ \A j \in Task \ {k} : Tellers(j)' = Tellers(j)
  BY DEF Tellers, SameBut, Quiet
<1>3. co[k] = "READY" /\ ~Entered(k)
  BY DEF Core, CallInv, Tells, Owns
<1>4. FrameInv'
  BY <1>1, Disjoint DEF Core, FrameInv, SameBut, Quiet, Tells, Owns, Drives, Typed
<1>5. \A g \in Frame \ {f} : pcOf[g] \in Tells => taskOf[g] # k
  BY <1>3 DEF Core, CallInv, OneInv, Tells, Owns
<1>6. CallInv'
  BY <1>1, <1>5 DEF Core, CallInv, SameBut, Quiet, Exiting, Typed
<1>7. OneInv'
  BY DEF Core, OneInv, SameBut, Quiet, Tells
<1>8. StatusInv'
  BY <1>1, <1>3 DEF Core, StatusInv, Typed
<1>9. TellInv'
  <2>1. /\ IsFiniteSet(Tellers(k)')
        /\ Cardinality(Tellers(k)') <= Cardinality(Tellers(k))
        /\ Cardinality(Tellers(k)') \in Nat /\ Cardinality(Tellers(k)) \in Nat
    <3>1. IsFiniteSet(Tellers(k)) /\ Tellers(k) \ {f} \in SUBSET Tellers(k)
      BY DEF Core, TellInv
    <3> QED
      BY <1>2, <3>1, FS_Subset, FS_CardinalityType
  <2>2. /\ notified[k] = 0 /\ late[k] = 0 /\ late[k] <= kills
        /\ Cardinality(Tellers(k)) + notified[k] <= 1 + late[k]
    BY DEF Core, TellInv
  <2>3. \A j \in Task \ {k} : status'[j] = status[j]
    BY DEF Typed
  <2> QED
    BY <1>2, <2>1, <2>2, <2>3 DEF Core, TellInv, Exiting
<1> QED
  BY <1>4, <1>6, <1>7, <1>8, <1>9 DEF Core

\* The action is told.
LEMMA TellKeeps ==
  ASSUME Typed, Core, NEW f \in Frame, NEW k \in Task, SameBut(f),
         pcOf[f] = "finished", taskOf[f] = k, Quiet(pcOf'[f]),
         notified' = [notified EXCEPT ![k] = @ + 1],
         UNCHANGED <<status, co, on, caller, late, kills>>
  PROVE  Core'
<1>1. \A j \in Task : Entered(j)' <=> Entered(j)
  BY Disjoint DEF Entered, SameBut, Quiet
<1>2. Tellers(k)' = Tellers(k) \ {f} /\ \A j \in Task \ {k} : Tellers(j)' = Tellers(j)
  BY DEF Tellers, SameBut, Quiet
<1>3. f \in Tellers(k) /\ Exiting(k)
  BY DEF Tellers, Tells, Core, CallInv
<1>4. FrameInv'
  BY <1>1, Disjoint DEF Core, FrameInv, SameBut, Quiet, Tells, Owns, Drives, Typed
<1>5. CallInv'
  BY <1>1 DEF Core, CallInv, SameBut, Quiet, Exiting
<1>6. OneInv'
  BY DEF Core, OneInv, SameBut, Quiet, Tells
<1>7. StatusInv'
  BY <1>1 DEF Core, StatusInv
<1>8. TellInv'
  <2>1. /\ IsFiniteSet(Tellers(k)')
        /\ Cardinality(Tellers(k)') = Cardinality(Tellers(k)) - 1
        /\ Cardinality(Tellers(k)) \in Nat
    <3>1. IsFiniteSet(Tellers(k))
      BY DEF Core, TellInv
    <3> QED
      BY <1>2, <1>3, <3>1, FS_RemoveElement, FS_CardinalityType
  <2>2. /\ late[k] <= kills /\ Cardinality(Tellers(k)) + notified[k] <= 1 + late[k]
        /\ notified'[k] = notified[k] + 1 /\ notified[k] \in Nat /\ late[k] \in Nat
    BY DEF Core, TellInv, Typed
  <2>3. Cardinality(Tellers(k)') + notified'[k] <= 1 + late[k]
    BY <2>1, <2>2
  <2>4. \A j \in Task \ {k} : notified'[j] = notified[j]
    BY DEF Typed
  <2> QED
    BY <1>2, <1>3, <2>1, <2>2, <2>3, <2>4 DEF Core, TellInv, Exiting
<1> QED
  BY <1>4, <1>5, <1>6, <1>7, <1>8 DEF Core

\* The thread goes over to the coroutine, of which its call is the only owner.
LEMMA EnterKeeps ==
  ASSUME Typed, Core, NEW t \in Thread, NEW f \in Frame, NEW k \in Task, f = on[t], SameBut(f),
         pcOf[f] \in {"enter", "notify"}, taskOf[f] = k, co[k] = "READY",
         pcOf'[f] = "inside", taskOf'[f] = k, spinOf'[f] => Exiting(k),
         co' = [co EXCEPT ![k] = "RUNNING"], on' = [on EXCEPT ![t] = k],
         caller' = [caller EXCEPT ![k] = f],
         UNCHANGED <<status, notified, late, kills>>
  PROVE  Core'
<1>1. ~Entered(k) /\ k # f /\ pcOf[k] # "inside" /\ k \in Frame
  BY Disjoint DEF Core, CallInv, FrameInv, Tells, Owns, Entered
<1>2. \A g \in Frame \ {f} : pcOf[g] \in Owns => taskOf[g] # k
  BY DEF Core, OneInv, Owns
<1>3. EnteredNext(k) /\ \A j \in Task \ {k} : EnteredNext(j) <=> Entered(j)
  BY Disjoint DEF Entered, EnteredNext, SameBut, Typed
<1>4. f \in Task => co[f] = "RUNNING"
  BY DEF Core, FrameInv, Entered
<1>5. FrameInv'
  <2>1. \A u \in Thread : on[u] # k /\ (u # t => on[u] # f /\ on'[u] = on[u])
    BY <1>1 DEF Core, FrameInv, Typed
  <2>2. on'[t] = k /\ caller'[k] = f /\ co'[k] = "RUNNING"
    BY DEF Typed
  <2>3. \A j \in Task \ {k} : caller'[j] = caller[j] /\ co'[j] = co[j]
    BY DEF Typed
  <2>4. \A u, w \in Thread : on'[u] = on'[w] => u = w
    BY <2>1, <2>2 DEF Core, FrameInv
  <2>5. \A u \in Thread : pcOf'[on'[u]] # "inside" /\ (on'[u] \in Task => EnteredNext(on'[u]))
    <3>1. ASSUME NEW u \in Thread, u # t
          PROVE  pcOf'[on'[u]] # "inside" /\ (on'[u] \in Task => EnteredNext(on'[u]))
      <4>1. on'[u] = on[u] /\ on[u] \in Frame \ {f, k}
        BY <2>1, <3>1 DEF Typed
      <4>2. pcOf'[on[u]] = pcOf[on[u]] /\ (on[u] \in Task => (EnteredNext(on[u]) <=> Entered(on[u])))
        BY <1>3, <4>1 DEF SameBut
      <4>3. pcOf[on[u]] # "inside" /\ (on[u] \in Task => Entered(on[u]))
        BY DEF Core, FrameInv
      <4> QED
        BY <4>1, <4>2, <4>3
    <3>2. pcOf'[on'[t]] # "inside"
      BY <1>1, <2>2 DEF SameBut
    <3> QED
      BY <1>3, <2>2, <3>1, <3>2
  <2>6. ASSUME NEW j \in Task
        PROVE  /\ pcOf'[j] = "inside" => co'[j] = "RUNNING"
               /\ pcOf'[j] = "leave" => co'[j] # "RUNNING" /\ \E u \in Thread : on'[u] = j
               /\ EnteredNext(j) => /\ caller'[j] \in Frame /\ pcOf'[caller'[j]] = "inside"
                                 /\ taskOf'[caller'[j]] = j
    <3>1. CASE j = k
      BY <1>1, <2>2, <3>1 DEF SameBut, Entered
    <3>2. CASE j = f
      <4>1. caller[f] \in Frame \ {f} /\ pcOf[caller[f]] = "inside" /\ taskOf[caller[f]] = f
        BY <1>4, <3>2 DEF Core, FrameInv, Entered
      <4> QED
        BY <1>1, <1>4, <2>3, <3>2, <4>1 DEF SameBut
    <3>3. CASE j \notin {k, f}
      <4>1. pcOf'[j] = pcOf[j] /\ co'[j] = co[j] /\ caller'[j] = caller[j] /\ (EnteredNext(j) <=> Entered(j))
        BY <1>3, <2>3, <3>3, Disjoint DEF SameBut
      <4>2. Entered(j) => caller[j] \in Frame \ {f}
        BY DEF Core, FrameInv
      <4>3. pcOf[j] = "leave" => \E u \in Thread \ {t} : on[u] = j
        BY <3>3 DEF Core, FrameInv
      <4> QED
        BY <2>1, <4>1, <4>2, <4>3 DEF Core, FrameInv, SameBut
    <3> QED
      BY <3>1, <3>2, <3>3
  <2>7. ASSUME NEW g \in Frame, pcOf'[g] = "inside"
        PROVE  taskOf'[g] \in Task /\ caller'[taskOf'[g]] = g /\ EnteredNext(taskOf'[g])
    <3>1. CASE g = f
      BY <1>3, <2>2, <3>1
    <3>2. CASE g # f
      <4>1. pcOf[g] = "inside" /\ taskOf'[g] = taskOf[g] /\ taskOf[g] \in Task \ {k}
        BY <1>2, <2>7, <3>2 DEF SameBut, Owns, Drives, Core, FrameInv
      <4> QED
        BY <1>3, <2>3, <3>2, <2>7, <4>1 DEF Core, FrameInv
    <3> QED
      BY <3>1, <3>2
  <2> QED
    BY <2>4, <2>5, <2>6, <2>7 DEF FrameInv, Entered, EnteredNext
<1>6. CallInv'
  <2>1. \A g \in Frame \ {f} : pcOf[g] \in Tells => taskOf[g] # k
    BY <1>2 DEF Core, CallInv, Tells
  <2> QED
    BY <1>3, <2>1 DEF Core, CallInv, SameBut, Exiting, Typed, Tells, Owns, Entered, EnteredNext
<1>7. OneInv'
  BY <1>2 DEF Core, OneInv, SameBut, Owns, Drives, Typed
<1>8. StatusInv'
  BY <1>3 DEF Core, StatusInv, CallInv, Tells, Owns, Typed, Entered, EnteredNext
<1>9. \A j \in Task : Tellers(j)' = Tellers(j)
  BY DEF Tellers, SameBut, Tells, Owns, Drives
<1>10. TellInv'
  BY <1>9 DEF Core, TellInv, Exiting
<1> QED
  BY <1>5, <1>6, <1>7, <1>8, <1>10 DEF Core

\* The coroutine publishes READY or FINISHED, and is about to leave its stack.
LEMMA YieldKeeps ==
  ASSUME Typed, Core, NEW t \in Thread, NEW k \in Task, k = on[t], SameBut(k),
         Quiet(pcOf[k]), pcOf'[k] = "leave",
         NEW s \in {"READY", "FINISHED"}, co' = [co EXCEPT ![k] = s],
         UNCHANGED <<status, on, caller, notified, late, kills>>
  PROVE  Core'
<1>1. Entered(k) /\ co[k] = "RUNNING" /\ k \in Frame
  BY Disjoint DEF Core, FrameInv, Entered, Quiet
<1>2. \A j \in Task : EnteredNext(j) <=> Entered(j)
  BY <1>1, Disjoint DEF Entered, EnteredNext, SameBut, Typed
<1>3. FrameInv'
  <2>1. co'[k] = s /\ \A j \in Task \ {k} : co'[j] = co[j]
    BY DEF Typed
  <2>2. caller[k] # k /\ \A j \in Task : Entered(j) => caller[j] \in Frame \ {k}
    BY <1>1 DEF Core, FrameInv, Quiet, Tells, Owns, Drives
  <2>3. \A u \in Thread : pcOf'[on[u]] # "inside" /\ (on[u] \in Task => EnteredNext(on[u]))
    BY <1>2 DEF Core, FrameInv, SameBut, Typed
  <2>4. ASSUME NEW j \in Task
        PROVE  /\ pcOf'[j] = "inside" => co'[j] = "RUNNING"
               /\ pcOf'[j] = "leave" => co'[j] # "RUNNING" /\ \E u \in Thread : on[u] = j
               /\ EnteredNext(j) => /\ caller[j] \in Frame /\ pcOf'[caller[j]] = "inside"
                                    /\ taskOf'[caller[j]] = j
    <3>1. CASE j = k
      BY <1>1, <1>2, <2>1, <2>2, <3>1 DEF Core, FrameInv, SameBut
    <3>2. CASE j # k
      <4>1. pcOf'[j] = pcOf[j] /\ co'[j] = co[j]
        BY <2>1, <3>2, Disjoint DEF SameBut
      <4> QED
        BY <1>2, <2>2, <4>1 DEF Core, FrameInv, SameBut
    <3> QED
      BY <3>1, <3>2
  <2>5. ASSUME NEW g \in Frame, pcOf'[g] = "inside"
        PROVE  taskOf'[g] \in Task /\ caller[taskOf'[g]] = g /\ EnteredNext(taskOf'[g])
    BY <1>2, <2>5 DEF Core, FrameInv, SameBut
  <2> QED
    BY <2>3, <2>4, <2>5 DEF FrameInv, Entered, EnteredNext, Core
<1>4. CallInv'
  <2>1. \A g \in Frame : pcOf[g] \in Tells /\ taskOf[g] = k => pcOf[g] = "inside"
    BY <1>1 DEF Core, CallInv
  <2> QED
    BY <1>2, <2>1 DEF Core, CallInv, SameBut, Exiting, Typed, Tells, Owns, Drives, Entered, EnteredNext
<1>5. OneInv'
  BY <1>1 DEF Core, OneInv, SameBut, Owns, Drives, Typed
<1>6. StatusInv'
  BY <1>1, <1>2 DEF Core, StatusInv, Typed, Entered, EnteredNext
<1>7. \A j \in Task : Tellers(j)' = Tellers(j)
  BY DEF Tellers, SameBut, Quiet, Tells, Owns, Drives
<1>8. TellInv'
  BY <1>7 DEF Core, TellInv, Exiting
<1> QED
  BY <1>3, <1>4, <1>5, <1>6, <1>8 DEF Core

\* The thread is back in the frame that entered the coroutine.
LEMMA LeaveKeeps ==
  ASSUME Typed, Core, NEW t \in Thread, NEW k \in Task, k = on[t], NEW f \in Frame, f = caller[k],
         pcOf[k] = "leave", Quiet(pcOf'[k]), pcOf'[f] = "returned", f # k =>
           taskOf'[f] = taskOf[f] /\ spinOf'[f] = spinOf[f],
         \A g \in Frame \ {f, k} :
           pcOf'[g] = pcOf[g] /\ taskOf'[g] = taskOf[g] /\ spinOf'[g] = spinOf[g],
         on' = [on EXCEPT ![t] = f],
         UNCHANGED <<status, co, caller, notified, late, kills>>
  PROVE  Core'
<1>1. /\ Entered(k) /\ co[k] # "RUNNING" /\ k \in Frame
      /\ pcOf[f] = "inside" /\ taskOf[f] = k /\ f # k
  BY Disjoint DEF Core, FrameInv, Entered
<1>2. ~EnteredNext(k) /\ \A j \in Task \ {k} : EnteredNext(j) <=> Entered(j)
  BY <1>1, Disjoint DEF Entered, EnteredNext, Quiet
<1>3. FrameInv'
  <2>1. \A u \in Thread : on[u] # f /\ (u # t => on[u] # k /\ on'[u] = on[u])
    BY <1>1 DEF Core, FrameInv, Typed
  <2>2. on'[t] = f
    BY DEF Typed
  <2>3. \A u, w \in Thread : on'[u] = on'[w] => u = w
    BY <2>1, <2>2 DEF Core, FrameInv
  <2>4. f \in Task => co[f] = "RUNNING"
    BY <1>1 DEF Core, FrameInv
  <2>5. \A u \in Thread : pcOf'[on'[u]] # "inside" /\ (on'[u] \in Task => EnteredNext(on'[u]))
    <3>1. ASSUME NEW u \in Thread, u # t
          PROVE  pcOf'[on'[u]] # "inside" /\ (on'[u] \in Task => EnteredNext(on'[u]))
      <4>1. on'[u] = on[u] /\ on[u] \in Frame \ {f, k}
        BY <2>1, <3>1 DEF Typed
      <4> QED
        BY <1>2, <4>1 DEF Core, FrameInv
    <3>2. pcOf'[on'[t]] # "inside" /\ (on'[t] \in Task => EnteredNext(on'[t]))
      BY <2>2, <2>4 DEF EnteredNext
    <3> QED
      BY <3>1, <3>2
  <2>6. ASSUME NEW j \in Task
        PROVE  /\ pcOf'[j] = "inside" => co[j] = "RUNNING"
               /\ pcOf'[j] = "leave" => co[j] # "RUNNING" /\ \E u \in Thread : on'[u] = j
               /\ EnteredNext(j) => /\ caller[j] \in Frame /\ pcOf'[caller[j]] = "inside"
                                    /\ taskOf'[caller[j]] = j
    <3>1. CASE j = k
      BY <1>2, <3>1 DEF Quiet, Tells, Owns, Drives
    <3>2. CASE j # k
      <4>1. Entered(j) => /\ caller[j] \in Frame /\ pcOf[caller[j]] = "inside"
                          /\ taskOf[caller[j]] = j /\ caller[j] \notin {f, k}
        BY <1>1, <3>2 DEF Core, FrameInv
      <4>2. pcOf'[j] \in {"inside", "leave"} => pcOf'[j] = pcOf[j] /\ j # f
        BY <1>1, <3>2, Disjoint DEF Core
      <4>3. pcOf[j] = "leave" => \E u \in Thread \ {t} : on[u] = j
        BY <3>2 DEF Core, FrameInv
      <4> QED
        BY <1>2, <2>1, <3>2, <4>1, <4>2, <4>3 DEF Core, FrameInv
    <3> QED
      BY <3>1, <3>2
  <2>7. ASSUME NEW g \in Frame, pcOf'[g] = "inside"
        PROVE  taskOf'[g] \in Task /\ caller[taskOf'[g]] = g /\ EnteredNext(taskOf'[g])
    <3>1. g \notin {f, k} /\ pcOf[g] = "inside" /\ taskOf'[g] = taskOf[g]
      BY <2>7 DEF Quiet, Tells, Owns, Drives
    <3>2. taskOf[g] # k
      BY <3>1 DEF Core, FrameInv
    <3> QED
      BY <1>2, <3>1, <3>2 DEF Core, FrameInv
  <2> QED
    BY <2>3, <2>5, <2>6, <2>7 DEF FrameInv, Entered, EnteredNext
<1>4. CallInv'
  <2>1. /\ status[k] \notin {CREATED, WAITING} /\ (spinOf[f] => Exiting(k))
    BY <1>1 DEF Core, CallInv, Tells, Owns, Drives
  <2>2. \A g \in Frame \ {f, k} : pcOf[g] \in Tells => taskOf[g] # k
    BY <1>1 DEF Core, CallInv, FrameInv
  <2> QED
    BY <1>1, <1>2, <2>1, <2>2
    DEF Core, CallInv, Exiting, Tells, Owns, Drives, Quiet, Entered, EnteredNext
<1>5. OneInv'
  BY <1>1 DEF Core, OneInv, Owns, Drives, Quiet, Tells
<1>6. StatusInv'
  BY <1>2 DEF Core, StatusInv, Entered, EnteredNext
<1>7. \A j \in Task : Tellers(j)' = Tellers(j)
  BY <1>1 DEF Tellers, Quiet, Tells, Owns, Drives
<1>8. TellInv'
  BY <1>7 DEF Core, TellInv, Exiting
<1> QED
  BY <1>3, <1>4, <1>5, <1>6, <1>8 DEF Core

-----------------------------------------------------------------------------
(* The actions *)

LEMMA IInvTypes ==
  ASSUME IInv
  PROVE  Typed /\ Stacks /\ Core
BY DEF IInv, TypeOK, Typed, Stacks

\* What a thread inside a call can rely on, and one in client code.
LEMMA AtTop ==
  ASSUME IInv, NEW t \in Thread, calls[on[t]] # <<>>
  PROVE  /\ on[t] \in Frame /\ Top(t) \in GoodCall(on[t]) /\ Top(t) \in Call
         /\ pcOf[on[t]] = Top(t).pc /\ taskOf[on[t]] = Top(t).task /\ spinOf[on[t]] = Top(t).spin
<1>1. on[t] \in Frame
  BY DEF IInv, TypeOK
<1>2. Top(t) \in GoodCall(on[t])
  BY <1>1, Uncons DEF IInv, StacksOK, Top
<1> QED
  BY <1>1, <1>2 DEF GoodCall, Top, pcOf, taskOf, spinOf

LEMMA AtIdle ==
  ASSUME IInv, NEW t \in Thread, Idle(t)
  PROVE  on[t] \in Frame /\ pcOf[on[t]] = "idle"
BY DEF IInv, TypeOK, Idle, pcOf

LEMMA NewCallGood ==
  ASSUME NEW f, NEW k \in Task, NEW l \in Label \ (OnTask \cup ForSelf)
  PROVE  /\ NewCall(k, l) \in GoodCall(f)
         /\ NewCall(k, l).pc = l /\ NewCall(k, l).task = k /\ NewCall(k, l).spin = FALSE
BY DEF NewCall, GoodCall, Call

\* The call in progress goes on elsewhere, with what it knows.
LEMMA WentTo ==
  ASSUME IInv, NEW t \in Thread, calls[on[t]] # <<>>, NEW l \in Label,
         l \in OnTask => on[t] \in Task, l \in ForSelf => Top(t).self \in Task, Goto(t, l)
  PROVE  /\ calls' \in [Frame -> Seq(Call)] /\ StacksOK' /\ SameBut(on[t])
         /\ pcOf'[on[t]] = l /\ taskOf'[on[t]] = Top(t).task /\ spinOf'[on[t]] = Top(t).spin
<1> DEFINE c == [Top(t) EXCEPT !.pc = l]
<1>1. c \in GoodCall(on[t]) /\ c.pc = l /\ c.task = Top(t).task /\ c.spin = Top(t).spin
  BY AtTop DEF GoodCall, Call
<1>2. Become(t, c)
  BY DEF Goto
<1> HIDE DEF c
<1>3. Goes(on[t], c)
  BY <1>1, <1>2, AtTop, IInvTypes, Became
<1> QED
  BY <1>1, <1>3 DEF Goes

\* A call is made, from client code or from one that other calls are nested in.
LEMMA CalledNew ==
  ASSUME IInv, NEW t \in Thread, on[t] \in Frame, pcOf[on[t]] \in Below \cup {"idle"},
         NEW k \in Task, NEW l \in Label \ (OnTask \cup ForSelf), Push(t, NewCall(k, l))
  PROVE  /\ calls' \in [Frame -> Seq(Call)] /\ StacksOK' /\ SameBut(on[t])
         /\ pcOf'[on[t]] = l /\ taskOf'[on[t]] = k /\ ~spinOf'[on[t]]
<1> DEFINE c == NewCall(k, l)
<1>1. c \in GoodCall(on[t]) /\ c.pc = l /\ c.task = k /\ c.spin = FALSE
  BY NewCallGood
<1> HIDE DEF c
<1>2. Goes(on[t], c)
  BY <1>1, IInvTypes, Pushed DEF c
<1> QED
  BY <1>1, <1>2 DEF Goes

\* Calls that start a task.
LEMMA StartStep ==
  ASSUME IInv, NEW t \in Thread, NEW k \in Task, Start(t, k)
  PROVE  IInv'
<1>1. on[t] \in Frame /\ pcOf[on[t]] = "idle" /\ Quiet(pcOf[on[t]])
  BY AtIdle DEF Start, Quiet, Tells, Owns, Drives
<1>2. /\ calls' \in [Frame -> Seq(Call)] /\ StacksOK' /\ SameBut(on[t])
      /\ pcOf'[on[t]] = "enter" /\ taskOf'[on[t]] = k /\ ~spinOf'[on[t]]
  BY <1>1, CalledNew DEF Start, Label, OnTask, ForSelf
<1>3. Core'
  BY <1>1, <1>2, IInvTypes, StartKeeps DEF Start
<1> QED
  BY <1>2, <1>3 DEF Start, IInv, TypeOK, CREATED, RUNNING, KILLED

\* The CAS came first: the coroutine is READY, and nobody else starts it.
LEMMA EnterStep ==
  ASSUME IInv, NEW t \in Thread, Enter(t)
  PROVE  IInv'
<1> DEFINE k == Top(t).task
<1>1. calls[on[t]] # <<>> /\ Top(t).pc = "enter"
  BY DEF Enter, At
<1>2. /\ on[t] \in Frame /\ k \in Task /\ Top(t) \in Call
      /\ pcOf[on[t]] = "enter" /\ taskOf[on[t]] = k /\ spinOf[on[t]] = Top(t).spin
  BY <1>1, AtTop DEF Call
<1>3. co[k] = "READY" /\ (spinOf[on[t]] => Exiting(k))
  BY <1>2, IInvTypes DEF Core, CallInv, Tells, Owns
<1>4. Switch(t, k) /\ UNCHANGED <<status, next_list, notified, late, yields, kills, nexts>>
  BY <1>3 DEF Enter
<1>5. /\ calls' \in [Frame -> Seq(Call)] /\ StacksOK' /\ SameBut(on[t])
      /\ pcOf'[on[t]] = "inside" /\ taskOf'[on[t]] = k /\ spinOf'[on[t]] = Top(t).spin
  BY <1>1, <1>4, WentTo DEF Switch, Label, OnTask, ForSelf
<1> HIDE DEF k
<1>6. Core'
  BY <1>2, <1>3, <1>4, <1>5, IInvTypes, EnterKeeps DEF Switch
<1> QED
  BY <1>2, <1>4, <1>5, <1>6, Disjoint DEF Switch, IInv, TypeOK

LEMMA ReturnedStep ==
  ASSUME IInv, NEW t \in Thread, Returned(t)
  PROVE  IInv'
<1> DEFINE k == Top(t).task
           l == AfterReturn(Top(t))
<1>1. calls[on[t]] # <<>> /\ Top(t).pc = "returned" /\ Goto(t, l)
  BY DEF Returned, At
<1>2. /\ on[t] \in Frame /\ k \in Task /\ Top(t) \in Call
      /\ pcOf[on[t]] = "returned" /\ taskOf[on[t]] = k /\ spinOf[on[t]] = Top(t).spin
  BY <1>1, AtTop DEF Call
<1>3. /\ l \in {"notify", "to_done", "to_waiting"}
      /\ l = "notify" <=> Top(t).spin
      /\ l = "to_done" => co[k] = "FINISHED"
      /\ l = "to_waiting" => co[k] # "FINISHED"
  BY DEF AfterReturn, Completed
<1> HIDE DEF k, l
<1>4. /\ calls' \in [Frame -> Seq(Call)] /\ StacksOK' /\ SameBut(on[t])
      /\ pcOf'[on[t]] = l /\ taskOf'[on[t]] = k /\ spinOf'[on[t]] = Top(t).spin
  BY <1>1, <1>3, WentTo DEF Label, OnTask, ForSelf, k
<1>5. /\ status[k] \in RUNNING..KILLED \ {WAITING} /\ (spinOf[on[t]] => Exiting(k))
      /\ co[k] \in {"READY", "FINISHED"}
  BY <1>2, IInvTypes
  DEF Typed, Core, CallInv, Tells, Owns, Drives, Entered, CREATED, RUNNING, WAITING, KILLED
<1>6. UNCHANGED <<status, co, next_list, on, caller, notified, late, yields, kills, nexts>>
  BY DEF Returned
<1>7. Core'
  BY <1>2, <1>3, <1>4, <1>5, <1>6, IInvTypes, SettlingKeeps DEF Tells, Owns, Drives, Exiting
<1> QED
  BY <1>4, <1>6, <1>7 DEF IInv, TypeOK

LEMMA ToDoneStep ==
  ASSUME IInv, NEW t \in Thread, ToDone(t)
  PROVE  IInv'
<1> USE DEF CREATED, RUNNING, WAITING, DONE, CANCELED, KILLED
<1> DEFINE k == Top(t).task
           s == AfterAction(status[k])
<1>1. calls[on[t]] # <<>> /\ Top(t).pc = "to_done" /\ Goto(t, "notify")
  BY DEF ToDone, At
<1>2. /\ on[t] \in Frame /\ k \in Task
      /\ pcOf[on[t]] = "to_done" /\ taskOf[on[t]] = k
  BY <1>1, AtTop DEF Call
<1>3. status' = [status EXCEPT ![k] = s] /\ status \in [Task -> CREATED..KILLED]
  BY IInvTypes DEF ToDone, Typed
<1>4. s \in DONE..KILLED
  BY <1>2, <1>3 DEF AfterAction
<1> HIDE DEF k, s
<1>5. /\ calls' \in [Frame -> Seq(Call)] /\ StacksOK' /\ SameBut(on[t])
      /\ pcOf'[on[t]] = "notify" /\ taskOf'[on[t]] = k
  BY <1>1, WentTo DEF Label, OnTask, ForSelf, k
<1>6. /\ status' \in [Task -> CREATED..KILLED] /\ status'[k] \in DONE..KILLED
      /\ \A j \in Task \ {k} : status'[j] = status[j]
  BY <1>2, <1>3, <1>4
<1>7. UNCHANGED <<co, next_list, on, caller, notified, late, yields, kills, nexts>>
  BY DEF ToDone
<1>8. Core'
  BY <1>2, <1>5, <1>6, <1>7, IInvTypes, SettlingKeeps DEF Tells, Owns, Drives, Exiting
<1> QED
  BY <1>5, <1>6, <1>7, <1>8 DEF IInv, TypeOK

LEMMA ToWaitingStep ==
  ASSUME IInv, NEW t \in Thread, ToWaiting(t)
  PROVE  IInv'
<1> DEFINE k == Top(t).task
<1>1. calls[on[t]] # <<>> /\ Top(t).pc = "to_waiting"
  BY DEF ToWaiting, At
<1>2. /\ on[t] \in Frame /\ k \in Task
      /\ pcOf[on[t]] = "to_waiting" /\ taskOf[on[t]] = k /\ spinOf[on[t]] = Top(t).spin
  BY <1>1, AtTop DEF Call
<1>3. UNCHANGED <<co, next_list, on, caller, notified, late, yields, kills, nexts>>
  BY DEF ToWaiting
<1>4. status[k] \in RUNNING..KILLED \ {WAITING}
  BY <1>2, IInvTypes
  DEF Typed, Core, CallInv, Tells, Owns, Drives, CREATED, RUNNING, WAITING, KILLED
<1>5. CASE Exiting(k) /\ Goto(t, "notify") /\ UNCHANGED status
  <2>1. /\ calls' \in [Frame -> Seq(Call)] /\ StacksOK' /\ SameBut(on[t])
        /\ pcOf'[on[t]] = "notify" /\ taskOf'[on[t]] = k
    BY <1>1, <1>5, WentTo DEF Label, OnTask, ForSelf
  <2> HIDE DEF k
  <2>2. Core'
    BY <1>2, <1>3, <1>4, <1>5, <2>1, IInvTypes, SettlingKeeps DEF Tells, Owns, Drives, Exiting
  <2> QED
    BY <1>3, <1>5, <2>1, <2>2 DEF IInv, TypeOK
<1>6. CASE ~Exiting(k) /\ status' = [status EXCEPT ![k] = WAITING] /\ Pop(t)
  <2>1. Drops(on[t])
    BY <1>1, <1>2, <1>6, IInvTypes, Popped
  <2> HIDE DEF k
  <2>2. Quiet(pcOf'[on[t]]) /\ SameBut(on[t])
    BY <2>1 DEF Drops, Quiet, Below, Tells, Owns, Drives
  <2>3. Core'
    BY <1>2, <1>3, <1>6, <2>2, IInvTypes, WaitKeeps
  <2>4. status' \in [Task -> CREATED..KILLED]
    <3>1. status \in [Task -> CREATED..KILLED]
      BY IInvTypes DEF Typed
    <3>2. WAITING \in CREATED..KILLED
      BY DEF CREATED, WAITING, KILLED
    <3> QED
      BY <1>6, <3>1, <3>2
  <2> QED
    BY <1>3, <2>1, <2>3, <2>4 DEF Drops, IInv, TypeOK
<1> QED
  BY <1>5, <1>6 DEF ToWaiting

\* kill() and cancel()
LEMMA KillStep ==
  ASSUME IInv, NEW t \in Thread, NEW k \in Task, NotKilledInAction(k), Kill(t, k) \/ Cancel(t, k)
  PROVE  IInv'
<1>1. on[t] \in Frame /\ pcOf[on[t]] = "idle" /\ Quiet(pcOf[on[t]])
  BY AtIdle DEF Kill, Cancel, Quiet, Tells, Owns, Drives
<1>2. PICK s \in {CANCELED, KILLED} : status' = [status EXCEPT ![k] = s]
  BY DEF Kill, Cancel
<1>3. /\ kills' = kills + 1 /\ kills' \in 0..MaxKill /\ CountLate(k)
      /\ UNCHANGED <<co, next_list, on, caller, notified, yields, nexts>>
  BY IInvTypes, TaskAssumption DEF Kill, Cancel, Typed
<1>4. late' \in [Task -> 0..MaxKill]
  <2>1. late[k] \in 0..MaxKill /\ late[k] <= kills
    BY IInvTypes DEF Core, TellInv, Typed
  <2>2. late[k] + 1 \in 0..MaxKill
    BY <1>3, <2>1, IInvTypes, TaskAssumption DEF Typed
  <2> QED
    BY <1>3, <2>2, IInvTypes DEF CountLate, Typed
<1>5. status' \in [Task -> CREATED..KILLED]
  BY <1>2, IInvTypes DEF Typed, CREATED, CANCELED, KILLED
<1>6. CASE status[k] # RUNNING
  <2>1. Push(t, NewCall(k, "notify"))
    BY <1>6 DEF Kill, Cancel, LeftToStarter
  <2>2. /\ calls' \in [Frame -> Seq(Call)] /\ StacksOK' /\ SameBut(on[t])
        /\ pcOf'[on[t]] = "notify" /\ taskOf'[on[t]] = k /\ ~spinOf'[on[t]]
    BY <1>1, <2>1, CalledNew DEF Label, OnTask, ForSelf
  <2>3. Core'
    BY <1>1, <1>2, <1>3, <1>6, <2>2, IInvTypes, KillKeeps
  <2> QED
    BY <1>3, <1>4, <1>5, <2>2, <2>3 DEF IInv, TypeOK
<1>7. CASE status[k] = RUNNING
  <2>1. UNCHANGED calls /\ status' = [status EXCEPT ![k] = KILLED]
    BY <1>7 DEF Kill, Cancel, LeftToStarter
  <2>2. UNCHANGED <<pcOf, taskOf, spinOf, late>>
    BY <1>3, <1>7, <2>1, IInvTypes
    DEF pcOf, taskOf, spinOf, CountLate, Exiting, RUNNING, DONE, Typed
  <2>3. Core'
    BY <1>3, <1>7, <2>1, <2>2, IInvTypes, KillRunningKeeps
  <2>4. StacksOK'
    BY <2>1 DEF IInv, StacksOK
  <2> QED
    BY <1>3, <1>4, <1>5, <2>1, <2>3, <2>4 DEF IInv, TypeOK
<1> QED
  BY <1>6, <1>7

\* _notify_finished(): once more into the coroutine, or on to the action.
LEMMA NotifyStep ==
  ASSUME IInv, NEW t \in Thread, Notify(t)
  PROVE  IInv'
<1> DEFINE k == Top(t).task
<1>1. calls[on[t]] # <<>> /\ Top(t).pc = "notify"
  BY DEF Notify, At
<1>2. /\ on[t] \in Frame /\ k \in Task /\ Top(t) \in GoodCall(on[t]) /\ Top(t) \in Call
      /\ pcOf[on[t]] = "notify" /\ taskOf[on[t]] = k /\ spinOf[on[t]] = Top(t).spin
  BY <1>1, AtTop DEF Call
<1>3. UNCHANGED <<status, next_list, notified, late, yields, kills, nexts>>
  BY DEF Notify
<1>4. Exiting(k) /\ status[k] \in RUNNING..KILLED \ {WAITING}
  BY <1>2, IInvTypes
  DEF Typed, Core, CallInv, Tells, Owns, Drives, CREATED, RUNNING, WAITING, KILLED
<1>5. CASE Completed(k) /\ Goto(t, "finished") /\ UNCHANGED <<co, on, caller>>
  <2>1. /\ calls' \in [Frame -> Seq(Call)] /\ StacksOK' /\ SameBut(on[t])
        /\ pcOf'[on[t]] = "finished" /\ taskOf'[on[t]] = k
    BY <1>1, <1>5, WentTo DEF Label, OnTask, ForSelf
  <2> HIDE DEF k
  <2>2. Core'
    BY <1>2, <1>3, <1>4, <1>5, <2>1, IInvTypes, SettlingKeeps
    DEF Tells, Owns, Drives, Exiting, Completed
  <2> QED
    BY <1>3, <1>5, <2>1, <2>2 DEF IInv, TypeOK
<1>6. CASE ~(Completed(k) /\ Goto(t, "finished") /\ UNCHANGED <<co, on, caller>>)
  <2> DEFINE c == [Top(t) EXCEPT !.pc = "inside", !.spin = TRUE]
  <2>1. /\ co[k] = "READY" /\ co' = [co EXCEPT ![k] = "RUNNING"]
        /\ on' = [on EXCEPT ![t] = k] /\ caller' = [caller EXCEPT ![k] = on[t]] /\ Become(t, c)
    BY <1>6 DEF Notify
  <2>2. c \in GoodCall(on[t]) /\ c.pc = "inside" /\ c.task = k /\ c.spin = TRUE
    BY <1>2 DEF GoodCall, Call, Label, OnTask, ForSelf
  <2> HIDE DEF c, k
  <2>3. Goes(on[t], c)
    BY <1>1, <1>2, <2>1, <2>2, IInvTypes, Became
  <2>4. Core'
    BY <1>2, <1>3, <1>4, <2>1, <2>2, <2>3, IInvTypes, EnterKeeps DEF Goes
  <2> QED
    BY <1>2, <1>3, <2>1, <2>3, <2>4, Disjoint DEF Goes, IInv, TypeOK
<1> QED
  BY <1>5, <1>6

\* The calls that neither own a task nor leave one.
LEMMA OnFinishedStep ==
  ASSUME IInv, NEW t \in Thread, OnFinished(t)
  PROVE  IInv'
<1> DEFINE k == Top(t).task
<1>1. calls[on[t]] # <<>> /\ Top(t).pc = "finished" /\ Goto(t, "swap")
  BY DEF OnFinished, At
<1>2. /\ on[t] \in Frame /\ k \in Task
      /\ pcOf[on[t]] = "finished" /\ taskOf[on[t]] = k
  BY <1>1, AtTop DEF Call
<1>3. /\ notified' = [notified EXCEPT ![k] = @ + 1]
      /\ UNCHANGED <<status, co, next_list, on, caller, late, yields, kills, nexts>>
  BY DEF OnFinished
<1>4. /\ calls' \in [Frame -> Seq(Call)] /\ StacksOK' /\ SameBut(on[t])
      /\ pcOf'[on[t]] = "swap"
  BY <1>1, WentTo DEF Label, OnTask, ForSelf
<1> HIDE DEF k
<1>5. Core'
  BY <1>2, <1>3, <1>4, IInvTypes, TellKeeps DEF Quiet, Tells, Owns, Drives
<1>6. notified' \in [Task -> Nat]
  <2>1. notified \in [Task -> Nat]
    BY IInvTypes DEF Typed
  <2>2. notified[k] + 1 \in Nat
    BY <1>2, <2>1
  <2> QED
    BY <1>3, <2>1, <2>2
<1> QED
  BY <1>3, <1>4, <1>5, <1>6 DEF IInv, TypeOK

LEMMA SwapListStep ==
  ASSUME IInv, NEW t \in Thread, SwapList(t)
  PROVE  IInv'
<1> DEFINE k == Top(t).task
           c == [Top(t) EXCEPT !.pc = "activate", !.todo = next_list[k]]
<1>1. calls[on[t]] # <<>> /\ Top(t).pc = "swap" /\ Become(t, c)
  BY DEF SwapList, At
<1>2. /\ on[t] \in Frame /\ k \in Task /\ pcOf[on[t]] = "swap"
      /\ Top(t) \in Call
  BY <1>1, AtTop DEF Call
<1>3. next_list[k] \in Seq(Task)
  BY <1>2 DEF IInv, TypeOK
<1>4. c \in GoodCall(on[t]) /\ c.pc = "activate"
  BY <1>2, <1>3 DEF GoodCall, Call, Label, OnTask, ForSelf
<1>5. /\ next_list' = [next_list EXCEPT ![k] = <<>>]
      /\ UNCHANGED <<status, co, on, caller, notified, late, yields, kills, nexts>>
  BY DEF SwapList
<1> HIDE DEF c, k
<1>6. Goes(on[t], c)
  BY <1>1, <1>2, <1>4, IInvTypes, Became
<1>7. SameBut(on[t]) /\ Quiet(pcOf[on[t]]) /\ Quiet(pcOf'[on[t]])
  BY <1>2, <1>4, <1>6 DEF Goes, Quiet, Tells, Owns, Drives
<1>8. Core'
  BY <1>2, <1>5, <1>7, IInvTypes, QuietKeeps
<1>9. next_list' \in [Task -> Seq(Task)]
  <2>1. next_list \in [Task -> Seq(Task)] /\ <<>> \in Seq(Task)
    BY DEF IInv, TypeOK
  <2> QED
    BY <1>5, <2>1
<1> QED
  BY <1>5, <1>6, <1>8, <1>9 DEF Goes, IInv, TypeOK

LEMMA ActivateStep ==
  ASSUME IInv, NEW t \in Thread, Activate(t)
  PROVE  IInv'
<1> DEFINE todo == Top(t).todo
           rest == [Top(t) EXCEPT !.todo = Tail(todo)]
<1>1. calls[on[t]] # <<>> /\ Top(t).pc = "activate"
  BY DEF Activate, At
<1>2. /\ on[t] \in Frame /\ pcOf[on[t]] = "activate" /\ Top(t) \in GoodCall(on[t])
      /\ Top(t) \in Call /\ todo \in Seq(Task) /\ Quiet(pcOf[on[t]])
  BY <1>1, AtTop DEF Call, Quiet, Tells, Owns, Drives
<1>3. UNCHANGED <<co, next_list, on, caller, notified, late, yields, kills, nexts>>
  BY DEF Activate
<1>4. todo # <<>> => /\ Head(todo) \in Task
                     /\ rest \in BelowCall(on[t]) /\ rest \in GoodCall(on[t]) /\ rest.pc = "activate"
  <2>1. todo # <<>> => Head(todo) \in Task /\ Tail(todo) \in Seq(Task)
    BY <1>2
  <2> QED
    BY <1>1, <1>2, <2>1 DEF BelowCall, GoodCall, Call, Below
<1> HIDE DEF rest
<1>5. CASE todo = <<>> /\ Pop(t) /\ UNCHANGED status
  <2>1. Drops(on[t])
    BY <1>1, <1>2, <1>5, IInvTypes, Popped
  <2>2. SameBut(on[t]) /\ Quiet(pcOf'[on[t]])
    BY <2>1 DEF Drops, Quiet, Below, Tells, Owns, Drives
  <2>3. Core'
    BY <1>2, <1>3, <1>5, <2>2, IInvTypes, QuietKeeps
  <2> QED
    BY <1>3, <1>5, <2>1, <2>3 DEF Drops, IInv, TypeOK
<1>6. CASE todo # <<>> /\ Become(t, rest) /\ UNCHANGED status
  <2>1. Goes(on[t], rest)
    BY <1>1, <1>2, <1>4, <1>6, IInvTypes, Became
  <2>2. SameBut(on[t]) /\ Quiet(pcOf'[on[t]])
    BY <1>4, <1>6, <2>1 DEF Goes, Quiet, Tells, Owns, Drives
  <2>3. Core'
    BY <1>2, <1>3, <1>6, <2>2, IInvTypes, QuietKeeps
  <2> QED
    BY <1>3, <1>6, <2>1, <2>3 DEF Goes, IInv, TypeOK
<1>7. CASE /\ todo # <<>> /\ Startable(Head(todo))
           /\ status' = [status EXCEPT ![Head(todo)] = RUNNING]
           /\ calls' = [calls EXCEPT ![on[t]] = <<NewCall(Head(todo), "enter"), rest>> \o Tail(@)]
  <2> DEFINE k == Head(todo)
             c == NewCall(k, "enter")
  <2>1. k \in Task /\ rest \in BelowCall(on[t])
    BY <1>4, <1>7
  <2>2. c \in GoodCall(on[t]) /\ c.pc = "enter" /\ c.task = k /\ c.spin = FALSE
    <3>1. "enter" \in Label \ (OnTask \cup ForSelf)
      BY DEF Label, OnTask, ForSelf
    <3> HIDE DEF k
    <3> QED
      BY <2>1, <3>1, NewCallGood
  <2> HIDE DEF c, todo
  <2>3. Goes(on[t], c)
    BY <1>1, <1>2, <1>7, <2>1, <2>2, IInvTypes, Nested DEF c
  <2> HIDE DEF k
  <2>4. Core'
    BY <1>2, <1>3, <1>7, <2>1, <2>2, <2>3, IInvTypes, StartKeeps DEF Goes, k
  <2>5. status' \in [Task -> CREATED..KILLED]
    <3>1. status \in [Task -> CREATED..KILLED] /\ RUNNING \in CREATED..KILLED
      BY IInvTypes DEF Typed, CREATED, RUNNING, KILLED
    <3> QED
      BY <1>7, <3>1
  <2> QED
    BY <1>3, <2>3, <2>4, <2>5 DEF Goes, IInv, TypeOK
<1> QED
  BY <1>5, <1>6, <1>7 DEF Activate, rest

-----------------------------------------------------------------------------
(* next() and await_task() *)

LEMMA CallForSelf ==
  ASSUME NEW f, NEW k \in Task, NEW n \in Task, NEW l \in Label \ {"leave"}, l \in OnTask => f \in Task
  PROVE  [NewCall(k, l) EXCEPT !.self = n] \in GoodCall(f) /\ [NewCall(k, l) EXCEPT !.self = n].pc = l
<1> DEFINE c == NewCall(k, l)
<1>1. c \in Call /\ c.pc = l
  <2>1. <<>> \in Seq(Task)
    OBVIOUS
  <2> QED
    BY <2>1 DEF NewCall, Call
<1> HIDE DEF c
<1>2. [c EXCEPT !.self = n] \in Call /\ [c EXCEPT !.self = n].pc = l /\ [c EXCEPT !.self = n].self = n
  BY <1>1 DEF Call
<1> QED
  BY <1>2 DEF GoodCall, c

LEMMA NextStep ==
  ASSUME IInv, NEW t \in Thread, NEW k \in Task, NEW n \in Task, Next_(t, k, n)
  PROVE  IInv'
<1>1. on[t] \in Frame /\ pcOf[on[t]] = "idle" /\ Quiet(pcOf[on[t]])
  BY AtIdle DEF Next_, Quiet, Tells, Owns, Drives
<1>2. /\ nexts' \in 0..MaxNext
      /\ UNCHANGED <<co, next_list, on, caller, notified, late, yields, kills>>
  BY TaskAssumption DEF Next_, IInv, TypeOK
<1>3. CASE /\ Startable(n) /\ status' = [status EXCEPT ![n] = RUNNING]
           /\ Push(t, NewCall(n, "enter"))
  <2>1. /\ calls' \in [Frame -> Seq(Call)] /\ StacksOK' /\ SameBut(on[t])
        /\ pcOf'[on[t]] = "enter" /\ taskOf'[on[t]] = n /\ ~spinOf'[on[t]]
    BY <1>1, <1>3, CalledNew DEF Label, OnTask, ForSelf
  <2>2. Core'
    BY <1>1, <1>2, <1>3, <2>1, IInvTypes, StartKeeps
  <2>3. status' \in [Task -> CREATED..KILLED]
    BY <1>3, IInvTypes DEF Typed, CREATED, RUNNING, KILLED
  <2> QED
    BY <1>2, <2>1, <2>2, <2>3 DEF IInv, TypeOK
<1>4. CASE UNCHANGED <<status, calls>>
  <2>1. UNCHANGED <<pcOf, taskOf, spinOf>>
    BY <1>4 DEF pcOf, taskOf, spinOf
  <2>2. SameBut(on[t]) /\ Quiet(pcOf'[on[t]])
    BY <1>1, <1>4, <2>1 DEF SameBut
  <2>3. Core'
    BY <1>1, <1>2, <1>4, <2>2, IInvTypes, QuietKeeps
  <2>4. StacksOK'
    BY <1>4 DEF IInv, StacksOK
  <2> QED
    BY <1>2, <1>4, <2>3, <2>4 DEF IInv, TypeOK
<1>5. CASE Push(t, [NewCall(k, "push") EXCEPT !.self = n]) /\ UNCHANGED status
  <2> DEFINE c == [NewCall(k, "push") EXCEPT !.self = n]
  <2>1. c \in GoodCall(on[t]) /\ c.pc = "push"
    BY CallForSelf DEF Label, OnTask
  <2> HIDE DEF c
  <2>2. Goes(on[t], c)
    BY <1>1, <1>5, <2>1, IInvTypes, Pushed DEF c
  <2>3. SameBut(on[t]) /\ Quiet(pcOf'[on[t]])
    BY <2>1, <2>2 DEF Goes, Quiet, Tells, Owns, Drives
  <2>4. Core'
    BY <1>1, <1>2, <1>5, <2>3, IInvTypes, QuietKeeps
  <2> QED
    BY <1>2, <1>5, <2>2, <2>4 DEF Goes, IInv, TypeOK
<1> QED
  BY <1>3, <1>4, <1>5 DEF Next_

LEMMA PushNextStep ==
  ASSUME IInv, NEW t \in Thread, PushNext(t)
  PROVE  IInv'
<1> DEFINE k == Top(t).task
<1>1. calls[on[t]] # <<>> /\ Top(t).pc \in {"push", "await_push"}
  BY DEF PushNext, At
<1>2. /\ on[t] \in Frame /\ k \in Task /\ pcOf[on[t]] \in {"push", "await_push"}
      /\ Top(t) \in GoodCall(on[t]) /\ Quiet(pcOf[on[t]])
  BY <1>1, AtTop DEF Call, Quiet, Tells, Owns, Drives
<1>3. Top(t).self \in Task
  BY <1>1, <1>2 DEF GoodCall, ForSelf
<1>4. /\ next_list' = [next_list EXCEPT ![k] = Append(@, Top(t).self)]
      /\ UNCHANGED <<status, co, on, caller, notified, late, yields, kills, nexts>>
  BY DEF PushNext
<1>5. next_list' \in [Task -> Seq(Task)]
  <2>1. next_list \in [Task -> Seq(Task)] /\ Append(next_list[k], Top(t).self) \in Seq(Task)
    BY <1>2, <1>3 DEF IInv, TypeOK
  <2> QED
    BY <1>4, <2>1
<1>6. /\ calls' \in [Frame -> Seq(Call)] /\ StacksOK'
      /\ SameBut(on[t]) /\ Quiet(pcOf'[on[t]])
  <2>1. CASE Pop(t)
    <3>1. Drops(on[t])
      BY <1>1, <1>2, <2>1, IInvTypes, Popped
    <3> QED
      BY <3>1 DEF Drops, Quiet, Below, Tells, Owns, Drives
  <2>2. CASE At(t, "await_push") /\ Goto(t, "await_loop")
    <3>1. on[t] \in Task
      BY <1>2, <2>2 DEF GoodCall, OnTask, At
    <3> QED
      BY <1>1, <2>2, <3>1, WentTo DEF Label, ForSelf, Quiet, Tells, Owns, Drives
  <2> QED
    BY <2>1, <2>2 DEF PushNext
<1> HIDE DEF k
<1>7. Core'
  BY <1>2, <1>4, <1>6, IInvTypes, QuietKeeps
<1> QED
  BY <1>4, <1>5, <1>6, <1>7 DEF IInv, TypeOK

LEMMA AwaitStep ==
  ASSUME IInv, NEW t \in Thread, NEW j \in Task, Await(t, j)
  PROVE  IInv'
<1> DEFINE c == [NewCall(j, "await_next") EXCEPT !.self = on[t]]
<1>1. on[t] \in Task /\ on[t] \in Frame /\ pcOf[on[t]] = "idle" /\ Quiet(pcOf[on[t]])
  BY AtIdle DEF Await, Quiet, Tells, Owns, Drives
<1>2. c \in GoodCall(on[t]) /\ c.pc = "await_next"
  BY <1>1, CallForSelf DEF Label
<1>3. /\ nexts' \in 0..MaxNext
      /\ UNCHANGED <<status, co, next_list, on, caller, notified, late, yields, kills>>
  BY TaskAssumption DEF Await, IInv, TypeOK
<1>4. Push(t, c)
  BY DEF Await
<1> HIDE DEF c
<1>5. Goes(on[t], c)
  BY <1>1, <1>2, <1>4, IInvTypes, Pushed
<1>6. SameBut(on[t]) /\ Quiet(pcOf'[on[t]])
  BY <1>2, <1>5 DEF Goes, Quiet, Tells, Owns, Drives
<1>7. Core'
  BY <1>1, <1>3, <1>6, IInvTypes, QuietKeeps
<1> QED
  BY <1>3, <1>5, <1>7 DEF Goes, IInv, TypeOK

LEMMA AwaitNextStep ==
  ASSUME IInv, NEW t \in Thread, AwaitNext(t)
  PROVE  IInv'
<1>1. /\ calls[on[t]] # <<>> /\ Top(t).pc = "await_next"
      /\ Goto(t, "await_loop") \/ Goto(t, "await_push")
      /\ UNCHANGED <<status, co, next_list, on, caller, notified, late, yields, kills, nexts>>
  BY DEF AwaitNext, At
<1>2. /\ on[t] \in Frame /\ on[t] \in Task /\ Top(t).self \in Task
      /\ Quiet(pcOf[on[t]])
  BY <1>1, AtTop DEF GoodCall, OnTask, ForSelf, Quiet, Tells, Owns, Drives
<1>3. /\ calls' \in [Frame -> Seq(Call)] /\ StacksOK'
      /\ SameBut(on[t]) /\ Quiet(pcOf'[on[t]])
  BY <1>1, <1>2, WentTo DEF Label, Quiet, Tells, Owns, Drives
<1>4. Core'
  BY <1>1, <1>2, <1>3, IInvTypes, QuietKeeps
<1> QED
  BY <1>1, <1>3, <1>4 DEF IInv, TypeOK

-----------------------------------------------------------------------------
(* The coroutine yields, ends and leaves *)

\* The CAS of yield(), whatever calls it is made from.
LEMMA YieldCasStep ==
  ASSUME IInv, NEW t \in Thread, NEW k \in Task, k = on[t],
         pcOf[k] \in {"idle", "await_loop"}, NEW s \in {"READY", "FINISHED"},
         co' = [co EXCEPT ![k] = s],
         calls' = [calls EXCEPT ![k] = <<NewCall(k, "leave")>> \o calls[k]],
         yields' \in [Task -> 0..MaxYield],
         UNCHANGED <<status, next_list, on, caller, notified, late, kills, nexts>>
  PROVE  IInv'
<1> DEFINE c == NewCall(k, "leave")
<1>1. k \in Frame /\ Quiet(pcOf[k]) /\ calls[k] \in Seq(BelowCall(k))
  BY Disjoint, IInvTypes, BelowStack DEF Below, Quiet, Tells, Owns, Drives
<1>2. c \in GoodCall(k) /\ c.pc = "leave"
  BY DEF NewCall, GoodCall, Call, Label, OnTask, ForSelf
<1>3. calls' = [calls EXCEPT ![k] = <<c>> \o calls[k]]
  OBVIOUS
<1> HIDE DEF c
<1>4. Goes(k, c)
  BY <1>1, <1>2, <1>3, IInvTypes, Replaced
<1>5. Core'
  BY <1>1, <1>2, <1>4, IInvTypes, YieldKeeps DEF Goes
<1>6. co' \in [Task -> {"READY", "RUNNING", "FINISHED"}]
  BY IInvTypes DEF Typed
<1> QED
  BY <1>4, <1>5, <1>6 DEF Goes, IInv, TypeOK

LEMMA AwaitLoopStep ==
  ASSUME IInv, NEW t \in Thread, AwaitLoop(t)
  PROVE  IInv'
<1>1. calls[on[t]] # <<>> /\ Top(t).pc = "await_loop"
  BY DEF AwaitLoop, At
<1>2. on[t] \in Frame /\ on[t] \in Task /\ pcOf[on[t]] = "await_loop" /\ Quiet(pcOf[on[t]])
  BY <1>1, AtTop DEF GoodCall, OnTask, Quiet, Tells, Owns, Drives
<1>3. UNCHANGED <<status, next_list, on, caller, notified, late, yields, kills, nexts>>
  BY DEF AwaitLoop
<1>4. CASE Pop(t) /\ UNCHANGED co
  <2>1. Drops(on[t])
    BY <1>1, <1>2, <1>4, IInvTypes, Popped
  <2>2. SameBut(on[t]) /\ Quiet(pcOf'[on[t]])
    BY <2>1 DEF Drops, Quiet, Below, Tells, Owns, Drives
  <2>3. Core'
    BY <1>2, <1>3, <1>4, <2>2, IInvTypes, QuietKeeps
  <2> QED
    BY <1>3, <1>4, <2>1, <2>3 DEF Drops, IInv, TypeOK
<1>5. CASE YieldCas(t, calls[on[t]])
  <2>1. yields' \in [Task -> 0..MaxYield]
    BY <1>3 DEF IInv, TypeOK
  <2> QED
    BY <1>2, <1>3, <1>5, <2>1, YieldCasStep DEF YieldCas
<1> QED
  BY <1>4, <1>5 DEF AwaitLoop

LEMMA YieldStep ==
  ASSUME IInv, NEW t \in Thread, Yield(t)
  PROVE  IInv'
<1>1. /\ on[t] \in Task /\ calls[on[t]] = <<>> /\ pcOf[on[t]] = "idle"
      /\ YieldCas(t, <<>>)
      /\ UNCHANGED <<status, next_list, on, caller, notified, late, kills, nexts>>
  BY AtIdle DEF Yield, Idle
<1>2. yields' \in [Task -> 0..MaxYield]
  BY TaskAssumption DEF Yield, IInv, TypeOK
<1> QED
  BY <1>1, <1>2, YieldCasStep DEF YieldCas

LEMMA FinishStep ==
  ASSUME IInv, NEW t \in Thread, Finish(t)
  PROVE  IInv'
<1>1. /\ on[t] \in Task /\ pcOf[on[t]] = "idle"
      /\ co' = [co EXCEPT ![on[t]] = "FINISHED"]
      /\ UNCHANGED <<status, next_list, on, caller, notified, late, yields, kills, nexts>>
  BY AtIdle DEF Finish
<1>2. calls' = [calls EXCEPT ![on[t]] = <<NewCall(on[t], "leave")>> \o calls[on[t]]]
  BY DEF Finish, Push
<1>3. yields' \in [Task -> 0..MaxYield]
  BY <1>1 DEF IInv, TypeOK
<1> QED
  BY <1>1, <1>2, <1>3, YieldCasStep

LEMMA LeaveStep ==
  ASSUME IInv, NEW t \in Thread, Leave(t)
  PROVE  IInv'
<1> DEFINE k == on[t]
           f == caller[k]
           r == [Head(calls[f]) EXCEPT !.pc = "returned"]
<1>1. calls[k] # <<>> /\ Top(t).pc = "leave"
  BY DEF Leave, At
<1>2. k \in Frame /\ k \in Task /\ pcOf[k] = "leave"
  BY <1>1, AtTop DEF GoodCall, OnTask
<1>3. f \in Frame /\ pcOf[f] = "inside" /\ f # k
  BY <1>2, IInvTypes DEF Core, FrameInv, Entered
<1>4. /\ on' = [on EXCEPT ![t] = f]
      /\ calls' = [calls EXCEPT ![k] = Tail(@), ![f] = <<[Head(@) EXCEPT !.pc = "returned"]>> \o Tail(@)]
      /\ UNCHANGED <<status, co, next_list, caller, notified, late, yields, kills, nexts>>
  BY DEF Leave
<1>5. calls \in [Frame -> Seq(Call)] /\ StacksOK
  BY IInvTypes DEF Stacks
<1> HIDE DEF f
<1>6. /\ calls'[k] = Tail(calls[k]) /\ calls'[f] = <<r>> \o Tail(calls[f])
      /\ \A g \in Frame \ {f, k} : calls'[g] = calls[g]
  BY <1>2, <1>3, <1>4, <1>5
<1>7. /\ Tail(calls[k]) \in Seq(BelowCall(k))
      /\ Tail(calls[k]) # <<>> =>
           Head(Tail(calls[k])) \in BelowCall(k) /\ Tail(Tail(calls[k])) \in Seq(BelowCall(k))
  BY <1>1, <1>2, <1>5, Uncons DEF StacksOK
<1>8. /\ calls[f] # <<>> /\ Head(calls[f]) \in GoodCall(f) /\ Tail(calls[f]) \in Seq(BelowCall(f))
      /\ Head(calls[f]).pc = "inside"
  BY <1>3, <1>5, Uncons DEF StacksOK, pcOf
<1>9. r \in GoodCall(f) /\ r.pc = "returned" /\ r.task = Head(calls[f]).task /\ r.spin = Head(calls[f]).spin
  BY <1>8 DEF GoodCall, Call, Label, OnTask, ForSelf
<1> HIDE DEF r
<1>10. /\ <<r>> \o Tail(calls[f]) \in Seq(GoodCall(f)) /\ <<r>> \o Tail(calls[f]) # <<>>
       /\ Head(<<r>> \o Tail(calls[f])) = r /\ Tail(<<r>> \o Tail(calls[f])) = Tail(calls[f])
  <2>1. Tail(calls[f]) \in Seq(GoodCall(f))
    BY <1>8, GoodIsCall
  <2> QED
    BY <1>9, <2>1, Cons
<1>11. StacksOK'
  <2>1. ASSUME NEW g \in Frame
        PROVE  /\ calls'[g] \in Seq(GoodCall(g))
               /\ calls'[g] # <<>> => Tail(calls'[g]) \in Seq(BelowCall(g))
    <3>1. CASE g = f
      BY <1>6, <1>8, <1>10, <3>1
    <3>2. CASE g = k
      BY <1>6, <1>7, <3>2, GoodIsCall
    <3>3. CASE g \notin {f, k}
      BY <1>5, <1>6, <3>3 DEF StacksOK
    <3> QED
      BY <3>1, <3>2, <3>3
  <2> QED
    BY <2>1 DEF StacksOK
<1>12. calls' \in [Frame -> Seq(Call)]
  <2>1. \A g \in Frame : calls'[g] \in Seq(Call)
    BY <1>11, GoodIsCall DEF StacksOK
  <2>2. \A g \in Frame : calls'[g] = calls'[g] /\ DOMAIN calls' = Frame
    BY <1>4, <1>5
  <2> QED
    BY <1>4, <1>5, <2>1
<1>13. /\ Quiet(pcOf'[k]) /\ pcOf'[f] = "returned"
       /\ taskOf'[f] = taskOf[f] /\ spinOf'[f] = spinOf[f]
       /\ \A g \in Frame \ {f, k} :
            pcOf'[g] = pcOf[g] /\ taskOf'[g] = taskOf[g] /\ spinOf'[g] = spinOf[g]
  <2>1. pcOf'[k] \in Below \cup {"idle"}
    BY <1>2, <1>6, <1>7 DEF pcOf, BelowCall
  <2>2. Head(calls'[f]) = r /\ calls'[f] # <<>>
    BY <1>6, <1>10
  <2> QED
    BY <1>3, <1>6, <1>9, <2>1, <2>2 DEF pcOf, taskOf, spinOf, Quiet, Below, Tells, Owns, Drives
<1>14. Core'
  BY <1>2, <1>3, <1>4, <1>13, IInvTypes, LeaveKeeps DEF f
<1> QED
  BY <1>3, <1>4, <1>11, <1>12, <1>14 DEF IInv, TypeOK

-----------------------------------------------------------------------------
(* The invariant holds *)

LEMMA Initially == Init => IInv
<1> SUFFICES ASSUME Init PROVE IInv
  OBVIOUS
<1>1. /\ <<>> \in Seq(Task) /\ <<>> \in Seq(Call) /\ \A f \in Frame : <<>> \in Seq(GoodCall(f))
      /\ CREATED \in CREATED..KILLED
  BY DEF CREATED, KILLED
<1>2. TypeOK
  BY <1>1, TaskAssumption, Disjoint DEF Init, TypeOK, InitialStatus
<1>3. StacksOK
  BY <1>1 DEF Init, StacksOK
<1>4. \A f \in Frame : pcOf[f] = "idle"
  BY DEF Init, pcOf
<1>5. FrameInv /\ CallInv /\ OneInv /\ StatusInv
  BY <1>4, TaskAssumption, Disjoint
  DEF Init, FrameInv, CallInv, OneInv, StatusInv, Entered, Tells, Owns, Drives
<1>6. TellInv
  <2>1. \A k \in Task : Tellers(k) = {}
    BY <1>4 DEF Tellers, Tells, Owns, Drives
  <2>2. \A k \in Task : notified[k] = 0 /\ late[k] = 0
    BY DEF Init
  <2>3. kills = 0 /\ IsFiniteSet({}) /\ Cardinality({}) = 0
    BY FS_EmptySet DEF Init
  <2> QED
    BY <2>1, <2>2, <2>3 DEF TellInv
<1> QED
  BY <1>2, <1>3, <1>5, <1>6 DEF IInv, Core

LEMMA Unchanged == IInv /\ UNCHANGED vars => IInv'
<1> SUFFICES ASSUME IInv, UNCHANGED vars PROVE IInv'
  OBVIOUS
<1>1. /\ UNCHANGED <<status, co, next_list, on, caller, calls,
                     notified, late, yields, kills, nexts>>
      /\ UNCHANGED <<pcOf, taskOf, spinOf>>
  BY DEF vars, pcOf, taskOf, spinOf
<1>2. TypeOK' /\ StacksOK'
  BY <1>1 DEF IInv, TypeOK, StacksOK
<1>3. Core'
  BY <1>1 DEF IInv, Core, FrameInv, CallInv, OneInv, StatusInv, TellInv, Entered, Tellers, Exiting
<1> QED
  BY <1>2, <1>3 DEF IInv

LEMMA Inductive == IInv /\ [Next]_vars => IInv'
<1> SUFFICES ASSUME IInv, [Next]_vars PROVE IInv'
  OBVIOUS
<1>1. ASSUME NEW t \in Thread, Proceed(t) PROVE IInv'
  BY <1>1, EnterStep, ReturnedStep, ToDoneStep, ToWaitingStep, NotifyStep, OnFinishedStep,
     SwapListStep, ActivateStep, PushNextStep, AwaitNextStep, AwaitLoopStep, FinishStep, LeaveStep
  DEF Proceed
<1>2. ASSUME NEW t \in Thread, Call_(t) PROVE IInv'
  BY <1>2, StartStep, AwaitStep, KillStep, NextStep, YieldStep DEF Call_
<1>3. CASE UNCHANGED vars
  BY <1>3, Unchanged
<1> QED
  BY <1>1, <1>2, <1>3 DEF Next, Stopped

\* The inductive invariant: the calls on every stack and the tasks they are about, for
\* any number of tasks and threads (task.h).
THEOREM TaskInvariant == Spec => []IInv
BY Initially, Inductive, PTL DEF Spec

-----------------------------------------------------------------------------
(* The theorems *)

\* A call that drives a coroutine is the innermost one of its frame.
LEMMA DriversAtTop ==
  ASSUME IInv, NEW f \in Frame, NEW i \in DOMAIN calls[f], calls[f][i].pc \in {"inside", "returned"}
  PROVE  i = 1 /\ pcOf[f] = calls[f][i].pc /\ taskOf[f] = calls[f][i].task
<1>1. calls[f] \in Seq(GoodCall(f)) /\ calls[f] # <<>> /\ i \in 1..Len(calls[f])
  BY DEF IInv, StacksOK
<1>2. Tail(calls[f]) \in Seq(BelowCall(f))
  BY <1>1 DEF IInv, StacksOK
<1>3. CASE i # 1
  <2>1. i - 1 \in 1..Len(Tail(calls[f])) /\ calls[f][i] = Tail(calls[f])[i - 1]
    BY <1>1, <1>3
  <2>2. calls[f][i] \in BelowCall(f)
    BY <1>2, <2>1
  <2> QED
    BY <2>2 DEF BelowCall, Below
<1>4. CASE i = 1
  BY <1>1, <1>4 DEF pcOf, taskOf
<1> QED
  BY <1>3, <1>4

LEMMA OneDriver ==
  ASSUME IInv, NEW k \in Task
  PROVE  /\ Cardinality(Drivers(k)) <= 1
         /\ status[k] \in {CREATED, WAITING} => Drivers(k) = {}
<1>1. ASSUME NEW d \in Drivers(k)
      PROVE  \E f \in Frame : d = <<f, 1>> /\ pcOf[f] \in Drives /\ taskOf[f] = k
  <2>1. PICK f \in Frame :
          \E i \in DOMAIN calls[f] :
            d = <<f, i>> /\ calls[f][i].task = k /\ calls[f][i].pc \in {"inside", "returned"}
    BY DEF Drivers
  <2>2. PICK i \in DOMAIN calls[f] :
          d = <<f, i>> /\ calls[f][i].task = k /\ calls[f][i].pc \in {"inside", "returned"}
    BY <2>1
  <2> QED
    BY <2>2, DriversAtTop DEF Drives
<1>2. ASSUME NEW d \in Drivers(k), NEW e \in Drivers(k) PROVE d = e
  <2>1. PICK f \in Frame : d = <<f, 1>> /\ pcOf[f] \in Drives /\ taskOf[f] = k
    BY <1>1
  <2>2. PICK g \in Frame : e = <<g, 1>> /\ pcOf[g] \in Drives /\ taskOf[g] = k
    BY <1>1
  <2>3. f = g
    BY <2>1, <2>2, IInvTypes DEF Core, OneInv, Owns
  <2> QED
    BY <2>1, <2>2, <2>3
<1>3. Drivers(k) = {} \/ \E d : Drivers(k) = {d}
  BY <1>2
<1>4. Cardinality(Drivers(k)) <= 1
  <2>1. Cardinality({}) = 0 /\ \A d : Cardinality({d}) = 1
    BY FS_EmptySet, FS_Singleton
  <2>2. CASE Drivers(k) = {}
    <3>1. Cardinality(Drivers(k)) = 0
      BY <2>1, <2>2
    <3> QED
      BY <3>1
  <2>3. ASSUME NEW d, Drivers(k) = {d} PROVE Cardinality(Drivers(k)) <= 1
    <3>1. Cardinality(Drivers(k)) = 1
      BY <2>1, <2>3
    <3> QED
      BY <3>1
  <2> QED
    BY <1>3, <2>2, <2>3
<1>5. status[k] \in {CREATED, WAITING} => Drivers(k) = {}
  BY <1>1, IInvTypes DEF Core, CallInv, Tells, Owns
<1> QED
  BY <1>4, <1>5

\* The task layer keeps the contract of CoroutineContext for any number of threads: one
\* call at a time is inside a task's coroutine or settles its return, and a status that
\* start() accepts is there only when the coroutine is suspended and nobody is on it.
THEOREM TaskKeepsContract == Spec => []KeepsContract
<1>1. ASSUME IInv, NEW k \in Task, status[k] \in {CREATED, WAITING}
      PROVE  co[k] = "READY" /\ Drivers(k) = {} /\ \A t \in Thread : on[t] # k
  BY <1>1, OneDriver, IInvTypes DEF Core, StatusInv, FrameInv
<1>2. IInv => KeepsContract
  BY <1>1, OneDriver DEF KeepsContract, WaitingIsSuspended
<1> QED
  BY TaskInvariant, <1>2, PTL

\* on_finished() runs when the action is over, its stack has been left and the final status
\* is set; it runs once, and once more for each kill or cancel that came after the end; and
\* a call that ends a task never waits for a coroutine that runs elsewhere.
THEOREM TaskFinishedIsFinal == Spec => []FinishedIsFinal
<1> SUFFICES ASSUME IInv PROVE FinishedIsFinal
  BY TaskInvariant, PTL
<1>1. NotifyNeverSpins
  <2>1. ASSUME NEW t \in Thread, At(t, "notify") PROVE co[Top(t).task] # "RUNNING"
    <3>1. pcOf[on[t]] = "notify" /\ taskOf[on[t]] = Top(t).task /\ on[t] \in Frame
      BY <2>1, AtTop DEF At
    <3> QED
      BY <3>1, IInvTypes DEF Core, CallInv, Tells, Owns, Entered
  <2> QED
    BY <2>1 DEF NotifyNeverSpins
<1>2. ASSUME NEW t \in Thread, At(t, "finished")
      PROVE  /\ Completed(Top(t).task) /\ Exiting(Top(t).task)
             /\ \A u \in Thread : on[u] # Top(t).task
  <2>1. /\ pcOf[on[t]] = "finished" /\ taskOf[on[t]] = Top(t).task /\ on[t] \in Frame
        /\ Top(t).task \in Task
    BY <1>2, AtTop DEF At, Call
  <2>2. co[Top(t).task] = "FINISHED" /\ Exiting(Top(t).task) /\ ~Entered(Top(t).task)
    BY <2>1, IInvTypes DEF Core, CallInv, Tells
  <2> QED
    BY <2>1, <2>2, IInvTypes DEF Core, FrameInv, Completed
<1>3. ASSUME NEW k \in Task PROVE notified[k] <= 1 + late[k]
  <2>1. Cardinality(Tellers(k)) \in Nat /\ Cardinality(Tellers(k)) + notified[k] <= 1 + late[k]
    BY IInvTypes, FS_CardinalityType DEF Core, TellInv
  <2> QED
    BY <2>1, IInvTypes DEF Typed
<1> QED
  BY <1>1, <1>2, <1>3 DEF FinishedIsFinal

\* The variables of the task layer are of their types.
THEOREM TaskTypes == Spec => []TypeOK
<1>1. IInv => TypeOK
  BY DEF IInv
<1> QED
  BY TaskInvariant, <1>1, PTL

=============================================================================
