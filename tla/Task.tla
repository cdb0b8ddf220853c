--------------------------------- MODULE Task ---------------------------------
(***************************************************************************)
(* cotask::task (include/libcotask/task.h): a coroutine with a status of   *)
(* its own, that any thread may start, resume, kill or cancel, that other  *)
(* tasks may wait for, and that tells its action when it is finished.      *)
(*                                                                         *)
(* As in CoroutineContext a FRAME is the stack of a thread or of a task.   *)
(* calls[f] holds the task calls in progress on frame f, innermost first;  *)
(* a frame with no call in progress runs client code (on a thread) or the  *)
(* task's action (on a task).  The coroutine below is reduced to what      *)
(* start() and yield() of coroutine_context do: co[k] is its status, with  *)
(* FINISHED and EXITED, which the task does not tell apart, as "FINISHED". *)
(*                                                                         *)
(* Each compare-and-swap loop on status_ is one step: a failed attempt     *)
(* only rereads the status.  Loads of another task's state, the CAS, the   *)
(* coroutine switch and the critical sections of inner_action_lock_ are    *)
(* steps of their own.                                                     *)
(***************************************************************************)
EXTENDS Integers, Sequences, FiniteSets

CONSTANTS
  Thread, Task, Null,
  MaxYield,   \* bound: yields of one task's action
  MaxKill,    \* bound: calls of kill() and cancel(), all tasks together
  MaxNext     \* bound: calls of next() and await_task(), all tasks together

ASSUME TaskAssumption ==
  /\ Thread \cap Task = {}
  /\ Null \notin Thread \cup Task
  /\ MaxYield \in Nat /\ MaxKill \in Nat /\ MaxNext \in Nat

Frame == Thread \cup Task

CREATED == 1
RUNNING == 2
WAITING == 3
DONE == 4
CANCELED == 5
KILLED == 6

VARIABLES
  status,      \* status_ of each task
  co,          \* status_ of its coroutine
  next_list,   \* next_list_.member_list_
  on,          \* the frame each thread executes on
  caller,      \* the frame a task's coroutine returns to
  calls,       \* the calls in progress on each frame
  notified,    \* calls of on_finished()
  late,        \* history: kill() / cancel() calls that met a terminal status
  yields, kills, nexts   \* used up bounds

vars == <<status, co, next_list, on, caller, calls,
          notified, late, yields, kills, nexts>>

Label == {"enter", "inside", "returned", "to_done", "to_waiting",
          "notify", "finished", "swap", "activate",
          "push", "await_next", "await_push", "await_loop", "leave"}

\* One call in progress: of start(), or of _notify_finished() when spin is set,
\* on `task'; of next() or await_task() on it for the task `self'.
Call == [task : Task, pc : Label, spin : BOOLEAN, self : Task \cup {Null},
         todo : Seq(Task)]

TypeOK ==
  /\ status \in [Task -> CREATED..KILLED]
  /\ co \in [Task -> {"READY", "RUNNING", "FINISHED"}]
  /\ next_list \in [Task -> Seq(Task)]
  /\ on \in [Thread -> Frame]
  /\ caller \in [Task -> Frame \cup {Null}]
  /\ calls \in [Frame -> Seq(Call)]
  /\ notified \in [Task -> Nat]
  /\ late \in [Task -> 0..MaxKill]
  /\ yields \in [Task -> 0..MaxYield]
  /\ kills \in 0..MaxKill
  /\ nexts \in 0..MaxNext

InitialStatus == CREATED

Init ==
  /\ status = [k \in Task |-> InitialStatus]
  /\ co = [k \in Task |-> "READY"]
  /\ next_list = [k \in Task |-> <<>>]
  /\ on = [t \in Thread |-> t]
  /\ caller = [k \in Task |-> Null]
  /\ calls = [f \in Frame |-> <<>>]
  /\ notified = [k \in Task |-> 0]
  /\ late = [k \in Task |-> 0]
  /\ yields = [k \in Task |-> 0]
  /\ kills = 0
  /\ nexts = 0

Exiting(k) == status[k] >= DONE
Completed(k) == co[k] = "FINISHED"

\* Steps of a thread in client code or in an action ...
Idle(t) == calls[on[t]] = <<>>

\* ... and inside a call.
Top(t) == Head(calls[on[t]])
At(t, label) == calls[on[t]] # <<>> /\ Top(t).pc = label

NewCall(k, label) ==
  [task |-> k, pc |-> label, spin |-> FALSE, self |-> Null, todo |-> <<>>]

Push(t, call) == calls' = [calls EXCEPT ![on[t]] = <<call>> \o @]
Pop(t) == calls' = [calls EXCEPT ![on[t]] = Tail(@)]
Become(t, call) == calls' = [calls EXCEPT ![on[t]] = <<call>> \o Tail(@)]
Goto(t, label) == Become(t, [Top(t) EXCEPT !.pc = label])

-----------------------------------------------------------------------------
(* start() and resume() *)

\* The CAS loop accepts CREATED and WAITING whichever of the two the caller
\* expected; RUNNING and the terminal statuses are refused (MUTANT: RUNNING too).
Startable_Running(k) == status[k] < DONE
Startable(k) == status[k] \in {CREATED, WAITING}

Start(t, k) ==
  /\ Idle(t)
  /\ Startable(k)
  /\ status' = [status EXCEPT ![k] = RUNNING]
  /\ Push(t, NewCall(k, "enter"))
  /\ UNCHANGED <<co, next_list, on, caller, notified, late, yields, kills, nexts>>

\* coroutine_obj_->start(): enters the coroutine if it is READY.
Switch(t, k) ==
  /\ co[k] = "READY"
  /\ co' = [co EXCEPT ![k] = "RUNNING"]
  /\ on' = [on EXCEPT ![t] = k]
  /\ caller' = [caller EXCEPT ![k] = on[t]]
  /\ Goto(t, "inside")

Enter(t) ==
  /\ At(t, "enter")
  /\ \/ Switch(t, Top(t).task)
     \/ /\ co[Top(t).task] # "READY"
        /\ Goto(t, "returned")
        /\ UNCHANGED <<co, on, caller>>
  /\ UNCHANGED <<status, next_list, notified, late, yields, kills, nexts>>

\* After the coroutine came back: is_completed(), or once more around the loop
\* of _notify_finished() (MUTANT: no loop).
AfterReturn_Once(call) ==
  IF call.spin THEN "finished"
  ELSE IF Completed(call.task) THEN "to_done" ELSE "to_waiting"
AfterReturn(call) ==
  IF call.spin THEN "notify"
  ELSE IF Completed(call.task) THEN "to_done" ELSE "to_waiting"

Returned(t) ==
  /\ At(t, "returned")
  /\ Goto(t, AfterReturn(Top(t)))
  /\ UNCHANGED <<status, co, next_list, on, caller, notified, late, yields, kills, nexts>>

\* CAS loop to DONE, unless the task was killed meanwhile.
AfterAction(s) == IF s < DONE THEN DONE ELSE s

ToDone(t) ==
  LET k == Top(t).task
  IN  /\ At(t, "to_done")
      /\ status' = [status EXCEPT ![k] = AfterAction(@)]
      /\ Goto(t, "notify")
      /\ UNCHANGED <<co, next_list, on, caller, notified, late, yields, kills, nexts>>

\* CAS loop to WAITING; a task that was killed while it ran is finished here
\* (MUTANT: it is left to whoever killed it).
ToWaiting_Left(t) ==
  LET k == Top(t).task
  IN  /\ At(t, "to_waiting")
      /\ status' = [status EXCEPT ![k] = IF Exiting(k) THEN @ ELSE WAITING]
      /\ Pop(t)
      /\ UNCHANGED <<co, next_list, on, caller, notified, late, yields, kills, nexts>>
ToWaiting(t) ==
  LET k == Top(t).task
  IN  /\ At(t, "to_waiting")
      /\ \/ /\ Exiting(k)
            /\ Goto(t, "notify")
            /\ UNCHANGED status
         \/ /\ ~Exiting(k)
            /\ status' = [status EXCEPT ![k] = WAITING]
            /\ Pop(t)
      /\ UNCHANGED <<co, next_list, on, caller, notified, late, yields, kills, nexts>>

-----------------------------------------------------------------------------
(* kill() and cancel() *)

CountLate(k) ==
  late' = [late EXCEPT ![k] = IF Exiting(k) THEN @ + 1 ELSE @]

\* A running task is left to its starter, any other one is finished by kill().
LeftToStarter(k) == status[k] = RUNNING

Kill(t, k) ==
  /\ Idle(t)
  /\ kills < MaxKill
  /\ kills' = kills + 1
  /\ status' = [status EXCEPT ![k] = KILLED]
  /\ IF LeftToStarter(k) THEN UNCHANGED calls ELSE Push(t, NewCall(k, "notify"))
  /\ CountLate(k)
  /\ UNCHANGED <<co, next_list, on, caller, notified, yields, nexts>>

Cancel(t, k) ==
  /\ Idle(t)
  /\ kills < MaxKill
  /\ status[k] # RUNNING
  /\ kills' = kills + 1
  /\ status' = [status EXCEPT ![k] = CANCELED]
  /\ Push(t, NewCall(k, "notify"))
  /\ CountLate(k)
  /\ UNCHANGED <<co, next_list, on, caller, notified, yields, nexts>>

-----------------------------------------------------------------------------
(* _notify_finished() *)

\* Resume the coroutine until it is finished.  While it is RUNNING elsewhere,
\* resume() fails and the loop spins, which changes nothing.
Notify(t) ==
  LET k == Top(t).task
  IN  /\ At(t, "notify")
      /\ \/ /\ Completed(k)
            /\ Goto(t, "finished")
            /\ UNCHANGED <<co, on, caller>>
         \/ /\ co[k] = "READY"
            /\ co' = [co EXCEPT ![k] = "RUNNING"]
            /\ on' = [on EXCEPT ![t] = k]
            /\ caller' = [caller EXCEPT ![k] = on[t]]
            /\ Become(t, [Top(t) EXCEPT !.pc = "inside", !.spin = TRUE])
      /\ UNCHANGED <<status, next_list, notified, late, yields, kills, nexts>>

OnFinished(t) ==
  /\ At(t, "finished")
  /\ notified' = [notified EXCEPT ![Top(t).task] = @ + 1]
  /\ Goto(t, "swap")
  /\ UNCHANGED <<status, co, next_list, on, caller, late, yields, kills, nexts>>

\* active_next_tasks(): swap the list out under the lock ...
SwapList(t) ==
  LET k == Top(t).task
  IN  /\ At(t, "swap")
      /\ next_list' = [next_list EXCEPT ![k] = <<>>]
      /\ Become(t, [Top(t) EXCEPT !.pc = "activate", !.todo = next_list[k]])
      /\ UNCHANGED <<status, co, on, caller, notified, late, yields, kills, nexts>>

\* ... then start or resume each; a task that refuses is skipped.
Activate(t) ==
  /\ At(t, "activate")
  /\ LET todo == Top(t).todo
         rest == [Top(t) EXCEPT !.todo = Tail(todo)]
     IN  \/ /\ todo = <<>>
            /\ Pop(t)
            /\ UNCHANGED status
         \/ /\ todo # <<>>
            /\ ~Startable(Head(todo))
            /\ Become(t, rest)
            /\ UNCHANGED status
         \/ /\ todo # <<>>
            /\ Startable(Head(todo))
            /\ status' = [status EXCEPT ![Head(todo)] = RUNNING]
            /\ calls' = [calls EXCEPT ![on[t]] =
                 <<NewCall(Head(todo), "enter"), rest>> \o Tail(@)]
  /\ UNCHANGED <<co, next_list, on, caller, notified, late, yields, kills, nexts>>

-----------------------------------------------------------------------------
(* next() *)

\* The task is looked at before the lock is taken.  When it is over, the next
\* task runs at once.
Next_(t, k, n) ==
  /\ Idle(t)
  /\ k # n
  /\ nexts < MaxNext
  /\ nexts' = nexts + 1
  /\ IF Exiting(k) \/ Completed(k)
     THEN IF Startable(n)
          THEN /\ status' = [status EXCEPT ![n] = RUNNING]
               /\ Push(t, NewCall(n, "enter"))
          ELSE UNCHANGED <<status, calls>>
     ELSE /\ Push(t, [NewCall(k, "push") EXCEPT !.self = n])
          /\ UNCHANGED status
  /\ UNCHANGED <<co, next_list, on, caller, notified, late, yields, kills>>

\* push_back under the lock; next() returns, await_task() goes on.
PushNext(t) ==
  LET k == Top(t).task
  IN  /\ At(t, "push") \/ At(t, "await_push")
      /\ next_list' = [next_list EXCEPT ![k] = Append(@, Top(t).self)]
      /\ \/ At(t, "push") /\ Pop(t)
         \/ At(t, "await_push") /\ Goto(t, "await_loop")
      /\ UNCHANGED <<status, co, on, caller, notified, late, yields, kills, nexts>>

-----------------------------------------------------------------------------
(* await_task(): called by an action for its own task *)

Await(t, j) ==
  LET k == on[t]
  IN  /\ k \in Task
      /\ Idle(t)
      /\ j # k
      /\ nexts < MaxNext
      /\ nexts' = nexts + 1
      /\ ~(Exiting(j) \/ Completed(j))
      /\ ~Exiting(k)
      /\ Push(t, [NewCall(j, "await_next") EXCEPT !.self = k])
      /\ UNCHANGED <<status, co, next_list, on, caller, notified, late, yields, kills>>

\* next(self): when the other task is over by now, `self' is RUNNING (or
\* killed), so nothing is started, and the loop will see it.
AwaitNext(t) ==
  LET j == Top(t).task
  IN  /\ At(t, "await_next")
      /\ Goto(t, IF Exiting(j) \/ Completed(j) THEN "await_loop" ELSE "await_push")
      /\ UNCHANGED <<status, co, next_list, on, caller, notified, late, yields, kills, nexts>>

\* yield() of the coroutine: READY is published first, the stack is left next.
YieldCas(t, below) ==
  /\ co' = [co EXCEPT ![on[t]] = "READY"]
  /\ calls' = [calls EXCEPT ![on[t]] = <<NewCall(on[t], "leave")>> \o below]

AwaitLoop(t) ==
  LET j == Top(t).task
      k == on[t]
  IN  /\ At(t, "await_loop")
      /\ IF Exiting(j) \/ Completed(j) \/ Exiting(k)
         THEN Pop(t) /\ UNCHANGED co
         ELSE YieldCas(t, calls[k])
      /\ UNCHANGED <<status, next_list, on, caller, notified, late, yields, kills, nexts>>

-----------------------------------------------------------------------------
(* The action: it yields, and it returns. *)

Yield(t) ==
  LET k == on[t]
  IN  /\ k \in Task
      /\ Idle(t)
      /\ yields[k] < MaxYield
      /\ yields' = [yields EXCEPT ![k] = @ + 1]
      /\ YieldCas(t, <<>>)
      /\ UNCHANGED <<status, next_list, on, caller, notified, late, kills, nexts>>

Finish(t) ==
  LET k == on[t]
  IN  /\ k \in Task
      /\ Idle(t)
      /\ co' = [co EXCEPT ![k] = "FINISHED"]
      /\ Push(t, NewCall(k, "leave"))
      /\ UNCHANGED <<status, next_list, on, caller, notified, late, yields, kills, nexts>>

\* The jump back to the frame that entered the coroutine.
Leave(t) ==
  LET k == on[t]
      f == caller[k]
  IN  /\ At(t, "leave")
      /\ on' = [on EXCEPT ![t] = f]
      /\ calls' = [calls EXCEPT ![k] = Tail(@), ![f] = <<[Head(@) EXCEPT !.pc = "returned"]>> \o Tail(@)]
      /\ UNCHANGED <<status, co, next_list, caller, notified, late, yields, kills, nexts>>

-----------------------------------------------------------------------------

\* A call, once made, goes on, and an action that does nothing else returns.
Proceed(t) ==
  \/ Enter(t) \/ Returned(t) \/ ToDone(t) \/ ToWaiting(t)
  \/ Notify(t) \/ OnFinished(t) \/ SwapList(t) \/ Activate(t)
  \/ PushNext(t) \/ AwaitNext(t) \/ AwaitLoop(t)
  \/ Finish(t) \/ Leave(t)

\* The client contract, which task_manager keeps by removing a task before it
\* kills it: a task that is exiting is not killed again while its action runs.
NotKilledInAction(k) ==
  Exiting(k) => Completed(k) /\ \A t \in Thread : on[t] # k

Call_(t) ==
  \/ \E k \in Task : Start(t, k) \/ Await(t, k)
  \/ \E k \in Task : NotKilledInAction(k) /\ (Kill(t, k) \/ Cancel(t, k))
  \/ \E k, n \in Task : Next_(t, k, n)
  \/ Yield(t)

\* Every thread is back in client code: the program may stop.
Stopped == (\A t \in Thread : on[t] = t /\ Idle(t)) /\ UNCHANGED vars

Next == (\E t \in Thread : Proceed(t) \/ Call_(t)) \/ Stopped

Spec == Init /\ [][Next]_vars

\* Threads are scheduled: a thread inside a call or an action proceeds; and an
\* action does not run for ever, it returns even if it may go on making calls.
Fairness == \A t \in Thread : WF_vars(Proceed(t)) /\ SF_vars(Finish(t))

FairSpec == Spec /\ Fairness

-----------------------------------------------------------------------------
(* Properties *)

\* The calls that are inside task k's coroutine, or have not yet settled its
\* return.
Drivers(k) ==
  UNION {{<<f, i>> : i \in {j \in DOMAIN calls[f] :
                             /\ calls[f][j].task = k
                             /\ calls[f][j].pc \in {"inside", "returned"}}} : f \in Frame}

\* A status that start() accepts means that the coroutine is suspended with its
\* continuation saved: WAITING is published only by the thread that left it.
WaitingIsSuspended ==
  \A k \in Task :
    status[k] \in {CREATED, WAITING} =>
      co[k] = "READY" /\ Drivers(k) = {} /\ \A t \in Thread : on[t] # k

\* The task layer keeps the contract of CoroutineContext: calls of start() on one
\* coroutine do not overlap, however start, resume, kill and cancel race, and a
\* status that invites the next call is there only when the last one is over.
KeepsContract ==
  /\ \A k \in Task : Cardinality(Drivers(k)) <= 1
  /\ WaitingIsSuspended

\* _notify_finished() never spins on a coroutine that is running elsewhere (on
\* the same thread it would spin for ever).
NotifyNeverSpins ==
  \A t \in Thread :
    At(t, "notify") => co[Top(t).task] # "RUNNING"

\* on_finished() runs when the action is over, its stack has been left and the
\* final status is set, and no call waits for that in a loop that cannot end; and
\* it runs once, plus once for each kill() or cancel() that met a final status.
FinishedIsFinal ==
  /\ NotifyNeverSpins
  /\ \A t \in Thread :
       At(t, "finished") =>
         LET k == Top(t).task
         IN  Completed(k) /\ Exiting(k) /\ \A u \in Thread : on[u] # k
  /\ \A k \in Task : notified[k] <= 1 + late[k]

\* A killed or canceled task runs to its end and its action is told.
KillFinishes ==
  \A k \in Task : Exiting(k) ~> Completed(k) /\ notified[k] > 0
=============================================================================
