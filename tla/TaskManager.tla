------------------------------ MODULE TaskManager ------------------------------
(***************************************************************************)
(* cotask::task_manager<task<..>> (include/libcotask/task_manager.h): a    *)
(* table of tasks with timeouts.  Any thread adds, starts, resumes, kills  *)
(* and removes tasks by id; tick() kills those whose time is over; a task  *)
(* that ends tells its manager (task.h, binding_manager_ptr_).             *)
(*                                                                         *)
(* The critical sections of action_lock_ and inner_action_lock_, and the   *)
(* reads outside of them, are the steps.  A task is reduced to what Task   *)
(* shows of it: the return of its coroutine and the compare-and-swap that  *)
(* follows are one step, and it has no next tasks.  stack[t] holds the     *)
(* calls in progress on thread t, innermost first; a frame "run" is the    *)
(* action of a task, which is client code and may call the managers.       *)
(***************************************************************************)
EXTENDS Integers, Sequences, FiniteSets

CONSTANTS
  Thread, Manager, Task, Null,
  Ticker,         \* the thread that calls tick(), reset() and the destructor
  Nsec,           \* nanoseconds in a second
  Clock,          \* bound: the times tick() is called with, <<sec, nsec>>
  Timeout,        \* bound: the timeouts that are asked for, <<sec, nsec>>
  AddWhenUnused,  \* client contract: no other call works on a task while it is added
  MayDestroy,     \* may the client destroy a manager?
  MaxYield,       \* bound: yields of one task's action
  MaxCall         \* bound: calls of the client, besides tick()

ASSUME TaskManagerAssumption ==
  /\ Ticker \in Thread
  /\ Null \notin Manager \cup Task \cup (Nat \X Nat)
  /\ Nsec \in Nat \ {0}
  /\ Clock \cup Timeout \subseteq Nat \X (0..(Nsec - 1))
  /\ <<0, 0>> \notin Clock
  /\ AddWhenUnused \in BOOLEAN /\ MayDestroy \in BOOLEAN
  /\ MaxYield \in Nat /\ MaxCall \in Nat

CREATED == 1
RUNNING == 2
WAITING == 3
DONE == 4
CANCELED == 5
KILLED == 6
TIMEOUT == 7

VARIABLES
  status, done,        \* of each task: status_, is_completed()
  binding,             \* binding_manager_ptr_ of each task
  tasks,               \* of each manager: the ids in tasks_
  node,                \* timer_node of each task in it: the expired_time or Null
  timers,              \* task_timeout_timer_: pairs of an expired_time and a task
  last_tick, flags,    \* last_tick_time_, flags_
  alive,               \* has the manager not been destroyed?
  stack,               \* the calls in progress on each thread
  due,                 \* history: when each task's timeout is over, in nanoseconds
  yields, calls        \* used up bounds

taskVars == <<status, done>>
mgrVars == <<tasks, node, timers, last_tick, flags, alive, due>>
vars == <<taskVars, binding, mgrVars, stack, yields, calls>>

Time == Nat \X Nat
Forever == <<0, 0>>
Before(x, y) == x[1] < y[1] \/ (x[1] = y[1] /\ x[2] < y[2])
\* Timers are ordered by their time; ids, which have no order here, break ties.
Precedes(x, y) == Before(x[1], y[1])
Nanos(x) == x[1] * Nsec + x[2]

Label == {"add", "start", "check", "remove", "cleanup", "read", "finish",
          "tick", "tick_locked", "tick_exiting", "tick_end", "reset", "reset_kill",
          "run", "notify", "take"}

\* A call in progress; `end' is the status an erased task shall get, or what the
\* call is otherwise: a removal, the run of an action, a destruction.
End == {"none", "canceled", "killed", "timeout", "remove", "last_run", "destroy"}
Final == [canceled |-> CANCELED, killed |-> KILLED, timeout |-> TIMEOUT]
Call == [pc : Label, mgr : Manager \cup {Null}, task : Task \cup {Null}, end : End,
         time : Time, todo : SUBSET Task]

TypeOK ==
  /\ status \in [Task -> CREATED..TIMEOUT]
  /\ done \in [Task -> BOOLEAN]
  /\ binding \in [Task -> Manager \cup {Null}]
  /\ tasks \in [Manager -> SUBSET Task]
  /\ node \in [Manager -> [Task -> Time \cup {Null}]]
  /\ timers \in [Manager -> SUBSET (Time \X Task)]
  /\ last_tick \in [Manager -> Time]
  /\ flags \in [Manager -> SUBSET {"tick", "reset"}]
  /\ alive \in [Manager -> BOOLEAN]
  /\ stack \in [Thread -> Seq(Call)]
  /\ due \in [Manager -> [Task -> Nat]]
  /\ yields \in [Task -> 0..MaxYield]
  /\ calls \in 0..MaxCall

Init ==
  /\ status = [k \in Task |-> CREATED]
  /\ done = [k \in Task |-> FALSE]
  /\ binding = [k \in Task |-> Null]
  /\ tasks = [m \in Manager |-> {}]
  /\ node = [m \in Manager |-> [k \in Task |-> Null]]
  /\ timers = [m \in Manager |-> {}]
  /\ last_tick = [m \in Manager |-> <<0, 0>>]
  /\ flags = [m \in Manager |-> {}]
  /\ alive = [m \in Manager |-> TRUE]
  /\ stack = [t \in Thread |-> <<>>]
  /\ due = [m \in Manager |-> [k \in Task |-> 0]]
  /\ yields = [k \in Task |-> 0]
  /\ calls = 0

Exiting(k) == status[k] >= DONE

Top(t) == Head(stack[t])
At(t, label) == stack[t] # <<>> /\ Top(t).pc = label

NewCall(label, m, k) ==
  [pc |-> label, mgr |-> m, task |-> k, end |-> "none", time |-> Forever, todo |-> {}]

Push(t, call) == stack' = [stack EXCEPT ![t] = <<call>> \o @]
Pop(t) == stack' = [stack EXCEPT ![t] = Tail(@)]
Become(t, call) == stack' = [stack EXCEPT ![t] = <<call>> \o Tail(@)]
Goto(t, label) == Become(t, [Top(t) EXCEPT !.pc = label])

Frames(t) == {stack[t][i] : i \in DOMAIN stack[t]}

\* The thread is in client code and makes a call.
InClient(t) == stack[t] = <<>> \/ At(t, "run")
NextCall(t) == InClient(t) /\ calls < MaxCall /\ calls' = calls + 1

\* A manager that is used at all is alive; in_reset makes its methods return.
Usable(m) == alive[m] /\ "reset" \notin flags[m]

\* What find_task() and the other methods find.
Found(m, k) == Usable(m) /\ k \in tasks[m]

\* flag_guard_type: it takes a flag that nobody has.
TakeFlag(m, flag) ==
  flag \notin flags[m] /\ flags' = [flags EXCEPT ![m] = @ \cup {flag}]

-----------------------------------------------------------------------------
(* Timers.  All of these run under action_lock_. *)

\* remove_timeout_timer() (MUTANT: the timer stays)
TimersWithout_Kept(m, k) == timers[m]
TimersWithout(m, k) == timers[m] \ {<<node[m][k], k>>}

\* The sum is not normalised: its nanoseconds may exceed a second.
ExpiredTime(m, timeout) ==
  <<last_tick[m][1] + timeout[1], last_tick[m][2] + timeout[2]>>

SetTimeoutTimer(m, k, timeout) ==
  LET expired == IF timeout = Forever THEN Null ELSE ExpiredTime(m, timeout)
  IN  /\ node' = [node EXCEPT ![m][k] = expired]
      /\ timers' = [timers EXCEPT ![m] =
           TimersWithout(m, k) \cup (IF timeout = Forever THEN {} ELSE {<<expired, k>>})]
      /\ due' = [due EXCEPT ![m][k] = Nanos(last_tick[m]) + Nanos(timeout)]

\* The task leaves the table (MUTANT: it is only looked up).
Erased_Kept(m, k) == tasks[m]
Erased(m, k) == tasks[m] \ {k}

Erase(m, k) ==
  /\ tasks' = [tasks EXCEPT ![m] = Erased(m, k)]
  /\ timers' = [timers EXCEPT ![m] = TimersWithout(m, k)]
  /\ node' = [node EXCEPT ![m][k] = Null]

-----------------------------------------------------------------------------
(* The client contract *)

\* With AddWhenUnused a task is added by the one thread that works on it, and when
\* no tick() or reset() can find it in a table.
Adding(k) == \E t \in Thread : \E c \in Frames(t) : c.pc = "add" /\ c.task = k
MayAdd(t, k) ==
  AddWhenUnused =>
    /\ \A m \in Manager : k \notin tasks[m]
    /\ \A u \in Thread \ {t} : \A c \in Frames(u) : c.task # k /\ k \notin c.todo
MayCall(k) == AddWhenUnused => ~Adding(k)

-----------------------------------------------------------------------------
(* add_task(), set_timeout() *)

\* is_exiting() and IN_RESET are looked at before the lock is taken.
AddTask(t, m, k, timeout) ==
  /\ NextCall(t)
  /\ MayAdd(t, k)
  /\ Usable(m)
  /\ ~Exiting(k)
  /\ Push(t, [NewCall("add", m, k) EXCEPT !.time = timeout])
  /\ UNCHANGED <<taskVars, binding, mgrVars, yields>>

\* setup_task_manager() refuses a task that is bound.
Unbound(k) == binding[k] = Null

AddLocked(t) ==
  LET m == Top(t).mgr
      k == Top(t).task
  IN  /\ At(t, "add")
      /\ \/ /\ k \in tasks[m] \/ ~Unbound(k)
            /\ UNCHANGED <<binding, tasks, node, timers, due>>
         \/ /\ k \notin tasks[m] /\ Unbound(k)
            /\ binding' = [binding EXCEPT ![k] = m]
            /\ tasks' = [tasks EXCEPT ![m] = @ \cup {k}]
            /\ SetTimeoutTimer(m, k, Top(t).time)
      /\ Pop(t)
      /\ UNCHANGED <<taskVars, last_tick, flags, alive, yields, calls>>

SetTimeout(t, m, k, timeout) ==
  /\ NextCall(t)
  /\ Found(m, k)
  /\ SetTimeoutTimer(m, k, timeout)
  /\ UNCHANGED <<taskVars, binding, tasks, last_tick, flags, alive, stack, yields>>

-----------------------------------------------------------------------------
(* start() and resume(): of the manager, or of the task itself (m = Null) *)

Start(t, m, k) ==
  /\ NextCall(t)
  /\ MayCall(k)
  /\ m # Null => Found(m, k)
  /\ Push(t, NewCall("start", m, k))
  /\ UNCHANGED <<taskVars, binding, mgrVars, yields>>

StartTask(t) ==
  LET k == Top(t).task
      return == [Top(t) EXCEPT !.pc = "check"]
  IN  /\ At(t, "start")
      /\ \/ /\ status[k] \in {CREATED, WAITING}
            /\ status' = [status EXCEPT ![k] = RUNNING]
            /\ stack' = [stack EXCEPT ![t] = <<NewCall("run", Null, k), return>> \o Tail(@)]
         \/ /\ status[k] \notin {CREATED, WAITING}
            /\ Become(t, return)
            /\ UNCHANGED status
      /\ UNCHANGED <<done, binding, mgrVars, yields, calls>>

\* "if task is finished, remove it"
Check(t) ==
  /\ At(t, "check")
  /\ IF Top(t).mgr # Null /\ Exiting(Top(t).task)
     THEN Become(t, NewCall("remove", Top(t).mgr, Top(t).task))
     ELSE Pop(t)
  /\ UNCHANGED <<taskVars, binding, mgrVars, yields, calls>>

-----------------------------------------------------------------------------
(* remove_task(), kill(), cancel() *)

RemoveTask(t, m, k) ==
  /\ NextCall(t)
  /\ MayCall(k)
  /\ alive[m]
  /\ Push(t, NewCall("remove", m, k))
  /\ UNCHANGED <<taskVars, binding, mgrVars, yields>>

\* Called by the client, by start() and by the task's task_cleanup_callback().
Remove(t) ==
  LET m == Top(t).mgr
      k == Top(t).task
  IN  /\ At(t, "remove")
      /\ \/ /\ "reset" \in flags[m] \/ k \notin tasks[m]
            /\ Pop(t)
            /\ UNCHANGED <<tasks, timers, node>>
         \/ /\ "reset" \notin flags[m] /\ k \in tasks[m]
            /\ Erase(m, k)
            /\ Become(t, [NewCall("cleanup", m, k) EXCEPT !.end = "remove"])
      /\ UNCHANGED <<taskVars, binding, last_tick, flags, alive, due, yields, calls>>

\* kill() and cancel(): the task leaves the table first.
EraseToEnd(t, m, k, end) ==
  /\ NextCall(t)
  /\ MayCall(k)
  /\ Found(m, k)
  /\ Erase(m, k)
  /\ Push(t, [NewCall("cleanup", m, k) EXCEPT !.end = end])
  /\ UNCHANGED <<taskVars, binding, last_tick, flags, alive, due, yields>>

Kill(t, m, k) == EraseToEnd(t, m, k, "killed")
Cancel(t, m, k) == EraseToEnd(t, m, k, "canceled")

\* cleanup_task_manager() (MUTANT: it is forgotten).
CleanedUp_Kept(m, k) == binding[k]
CleanedUp(m, k) == IF binding[k] = m THEN Null ELSE binding[k]

Cleanup(t) ==
  LET c == Top(t)
  IN  /\ At(t, "cleanup")
      /\ binding' = [binding EXCEPT ![c.task] = CleanedUp(c.mgr, c.task)]
      /\ Goto(t, IF c.end = "remove" THEN "read" ELSE "finish")
      /\ UNCHANGED <<taskVars, mgrVars, yields, calls>>

\* remove_task() kills a task that has been started.
ReadStatus(t) ==
  /\ At(t, "read")
  /\ IF status[Top(t).task] \in {RUNNING, WAITING}
     THEN Become(t, [Top(t) EXCEPT !.pc = "finish", !.end = "killed"])
     ELSE Pop(t)
  /\ UNCHANGED <<taskVars, binding, mgrVars, yields, calls>>

\* kill() and cancel() of the task: cancel() refuses a running task, kill() leaves
\* it to whoever started it.
FinishTask(t) ==
  LET k == Top(t).task
  IN  /\ At(t, "finish")
      /\ status' = IF Top(t).end = "canceled" /\ status[k] = RUNNING THEN status
                   ELSE [status EXCEPT ![k] = Final[Top(t).end]]
      /\ IF status[k] = RUNNING THEN Pop(t) ELSE Become(t, NewCall("notify", Null, k))
      /\ UNCHANGED <<done, binding, mgrVars, yields, calls>>

-----------------------------------------------------------------------------
(* The task: its action yields and returns, its end is told. *)

Running(k) == \E t \in Thread : \E c \in Frames(t) : c.pc = "run" /\ c.task = k

\* yield(): to the starter, which sets WAITING or meets a kill.  When the action
\* is run to its end by _notify_finished(), it is resumed at once.
Yield(t) ==
  LET k == Top(t).task
  IN  /\ At(t, "run") /\ Top(t).end = "none"
      /\ yields[k] < MaxYield
      /\ yields' = [yields EXCEPT ![k] = @ + 1]
      /\ \/ /\ Exiting(k)
            /\ Become(t, NewCall("notify", Null, k))
            /\ UNCHANGED status
         \/ /\ ~Exiting(k)
            /\ status' = [status EXCEPT ![k] = WAITING]
            /\ Pop(t)
      /\ UNCHANGED <<done, binding, mgrVars, calls>>

Return(t) ==
  LET k == Top(t).task
  IN  /\ At(t, "run")
      /\ done' = [done EXCEPT ![k] = TRUE]
      /\ status' = [status EXCEPT ![k] = IF @ < DONE THEN DONE ELSE @]
      /\ Become(t, NewCall("notify", Null, k))
      /\ UNCHANGED <<binding, mgrVars, yields, calls>>

\* _notify_finished(): runs the action to its end; spins while it runs elsewhere.
Notify(t) ==
  LET k == Top(t).task
  IN  /\ At(t, "notify")
      /\ \/ /\ done[k]
            /\ Goto(t, "take")
         \/ /\ ~done[k] /\ ~Running(k)
            /\ Become(t, [NewCall("run", Null, k) EXCEPT !.end = "last_run"])
      /\ UNCHANGED <<taskVars, binding, mgrVars, yields, calls>>

\* active_next_tasks(): the binding is taken under the lock, then called back
\* (MUTANT: never called back).
Callback_Never(k) == Null
Callback(k) == binding[k]

Take(t) ==
  LET k == Top(t).task
  IN  /\ At(t, "take")
      /\ binding' = [binding EXCEPT ![k] = Null]
      /\ IF Callback(k) = Null THEN Pop(t)
         ELSE Become(t, NewCall("remove", Callback(k), k))
      /\ UNCHANGED <<taskVars, mgrVars, yields, calls>>

-----------------------------------------------------------------------------
(* tick() *)

FirstTick(m) == last_tick[m] = <<0, 0>>

\* The first tick turns the timeouts set so far into times.
Rebased(x, now) == <<x[1] + now[1], x[2] + now[2]>>

\* A tick within a tick is ignored.
Tick(m, now) ==
  LET t == Ticker
  IN  /\ InClient(t)
      /\ Usable(m)
      /\ Before(last_tick[m], now)
      /\ \/ /\ FirstTick(m) /\ "tick" \notin flags[m]
            /\ timers' = [timers EXCEPT ![m] = {<<Rebased(x[1], now), x[2]>> : x \in @}]
            /\ node' = [node EXCEPT ![m] = [k \in Task |->
                 IF node[m][k] = Null THEN Null ELSE Rebased(node[m][k], now)]]
            /\ due' = [due EXCEPT ![m] = [k \in Task |->
                 IF node[m][k] = Null THEN due[m][k] ELSE due[m][k] + Nanos(now)]]
            /\ last_tick' = [last_tick EXCEPT ![m] = now]
            /\ UNCHANGED <<flags, stack>>
         \/ /\ ~FirstTick(m)
            /\ TakeFlag(m, "tick")
            /\ Push(t, [NewCall("tick", m, Null) EXCEPT !.time = now])
            /\ UNCHANGED <<timers, node, due, last_tick>>
      /\ UNCHANGED <<taskVars, binding, tasks, alive, yields, calls>>

\* empty() is asked before the lock is taken.
TickEmpty(t) ==
  /\ At(t, "tick")
  /\ Goto(t, IF timers[Top(t).mgr] = {} THEN "tick_end" ELSE "tick_locked")
  /\ UNCHANGED <<taskVars, binding, mgrVars, yields, calls>>

\* begin(): the least expired_time (MUTANT: rbegin()).
Earliest_Last(m) == {x \in timers[m] : \A y \in timers[m] : ~Precedes(x, y)}
Earliest(m) == {x \in timers[m] : \A y \in timers[m] : ~Precedes(y, x)}

\* "all tasks those expired time less than now are timeout".
Expired(now, x) == Before(x[1], now)

\* One timer: it is over, and its task leaves the table, or the loop ends.  When
\* the table became empty meanwhile, end() is read: either may happen.
TickLocked(t) ==
  LET c == Top(t)
      m == c.mgr
      end == Goto(t, "tick_end") /\ UNCHANGED <<tasks, timers, node>>
      again == Goto(t, "tick") /\ UNCHANGED <<tasks, timers, node>>
  IN  /\ At(t, "tick_locked")
      /\ \/ timers[m] = {} /\ (end \/ again)
         \/ \E x \in Earliest(m) :
              \/ ~Expired(c.time, x) /\ end
              \/ Expired(c.time, x) /\ x[2] \notin tasks[m] /\ again
              \/ /\ Expired(c.time, x) /\ x[2] \in tasks[m]
                 /\ Erase(m, x[2])
                 /\ stack' = [stack EXCEPT ![t] =
                      <<[NewCall("tick_exiting", m, x[2]) EXCEPT !.end = "timeout", !.time = c.time],
                        [c EXCEPT !.pc = "tick"]>> \o Tail(@)]
      /\ UNCHANGED <<taskVars, binding, last_tick, flags, alive, due, yields, calls>>

\* A task that is exiting is left alone, its binding too.
TickExiting(t) ==
  /\ At(t, "tick_exiting")
  /\ IF Exiting(Top(t).task) THEN Pop(t) ELSE Goto(t, "cleanup")
  /\ UNCHANGED <<taskVars, binding, mgrVars, yields, calls>>

TickEnd(t) ==
  LET m == Top(t).mgr
  IN  /\ At(t, "tick_end")
      /\ last_tick' = [last_tick EXCEPT ![m] = Top(t).time]
      /\ flags' = [flags EXCEPT ![m] = @ \ {"tick"}]
      /\ Pop(t)
      /\ UNCHANGED <<taskVars, binding, tasks, node, timers, alive, due, yields, calls>>

-----------------------------------------------------------------------------
(* reset() and the destructor *)

\* No tick is in progress.  Whoever destroys a manager holds its last pointer: no
\* method of it is in progress on any thread.
Reset(m, end) ==
  LET t == Ticker
  IN  /\ NextCall(t)
      /\ Usable(m)
      /\ "tick" \notin flags[m]
      /\ end = "destroy" => /\ MayDestroy
                            /\ \A u \in Thread : \A c \in Frames(u) : c.mgr # m
      /\ TakeFlag(m, "reset")
      /\ Push(t, [NewCall("reset", m, Null) EXCEPT !.end = end])
      /\ UNCHANGED <<taskVars, binding, tasks, node, timers, last_tick, alive, due, yields>>

\* The bindings stay, and the flag goes before the tasks are killed.
ResetLocked(t) ==
  LET m == Top(t).mgr
  IN  /\ At(t, "reset")
      /\ tasks' = [tasks EXCEPT ![m] = {}]
      /\ timers' = [timers EXCEPT ![m] = {}]
      /\ node' = [node EXCEPT ![m] = [k \in Task |-> Null]]
      /\ flags' = [flags EXCEPT ![m] = {}]
      /\ last_tick' = [last_tick EXCEPT ![m] = <<0, 0>>]
      /\ Become(t, [Top(t) EXCEPT !.pc = "reset_kill", !.todo = tasks[m]])
      /\ UNCHANGED <<taskVars, binding, alive, due, yields, calls>>

ResetKill(t) ==
  LET c == Top(t)
  IN  /\ At(t, "reset_kill")
      /\ \/ \E k \in c.todo :
              LET rest == [c EXCEPT !.todo = @ \ {k}]
              IN  IF ~Exiting(k)
                  THEN stack' = [stack EXCEPT ![t] =
                         <<[NewCall("finish", Null, k) EXCEPT !.end = "killed"], rest>> \o Tail(@)]
                  ELSE Become(t, rest)
         \/ c.todo = {} /\ Pop(t)
      /\ alive' = [alive EXCEPT ![c.mgr] = @ /\ ~(c.todo = {} /\ c.end = "destroy")]
      /\ UNCHANGED <<taskVars, binding, tasks, node, timers, last_tick, flags, due, yields, calls>>

-----------------------------------------------------------------------------

Proceed(t) ==
  \/ AddLocked(t) \/ StartTask(t) \/ Check(t)
  \/ Remove(t) \/ Cleanup(t) \/ ReadStatus(t) \/ FinishTask(t)
  \/ Return(t) \/ Notify(t) \/ Take(t)
  \/ TickEmpty(t) \/ TickLocked(t) \/ TickExiting(t) \/ TickEnd(t)
  \/ ResetLocked(t) \/ ResetKill(t)

Client(t) ==
  \/ \E m \in Manager, k \in Task :
       \/ \E timeout \in Timeout : AddTask(t, m, k, timeout) \/ SetTimeout(t, m, k, timeout)
       \/ RemoveTask(t, m, k) \/ Kill(t, m, k) \/ Cancel(t, m, k)
  \/ \E m \in Manager \cup {Null}, k \in Task : Start(t, m, k)
  \/ Yield(t)

\* Every thread is back in client code: the program may stop.
Stopped == (\A t \in Thread : stack[t] = <<>>) /\ UNCHANGED vars

Next ==
  \/ \E t \in Thread : Proceed(t) \/ Client(t)
  \/ \E m \in Manager :
       \/ \E now \in Clock : Tick(m, now)
       \/ \E end \in {"none", "destroy"} : Reset(m, end)
  \/ Stopped

Spec == Init /\ [][Next]_vars

-----------------------------------------------------------------------------
(* Properties *)

InHands(k) ==
  \E t \in Thread : \E c \in Frames(t) : c.task = k \/ k \in c.todo

\* The timers and the timer_node of the tasks in the table agree: tick(), whose
\* loop drops a timer only with its task, never meets a timer without one.
TimersMatch ==
  \A m \in Manager :
    timers[m] = {<<node[m][k], k>> : k \in {j \in tasks[m] : node[m][j] # Null}}

\* A task in a table is bound to that manager until it is over, however adding,
\* removing and finishing race; so it is in no second one.
ManagedIsBound ==
  \A m \in Manager : \A k \in tasks[m] : ~Exiting(k) => binding[k] = m

\* A task that left its manager, and is not over, can be added again: it does not
\* stay bound to a manager whose table it is not in.
BoundIsManaged ==
  \A k \in Task :
    ~Exiting(k) /\ binding[k] # Null /\ ~InHands(k) => k \in tasks[binding[k]]

\* "when finish task with task's API, task_manager will also be cleanup": nobody
\* works on a finished task any more, and it is in a table still, which no reset is
\* about to clear: never.
FinishedIsRemoved ==
  \A k \in Task, m \in Manager :
    done[k] /\ ~InHands(k) /\ "reset" \notin flags[m] => k \notin tasks[m]

\* Only one call takes a task out of the table and kills it: _notify_finished()
\* never finds the action running elsewhere, which is what Task asks of its client.
NotifyNeverSpins ==
  \A t \in Thread : At(t, "notify") /\ ~done[Top(t).task] => ~Running(Top(t).task)

\* tick() times a task out after its timeout is over, not before; and when it is
\* done every timer left has still to come (on one thread).
TimedOutInTime ==
  \A t \in Thread :
    /\ At(t, "tick_exiting") => due[Top(t).mgr][Top(t).task] < Nanos(Top(t).time)
    /\ At(t, "tick_end") => \A x \in timers[Top(t).mgr] : ~Before(x[1], Top(t).time)

=============================================================================
