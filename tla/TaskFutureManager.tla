--------------------------- MODULE TaskFutureManager ---------------------------
(***************************************************************************)
(* cotask::task_manager<task_future<..>> (include/libcotask/task_manager.h *)
(* from line 873) together with the tasks of TaskFuture: a table that      *)
(* holds a future of each task, timers, and the callback by which a task   *)
(* that ends leaves the table.                                             *)
(*                                                                         *)
(* The same thread does everything, so what matters is that each call that *)
(* resumes a task may come back to the manager: from the body of the task, *)
(* from its end, or from the end of one that waited for it.  TaskManager   *)
(* models the calls of several threads and clocks with nanoseconds; here   *)
(* a time is one number and the timer of a task is its expired_time.       *)
(***************************************************************************)
EXTENDS TaskFuture

CONSTANTS
  Clock,     \* bound: the times that tick() is called with
  Timeout,   \* bound: the timeouts that are asked for; 0 is none
  MayEnd     \* may the manager be destroyed?

ASSUME ManagerAssumption == Clock \subseteq Nat \ {0} /\ Timeout \subseteq Nat /\ MayEnd \in BOOLEAN

VARIABLES
  timer,      \* task_timeout_timer_: when each task expires, or 0
  last_tick,  \* last_tick_time_
  ticking,    \* kTimerTick; kTimerReset is never set when other code runs
  alive       \* has the manager not been destroyed?

managerVars == <<timer, last_tick, ticking, alive>>
vars == <<taskVars, managerVars>>
\* What no call of the manager changes itself.
frameVars == <<frame, flags, waiting, callers, awaits, attached, value, self, kept>>

TypeOK ==
  /\ TaskTypeOK
  /\ timer \in [Co -> Nat]
  /\ last_tick \in Nat
  /\ ticking \in BOOLEAN
  /\ alive \in BOOLEAN

Init ==
  /\ TaskInit
  /\ timer = [c \in Co |-> 0]
  /\ last_tick = 0
  /\ ticking = FALSE
  /\ alive = TRUE

\* What find_task() and the other methods find
Managed == {d \in Co : Table \in futures[d]}
Calls == Op /\ alive

\* set_timeout_timer()
ExpiredTime(timeout) == IF timeout = 0 THEN 0 ELSE last_tick + timeout

\* The task leaves the table, its timer goes; its future goes at the end of the call.
\* (MUTANT: the timer stays)
Erase_KeepTimer(who) ==
  /\ futures' = [d \in Co |-> IF d \in who THEN futures[d] \ {Table} ELSE futures[d]]
  /\ UNCHANGED timer
Erase(who) ==
  /\ futures' = [d \in Co |-> IF d \in who THEN futures[d] \ {Table} ELSE futures[d]]
  /\ timer' = [d \in Co |-> IF d \in who THEN 0 ELSE timer[d]]

\* setup_task_manager() refuses a task that has a manager.
Setup(d) == ~bound[d] /\ bound' = [bound EXCEPT ![d] = TRUE]

\* cleanup_task_manager()
Cleanup(d) == bound' = [bound EXCEPT ![d] = FALSE]

-----------------------------------------------------------------------------

AddTask(d, timeout) ==
  /\ Calls /\ Reaches(d)
  /\ ~Exiting(d) /\ d \notin Managed /\ Setup(d)
  /\ futures' = [futures EXCEPT ![d] = @ \cup {Table}]
  /\ timer' = [timer EXCEPT ![d] = ExpiredTime(timeout)]
  /\ UNCHANGED <<frameVars, status, stack, locked, last_tick, ticking, alive>>

SetTimeout(d, timeout) ==
  /\ Calls /\ d \in Managed
  /\ timer' = [timer EXCEPT ![d] = ExpiredTime(timeout)]
  /\ UNCHANGED <<promiseVars, stack, value, refVars, locked, bound, last_tick, ticking, alive>>

\* Every call that takes a task out of the table ends like this: it is not bound any
\* more, it is killed, and the future that was in the table goes.
TakeOut(d, target, below) ==
  /\ Erase({d})
  /\ Cleanup(d)
  /\ KillTask(d, target, FALSE, <<Forget({d})>> \o below)
  /\ UNCHANGED <<frameVars, last_tick, ticking, alive>>

\* remove_task(), which kills only a task that was started and is not done.
RemoveTask(d, below) ==
  IF status[d] = RUNNING THEN TakeOut(d, KILLED, below)
  ELSE /\ Erase({d})
       /\ Cleanup(d)
       /\ stack' = <<Forget({d})>> \o below
       /\ UNCHANGED <<frameVars, status, locked, last_tick, ticking, alive>>

Remove(d) == Calls /\ d \in Managed /\ RemoveTask(d, stack)

\* kill() and cancel()
ManagerKill(d, target) == Calls /\ d \in Managed /\ TakeOut(d, target, stack)

\* start(): if the task is over it is removed; the callback may have done it.
ManagerStart(d) ==
  /\ Calls /\ d \in Managed
  /\ StartTask(d, <<NewCall("started", d), Forget({d})>> \o stack)
  /\ UNCHANGED <<frameVars, futures, locked, bound, managerVars>>

Started(d) ==
  /\ At("started") /\ Top.co = d
  /\ IF Exiting(d) /\ d \in Managed THEN RemoveTask(d, Tail(stack))
     ELSE Pop /\ UNCHANGED <<frameVars, futures, status, locked, bound, managerVars>>
  /\ UNCHANGED boundVars

\* task_cleanup_callback(): remove_task() of a task that may be in no table.
CleanupCallback(d, below) ==
  IF d \in Managed THEN RemoveTask(d, below)
  ELSE /\ stack' = below
       /\ Cleanup(d)
       /\ UNCHANGED <<frameVars, futures, status, locked, managerVars>>

\* unbind_from_manager()
Unbind(d) ==
  /\ At("unbind") /\ Top.co = d
  /\ IF bound[d] THEN CleanupCallback(d, Tail(stack))
     ELSE Pop /\ UNCHANGED <<frameVars, futures, status, locked, bound, managerVars>>
  /\ UNCHANGED boundVars

-----------------------------------------------------------------------------
(* tick() *)

\* The first tick makes the timeouts relative to its time.
FirstTick(now) ==
  /\ Calls /\ last_tick = 0 /\ ~ticking
  /\ timer' = [d \in Co |-> IF timer[d] = 0 THEN 0 ELSE timer[d] + now]
  /\ last_tick' = now
  /\ UNCHANGED <<promiseVars, stack, value, refVars, locked, bound, ticking, alive>>

\* flag_guard_type: it takes a flag that nobody has.
TakeFlag == ~ticking /\ ticking' = TRUE

Tick(now) ==
  /\ Calls /\ last_tick # 0 /\ now > last_tick /\ TakeFlag
  /\ Push([NewCall("tick", Null) EXCEPT !.time = now])
  /\ UNCHANGED <<promiseVars, value, refVars, locked, bound, timer, last_tick, alive>>

\* The first of the timers that are over.
Due(now) == {d \in Co : timer[d] # 0 /\ timer[d] < now}

\* A task that is exiting already is only taken out, and is still bound.
TickTask ==
  /\ At("tick")
  /\ \E d \in Due(Top.time) :
       /\ \A other \in Due(Top.time) : timer[d] <= timer[other]
       /\ IF ~Exiting(d) THEN TakeOut(d, TIMEOUT, stack)
          ELSE /\ Erase({d})
               /\ stack' = <<Forget({d})>> \o stack
               /\ UNCHANGED <<frameVars, status, locked, bound, last_tick, ticking, alive>>
  /\ UNCHANGED boundVars

TickEnd ==
  /\ At("tick") /\ Due(Top.time) = {}
  /\ last_tick' = Top.time
  /\ ticking' = FALSE
  /\ Pop
  /\ UNCHANGED <<promiseVars, value, refVars, locked, bound, boundVars, timer, alive>>

-----------------------------------------------------------------------------
(* reset() and the destructor. *)

\* reset() clears all flags, its own too, before it kills.
ResetTo(below) ==
  /\ Erase(Managed)
  /\ ticking' = FALSE
  /\ last_tick' = 0
  /\ stack' = <<[NewCall("reset", Null) EXCEPT !.todo = Managed],
                Forget(Managed)>> \o below
  /\ UNCHANGED <<frameVars, status, locked, bound>>

Reset == Calls /\ ResetTo(stack) /\ UNCHANGED alive

\* A task that is exiting already is not touched.
ResetTask ==
  /\ At("reset")
  /\ \E d \in Top.todo :
       LET rest == <<[Top EXCEPT !.todo = @ \ {d}]>> \o Tail(stack)
       IN  IF ~Exiting(d) THEN Cleanup(d) /\ KillTask(d, KILLED, FALSE, rest)
           ELSE stack' = rest /\ UNCHANGED <<status, locked, bound>>
  /\ UNCHANGED <<frameVars, futures, boundVars, managerVars>>

ResetEnd ==
  /\ At("reset") /\ Top.todo = {}
  /\ Pop
  /\ UNCHANGED <<promiseVars, value, refVars, locked, bound, boundVars, managerVars>>

Destroy ==
  /\ InMain /\ MayEnd /\ Calls
  /\ ResetTo(<<NewCall("destroyed", Null)>>)
  /\ UNCHANGED alive

\* Tasks that were added while the destructor was killing go with tasks_.
Destroyed ==
  /\ At("destroyed")
  /\ Erase(Managed)
  /\ alive' = FALSE
  /\ Become(Forget(Managed))
  /\ UNCHANGED <<frameVars, status, locked, bound, boundVars, last_tick, ticking>>

-----------------------------------------------------------------------------

ManagerStep ==
  \/ \E d \in Co, timeout \in Timeout : AddTask(d, timeout) \/ SetTimeout(d, timeout)
  \/ \E d \in Co : Remove(d) \/ ManagerKill(d, CANCLE) \/ ManagerStart(d)
                   \/ Started(d) \/ Unbind(d)
  \/ \E now \in Clock : FirstTick(now) \/ Tick(now)
  \/ TickTask \/ TickEnd
  \/ Reset \/ ResetTask \/ ResetEnd \/ Destroy \/ Destroyed

Next == (TaskStep /\ UNCHANGED managerVars) \/ ManagerStep

Spec == Init /\ [][Next]_vars

-----------------------------------------------------------------------------
(* Properties. *)

\* Nobody touches a frame or a context that is gone: not the calls in progress, which
\* use plain pointers and references (lock_holder in kill(), the caller sets), not an
\* awaitable, whose context_ does not count (task_promise.h:645); and a coroutine is
\* resumed only while it is suspended.
HandlesLive ==
  /\ \A i \in DOMAIN stack :
       LET call == stack[i]
       IN  /\ call.pc \in {"body", "await_resume", "locals"} => frame[call.co] = "active"
           /\ call.pc \in {"unbind", "final", "drop", "release", "unlock", "started"}
                => frame[call.co] # "destroyed"
           /\ call.pc = "wake" => \A c \in call.todo : frame[c] # "destroyed"
  /\ At("resume") => Suspended(Top.co)
  /\ \A c \in Co : Alive(c) /\ awaits[c] \in Co => Alive(awaits[c])

\* The caller managers name nobody but those that wait there, and when the event loop
\* runs whoever waits is registered at something that is yet to come; the one
\* exception is a task that was killed before it started.
CallersWait ==
  /\ \A x \in Co \cup Event : \A c \in callers[x] : Alive(c) /\ awaits[c] = x /\ attached[c]
  /\ InMain => \A c \in Co : Suspended(c) /\ awaits[c] # Null =>
    LET x == awaits[c]
    IN  /\ c \in callers[x]
        /\ IF x \in Event THEN value[x] = "pending"
           ELSE Suspended(x) /\ (Exiting(x) => awaits[x] = Null)

\* No task that was killed, timed out or cancelled is left waiting.
KillUnwinds == InMain => \A c \in Co : Exiting(c) /\ Suspended(c) => awaits[c] = Null

\* When the last future of a task is gone the coroutine has run to its end, whatever
\* it was waiting for, and its frame has been destroyed: nothing leaks.  A future in a
\* frame that was destroyed, the parameter of a task made by then(), is gone as well.
HasHolder(d) == \E h \in futures[d] : h \in Co => Alive(h)
LastFutureEnds == InMain => \A d \in Co : ~HasHolder(d) => ~Alive(d)

\* The table holds tasks that are not over, timers belong to tasks of the table, and
\* a task of the table can call back.
TableExact ==
  /\ \A d \in Co : timer[d] # 0 => d \in Managed
  /\ \A d \in Managed : bound[d] /\ alive
  /\ InMain => \A d \in Managed : ~Finished(d)

\* No task is bound to a manager that was destroyed.
BindingLive == \A d \in Co : bound[d] => alive

=============================================================================
