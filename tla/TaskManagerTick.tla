--------------------------- MODULE TaskManagerTick ---------------------------
(***************************************************************************)
(* The loop of task_manager::tick() under actions that go on without end.  *)
(* A client drops a task that has finished and makes a new one, which has  *)
(* its name here, and every new task brings new calls.  So a behaviour may *)
(* have any number of tasks and of calls in one tick, and an action that   *)
(* is killed may add the next one to be killed.                            *)
(***************************************************************************)
EXTENDS TaskManager

\* create(): by client code, in the place of a task that nobody has any more.
Renew(t, k) ==
  /\ InClient(t)
  /\ done[k] /\ ~InHands(k) /\ \A m \in Manager : k \notin tasks[m]
  /\ status' = [status EXCEPT ![k] = CREATED]
  /\ done' = [done EXCEPT ![k] = FALSE]
  /\ binding' = [binding EXCEPT ![k] = Null]
  /\ yields' = [yields EXCEPT ![k] = 0]
  /\ due' = [m \in Manager |-> [due[m] EXCEPT ![k] = 0]]
  /\ calls' = 0
  /\ UNCHANGED <<tasks, node, timers, last_tick, flags, alive, stack>>

TickNext == Next \/ \E t \in Thread, k \in Task : Renew(t, k)

ReturnOf(t, k) == Return(t) /\ Top(t).task = k

\* Threads are scheduled, and each action returns although it may go on making calls.
Fairness ==
  \A t \in Thread : WF_vars(Proceed(t)) /\ \A k \in Task : SF_vars(ReturnOf(t, k))

TickSpec == Init /\ [][TickNext]_vars /\ Fairness

-----------------------------------------------------------------------------
(* Properties *)

\* A tick of m is in progress, and a timer is set that is over for it already: the
\* time it counts from is that of the tick before.
SetsOverdue(m) ==
  \E t \in Thread : \E c \in Frames(t) :
    /\ c.mgr = m /\ c.pc \in {"tick", "tick_locked", "tick_end"}
    /\ \E x \in timers'[m] \ timers[m] : Before(x[1], c.time)

\* The loop of tick() ends, however many tasks the actions that it kills make and add,
\* unless they set timeouts for ever which are over when they are set.
TickEnds ==
  \A m \in Manager :
    <>[][~SetsOverdue(m)]_vars => ("tick" \in flags[m] ~> "tick" \notin flags[m])

=============================================================================
