----------------------------- MODULE TaskLifetime -----------------------------
(***************************************************************************)
(* How long a cotask::task lives (include/libcotask/task.h).  The task,    *)
(* its action and its coroutine lie in the stack that the coroutine runs   *)
(* on (coroutine_context_container.h).  The last intrusive pointer to go   *)
(* destroys the action, then the task, which makes its coroutine run to    *)
(* its end first, and gives the stack back last.                           *)
(*                                                                         *)
(* One thread.  `stack' holds the calls in progress, innermost first: of   *)
(* start(), _notify_finished(), active_next_tasks() and of the release of  *)
(* a task, and the client code that these enter: the action of a task and  *)
(* the body of a C++20 coroutine that awaits one.  A pointer is held by    *)
(* the clients, by an action that captured it, by a next list, by the      *)
(* frame of an await_task() or by a call that took a next list out.        *)
(***************************************************************************)
EXTENDS Integers, Sequences, FiniteSets

CONSTANTS
  Task,
  Awaiter,    \* C++20 coroutines, which know a task by a raw pointer
  Null,
  MaxYield,   \* bound: yields of one action
  MaxCall     \* bound: calls of next(), await_task(), kill() and co_await

ASSUME LifetimeAssumption ==
  /\ IsFiniteSet(Task) /\ Null \notin Task /\ Task \cap Awaiter = {}
  /\ MaxYield \in Nat /\ MaxCall \in Nat

CREATED == 1
RUNNING == 2
WAITING == 3
DONE == 4
KILLED == 6
TIMEOUT == 7

VARIABLES
  object,      \* the task
  action,      \* its action
  captured,    \* the pointers in its action
  mapped,      \* its stack
  status,      \* status_
  co,          \* its coroutine
  next_list,   \* next_list_.member_list_
  callers,     \* caller_manager_
  waits,       \* whom the suspended await_task() of a task waits for
  awaiting,    \* the task that a C++20 coroutine awaits
  handle,      \* the tasks that clients hold a pointer to
  stack,
  yields, calls   \* used up bounds

vars == <<object, action, captured, mapped, status, co, next_list, callers,
          waits, awaiting, handle, stack, yields, calls>>

Label == {"action", "body", "started", "notify", "activate", "wake", "unhold",
          "release", "captures", "destroy_task", "members", "base", "recycle"}

Releasing == {"release", "captures", "destroy_task", "members", "base", "recycle"}

\* A call in progress on `task'; held: the next list it took out, todo: what is
\* left of it to start; who: the callers left to resume; coro: is the pointer to
\* the coroutine saved?
Call == [pc : Label, task : Task \cup {Null}, held : Seq(Task), todo : Seq(Task),
         who : SUBSET Awaiter, coro : BOOLEAN]

TypeOK ==
  /\ object \in [Task -> {"none", "alive", "dead"}]
  /\ action \in [Task -> BOOLEAN]
  /\ captured \in [Task -> SUBSET Task]
  /\ mapped \in [Task -> BOOLEAN]
  /\ status \in [Task -> CREATED..TIMEOUT]
  /\ co \in [Task -> {"FRESH", "READY", "RUNNING", "FINISHED"}]
  /\ next_list \in [Task -> Seq(Task)]
  /\ callers \in [Task -> SUBSET Awaiter]
  /\ waits \in [Task -> Task \cup {Null}]
  /\ awaiting \in [Awaiter -> Task \cup {Null}]
  /\ handle \subseteq Task
  /\ stack \in Seq(Call)
  /\ yields \in [Task -> 0..MaxYield]
  /\ calls \in 0..MaxCall

Init ==
  /\ object = [k \in Task |-> "none"]
  /\ action = [k \in Task |-> FALSE]
  /\ captured = [k \in Task |-> {}]
  /\ mapped = [k \in Task |-> FALSE]
  /\ status = [k \in Task |-> CREATED]
  /\ co = [k \in Task |-> "FRESH"]
  /\ next_list = [k \in Task |-> <<>>]
  /\ callers = [k \in Task |-> {}]
  /\ waits = [k \in Task |-> Null]
  /\ awaiting = [a \in Awaiter |-> Null]
  /\ handle = {}
  /\ stack = <<>>
  /\ yields = [k \in Task |-> 0]
  /\ calls = 0

Top == Head(stack)
At(label) == stack # <<>> /\ Top.pc = label
NewCall(label, k) ==
  [pc |-> label, task |-> k, held |-> <<>>, todo |-> <<>>, who |-> {}, coro |-> FALSE]
Goto(label) == <<[Top EXCEPT !.pc = label]>> \o Tail(stack)

Exiting(k) == status[k] >= DONE
Completed(k) == co[k] = "FINISHED"
Startable(k) == status[k] \in {CREATED, WAITING}

\* Client code, and the action that it is part of.
Client == stack # <<>> => Top.pc \in {"action", "body"}
InAction(k) == At("action") /\ Top.task = k /\ waits[k] = Null

\* The pointers that client code may use: those the clients hold, and those that
\* the action which runs has captured.
Reachable ==
  handle \cup IF At("action") /\ action[Top.task] THEN captured[Top.task] ELSE {}

-----------------------------------------------------------------------------
(* Pointers. *)

\* ref_count_ counts these: where a pointer to k is.
References(k) ==
  LET Places(lists) ==
        UNION {{j} \X {i \in DOMAIN lists[j] : lists[j][i] = k} : j \in DOMAIN lists}
  IN  ({"handle"} \X (handle \cap {k}))
        \cup ({"captured"} \X {j \in Task : k \in captured[j]})
        \cup ({"waits"} \X {j \in Task : waits[j] = k})
        \cup ({"next"} \X Places(next_list))
        \cup ({"held"} \X Places([d \in DOMAIN stack |-> stack[d].held]))

\* intrusive_ptr_release() of one pointer to k in the course of a call: the last
\* one enters the release of k, from which control returns to `rest'.
Dropped(k, rest) ==
  IF Cardinality(References(k)) = 1 THEN <<NewCall("release", k)>> \o rest ELSE rest

\* The stack of k, with its coroutine in it.
CreateStack(k) == mapped' = [mapped EXCEPT ![k] = TRUE]

\* create(): the pointer to the new task goes to the clients.
Create(k, S) ==
  /\ Client
  /\ object[k] = "none"
  /\ S \subseteq Reachable
  /\ object' = [object EXCEPT ![k] = "alive"]
  /\ CreateStack(k)
  /\ action' = [action EXCEPT ![k] = TRUE]
  /\ captured' = [captured EXCEPT ![k] = S]
  /\ handle' = handle \cup {k}
  /\ UNCHANGED <<status, co, next_list, callers, waits, awaiting, stack, yields, calls>>

\* The client contract: a pointer that a call is made through stays until the
\* call returns, as the pointer that start() once took of its own task did.
InProgress(k) == \E d \in DOMAIN stack : stack[d].task = k

DropHandle(k) ==
  /\ Client
  /\ k \in handle /\ ~InProgress(k)
  /\ handle' = handle \ {k}
  /\ stack' = Dropped(k, stack)
  /\ UNCHANGED <<object, action, captured, mapped, status, co, next_list, callers,
                 waits, awaiting, yields, calls>>

-----------------------------------------------------------------------------
(* start(), kill() and _notify_finished(), which Task has in more detail.  *)

\* The coroutine of k goes on, in its action, on top of `rest'.
Entered(k, rest) == <<NewCall("action", k)>> \o rest

Run(k, rest) ==
  /\ co' = [co EXCEPT ![k] = "RUNNING"]
  /\ stack' = Entered(k, rest)

Start(k) ==
  /\ Client
  /\ k \in Reachable /\ Startable(k)
  /\ status' = [status EXCEPT ![k] = RUNNING]
  /\ Run(k, <<NewCall("started", k)>> \o stack)
  /\ UNCHANGED <<object, action, captured, mapped, next_list, callers, waits,
                 awaiting, handle, yields, calls>>

\* The coroutine came back.
Settle ==
  /\ At("started")
  /\ LET k == Top.task
     IN  IF Completed(k) \/ Exiting(k)
         THEN /\ status' = [status EXCEPT ![k] = IF Exiting(k) THEN @ ELSE DONE]
              /\ stack' = Goto("notify")
         ELSE /\ status' = [status EXCEPT ![k] = WAITING]
              /\ stack' = Tail(stack)
  /\ UNCHANGED <<object, action, captured, mapped, co, next_list, callers, waits,
                 awaiting, handle, yields, calls>>

\* As in Task, a task that is exiting is not killed again in its action.
Kill(k) ==
  /\ Client
  /\ k \in Reachable /\ calls < MaxCall
  /\ Exiting(k) => Completed(k) /\ ~InProgress(k)
  /\ status' = [status EXCEPT ![k] = KILLED]
  /\ stack' = IF status[k] = RUNNING THEN stack ELSE <<NewCall("notify", k)>> \o stack
  /\ calls' = calls + 1
  /\ UNCHANGED <<object, action, captured, mapped, co, next_list, callers, waits,
                 awaiting, handle, yields>>

NotifyResume ==
  /\ At("notify")
  /\ co[Top.task] \in {"FRESH", "READY"}
  /\ Run(Top.task, stack)
  /\ UNCHANGED <<object, action, captured, mapped, status, next_list, callers,
                 waits, awaiting, handle, yields, calls>>

\* active_next_tasks() takes the list out ...
Activation(k) == [NewCall("activate", k) EXCEPT !.held = next_list[k], !.todo = next_list[k]]

TakeNext(k, rest) ==
  /\ next_list' = [next_list EXCEPT ![k] = <<>>]
  /\ stack' = <<Activation(k)>> \o rest

NotifyNext ==
  /\ At("notify")
  /\ Completed(Top.task)
  /\ TakeNext(Top.task, Tail(stack))
  /\ UNCHANGED <<object, action, captured, mapped, status, co, callers, waits,
                 awaiting, handle, yields, calls>>

\* ... starts or resumes what is in it (MUTANT: resume is forgotten), and keeps
\* the pointers (MUTANT: one is gone as soon as its task is started), ...
Activated_StartOnly(k) == status[k] = CREATED
Activated(k) == Startable(k)

StillHeld_Todo(call) == Tail(call.todo)
StillHeld(call) == call.held

Activate ==
  /\ At("activate")
  /\ Top.todo # <<>>
  /\ LET n == Head(Top.todo)
         rest == <<[Top EXCEPT !.todo = Tail(@), !.held = StillHeld(Top)]>> \o Tail(stack)
     IN  IF Activated(n)
         THEN /\ status' = [status EXCEPT ![n] = RUNNING]
              /\ Run(n, <<NewCall("started", n)>> \o rest)
         ELSE /\ stack' = rest
              /\ UNCHANGED <<status, co>>
  /\ UNCHANGED <<object, action, captured, mapped, next_list, callers, waits,
                 awaiting, handle, yields, calls>>

\* ... resumes the C++20 coroutines ...
TakeCallers ==
  /\ At("activate")
  /\ Top.todo = <<>>
  /\ callers' = [callers EXCEPT ![Top.task] = {}]
  /\ stack' = <<[Top EXCEPT !.pc = "wake", !.who = callers[Top.task]]>> \o Tail(stack)
  /\ UNCHANGED <<object, action, captured, mapped, status, co, next_list, waits,
                 awaiting, handle, yields, calls>>

Body(a) == [NewCall("body", Null) EXCEPT !.who = {a}]

\* (one that was killed meanwhile is done)
Wake(a) ==
  /\ At("wake")
  /\ a \in Top.who
  /\ LET rest == <<[Top EXCEPT !.who = @ \ {a}]>> \o Tail(stack)
     IN  IF awaiting[a] = Top.task
         THEN /\ awaiting' = [awaiting EXCEPT ![a] = Null]
              /\ stack' = <<Body(a)>> \o rest
         ELSE /\ stack' = rest
              /\ UNCHANGED awaiting
  /\ UNCHANGED <<object, action, captured, mapped, status, co, next_list, callers,
                 waits, handle, yields, calls>>

\* ... and lets go of the list.
Unhold ==
  /\ At("wake") /\ Top.who = {}
  /\ LET list == Top.held
         rest == <<[Top EXCEPT !.held = Tail(list)]>> \o Tail(stack)
     IN  stack' = IF list = <<>> THEN Tail(stack) ELSE Dropped(Head(list), rest)
  /\ UNCHANGED <<object, action, captured, mapped, status, co, next_list, callers,
                 waits, awaiting, handle, yields, calls>>

-----------------------------------------------------------------------------
(* next(), await_task() and co_await. *)

Next_(k, n) ==
  /\ Client
  /\ {k, n} \subseteq Reachable /\ k # n
  /\ calls < MaxCall
  /\ calls' = calls + 1
  /\ \/ /\ ~Exiting(k) /\ ~Completed(k)
        /\ next_list' = [next_list EXCEPT ![k] = Append(@, n)]
        /\ UNCHANGED <<status, co, stack>>
     \/ /\ Exiting(k) \/ Completed(k)
        /\ Startable(n)
        /\ status' = [status EXCEPT ![n] = RUNNING]
        /\ Run(n, <<NewCall("started", n)>> \o stack)
        /\ UNCHANGED next_list
  /\ UNCHANGED <<object, action, captured, mapped, callers, waits, awaiting, handle, yields>>

\* await_task() takes a pointer to its own task, so it refuses a task that is
\* exiting, which may be one whose last pointer is gone (MUTANT: it does not).
MayAwait_Always(k) == TRUE
MayAwait(k) == ~Exiting(k)

Await(k, j) ==
  /\ InAction(k)
  /\ j \in Reachable \ {k}
  /\ calls < MaxCall
  /\ ~Exiting(j) /\ ~Completed(j) /\ MayAwait(k)
  /\ calls' = calls + 1
  /\ next_list' = [next_list EXCEPT ![j] = Append(@, k)]
  /\ waits' = [waits EXCEPT ![k] = j]
  /\ co' = [co EXCEPT ![k] = "READY"]
  /\ stack' = Tail(stack)
  /\ UNCHANGED <<object, action, captured, mapped, status, callers, awaiting, handle, yields>>

\* Its loop, whenever the coroutine is resumed: with its return the pointer to
\* the other task is gone.
AwaitLoop(k) ==
  /\ At("action") /\ Top.task = k /\ waits[k] # Null
  /\ LET j == waits[k]
     IN  IF Exiting(j) \/ Completed(j) \/ Exiting(k)
         THEN /\ waits' = [waits EXCEPT ![k] = Null]
              /\ stack' = Dropped(j, stack)
              /\ UNCHANGED co
         ELSE /\ co' = [co EXCEPT ![k] = "READY"]
              /\ stack' = Tail(stack)
              /\ UNCHANGED waits
  /\ UNCHANGED <<object, action, captured, mapped, status, next_list, callers,
                 awaiting, handle, yields, calls>>

\* Client code calls a C++20 coroutine ...
CallAwaiter(a) ==
  /\ Client
  /\ awaiting[a] = Null /\ \A d \in DOMAIN stack : a \notin stack[d].who
  /\ calls < MaxCall
  /\ calls' = calls + 1
  /\ stack' = <<Body(a)>> \o stack
  /\ UNCHANGED <<object, action, captured, mapped, status, co, next_list, callers,
                 waits, awaiting, handle, yields>>

\* ... which awaits a task that is not over yet, and suspends itself, ...
CoAwait(k) ==
  /\ At("body")
  /\ k \in handle /\ ~Exiting(k)
  /\ callers' = [callers EXCEPT ![k] = @ \cup Top.who]
  /\ awaiting' = [a \in Awaiter |-> IF a \in Top.who THEN k ELSE awaiting[a]]
  /\ stack' = Tail(stack)
  /\ UNCHANGED <<object, action, captured, mapped, status, co, next_list, waits,
                 handle, yields, calls>>

\* ... and ends; or it is killed while it waits, and detaches from the task.
EndBody ==
  /\ At("body")
  /\ stack' = Tail(stack)
  /\ UNCHANGED <<object, action, captured, mapped, status, co, next_list, callers,
                 waits, awaiting, handle, yields, calls>>

KillAwaiter(a) ==
  /\ Client
  /\ awaiting[a] # Null
  /\ callers' = [callers EXCEPT ![awaiting[a]] = @ \ {a}]
  /\ awaiting' = [awaiting EXCEPT ![a] = Null]
  /\ UNCHANGED <<object, action, captured, mapped, status, co, next_list, waits,
                 handle, stack, yields, calls>>

-----------------------------------------------------------------------------
(* The action: it yields, and it returns. *)

Yield(k) ==
  /\ InAction(k)
  /\ yields[k] < MaxYield
  /\ yields' = [yields EXCEPT ![k] = @ + 1]
  /\ co' = [co EXCEPT ![k] = "READY"]
  /\ stack' = Tail(stack)
  /\ UNCHANGED <<object, action, captured, mapped, status, next_list, callers,
                 waits, awaiting, handle, calls>>

Finish(k) ==
  /\ InAction(k)
  /\ co' = [co EXCEPT ![k] = "FINISHED"]
  /\ stack' = Tail(stack)
  /\ UNCHANGED <<object, action, captured, mapped, status, next_list, callers,
                 waits, awaiting, handle, yields, calls>>

-----------------------------------------------------------------------------
(* The last pointer is gone: intrusive_ptr_release(). *)

\* The coroutine, which the task is a part of, is kept for later (MUTANT: it is
\* left to the task), and the action is destroyed with what it captured.
Saved_Never == FALSE
Saved == TRUE

DestroyAction ==
  /\ At("release")
  /\ action' = [action EXCEPT ![Top.task] = FALSE]
  /\ stack' = <<[Top EXCEPT !.pc = "captures", !.coro = Saved]>> \o Tail(stack)
  /\ UNCHANGED <<object, captured, mapped, status, co, next_list, callers, waits,
                 awaiting, handle, yields, calls>>

DropCaptures ==
  LET k == Top.task
  IN  /\ At("captures")
      /\ IF captured[k] = {}
         THEN stack' = Goto("destroy_task") /\ UNCHANGED captured
         ELSE \E j \in captured[k] :
                /\ captured' = [captured EXCEPT ![k] = @ \ {j}]
                /\ stack' = Dropped(j, stack)
      /\ UNCHANGED <<object, action, mapped, status, co, next_list, callers, waits,
                     awaiting, handle, yields, calls>>

\* ~task(): a task that has begun is killed, which runs it to its end (MUTANT: it
\* is not); one that has not wakes those that wait for it (MUTANT: it does not).
KilledByDestructor_Never(k) == FALSE
KilledByDestructor(k) == status[k] \in {RUNNING, WAITING}

ActivatedByDestructor_Never(k) == FALSE
ActivatedByDestructor(k) == status[k] = CREATED

DestroyTask ==
  LET k == Top.task
      rest == Goto("members")
  IN  /\ At("destroy_task")
      /\ CASE KilledByDestructor(k) ->
                /\ stack' = IF status[k] = RUNNING THEN rest
                            ELSE <<NewCall("notify", k)>> \o rest
                /\ status' = [status EXCEPT ![k] = TIMEOUT]
                /\ UNCHANGED next_list
           [] ActivatedByDestructor(k) -> TakeNext(k, rest) /\ UNCHANGED status
           [] OTHER -> stack' = rest /\ UNCHANGED <<status, next_list>>
      /\ UNCHANGED <<object, action, captured, mapped, co, callers, waits, awaiting,
                     handle, yields, calls>>

\* The members, the last one first: the next list, then the pointer to the
\* coroutine, which is the last one unless it was saved.
DestroyMembers ==
  LET k == Top.task
  IN  /\ At("members")
      /\ IF next_list[k] = <<>>
         THEN /\ mapped' = [mapped EXCEPT ![k] = Top.coro]
              /\ stack' = Goto("base")
              /\ UNCHANGED next_list
         ELSE /\ next_list' = [next_list EXCEPT ![k] = Tail(@)]
              /\ stack' = Dropped(Head(next_list[k]), stack)
              /\ UNCHANGED mapped
      /\ UNCHANGED <<object, action, captured, status, co, callers, waits, awaiting,
                     handle, yields, calls>>

\* ~task_impl()
DestroyBase ==
  /\ At("base")
  /\ object' = [object EXCEPT ![Top.task] = "dead"]
  /\ stack' = Goto("recycle")
  /\ UNCHANGED <<action, captured, mapped, status, co, next_list, callers, waits,
                 awaiting, handle, yields, calls>>

\* The pointer to the coroutine goes, and with it the stack.
Recycle ==
  /\ At("recycle")
  /\ mapped' = [mapped EXCEPT ![Top.task] = FALSE]
  /\ stack' = Tail(stack)
  /\ UNCHANGED <<object, action, captured, status, co, next_list, callers, waits,
                 awaiting, handle, yields, calls>>

-----------------------------------------------------------------------------

Proceed ==
  \/ Settle \/ NotifyResume \/ NotifyNext \/ Activate \/ TakeCallers \/ Unhold
  \/ \E a \in Awaiter : Wake(a)
  \/ \E k \in Task : AwaitLoop(k)
  \/ DestroyAction \/ DropCaptures \/ DestroyTask \/ DestroyMembers \/ DestroyBase
  \/ Recycle

ClientStep ==
  \/ \E k \in Task, S \in SUBSET Task : Cardinality(S) <= 1 /\ Create(k, S)
  \/ \E k \in Task : DropHandle(k) \/ Start(k) \/ Kill(k) \/ Yield(k) \/ Finish(k)
  \/ \E k, n \in Task : Next_(k, n) \/ Await(k, n)
  \/ \E a \in Awaiter : CallAwaiter(a) \/ KillAwaiter(a)
  \/ \E k \in Task : CoAwait(k)
  \/ EndBody

\* The program may stop when no call is in progress.
Stopped == stack = <<>> /\ UNCHANGED vars

Next == Proceed \/ ClientStep \/ Stopped

Spec == Init /\ [][Next]_vars

-----------------------------------------------------------------------------
(* Properties *)

\* A task is released once, when no call on it is in progress, and its memory
\* stays until the last call that the release makes on it has returned.
ReleasedAtRest ==
  \A d \in DOMAIN stack :
    LET k == stack[d].task
    IN  k # Null =>
          /\ mapped[k]
          /\ stack[d].pc \in Releasing =>
               \A e \in (d + 1)..Len(stack) : stack[e].task # k

\* A stack is given back when its coroutine never ran or has ended, and with it
\* a status that ~task_impl() asserts; and nothing that no pointer leads to any
\* more is left behind.
EndsBeforeFreed ==
  /\ \A k \in Task :
       object[k] = "dead" =>
         /\ co[k] \in {"FRESH", "FINISHED"}
         /\ status[k] = CREATED \/ Exiting(k)
  /\ stack = <<>> =>
       \A k \in Task : IF References(k) = {} THEN ~mapped[k] ELSE object[k] = "alive"

\* Who awaits a task with a raw pointer is resumed before the task is gone, also
\* when it never ran, and does not wait for one that is over.
AwaitersAnswered ==
  \A a \in Awaiter :
    awaiting[a] # Null =>
      /\ object[awaiting[a]] = "alive"
      /\ stack = <<>> => ~Exiting(awaiting[a])

\* When every call has returned no task is left suspended in await_task() for a
\* task that is over, and no task that is over still has tasks to start.
AwaitNotLost ==
  stack = <<>> =>
    \A k \in Task :
      /\ waits[k] # Null => object[waits[k]] = "alive" /\ ~Exiting(waits[k])
      /\ next_list[k] # <<>> => ~Exiting(k) /\ ~Completed(k)
=============================================================================
