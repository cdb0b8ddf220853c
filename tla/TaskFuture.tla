------------------------------ MODULE TaskFuture ------------------------------
(***************************************************************************)
(* task_future (include/libcotask/task_promise.h): a coroutine that starts *)
(* when it is told to, with any number of futures.  Futures share a        *)
(* context, and so does the promise until the coroutine ends.  The last    *)
(* future to go runs the coroutine to its end; the last reference to the   *)
(* context destroys the frame, and with it the future that a task made by  *)
(* then() has as its parameter, which may be the last of another task.     *)
(*                                                                         *)
(* As in CallableFuture one thread does everything, `stack' holds its      *)
(* calls, and Main is the event loop.  A call that shall happen after      *)
(* another one returns is on the stack below it.                           *)
(***************************************************************************)
EXTENDS Generator, FiniteSets

CONSTANTS
  Main,          \* the event loop, a holder of futures like any coroutine
  Table,         \* a task manager, another holder
  DropsRunning,  \* client contract if FALSE: the last future of a task that is
                 \* running is not destroyed
  DropsWoken,    \* client contract if FALSE: a coroutine that is woken does not
                 \* destroy one that is to be woken with it
  MaxAwait,      \* bound: awaits of one coroutine
  MaxOp          \* bound: operations of the client

ASSUME TaskFutureAssumption ==
  /\ Main # Table /\ {Main, Table} \cap (Co \cup Event \cup {Null}) = {}
  /\ DropsRunning \in BOOLEAN /\ DropsWoken \in BOOLEAN
  /\ MaxAwait \in Nat /\ MaxOp \in Nat

VARIABLES
  futures,   \* who holds a task_future of each task; future_counter_ counts them
  self,      \* parameter of a task made by then(): the task that it has a future of
  kept,      \* does the promise hold its context (context_strong_ref_)?
  locked,    \* internal_operation_lock_
  bound,     \* is binding_manager_ptr_ set?
  awaited,   \* used up bound
  ops        \* used up bound

refVars == <<futures, self, kept>>
boundVars == <<awaited, ops>>
taskVars == <<promiseVars, stack, value, refVars, locked, bound, boundVars>>

TaskTypeOK ==
  /\ PromiseTypeOK
  /\ GeneratorTypeOK
  /\ futures \in [Co -> SUBSET (Co \cup {Main, Table})]
  /\ self \in [Co -> Co \cup {Null}]
  /\ kept \in [Co -> BOOLEAN]
  /\ locked \in [Co -> BOOLEAN]
  /\ bound \in [Co -> BOOLEAN]
  /\ awaited \in [Co -> 0..MaxAwait]
  /\ ops \in 0..MaxOp

TaskInit ==
  /\ PromiseInit
  /\ GeneratorInit
  /\ futures = [c \in Co |-> {}]
  /\ self = [c \in Co |-> Null]
  /\ kept = [c \in Co |-> FALSE]
  /\ locked = [c \in Co |-> FALSE]
  /\ bound = [c \in Co |-> FALSE]
  /\ awaited = [c \in Co |-> 0]
  /\ ops = 0

InMain == stack = <<>>
Client == IF InMain THEN Main ELSE Top.co   \* whose code runs
InClient == InMain \/ At("body")
Op == InClient /\ ops < MaxOp /\ ops' = ops + 1 /\ UNCHANGED awaited

Alive(d) == frame[d] \notin {"none", "destroyed"}
Running(d) == frame[d] = "active" /\ "returned" \notin flags[d]

\* The client has a future of d at hand, its own or one of the event loop.
Reaches(d) == futures[d] \cap {Client, Main} # {}

-----------------------------------------------------------------------------
(* Futures and the context. *)

\* A call "forget" is the end of a scope with futures in it.
Forget(who) == [NewCall("forget", Null) EXCEPT !.todo = who]

FutureCount(d) ==
  Cardinality(futures[d])
  + Cardinality({i \in DOMAIN stack : stack[i].pc = "forget" /\ d \in stack[i].todo})

\* reset(): a future of d goes, `left' remain.  force_finish() when it was the last.
ForcedStatus(d) == IF Exiting(d) THEN status[d] ELSE KILLED

LetGo(d, left, below) ==
  /\ left = 0 /\ Running(d) => DropsRunning
  /\ IF left = 0
     THEN /\ status' = [status EXCEPT ![d] = ForcedStatus(d)]
          /\ stack' = <<NewCall("drop", d)>> \o below
     ELSE UNCHANGED status /\ stack' = below

ForgetNext ==
  /\ At("forget")
  /\ \E d \in Top.todo :
       LetGo(d, FutureCount(d) - 1, <<[Top EXCEPT !.todo = @ \ {d}]>> \o Tail(stack))
  /\ UNCHANGED <<frame, flags, waiting, callers, awaits, attached, value, refVars,
                 locked, bound, boundVars>>

ForgetEnd ==
  /\ At("forget") /\ Top.todo = {}
  /\ Pop
  /\ UNCHANGED <<promiseVars, value, refVars, locked, bound, boundVars>>

\* The loop of force_finish().  (MUTANT: it is missing)
RunsOut_Never(d) == FALSE
RunsOut(d) == ~Finished(d) /\ "returned" \notin flags[d]

DropResumes(d) ==
  /\ At("drop") /\ Top.co = d
  /\ IF RunsOut(d) THEN Push(NewCall("resume", d)) ELSE Goto("release")
  /\ UNCHANGED <<promiseVars, value, refVars, locked, bound, boundVars>>

\* References to the context of d besides the one that goes.
Referred(d) ==
  \/ kept[d] \/ futures[d] # {}
  \/ \E i \in DOMAIN Tail(stack) :
       LET call == Tail(stack)[i]
       IN  IF call.pc = "forget" THEN d \in call.todo
           ELSE call.co = d /\ call.pc \in {"drop", "release"}

\* The futures in the frame of d.  (MUTANT: nobody lets go of them)
HeldBy_Nothing(d) == {}
HeldBy(d) == {x \in Co : d \in futures[x]}

\* force_destroy(): with the frame goes the parameter of then(), still inside destroy(),
\* and the task that it was the last future of runs to its end there.
DestroyFrame(d) ==
  /\ (\E i \in DOMAIN stack : stack[i].pc = "wake" /\ d \in stack[i].todo) => DropsWoken
  /\ frame' = [frame EXCEPT ![d] = "destroyed"]
  /\ flags' = [flags EXCEPT ![d] = @ \cup {"destroying"}]
  /\ futures' = [x \in Co |-> IF x \in HeldBy(d) THEN futures[x] \ {d} ELSE futures[x]]
  /\ Become(Forget(HeldBy(d)))

\* A shared_ptr goes; ~task_context_base() if it was the last.
Release(d) ==
  /\ At("release") /\ Top.co = d
  /\ IF Referred(d) THEN Pop /\ UNCHANGED <<frame, flags, futures>> ELSE DestroyFrame(d)
  /\ UNCHANGED <<status, waiting, callers, awaits, attached, value, self, kept,
                 locked, bound, boundVars>>

\* Construction: the task waits at its initial suspend point.
Create(d) ==
  /\ Op /\ frame[d] = "none"
  /\ frame' = [frame EXCEPT ![d] = "suspended"]
  /\ futures' = [futures EXCEPT ![d] = {Client}]
  /\ kept' = [kept EXCEPT ![d] = TRUE]
  /\ UNCHANGED <<status, flags, waiting, callers, awaits, attached, stack, value,
                 self, locked, bound>>

\* thenable_traits: the frame of a task n, the parameter `self' of which is a future of d.
Thenable(d, n) ==
  /\ frame' = [frame EXCEPT ![n] = "suspended"]
  /\ futures' = [futures EXCEPT ![n] = {Client}, ![d] = @ \cup {n}]
  /\ self' = [self EXCEPT ![n] = d]
  /\ kept' = [kept EXCEPT ![n] = TRUE]

\* then(): a task that will await d is made and started at once.
Then(d, n) ==
  /\ Op /\ frame[n] = "none" /\ d # n
  /\ Alive(d) /\ Client \in futures[d]
  /\ Thenable(d, n)
  /\ status' = [status EXCEPT ![n] = RUNNING]
  /\ Push(NewCall("resume", n))
  /\ UNCHANGED <<flags, waiting, callers, awaits, attached, value, locked, bound>>

\* A coroutine copies a future of the event loop.
Copy(d) ==
  /\ Op /\ ~InMain /\ d # Client
  /\ Main \in futures[d] /\ Client \notin futures[d]
  /\ futures' = [futures EXCEPT ![d] = @ \cup {Client}]
  /\ UNCHANGED <<promiseVars, stack, value, self, kept, locked, bound>>

\* (a coroutine cannot let go of its parameter)
Drop(d) ==
  /\ Op /\ Client \in futures[d]
  /\ ~InMain => self[Client] # d
  /\ futures' = [futures EXCEPT ![d] = @ \ {Client}]
  /\ LetGo(d, FutureCount(d) - 1, stack)
  /\ UNCHANGED <<frame, flags, waiting, callers, awaits, attached, value, self, kept,
                 locked, bound>>

-----------------------------------------------------------------------------
(* start() and kill(). *)

CanStart(d) == ~locked[d] /\ ~Finished(d) /\ status[d] = CREATED

\* (`below': what follows the call)
StartTask(d, below) ==
  IF CanStart(d)
  THEN /\ status' = [status EXCEPT ![d] = RUNNING]
       /\ stack' = <<NewCall("resume", d)>> \o below
  ELSE UNCHANGED status /\ stack' = below

Start(d) ==
  /\ Op /\ Reaches(d) /\ CanStart(d)
  /\ StartTask(d, stack)
  /\ UNCHANGED <<frame, flags, waiting, callers, awaits, attached, value, refVars, locked, bound>>

\* kill() holds the lock for as long as the coroutine runs.
CanKill(d) == ~locked[d] /\ ~Finished(d) /\ ~Exiting(d)
KillResumes(d, force) == (force \/ IsWaiting(d)) /\ flags[d] \cap {"destroying", "returned"} = {}

KillTask(d, target, force, below) ==
  IF ~CanKill(d) THEN stack' = below /\ UNCHANGED <<status, locked>>
  ELSE /\ status' = [status EXCEPT ![d] = target]
       /\ IF KillResumes(d, force)
          THEN /\ locked' = [locked EXCEPT ![d] = TRUE]
               /\ stack' = <<NewCall("resume", d), NewCall("unlock", d)>> \o below
          ELSE stack' = below /\ UNCHANGED locked

Kill(d, target, force) ==
  /\ Op /\ Reaches(d) /\ CanKill(d)
  /\ force => Suspended(d)   \* who forces a resumption knows that there is one to force
  /\ KillTask(d, target, force, stack)
  /\ UNCHANGED <<frame, flags, waiting, callers, awaits, attached, value, refVars, bound>>

Unlock ==
  /\ At("unlock")
  /\ locked' = [locked EXCEPT ![Top.co] = FALSE]
  /\ Pop
  /\ UNCHANGED <<promiseVars, value, refVars, bound, boundVars>>

-----------------------------------------------------------------------------
(* The coroutine. *)

Body(c) == At("body") /\ Top.co = c

\* initial_awaitable.await_resume(): start() has left kCreated already.
Begin(c) ==
  /\ At("await_resume") /\ Top.co = c /\ awaits[c] = Null
  /\ status' = [status EXCEPT ![c] = IF @ = CREATED THEN RUNNING ELSE @]
  /\ Goto("body")
  /\ UNCHANGED <<frame, flags, waiting, callers, awaits, attached, value, refVars,
                 locked, bound, boundVars>>

\* Its context has the value that it returned.
IsReady(d) == "returned" \in flags[d]
AwaitReady(d) == IsReady(d) \/ Exiting(d)

Awaits(c) ==
  /\ Body(c) /\ awaited[c] < MaxAwait
  /\ awaited' = [awaited EXCEPT ![c] = @ + 1]
  /\ UNCHANGED <<refVars, locked, bound, ops>>

AwaitReadyTask(c, d) ==
  /\ Awaits(c) /\ d # c /\ Reaches(d)
  /\ AwaitReady(d) \/ ~MaySuspend(c)
  /\ GoOn(c, d)
  /\ UNCHANGED <<status, value>>

AwaitTask(c, d) ==
  /\ Awaits(c) /\ d # c /\ Reaches(d)
  /\ ~AwaitReady(d) /\ MaySuspend(c)
  /\ Suspend(c, d, <<>>)
  /\ AddCaller(d, c)
  /\ UNCHANGED <<status, waiting, value>>

AwaitGenerator(c, e) ==
  /\ Awaits(c)
  /\ AwaitReadyGenerator(c, e) \/ WaitForGenerator(c, e)

\* await_resume(): detach(), by way of a plain pointer to the context.
DetachTask(c, d) ==
  /\ At("await_resume") /\ Top.co = c /\ awaits[c] = d
  /\ Detached(c)
  /\ IF attached[c] THEN RemoveCaller(d, c) ELSE UNCHANGED callers
  /\ awaits' = [awaits EXCEPT ![c] = Null]
  /\ Goto("body")
  /\ UNCHANGED <<frame, status, waiting, value, refVars, locked, bound, boundVars>>

Detach(c) ==
  \/ \E d \in Co : DetachTask(c, d)
  \/ \E e \in Event :
       DetachGenerator(c, e) /\ UNCHANGED <<refVars, locked, bound, boundVars>>

\* co_return; then the body's futures go, but not the parameter, and final_suspend().
Return(c) ==
  /\ Body(c)
  /\ flags' = [flags EXCEPT ![c] = @ \cup {"returned"}]
  /\ status' = [status EXCEPT ![c] = IF Exiting(c) THEN @ ELSE DONE]
  /\ Goto("locals")
  /\ UNCHANGED <<frame, waiting, callers, awaits, attached, value, refVars,
                 locked, bound, boundVars>>

DropLocal(c) ==
  /\ At("locals") /\ Top.co = c
  /\ \E d \in Co :
       /\ c \in futures[d] /\ self[c] # d
       /\ futures' = [futures EXCEPT ![d] = @ \ {c}]
       /\ LetGo(d, FutureCount(d) - 1, stack)
  /\ UNCHANGED <<frame, flags, waiting, callers, awaits, attached, value, self, kept,
                 locked, bound, boundVars>>

\* final_awaitable: the context moves out of the promise, the manager learns of the
\* end, then the callers, and then the context goes.
\* (MUTANT: the context goes first)
EndCalls_ReleaseFirst(c) == <<NewCall("release", c), NewCall("unbind", c), NewCall("final", c)>>
EndCalls(c) == <<NewCall("unbind", c), NewCall("final", c), NewCall("release", c)>>

End(c) ==
  /\ At("locals") /\ Top.co = c /\ \A d \in Co : c \in futures[d] => self[c] = d
  /\ frame' = [frame EXCEPT ![c] = "final"]
  /\ kept' = [kept EXCEPT ![c] = FALSE]
  /\ stack' = EndCalls(c) \o Tail(stack)
  /\ UNCHANGED <<status, flags, waiting, callers, awaits, attached, value, futures,
                 self, locked, bound, boundVars>>

NotifyCallers(c) ==
  /\ At("final") /\ Top.co = c
  /\ FinalSuspend(c)
  /\ UNCHANGED <<status, waiting, awaits, attached, value, refVars, locked, bound, boundVars>>

SetValue(e, v) == InMain /\ Op /\ SetGenerator(e, v) /\ UNCHANGED <<refVars, locked, bound>>

-----------------------------------------------------------------------------

TaskStep ==
  \/ \E d \in Co : Create(d) \/ Copy(d) \/ Drop(d) \/ Start(d)
  \/ \E d, n \in Co : Then(d, n)
  \/ \E d \in Co, force \in BOOLEAN : Kill(d, CANCLE, force)
  \/ \E c, d \in Co : AwaitReadyTask(c, d) \/ AwaitTask(c, d)
  \/ \E c \in Co, e \in Event : AwaitGenerator(c, e)
  \/ \E c \in Co : Begin(c) \/ Detach(c) \/ Return(c) \/ DropLocal(c) \/ End(c)
                   \/ NotifyCallers(c) \/ DropResumes(c) \/ Release(c)
  \/ \E e \in Event : SetValue(e, "ready")
  \/ ForgetNext \/ ForgetEnd \/ Unlock
  \/ (WakeNext \/ WakeEnd \/ Resume) /\ UNCHANGED <<value, refVars, locked, bound, boundVars>>

=============================================================================
