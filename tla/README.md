# libcopp and libcotask in TLA+

libcopp gives C++ programs coroutines with stacks of their own, and on top of them (libcotask) tasks that any thread may
start, resume, kill, cancel and wait for, and a manager that times tasks out. C++20 coroutines have a second family of
types: callables, generators, tasks and a manager of their own. This directory specifies the parts where order matters,
model-checks them with TLC and proves some of them with TLAPS. Source paths in PROJECT.json and below are
relative to the repository, under `src/`.

## The system

| Part | State | Operations | Talks to |
|---|---|---|---|
| coroutine context (`src/libcopp/coroutine/coroutine_context.cpp`, `coroutine_context_fiber.cpp`) | `status_`, `flags_`, `runner_`, `caller_`, `callee_`, thread local current coroutine and jump data | create, set_runner, start/resume, yield, end of the runner | assembly jump or Windows fibers, stack allocator |
| stack allocators (`src/libcopp/stack`), container (`coroutine_context_container.h`) | memory, `is_used_`, `callee_stack_` | attach, allocate, deallocate, create, release | the system |
| stack pool (`include/libcopp/stack/stack_pool.h`) | `conf_`, `limits_`, `free_list_` | allocate, deallocate, gc, clear, set_stack_size, destructor | origin allocator |
| id allocator (`src/libcopp/utils/uint64_id_allocator.cpp`) | a process wide atomic word, a cache per thread | allocate | clock |
| task (`include/libcotask/task.h`) | `status_`, `next_list_`, `ref_count_`, `caller_manager_`, `binding_manager_ptr_` | start, resume, yield, kill, cancel, next, await_task, co_await, `_notify_finished`, release | its coroutine, its action, other tasks, its manager, C++20 coroutines |
| task manager (`include/libcotask/task_manager.h`) | `tasks_`, `task_timeout_timer_`, `last_tick_time_`, `flags_` | add_task, set_timeout, start, resume, remove_task, kill, cancel, tick, reset, destructor | tasks, both ways |
| C++20 promise (`coroutine/std_coroutine_common.*`) | status, flags, what it waits for, who waits for it | add_caller, remove_caller, resume_callers, resume_waiting | coroutine handles |
| callable, generator, task future (`callable_promise.h`, `generator_promise.h`, `task_promise.h`) | a coroutine frame, a shared context, counts of handles | co_await, start, kill, set_value, then, destruction | promises, one another |
| C++20 task manager (`task_manager.h` from line 869) | a table of futures, timers, flags | as above | task futures, both ways |
| some, any, all (`coroutine/algorithm*.h`, `callable_promise.h` from line 459) | pending and ready lists, a count | co_await | futures of any kind |
| future, poller, storage (`include/libcopp/future`) | a value that becomes ready | construct, reset, move, swap | - |
| spin lock, lock holder, intrusive pointer, atomics (`include/libcopp/utils`) | a word | lock, unlock, count | all the others |

What is hard about them:

- *A jump is not a function call.* `start()` publishes RUNNING and then jumps; `yield()` publishes READY and then jumps;
  the registers of the stack that was left are stored by the code the jump lands in. Every window in between can be seen
  from another thread. With fibers, the code behind a jump reads what it has to know from thread local data.
- *Tasks end in many ways at once.* The action returns, `kill()` and `cancel()` come from any thread, a manager's `tick()`
  times the task out, the last pointer goes away. One of them must tell the action, once, and start the next tasks.
- *Checks before locks.* `next()`, `add_task()`, `gc()` and `tick()` all look at shared state before they take the lock
  under which they act on it.
- *A resumption is a call.* A C++20 coroutine that ends resumes its callers before it returns to whoever resumed it; they
  resume theirs, kill, set values, and destroy coroutines that are further out in the same stack of calls.
- *Destructors run coroutines.* The last pointer to a task, the future of a callable and the last future of a C++20 task
  resume what they destroy until it is done.
- *Call-backs in both directions.* A manager calls tasks and a task calls its manager, from actions that run in the middle
  of the manager's own loops.

PROJECT.json lists each hazard at its line, with the properties that would catch it.

## The modules

| Module | Models | Run |
|---|---|---|
| `CoroutineContext`, `FiberContext` | `coroutine_context` down to the jump; `coroutine_context_fiber`, which extends it | `coroutine` |
| `CallChain` | what a client of coroutines relies on: call and return | `coroutine` (`MCCoroutineContext` has the refinement mapping) |
| `Task` | `cotask::task` on several threads, atomic step by atomic step | `task` |
| `TaskLifetime` | how long a task, its action and its stack live, chains and C++20 awaiters, on one thread | `task_lifetime` |
| `TaskManager` | `task_manager` of stackful tasks | `task_manager` |
| `TaskManagerTick` | the same with clients that make new tasks without end, for the loop of `tick()` | `task_manager_tick` |
| `Promise`, `Generator`, `CallableFuture` | C++20 promises, `generator_future`, `callable_future`; each extends the one before | `callable` |
| `SomeDelegate` | `some()`, `any()`, `all()` | `some`, `some_all` |
| `TaskFuture`, `TaskFutureManager` | `task_future` (extends `Generator`), and its manager (extends `TaskFuture`) | `task_future` |
| `IdAllocator`, `SpinLock`, `IntrusivePtr`, `AtomicInt`, `StackPool`, `StackAllocator` | the utilities of these names | `utilities`, `stack_pool_stale`, `stack_memory` |
| `FutureValue`, `FutureStorage` | what a storage promises; the kinds of storage, poller and result | `utilities` |
| `CoroutineContextProofs`, `TaskProofs`, `TaskManagerProofs`, `TaskLifetimeProofs`, `SomeDelegateProofs`, `UtilityProofs`, `CallableFutureProofs`, `TaskFutureManagerProofs` | theorems | - |

`MC...` modules give constants their values, name the symmetric sets and compose. Each definition that models code is listed
with its lines in PROJECT.json (`map`). Definitions whose name has an underscore and a capital (`Erased_Kept`) are
not part of a specification: each is a plausible mistake in the definition that follows it, and PROJECT.json (`mutants`)
names the property that finds it.

### Stacks, calls and steps

A *frame* is a machine stack, named by its owner: a thread or a coroutine. `on[t]` is the stack that a thread executes
on, so a coroutine that moves between threads is a frame that changes hands. In `CoroutineContext` each frame has a program
counter; in the modules of tasks and promises it has the calls in progress, innermost first (`calls`, `stack`), because
there an action calls the library from inside calls of the library.

A step of the modules with threads is a load of shared state, a compare-and-swap, a jump with the stores of the code it
lands in, or a critical section of a spin lock. A compare-and-swap loop is one step, since a failed attempt only rereads.
That atomics and the spin lock may be used like that is what `AtomicInt` (`NothingLost`) and `SpinLock` (`MutualExclusion`)
show, and prove, of them; memory orders weaker than sequential consistency are assumed away. The
C++20 types have neither locks nor atomics: their modules have one thread, and a step runs from one `handle.resume()`
to the next.

Each layer reduces the one below to what it was shown to do. `Task` keeps of a coroutine its status and the jump, and its
invariant `KeepsContract` is the client contract under which `CoroutineContext` was checked. `TaskManager` keeps of a task
what `Task` shows: kill and the end of the action are told once each; the return of the coroutine and the
compare-and-swap behind it are one step there, and tasks have no next tasks. `TaskLifetime` has the pointers and
destructors that `Task` leaves out, and in exchange `start()` and `kill()` without the races. `SomeDelegate` keeps of a
future what `is_pending()` says and whether it has resumed its callers.

### CoroutineContext, FiberContext and CallChain

`SetRunner`/`StoreRunner`, `Start`/`JumpIn`/`Return`, `Yield`/`JumpOut`, `FinishRunner`/`FinalYield` are the two halves
of each operation. `Spec` has the client contract that calls of `start()` on one coroutine do not overlap
(`NoCallInProgress`), which tasks keep. `SharedSpec` drops it, and TLC finds two threads on one stack: a thread starts the
coroutine in the window in which another one has published READY and not jumped yet, although `CHANGELOG.md:204` calls the
contexts thread safe. A coroutine yields itself, never the one that started it:
`yield()` of an outer coroutine is public too, and leaves the outer one installed as the current coroutine of whoever is
resumed through it.

`FiberContext` replaces the jump: `SwitchIn` and `SwitchOut` leave `callee_` alone and write `caller_` from the
thread's `jump_data` on each arrival, also after a `yield()`. That needs one more contract, `NotTakenOver`: while a thread
is inside a coroutine, no other one takes over the coroutine that it resumed last. `MovingSpec` drops it, and there a
coroutine gets a caller that did not resume it.

`CallChain` knows neither stacks nor statuses: a chain of coroutines per thread, entered and left at its
end; `CallDiscipline` of `MCCoroutineContext` says that both implementations implement it.

### Task and TaskLifetime

`Start`, `Switch`, `Enter`, `Returned`, `ToDone`, `ToWaiting` follow `task::start`; `Kill`, `Cancel`, `Notify`, `OnFinished`,
`SwapList`, `Activate` follow the end of a task; `Next_`, `PushNext`, `Await`, `AwaitNext`, `AwaitLoop` follow `next()` and
`await_task()`. The client may do anything but kill a task from inside its own action twice over, or kill again a task it has
killed and that runs still, on the same thread (`NotKilledInAction`): `_notify_finished()` would spin there for ever.

In `TaskLifetime` a pointer is held by the clients, an action that captured it, a next list, the frame of an `await_task()`
or a call that took a next list out; `References` counts them. `DropHandle` lets a client's pointer go, `DropCaptures`
those of an action, and the last one starts `DestroyAction`, `DestroyTask` (which first runs a waiting coroutine to its
end, `KilledByDestructor`, then calls C++20 awaiters back, `ActivatedByDestructor`), `DestroyMembers`, `DestroyBase` and
`Recycle`, which gives the stack back. The client contract is the usual one, that a pointer through which a call is made
stays until the call returns; the code has a guard for it, commented out (`task.h:485`).

### TaskManager

`AddTask`/`AddLocked`, `Start`/`StartTask`/`Check`, `RemoveTask`/`Remove`/`Cleanup`/`ReadStatus`/`FinishTask`, `Kill`,
`Cancel`, `Tick`/`TickEmpty`/`TickLocked`/`TickExiting`/`TickEnd`, `Reset`/`ResetLocked`/`ResetKill`, and of the task
`Yield`, `Return`, `Notify`, `Take`. `m = Null` in `Start` is a start of the task itself, behind the manager's
back; `Start` stands for `start()` and `resume()`, whose guards differ in a status that `StartTask` allows both ways.
Client contracts: ticks, resets and the destructor are calls of one thread (`Ticker`), and a manager is not reset during
its own tick; whoever destroys it has the last pointer, so no call of it is in progress; with `AddWhenUnused` no other call
works on a task while it is added. The run `task_manager_tick` and the proofs about tables, timers and time go without the
last one.
`due` is history: the time a timeout is over, in nanoseconds, which the code's `expired_time` never says in one number.
On a build where `std::set::swap` moves the end iterator with the contents (MSVC), nodes without a timer would hold a
foreign iterator after the first tick; the model has the behaviour of the others. Timers of equal time are taken in any
order: the code orders them by their ids.

`TaskManagerTick` adds one action, `Renew`: client code drops a task that has finished and makes a new one, which takes its
name and brings new calls. The tasks and the calls of a behaviour, and of one tick, are then without bound, though never
more than two tasks are there at a time, and two calls are made between two renewals. A timeout counts from
`last_tick_time_`, which a tick moves when it ends. So an action that `tick()` kills may add a task that is over already, whose action
does the same, and `tick()` never ends (`task_manager.h:731`); without its premise TLC finds that behaviour. `TickEnds` says
that there is no other way: unless timeouts that are over when they are set (`SetsOverdue`) are set for ever, a tick ends.

### Promise, Generator, CallableFuture

`Promise` has what all coroutines share: `AddCaller`, `RemoveCaller`, and `WakeNext`/`WakeEnd` for the loop of
`resume_callers()`, which works on the callers that it swapped out; `ResumeWaiting`/`ResumeCallee` for `resume_waiting()`,
by which a killed promise pushes what it waits for; `Inherited` for what that does to statuses. `CallableFuture` adds the
body of a coroutine (`AwaitCallable`, `AwaitSet`, `AwaitGenerator`, `Return`), the end of an await (`DetachCallable`),
`Kill`, and the destructor (`DestroyResumes`, `DestroyFrame`). A body and the event loop `Main` are client code.
`line` is history: the owners above a coroutine, itself included, as they were when each got its callee.
With `ForeignKills = FALSE` a coroutine kills only what it owns. With `SharedWaits = FALSE` those that wait
for one generator have no owner in common (their `line`s are disjoint), and a callback sets no value that somebody else waits
for: otherwise a caller that is resumed destroys one whose handle is still in the set that is being walked.
Moving a `callable_future` over another one forgets the old handle (`callable_promise.h:318`); client code is taken
not to.

### SomeDelegate

`Init` is `run()` up to its first await, for a count from `ReadyCount`; `AwaitReady`, `AwaitSuspend`/`SuspendFuture`,
`AwaitResume` and `Return` are the coroutine, `Leave` is the way out when nothing is left to wait for, and `Finish`, `KillFuture`
and `Kill` are what happens around it, the two kills only if `MayKill`.
With `ReadyAtEntry = FALSE` what is ready when it is called, and what the output holds already, does not decide (`Fits`): an
output that holds more than there are futures, for instance, makes the loop spin on a count that is never reached; with `InlineCallbacks = FALSE` no generator sets its
value in the callback of `await_suspend()`. With the latter TRUE, TLC finds the coroutine ended, and its context destroyed,
in the middle of `await_suspend()`'s walk (`ContextLives`). A generator that is destroyed while `some()` waits
for it leaves a null context behind and is left out.

### TaskFuture and TaskFutureManager

A context is shared by the `task_future`s (`futures`) and, until it ends, by the promise (`kept`). `LetGo` is the
end of one future, `DropResumes` the loop in which the last one runs the coroutine to its end, `Release` the end of a
reference, which if it was the last destroys the frame (`DestroyFrame`). A coroutine's own futures go between its `co_return` and its
final suspend point (`DropLocal`). The future that a task made by `then()` waits for is a parameter of its coroutine
(`self`, `task_promise.h:1385`): it stays until `force_destroy()` destroys the frame, long after the task has ended if somebody has
a future of it. If it was the last future of the other task, that one runs to its end inside `destroy()`, and may
call the manager, kill, and drop further futures there. `End` starts the three things that happen when a coroutine ends, in their order: `Unbind` (the manager's
callback), `NotifyCallers`, and the promise's own reference. `KillTask` holds a plain-pointer lock across the
resumption (`Unlock`). Contracts: `DropsRunning = FALSE`, the last future of a running task is not destroyed (it would
resume a coroutine that runs); `DropsWoken = FALSE`, who is woken does not destroy another one that is to be woken.
A task that was killed before it was started resumes its waiters only when its last future goes: `CallersWait` and
`KillUnwinds` except it. Tasks that await one another in a circle wait for ever, as in every such library.

`TaskFutureManager` composes it with the manager: a table whose entries are futures (`Managed`), timers, and calls that
come back to the manager from bodies and ends of tasks. A time is one number there, as `TaskManager` has the clocks.

### The utilities

The run `utilities` checks seven of them at once; they share no state, and a behaviour of `MCUtilities` is one of any of
them. `GcReadUsed` and `GcReadFree` in `StackPool` are the reads that `gc()` makes before it takes the lock. In
`PoolSpec` a pool is cleared and resized by one thread at a time, and only while nothing is cached (`MayConfigure`), whatever
other threads do then and before the new size is stored; in `ResizeSpec` at any time. In `IdAllocator` the powers of two are constants and the clock is a variable
that never runs backwards and starts after 2020-01-01: set back, or before that date, the code's
subtraction wraps and its ids may repeat. `SpinSpec` does not assign lock holders, which nothing in the library
does: after `AssignHolder` both holders own the lock (`AssignSpec`). `AtomicInt` has the three builds: std::atomic, the
`__sync` intrinsics with their loops of a read and a compare-and-swap, and the plain integer for
a single thread, where `Access` keeps calls apart. Two details of the `__sync` build are kept as they are: a
compare-and-exchange that fails may leave `expected` as it was, and `try_unlock()` is `unlock()`.
`FutureStorage` is shown to implement `FutureValue` for storages by pointer, by value, and in the object they point to.
`StackAllocator` has sizes in words: what is asked for, the rounding, the guard page, and how a container cuts the stack
into private buffer, container, task and machine stack. `Attach` takes only memory that is not in use.

## What the runs show

Passing runs:

| Run | Instance | Shows |
|---|---|---|
| `coroutine` | 3 threads, 3 coroutines, both builds | stacks, saved continuations, current coroutine, statuses and exceptions agree in every order; `CallChain` is implemented. Three is the least number that nests a coroutine in another while a third is handed over. |
| `task` | 2 threads, 2 tasks; one yield, one kill, one next or await | no coroutine is entered twice; the action is told once, after its stack was left; a killed task ends. |
| `task_lifetime` | 3 tasks, 1 C++20 awaiter, 2 calls, a yield each | no call is left in a stack that was given back, every coroutine ends before its memory goes, awaiters are answered, nothing that awaits on one thread is lost. |
| `task_manager` | 1 manager, 2 threads, 2 tasks, 4 calls and ticks | table, timers and bindings agree; a finished task is removed; one call kills it. |
| `task_manager_tick` | 1 thread, 2 tasks at a time, 2 calls and any number of ticks between new tasks, whose actions call everything while it ticks | with timeouts in whole seconds nothing times out early and nothing that is over outlives the tick; the tick ends, unless what it kills sets overdue timeouts for ever. |
| `callable` | 3 coroutines, 2 generators, 2 awaits each, 3 operations of the event loop | no destroyed or running frame is resumed, whoever waits is registered where it waits, nobody is resumed without a reason, a kill unwinds the chain. |
| `some` | 4 futures, counts 1 to 5 | it succeeds with enough ready futures, loses no wake-up, leaves no pointer to itself, and ends. |
| `task_future` | 3 tasks, a generator, a manager; 2 awaits each, 5 operations | handles live, a kill unwinds, the last future ends the task, also when it goes with another's frame, the table is exact. |
| `utilities` | 2 or 3 threads each, 3 stacks, 3 cells, 3 containers | ids are unique, locks exclude, counts are exact, no atomic call is lost, pools keep their limits and hand out live stacks, stacks fit and are given back, storages are futures. |

Runs that end in a violation, each a disagreement of the code with its own words (PROJECT.json, `findings`, quotes them):

| Run | What happens |
|---|---|
| `some_all` | `all()` of four futures, two of them ready when it is called and nothing killed, reports success when the third ends: the count is limited to what is pending, 2, and those that were ready count as well (`callable_promise.h:628`). |
| `stack_pool_stale` | `clear()` leaves the freed stacks in the free list, from which `allocate()` takes the next. |
| `stack_memory` | The allocator over a buffer limits the size to the buffer and then rounds it up to a page: the stack ends past the buffer's end when its size is no multiple of the page. |

What the code does not promise, and no run therefore asks of it:

- the wake-up of `await_task()` on two threads: it is refused when the awaiting task still is RUNNING (`task.h:359`); and
  `next()` may append to the list of a task that has ended in between, so that the next task never runs (`task.h:254`).
  `AwaitNotLost` is therefore checked on one thread;
- timeouts in step with a clock that carries: nanoseconds are added without a carry and seconds compared first, so that
  a task may time out before its time (`task_manager.h:832`); the run and the theorem have timeouts in whole seconds, which need
  none, and do not cover this;
- an end of `tick()` when the actions it kills go on to set timeouts that are over already (`task_manager.h:731`, `TickEnds`);
- `is_completed()` implies `is_exiting()`: there is a window before DONE is stored (`task.h:498`);
- `tick()` asks `empty()` before it takes the lock and then reads `begin()` (`task_manager.h:731-742`): the model lets the
  read of an empty set go either way;
- a task whose action destroys its manager calls the manager back when it returns (`task.h:734`); likewise in C++20,
  where `reset()` leaves the binding of tasks that are exiting (`task_manager.h:949`, `BindingLive`);
- a task that ends while `add_task()` is between its check and its lock stays in the table (`task_manager.h:280`);
- `gc()` acts on counters it read before the lock (`stack_pool.h:229`);
- two threads that call `set_stack_size()` at once may let the pool exceed its maximum: a stack of a third size, cached
  between their clears and their stores, is handed out although the maximum was checked with a smaller one;
- `~task()` runs the coroutine after the action was destroyed, then calls `on_finished()` of it, and an
  exception in there terminates the program;
- the value of a generator or task that several await: it is moved out for the first one, since the callers were
  swapped out before any of them is resumed (`generator_promise.h:446`, `task_promise.h:720`);
- `ctx.size` of a mapped stack counts the guard page and may exceed `maximum_size()`, against the assertion in
  `deallocate()` (`stack_allocator_posix.cpp:93`); `create()` compares its parts with that size, so that parts larger
  than `maximum_size()` reach into the guard page; a request just above what the container needs leaves a machine
  stack of no words; a stack of malloc whose size is exactly its parts is refused;
- a buffer's allocator stays marked as used in the client's variable after a container was created from it;
- `result_base::swap()` of trivial results of different modes loses data when the two types differ in size.

### Bounds and fairness

Every bound is a constant with "bound" in its comment: yields and calls of the client, resizes, seconds on the clock. They
limit what clients do, never what the library does with it, and each is at least what the hazards need: two calls
that race, a third that follows, and one more where a history counts them. Larger instances were searched for longer than
a run may take: `callable` with 4 coroutines, 2 generators and 2 operations (4.9 million states, no error);
`task_lifetime` with 2 tasks, 2 awaiters and 4 calls (284 thousand, no error) and with 3 tasks, 2 awaiters and 3 calls
(no error in the first 13 million).

`FairSpec` of `Task` and `TickSpec` of `TaskManagerTick` assume weak fairness for each thread, because operating systems schedule them, and
strong fairness for the return of an action (in `TaskManagerTick` of each task's), because an action ends although it may make calls on the way. `SomeDelegate`
assumes that the coroutine runs while it can and that each future ends some time. Nobody is
obliged to call the library: no fairness is assumed for client calls, yields, kills and ticks.

Deadlock is checked where threads wait for one another. `callable`, `task_future` and `some` do not check it: with the bounds
used up an event loop has nothing left to do, and one that has waiters whose generator nobody sets may stop.

Every module with variables of its own has a type invariant. TLC finds all of them to hold of these instances; the runs leave
them out, for they say little. Those of the modules with proofs are theorems, or conjuncts of what is proved inductive.

## What is proved

For every set of threads, coroutines, tasks, managers, holders, pointers and cells, and every bound:

- `CoroutineContextProofs`: all invariants of the run `coroutine` and `ExceptionReachesStarter` for `CoroutineContext`,
  under the contract of its `Spec`. The safety properties are not inductive; `IInv` adds where each suspended stack is
  (`StackInv`), what a frame inside a call knows of its callee (`CallInv`, `OneCall`), and which statuses a coroutine can
  have at each point of its stack (`StatusAt`, `CoInv`). The heart is that READY is published only by the frame that jumps
  next, so that with starts kept apart nobody can use a continuation that is not saved yet.
  `ThreadsKeepTheirStacks`: coroutines move between threads, native stacks do not, because each suspended starter and what it
  started have one home (`HomeInv`). `FibersImplementContexts`: `FiberSpec` implements `Spec` step by step, as the jump data
  of a thread that is in a coroutine always name the caller that is stored already (`JumpDataInv`), which is where `NotTakenOver` is
  needed; so fibers keep all of these promises (`FibersAreExclusive`, `FibersKeepPromises`).
- `TaskProofs`: `TaskKeepsContract` and `TaskFinishedIsFinal`. The innermost call on a task owns it from `start()` until its
  coroutine is finished (`CallInv`, `OneInv`), and `status_`, which only the owner turns back to WAITING, keeps all others out
  (`StatusInv`). A task is told its end at most once per kill that came late, because those that may still tell it are counted
  (`TellInv`). This is the contract that `CoroutineContextProofs` assumes.
- `TaskLifetimeProofs`: `LifetimeReleasedAtRest`, `LifetimeEndsBeforeFreed`, `LifetimeAwaitersAnswered`,
  `LifetimeAwaitNotLost`, for stacks of any depth. A pointer can go in the middle of any call, and with it a task, all that
  only that task held, and so on, so no invariant about one task is inductive. `StackOK` says of each call on a task
  what keeps it: a pointer that is not among those that can go before the call returns, or the release of that very task
  further down (`Kept`); and that a release has no other call on its task below it. `Joined` says that an
  action runs right above the call that resumed its coroutine, so that the end of one meets the other. `CallsOK` is what
  each call needs when it goes on; `ReferenceInv` that a task is there while a pointer leads to it, and otherwise is being
  released, or gone; `StatusInv` who is to tell the end of a task; `WaitInv` and `AwaiterInv` that whoever
  waits is in a list, or a call will resume it. When the count is 1 the last pointer goes, whichever kind
  it is of: the lemmas on `References` (`LastHandle`, `LastCaptured`, `LastWaits`, `LastHeld`).
- `TaskManagerProofs`: timers agree with the table and a task in a table is bound to that manager, without a contract on
  adding. The strengthening is about the calls that have taken a task out of a table (`Leaving`): each holds it alone, and
  the task stays bound until `cleanup_task_manager()`, so that no `add_task()` gets hold of it; and about the ends
  (`Ending`), which only concern tasks that are over. `StackOK` says which calls can be below others.
  Under the contract on adding (`AddWhenUnused`), `BoundTasksAreManaged`, `FinishedTasksAreRemoved` and `EndersNeverSpin`, from
  `UseInv`: each call in progress claims the tasks that it holds, is to kill or runs, and no two claims are the same
  (`Alone`); so whoever ends a task has it alone (`EndedOnce`, `OneEnder`), a binding is that of a table or of a call that
  holds the task (`BoundHeld`), and a table has a finished task only as long as the task's own call of its manager is to
  come (`DoneRemoved`). On one thread and with timeouts in whole seconds (`WholeSeconds`), `TasksTimeOutInTime`, from
  `TimersOnTime`: a timer is exactly where the timeout of its task is over, before and after the first tick moves them all.
- `SomeDelegateProofs`: `SomeFindsEnough`, `SomeFindsPending`, `SomeWakesInTime`, `SomeLeavesNoCaller` and `SomeContextLives`,
  for any number of futures, all under `~InlineCallbacks`. `SomeFindsEnough` is about the calls that the cut at
  `callable_promise.h:628` leaves alone (`NotCut`): at the call no future is ready, or all are, or enough of either kind.
  Among the others are those where it fails (`some_all`); `SomeFindsPending` says what every call can rely on: as many ready futures as were
  asked for or were pending at the call, whichever is less. Both from `FloorInv`, with no contract on the output.
  The futures that have the coroutine among their callers are exactly those that have not answered (`CallersExact`);
  the count is the number of those that have, and is below what is wanted while the coroutine sleeps (`Counted`),
  which, as `SomeWakesInTime` and the type of the count, needs `~ReadyAtEntry`, as in the run.
- `UtilityProofs`: `SpinLockExcludes`, from `SpinInv`: a holder that waits for the lock, or is about to give it up, does not
  name it (`NamesNothing`). `AtomicsLoseNothing`, from `CellInv`: only the plain build reads and writes in two
  steps, where the cell has one user (`OneUser`) and what was read is still there (`ReadIsCurrent`).
  `PointersCountExactly`, from `PtrInv`, which counts references as pointers and those that a thread has
  detached (`Counts`); an object without references that is still there is about to be destroyed by one thread
  (`LastReleases`).
  Ids are unique and the word stays behind the clock: bases differ because a new one is larger than the word, and the word
  than all bases; blocks of different bases do not overlap (`IdBlocksApart`); what is left of a block was not issued
  (`IssuedInv`). Needs a clock that does not run backwards and at least two ids a second.
  `StoragesAreFutures` is the refinement: initial states map to initial states and each step to a step of `FutureValue` or
  a stutter, from an invariant which says that a storage in the object points to itself or to nothing (`PointsToItself`)
  and that a heap block has one owner (`OwnsItsBlock`).
  Of the pool, `PoolStacksLive`, `PoolLimitsExact` and `PoolKeepsStacks`. A stack is one client's or cached
  once, and the origin allocator holds it (`StacksLive`); the limits are sums over finite sets (`LimitsCounted`), whose lemmas,
  since there is no induction, follow from a smallest counterexample. The maximum needs that what is cached is no larger
  than what is checked, or that nothing is taken from the origin allocator meanwhile (`BoundInv`). Of the allocators and
  containers, `StacksAlwaysFit`, for any sizes under two hypotheses: buffers are whole pages (`WholePages`, asserted at
  `stack_allocator_memory.cpp:104`; the run `stack_memory` shows what happens otherwise) and the parts a container asks for
  are within the largest stack (`WithinMaximum`; see above for the others).
- `CallableFutureProofs`: `CallableHandlesLive`, `CallableCallersWait`, `CallableNoSpuriousResume`, `CallableKillUnwinds`, for
  stacks of any depth. A step can only go wrong through what the calls in progress still have to do: `CallOK` says
  what each call needs of the state when it goes on, `Above` and `PairsOK` what keeps any two calls apart, so that the inner
  one does not take away what the outer one needs. That rests on owners being trees (`LineInv`): what one call destroys
  lies below its own coroutine. `Lives` says that what somebody awaits is there, `Reg` that whoever sleeps is
  registered or about to be woken, `KillCover` that what was killed while it slept has an owner that is being destroyed, or
  was killed and runs, and will push it. Needs `~ForeignKills` and `~SharedWaits`, as in the run, and that nobody kills with DONE, which `Inherited` would
  not pass on: `std_coroutine_common.cpp:230` asks for a status above DONE.
- `TaskFutureManagerProofs`: `ManagerHandlesLive`, `ManagerKillUnwinds`, `ManagerLastFutureEnds`, `ManagerTableExact`, and
  `ManagerCallersWait`, which `task_future` does not check. `CallOK` again says what a call needs; since a task is
  kept by counted futures instead of one owner, what provides it is a call further down the stack (`Supported`): the end of a
  task runs above the call that will release its context, `kill()` and `start()` run above whoever holds a future. `HeldInv`
  says that a task without futures has a call that will let it go, `HolderInv` that no future is left in a frame that has
  been destroyed, for the destruction hands those that it finds to a call that drops them, inside which all of this goes on; `TableInv` that the table holds bound tasks, those that
  are over only until their end, which is in progress, calls the manager back; `FrameInv`, `AwaitInv`, `Reg` and `KillCover` are about frames,
  awaits, wake-ups and kills. Needs `~DropsRunning` and `~DropsWoken`, as in the run.

Assumptions are the named `ASSUME`s of the modules: names differ, bounds are numbers, a timeout has less than a second of
nanoseconds, and the tasks of `TaskLifetime`, whose references are counted, are finitely many. What a theorem assumes
beyond them is a hypothesis in its statement, and some run has constants that satisfy it.

Model-checked only: liveness (`TickEnds`, `KillFinishes`, `SomeEnds`), since fairness is out of the prover's reach;
and `CallDiscipline`, the refinement of `CallChain`, whose chains are read off the callers by recursion, about which nothing
can be proved by induction. Every other property that a passing run checks is stated by a theorem.

## Not modelled

- The assembly of the jump, Windows' allocator, split stacks of the compiler, valgrind's registration; the build flags
  that turn features off.
- Memory orders weaker than sequential consistency, and the tearing of `flags_`, which is a plain integer.
- Private data, return codes and values that nothing depends on; error transforms.
- Several threads in `TaskLifetime`'s lists of C++20 callers and in the C++20 types: the code has no locks there.
- The layouts of `compact_storage`, which differ in how a value is reached and not in what is reached.
- Samples and tests, which were read for what the library promises.

The lines of the implementation that no definition stands for are for the most part declarations, type traits, copies of
one class for `void` and for other values, the forwarding overloads of `create()` and `then()`, and accessors.

## Plan

1. That `CoroutineContext` implements `CallChain`, and that `Task` keeps to the contract of `CoroutineContext` as a
   refinement instead of an invariant.
2. Several managers for C++20 tasks, and `some()` composed with callables and tasks instead of abstract futures.
