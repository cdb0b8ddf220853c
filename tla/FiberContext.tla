------------------------------ MODULE FiberContext ------------------------------
(***************************************************************************)
(* coroutine_context_fiber (src/libcopp/coroutine/coroutine_context_fiber  *)
(* .cpp): the same coroutines on Windows fibers.  A fiber is a frame of    *)
(* CoroutineContext, and so are its statuses, calls and program counters.  *)
(*                                                                         *)
(* What differs is the jump.  SwitchToFiber() passes nothing along and the *)
(* system saves the registers in the fiber, so callee_ never changes; what *)
(* the code behind a jump has to know it reads from thread local data that *)
(* start() writes and yield() leaves as it is.                             *)
(***************************************************************************)
EXTENDS CoroutineContext

VARIABLE jump_data   \* gt_current_fiber.jump_data of each thread

fiberVars == <<vars, jump_data>>

FiberInit ==
  /\ Init
  /\ jump_data = [t \in Thread |-> [from_fiber |-> Null, to_co |-> Null]]

FiberCreate(t, c, withRunner) == Create(t, c, withRunner) /\ UNCHANGED jump_data
FiberSetRunner(t, c) == SetRunner(t, c) /\ UNCHANGED jump_data
FiberStoreRunner(t) == StoreRunner(t) /\ UNCHANGED jump_data

\* start() up to the compare-and-swap, and behind the jump.
FiberStart(t, c) == Start(t, c) /\ UNCHANGED jump_data
FiberReturn(t) == Return(t) /\ UNCHANGED jump_data

\* A thread that is in no coroutine is converted to a fiber of its own.
ThisFiber(t) == IF this_co[t] = Null THEN t ELSE callee[this_co[t]]

BuildJumpSrc(t, c) ==
  [jump_data EXCEPT ![t] = [from_fiber |-> ThisFiber(t), to_co |-> c]]

\* The code behind a jump, the callback or the rest of jump_to(), makes the
\* source of the thread's last start() the caller of what that has started, also
\* after a yield().
UpdatedCaller(data) ==
  IF data.to_co = Null THEN caller
  ELSE [caller EXCEPT ![data.to_co] = data.from_fiber]

\* SwitchToFiber(g) on thread t, when the thread's jump data are `data'.
SwitchTo(t, g, data) ==
  /\ on' = [on EXCEPT ![t] = g]
  /\ caller' = UpdatedCaller(data)
  /\ this_co' = [this_co EXCEPT ![t] = Current(g)]
  /\ UNCHANGED callee

SwitchIn(t) ==
  LET f == on[t]
      g == callee[arg[f]]
  IN  /\ At(t, "jump_in")
      /\ jump_data' = BuildJumpSrc(t, arg[f])
      /\ SwitchTo(t, g, jump_data'[t])
      /\ pc' = [pc EXCEPT ![f] = "in_start", ![g] = Landing(pc[g])]
      /\ UNCHANGED <<status, finished, runner, exception, arg, from_co>>

FiberYield(t) == YieldThis(t) /\ UNCHANGED jump_data

SwitchOut(t) ==
  LET f == on[t]
      c == arg[f]
      g == caller[c]
  IN  /\ At(t, "jump_out")
      /\ SwitchTo(t, g, jump_data[t])
      /\ pc' = [pc EXCEPT ![f] = IF finished[c] THEN "dead" ELSE "in_yield",
                          ![g] = Landing(pc[g])]
      /\ UNCHANGED <<status, finished, runner, exception, arg, from_co, jump_data>>

\* The callback behind the runner.
FiberFinishRunner(t, threw) == FinishRunner(t, threw) /\ UNCHANGED jump_data
FiberFinalYield(t) == FinalYield(t) /\ UNCHANGED jump_data

FiberStep(t) ==
  \/ \E c \in Coroutine, r \in BOOLEAN : FiberCreate(t, c, r)
  \/ \E c \in Coroutine : FiberSetRunner(t, c)
  \/ FiberStoreRunner(t)
  \/ SwitchIn(t)
  \/ FiberReturn(t)
  \/ FiberYield(t)
  \/ SwitchOut(t)
  \/ \E e \in BOOLEAN : FiberFinishRunner(t, e)
  \/ FiberFinalYield(t)

\* The client contract of fibers: while a thread is in a coroutine, no other
\* thread takes over the one that it has resumed last.
NotTakenOver(t, c) ==
  \A u \in Thread \ {t} : on[u] \in Coroutine => jump_data[u].to_co # c

FiberNext ==
  \/ \E t \in Thread :
       \/ FiberStep(t)
       \/ \E c \in Coroutine : NoCallInProgress(c) /\ NotTakenOver(t, c) /\ FiberStart(t, c)
  \/ AllExited /\ UNCHANGED jump_data

FiberSpec == FiberInit /\ [][FiberNext]_fiberVars

\* Clients that hand coroutines from thread to thread as they may with fcontext.
MovingNext ==
  \E t \in Thread :
    \/ FiberStep(t)
    \/ \E c \in Coroutine : NoCallInProgress(c) /\ FiberStart(t, c)

MovingSpec == FiberInit /\ [][MovingNext]_fiberVars
=============================================================================
