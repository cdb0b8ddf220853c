--------------------------- MODULE CoroutineContext ---------------------------
(***************************************************************************)
(* coroutine_context (src/libcopp/coroutine/coroutine_context.cpp): the    *)
(* stackful coroutines everything else in libcopp and libcotask runs on.   *)
(*                                                                         *)
(* A FRAME is a machine stack: the native stack of a thread, or the stack  *)
(* that `create' prepared for a coroutine; each is named by its owner.     *)
(* on[t] is the stack thread t executes on, and a saved fcontext_t is the  *)
(* name of the stack it continues.  A suspended stack resumes exactly      *)
(* where it left off, so a stack has one program counter pc[f] and one set *)
(* of locals: arg[f] (the coroutine of the call in progress) and           *)
(* from_co[f] (the jump_src_data_t of that call).                          *)
(*                                                                         *)
(* start() and yield() are each two steps: the compare-and-swap on         *)
(* status_, which publishes the new status, and the jump, after which the  *)
(* stack that was left is stored into caller_ / callee_ by the code the    *)
(* thread lands in.  The jump and the stores after it are one step.        *)
(***************************************************************************)
EXTENDS Integers

CONSTANTS Thread, Coroutine, Null

ASSUME NamesDistinct ==
  /\ Thread \cap Coroutine = {}
  /\ Null \notin Thread \cup Coroutine

Frame == Thread \cup Coroutine

VARIABLES
  status,     \* status_ of each coroutine (atomic)
  finished,   \* flags_ & EN_CFT_FINISHED (not atomic)
  runner,     \* runner_ holds a callable
  exception,  \* unhandle_exception_ holds an exception
  caller,     \* caller_: the stack start() was called from
  callee,     \* callee_: the stack the coroutine continues on
  on,         \* the stack each thread executes on
  this_co,    \* thread local: the current coroutine
  pc, arg, from_co

vars == <<status, finished, runner, exception, caller, callee,
          on, this_co, pc, arg, from_co>>

Status == {"INVALID", "READY", "RUNNING", "FINISHED", "EXITED"}

\* "user": in client code (or a runner); "set": in set_runner() after the CAS;
\* "jump_in", "jump_out": in start() / yield() after the CAS; "returned": in
\* start() after the jump; "finish": the callback, after the runner is done
Executing == {"user", "set", "jump_in", "returned", "finish", "jump_out"}
\* "fresh": made by create(), never entered; "dead": finished
Suspended == {"fresh", "in_start", "in_yield", "dead"}

TypeOK ==
  /\ status \in [Coroutine -> Status]
  /\ finished \in [Coroutine -> BOOLEAN]
  /\ runner \in [Coroutine -> BOOLEAN]
  /\ exception \in [Coroutine -> BOOLEAN]
  /\ caller \in [Coroutine -> Frame \cup {Null}]
  /\ callee \in [Coroutine -> Frame \cup {Null}]
  /\ on \in [Thread -> Frame]
  /\ this_co \in [Thread -> Coroutine \cup {Null}]
  /\ pc \in [Frame -> Executing \cup Suspended]
  /\ arg \in [Frame -> Coroutine \cup {Null}]
  /\ from_co \in [Frame -> Coroutine \cup {Null}]

Init ==
  /\ status = [c \in Coroutine |-> "INVALID"]
  /\ finished = [c \in Coroutine |-> FALSE]
  /\ runner = [c \in Coroutine |-> FALSE]
  /\ exception = [c \in Coroutine |-> FALSE]
  /\ caller = [c \in Coroutine |-> Null]
  /\ callee = [c \in Coroutine |-> Null]
  /\ on = [t \in Thread |-> t]
  /\ this_co = [t \in Thread |-> Null]
  /\ pc = [f \in Frame |-> IF f \in Thread THEN "user" ELSE "fresh"]
  /\ arg = [f \in Frame |-> Null]
  /\ from_co = [f \in Frame |-> Null]

At(t, label) == pc[on[t]] = label

Goto(t, label, c) ==
  /\ pc' = [pc EXCEPT ![on[t]] = label]
  /\ arg' = [arg EXCEPT ![on[t]] = c]

\* Client code runs on a coroutine's stack only when it has a runner: an empty
\* runner_ returns from run_and_recv_retcode at once.
InClientCode(t) ==
  /\ At(t, "user")
  /\ on[t] \in Coroutine => runner[on[t]]

-----------------------------------------------------------------------------
(* Creation.  The object is published only after create() returned.        *)

\* create() passes the runner to set_runner(), which refuses an empty one.
InitialStatus(withRunner) == IF withRunner THEN "READY" ELSE "INVALID"

Create(t, c, withRunner) ==
  /\ InClientCode(t)
  /\ callee[c] = Null
  /\ callee' = [callee EXCEPT ![c] = c]
  /\ status' = [status EXCEPT ![c] = InitialStatus(withRunner)]
  /\ runner' = [runner EXCEPT ![c] = withRunner]
  /\ UNCHANGED <<finished, exception, caller, on, this_co, pc, arg, from_co>>

\* Mutant: the CAS is replaced by a plain store.
SetRunner_AnyStatus(t, c) ==
  /\ InClientCode(t)
  /\ callee[c] # Null
  /\ status' = [status EXCEPT ![c] = "READY"]
  /\ Goto(t, "set", c)
  /\ UNCHANGED <<finished, runner, exception, caller, callee, on, this_co, from_co>>

\* The CAS comes first, the runner is stored after it.
SetRunner(t, c) ==
  /\ InClientCode(t)
  /\ callee[c] # Null
  /\ status[c] = "INVALID"
  /\ status' = [status EXCEPT ![c] = "READY"]
  /\ Goto(t, "set", c)
  /\ UNCHANGED <<finished, runner, exception, caller, callee, on, this_co, from_co>>

StoreRunner(t) ==
  /\ At(t, "set")
  /\ runner' = [runner EXCEPT ![arg[on[t]]] = TRUE]
  /\ Goto(t, "user", Null)
  /\ UNCHANGED <<status, finished, exception, caller, callee, on, this_co, from_co>>

-----------------------------------------------------------------------------
(* start() / resume().  Every failing call (null callee_, INVALID, RUNNING, *)
(* FINISHED or EXITED status) returns an error and changes nothing.        *)

Start(t, c) ==
  /\ InClientCode(t)
  /\ callee[c] # Null
  /\ status[c] = "READY"
  /\ status' = [status EXCEPT ![c] = "RUNNING"]
  /\ Goto(t, "jump_in", c)
  /\ from_co' = [from_co EXCEPT ![on[t]] = this_co[t]]
  /\ UNCHANGED <<finished, runner, exception, caller, callee, on, this_co>>

\* Where a stack continues when a thread jumps to it.
Landing(label) ==
  CASE label = "fresh"    -> "user"
    [] label = "in_yield" -> "user"
    [] label = "in_start" -> "returned"
    [] OTHER              -> label

\* The coroutine the landing code makes current: a new stack installs to_co, a
\* suspended call reinstalls the from_co of its own jump_src_data_t.
Current_None(g) == IF pc[g] = "fresh" THEN g ELSE Null  \* mutant: reset on return
Current(g) == IF pc[g] = "fresh" THEN g ELSE from_co[g]

\* set_callee() of the landing code: the source of the jump is stored into the
\* coroutine it belongs to, if it belongs to one.
SaveCallee(co, f) ==
  IF co = Null THEN callee ELSE [callee EXCEPT ![co] = f]

\* set_caller() of the landing code: to_co returns to the source of the jump.
SaveCaller_FirstOnly(co, f) ==  \* mutant: caller_ is stored on the first entry only
  IF caller[co] = Null THEN [caller EXCEPT ![co] = f] ELSE caller
SaveCaller(co, f) == [caller EXCEPT ![co] = f]

JumpIn(t) ==
  LET f == on[t]
      c == arg[f]
      g == callee[c]
  IN  /\ At(t, "jump_in")
      /\ on' = [on EXCEPT ![t] = g]
      /\ caller' = SaveCaller(c, f)
      /\ callee' = SaveCallee(from_co[f], f)
      /\ this_co' = [this_co EXCEPT ![t] = Current(g)]
      /\ pc' = [pc EXCEPT ![f] = "in_start", ![g] = Landing(pc[g])]
      /\ UNCHANGED <<status, finished, runner, exception, arg, from_co>>

\* The status start() leaves behind once the coroutine came back.
StatusAfterReturn_Kept(c) == status[c]  \* mutant: EXITED is never stored
StatusAfterReturn(c) == IF finished[c] THEN "EXITED" ELSE status[c]

Return(t) ==
  LET c == arg[on[t]]
  IN  /\ At(t, "returned")
      /\ status' = [status EXCEPT ![c] = StatusAfterReturn(c)]
      /\ exception' = [exception EXCEPT ![c] = FALSE]
      /\ Goto(t, "user", Null)
      /\ UNCHANGED <<finished, runner, caller, callee, on, this_co, from_co>>

-----------------------------------------------------------------------------
(* yield().  A failing call (status not RUNNING) changes nothing.          *)

StatusAfterYield(c) == IF finished[c] THEN "FINISHED" ELSE "READY"

YieldCas(t, c) ==
  /\ callee[c] # Null
  /\ status[c] = "RUNNING"
  /\ status' = [status EXCEPT ![c] = StatusAfterYield(c)]
  /\ Goto(t, "jump_out", c)
  /\ from_co' = [from_co EXCEPT ![on[t]] = c]
  /\ UNCHANGED <<finished, runner, exception, caller, callee, on, this_co>>

Yield(t, c) == InClientCode(t) /\ YieldCas(t, c)

\* this_coroutine::yield()
YieldThis(t) == this_co[t] # Null /\ Yield(t, this_co[t])

JumpOut(t) ==
  LET f == on[t]
      c == arg[f]
      g == caller[c]
  IN  /\ At(t, "jump_out")
      /\ on' = [on EXCEPT ![t] = g]
      /\ callee' = SaveCallee(from_co[f], f)
      /\ this_co' = [this_co EXCEPT ![t] = Current(g)]
      /\ pc' = [pc EXCEPT ![f] = IF finished[c] THEN "dead" ELSE "in_yield",
                          ![g] = Landing(pc[g])]
      /\ UNCHANGED <<status, finished, runner, exception, caller, arg, from_co>>

\* coroutine_context_callback after run_and_recv_retcode: the runner returned
\* or threw, and the finished flag is raised ...
FinishRunner(t, threw) ==
  LET c == on[t]
  IN  /\ At(t, "user")
      /\ c \in Coroutine
      /\ threw => runner[c]
      /\ finished' = [finished EXCEPT ![c] = TRUE]
      /\ exception' = [exception EXCEPT ![c] = threw]
      /\ Goto(t, "finish", c)
      /\ UNCHANGED <<status, runner, caller, callee, on, this_co, from_co>>

\* ... and the coroutine yields for the last time.
FinalYield(t) == At(t, "finish") /\ YieldCas(t, on[t])

-----------------------------------------------------------------------------

Step(t) ==
  \/ \E c \in Coroutine, r \in BOOLEAN : Create(t, c, r)
  \/ \E c \in Coroutine : SetRunner(t, c)
  \/ StoreRunner(t)
  \/ JumpIn(t)
  \/ Return(t)
  \/ YieldThis(t)
  \/ JumpOut(t)
  \/ \E e \in BOOLEAN : FinishRunner(t, e)
  \/ FinalYield(t)

\* The client contract the task layer keeps: calls of set_runner() and start()
\* on one coroutine do not overlap.  (A call that is refused may come any time.)
NoCallInProgress(c) ==
  \A f \in Frame : arg[f] = c => pc[f] \notin {"set", "jump_in", "in_start", "returned"}

\* The program may stop when every coroutine has run to its end.
AllExited ==
  /\ \A c \in Coroutine : status[c] = "EXITED"
  /\ \A t \in Thread : At(t, "user")
  /\ UNCHANGED vars

Next ==
  \/ \E t \in Thread :
       \/ Step(t)
       \/ \E c \in Coroutine : NoCallInProgress(c) /\ Start(t, c)
  \/ AllExited

Spec == Init /\ [][Next]_vars

\* Clients that share a coroutine between threads and rely on status_ alone.
SharedNext == \E t \in Thread : Step(t) \/ \E c \in Coroutine : Start(t, c)

SharedSpec == Init /\ [][SharedNext]_vars

-----------------------------------------------------------------------------
(* Properties *)

\* No two threads ever execute on the same stack, whatever the order in which
\* they start, yield and finish coroutines and hand them to each other.
StackExclusive == \A t, u \in Thread : on[t] = on[u] => t = u

\* Outside the two jumps, the thread local current coroutine is the one whose
\* stack the thread executes on, and there is none on a thread's own stack.
ThisCoroutineExact ==
  \A t \in Thread :
    At(t, "user") => this_co[t] = IF on[t] \in Coroutine THEN on[t] ELSE Null

\* A coroutine that start() would accept has its whole continuation saved: the
\* stack in callee_ is suspended at a point a jump may enter, no thread is on
\* it, and no other coroutine that may be started continues on it.
ReadyIsResumable ==
  \A c \in Coroutine :
    status[c] = "READY" /\ NoCallInProgress(c) =>
      /\ pc[callee[c]] \in {"fresh", "in_yield"}
      /\ \A t \in Thread : on[t] # callee[c]
      /\ runner[c]
      /\ \A d \in Coroutine \ {c} : status[d] = "READY" => callee[d] # callee[c]

\* Control returns to the starter: a stack that is suspended inside start(c) is
\* the one c's caller_ continues, so no starter is forgotten or entered twice.
StarterIsCaller ==
  \A f \in Frame : pc[f] = "in_start" => caller[arg[f]] = f

\* When a runner is done its coroutine is RUNNING, so the final yield() succeeds
\* and coroutine_context_callback never returns from the stack's bottom.
FinalYieldSucceeds ==
  \A t \in Thread : At(t, "finish") => status[on[t]] = "RUNNING"

\* A coroutine observed EXITED has left its stack for good: no thread is on it,
\* no call on it is in progress, so the container may free the memory.
ExitedIsReleasable ==
  \A c \in Coroutine :
    status[c] = "EXITED" =>
      /\ pc[c] = "dead"
      /\ NoCallInProgress(c)
      /\ \A t \in Thread : on[t] # c

\* An exception that escaped the runner is handed out once, by the start() call
\* whose stack the finished coroutine returned to, and with it EXITED is stored.
ExceptionReachesStarter ==
  [][\A c \in Coroutine :
       exception[c] /\ ~exception'[c] =>
         /\ status'[c] = "EXITED"
         /\ \E t \in Thread : At(t, "returned") /\ on[t] = caller[c]]_vars

\* No runner is entered before it was stored: a coroutine that has been entered
\* runs its callable, never the empty function of a half done set_runner().
RunnerIsStored == \A t \in Thread : on[t] \in Coroutine => runner[on[t]]

=============================================================================
