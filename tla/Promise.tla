-------------------------------- MODULE Promise --------------------------------
(***************************************************************************)
(* What every C++20 coroutine of the library is built from                 *)
(* (include/libcopp/coroutine/std_coroutine_common.h and its .cpp): the    *)
(* promise with its status, its flags and the promise it waits for, and    *)
(* the caller manager that remembers who shall be resumed when it ends.    *)
(*                                                                         *)
(* None of it is atomic or locked: everything here happens on one thread,  *)
(* and what makes it hard is that a resumption is a call.  A coroutine     *)
(* that ends resumes its callers before it returns to whoever resumed it,  *)
(* they resume theirs, and each may destroy the others.  `stack' holds the *)
(* calls in progress, innermost first; a step runs from one call of        *)
(* handle.resume() to the next.                                            *)
(***************************************************************************)
EXTENDS Naturals, Sequences

CONSTANTS
  Co,      \* the coroutines
  Event,   \* what a coroutine can wait for besides another coroutine
  Null

ASSUME PromiseAssumption == Null \notin Co \cup Event /\ Co \cap Event = {}

CREATED == 1
RUNNING == 2
DONE == 3
CANCLE == 4
KILLED == 5
TIMEOUT == 6

VARIABLES
  frame,     \* the coroutine frame; "final" is where handle.done() is true
  status,    \* status_
  flags,     \* flags_: kDestroying, kFinalSuspend, kInternalWaitting, kHasReturned
  waiting,   \* current_waiting_: the promise that this one waits for
  callers,   \* the caller manager of each coroutine and each event
  awaits,    \* what the awaitable in the frame of a coroutine awaits
  attached,  \* is the caller_ of that awaitable set?
  stack      \* the calls in progress

promiseVars == <<frame, status, flags, waiting, callers, awaits, attached>>

Frame == {"none", "suspended", "active", "final", "destroyed"}
Flag == {"destroying", "final_suspend", "internal_waiting", "returned"}
\* What a call does next, here and in the modules that extend this one.
Label == {"body", "await_resume", "resume_waiting", "locals", "resume", "wake", "destroy",
          "forget", "drop", "release", "final", "unbind", "unlock",
          "started", "tick", "reset", "destroyed"}
\* A call in progress: what it does next, and its argument, which may be many
\* coroutines (those that resume_callers() still has to resume) or a time.
Call == [pc : Label, co : Co \cup Event \cup {Null}, todo : SUBSET Co, time : Nat]

PromiseTypeOK ==
  /\ frame \in [Co -> Frame]
  /\ status \in [Co -> CREATED..TIMEOUT]
  /\ flags \in [Co -> SUBSET Flag]
  /\ waiting \in [Co -> Co \cup {Null}]
  /\ callers \in [Co \cup Event -> SUBSET Co]
  /\ awaits \in [Co -> Co \cup Event \cup {Null}]
  /\ attached \in [Co -> BOOLEAN]
  /\ stack \in Seq(Call)

PromiseInit ==
  /\ frame = [c \in Co |-> "none"]
  /\ status = [c \in Co |-> CREATED]
  /\ flags = [c \in Co |-> {}]
  /\ waiting = [c \in Co |-> Null]
  /\ callers = [x \in Co \cup Event |-> {}]
  /\ awaits = [c \in Co |-> Null]
  /\ attached = [c \in Co |-> FALSE]
  /\ stack = <<>>

Top == Head(stack)
At(label) == stack # <<>> /\ Top.pc = label
NewCall(label, x) == [pc |-> label, co |-> x, todo |-> {}, time |-> 0]

Push(call) == stack' = <<call>> \o stack
Become(call) == stack' = <<call>> \o Tail(stack)
Goto(label) == Become([Top EXCEPT !.pc = label])
Pop == stack' = Tail(stack)

\* The current call goes on at `label' when the resumption of c returns.
ResumeThen(c, label) ==
  stack' = <<NewCall("resume", c), [Top EXCEPT !.pc = label]>> \o Tail(stack)

Finished(c) == frame[c] = "final"
Exiting(c) == status[c] >= DONE
IsWaiting(c) == waiting[c] # Null \/ "internal_waiting" \in flags[c]
Suspended(c) == frame[c] = "suspended"

-----------------------------------------------------------------------------
(* The caller manager. *)

AddCaller(x, c) == callers' = [callers EXCEPT ![x] = @ \cup {c}]

\* (MUTANT: the caller stays)
RemoveCaller_Keep(x, c) == UNCHANGED callers
RemoveCaller(x, c) == callers' = [callers EXCEPT ![x] = @ \ {c}]

\* promise_base_type::remove_caller() with inherit_status: a callee that was not
\* done gets the status for which its caller was killed.
Inherited(d, c) ==
  IF c \in callers[d] /\ ~Exiting(d) /\ status[c] > DONE
  THEN [status EXCEPT ![d] = status[c]] ELSE status

\* resume_callers() takes all callers out and works on its own copy of them.
Took(x) == [callers EXCEPT ![x] = {}]
WakeCall(x, who) == [NewCall("wake", x) EXCEPT !.todo = who]

Skipped(c) == Finished(c) \/ "destroying" \in flags[c]

WakeNext ==
  /\ At("wake")
  /\ \E c \in Top.todo :
       LET rest == [Top EXCEPT !.todo = @ \ {c}]
       IN  /\ frame[c] # "destroyed"
           /\ stack' = IF Skipped(c) THEN <<rest>> \o Tail(stack)
                       ELSE <<NewCall("resume", c), rest>> \o Tail(stack)
  /\ UNCHANGED promiseVars

WakeEnd ==
  /\ At("wake") /\ Top.todo = {}
  /\ Pop
  /\ UNCHANGED promiseVars

-----------------------------------------------------------------------------
(* Resumption. *)

\* handle.resume(): the coroutine goes on in await_resume() of what it awaits.
Resume ==
  /\ At("resume") /\ Suspended(Top.co)
  /\ frame' = [frame EXCEPT ![Top.co] = "active"]
  /\ Goto("await_resume")
  /\ UNCHANGED <<status, flags, waiting, callers, awaits, attached>>

\* The caller c of d has detached from it.  If d is not done c was killed, and d
\* shall learn of it: what d waits for is resumed, or else d itself.  The one
\* that is resumed does not resume d again.

WaitsForAnother(d) == waiting[d] # Null /\ ~Finished(waiting[d])

ResumeWaiting ==
  /\ At("resume_waiting")
  /\ LET d == awaits[Top.co]
         w == waiting[d]
     IN  /\ WaitsForAnother(d)
         /\ waiting' = [waiting EXCEPT ![d] = Null]
         /\ RemoveCaller(w, d)
         /\ status' = Inherited(w, d)
         /\ ResumeThen(w, "body")
  /\ awaits' = [awaits EXCEPT ![Top.co] = Null]
  /\ UNCHANGED <<frame, flags, attached>>

ResumeCallee ==
  /\ At("resume_waiting")
  /\ LET d == awaits[Top.co]
     IN  /\ ~WaitsForAnother(d)
         /\ IF ~Finished(d) /\ "internal_waiting" \in flags[d]
            THEN ResumeThen(d, "body") ELSE Goto("body")
  /\ awaits' = [awaits EXCEPT ![Top.co] = Null]
  /\ UNCHANGED <<frame, status, flags, waiting, callers, attached>>

\* set_caller() of the awaitable, add_caller() of what it awaits; control goes
\* back to whoever resumed c, or to `next' if a callback runs first.
Suspend(c, x, next) ==
  /\ frame' = [frame EXCEPT ![c] = "suspended"]
  /\ flags' = [flags EXCEPT ![c] = @ \cup {"internal_waiting"}]
  /\ awaits' = [awaits EXCEPT ![c] = x]
  /\ attached' = [attached EXCEPT ![c] = TRUE]
  /\ stack' = next \o Tail(stack)

\* The await is over at once: there is no caller in the awaitable.
GoOn(c, x) ==
  /\ awaits' = [awaits EXCEPT ![c] = x]
  /\ Goto("await_resume")
  /\ UNCHANGED <<frame, flags, waiting, callers, attached>>

\* A coroutine that was killed cannot wait any more.  (MUTANT: it can)
MaySuspend_Always(c) == TRUE
MaySuspend(c) == ~Exiting(c)

\* The part of detach() that every awaitable has.
Detached(c) ==
  /\ flags' = [flags EXCEPT ![c] = IF attached[c] THEN @ \ {"internal_waiting"} ELSE @]
  /\ attached' = [attached EXCEPT ![c] = FALSE]

\* final_awaitable: the coroutine has ended and resumes its callers.
FinalSuspend(c) ==
  /\ frame' = [frame EXCEPT ![c] = "final"]
  /\ flags' = [flags EXCEPT ![c] = @ \cup {"final_suspend"}]
  /\ callers' = Took(c)
  /\ Become(WakeCall(c, callers[c]))

=============================================================================
