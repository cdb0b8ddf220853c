---------------------------- MODULE CallableFuture ----------------------------
(***************************************************************************)
(* callable_future (include/libcopp/coroutine/callable_promise.h): a       *)
(* coroutine that starts when it is created and is destroyed with the      *)
(* future that owns it.  It may await callables it owns, and generators.   *)
(*                                                                         *)
(* Main is the event loop that runs while no coroutine does: it sets and   *)
(* drops generators, kills and destroys.  It is client code, and so is the *)
(* body of a coroutine.                                                    *)
(***************************************************************************)
EXTENDS Generator

CONSTANTS
  Main,
  KillStatus,      \* the statuses that are passed to kill()
  ForeignKills,    \* may a coroutine kill one that it does not own?
  SharedWaits,     \* client contract if FALSE: those that wait for one generator
                   \* do not belong to one owner, directly or indirectly, and a
                   \* callback sets no value that somebody else waits for
  MaxAwait,        \* bound: awaits of one coroutine
  MaxOp            \* bound: operations of Main, and kills

ASSUME CallableAssumption ==
  /\ Main \notin Co \cup Event \cup {Null}
  /\ KillStatus \subseteq DONE..TIMEOUT
  /\ ForeignKills \in BOOLEAN /\ SharedWaits \in BOOLEAN
  /\ MaxAwait \in Nat /\ MaxOp \in Nat

VARIABLES
  owner,    \* who holds the callable_future of each coroutine
  line,     \* history: the coroutine and its owner, the owner of that one, and so on
  awaited,  \* used up bound
  ops       \* used up bound

ownVars == <<owner, line>>
vars == <<promiseVars, stack, ownVars, value, awaited, ops>>

TypeOK ==
  /\ PromiseTypeOK
  /\ \A c \in Co : status[c] = CREATED <=> frame[c] = "none"
  /\ owner \in [Co -> Co \cup {Main, Null}]
  /\ line \in [Co -> SUBSET Co]
  /\ GeneratorTypeOK
  /\ awaited \in [Co -> 0..MaxAwait]
  /\ ops \in 0..MaxOp

Init ==
  /\ PromiseInit
  /\ owner = [c \in Co |-> Null]
  /\ line = [c \in Co |-> {}]
  /\ GeneratorInit
  /\ awaited = [c \in Co |-> 0]
  /\ ops = 0

InMain == stack = <<>>
Client == IF InMain THEN Main ELSE Top.co   \* whose code runs
InClient == InMain \/ At("body")
Body(c) == At("body") /\ Top.co = c
Alive(c) == frame[c] \notin {"none", "destroyed"}
Op == ops < MaxOp /\ ops' = ops + 1

-----------------------------------------------------------------------------
(* Callables. *)

\* A callable runs at once: initial_awaitable suspends nothing, and leaves kCreated.
FirstStatus == RUNNING
Create(d) ==
  /\ frame[d] = "none"
  /\ InClient
  /\ owner' = [owner EXCEPT ![d] = Client]
  /\ line' = [line EXCEPT ![d] = {d} \cup IF InMain THEN {} ELSE line[Client]]
  /\ frame' = [frame EXCEPT ![d] = "active"]
  /\ status' = [status EXCEPT ![d] = FirstStatus]
  /\ Push(NewCall("body", d))
  /\ UNCHANGED <<flags, waiting, callers, awaits, attached, value, awaited, ops>>

AwaitReady(d) == Finished(d) \/ Exiting(d) \/ "returned" \in flags[d]

\* What is common to every co_await of the body.
Awaits(c) ==
  /\ Body(c) /\ awaited[c] < MaxAwait
  /\ awaited' = [awaited EXCEPT ![c] = @ + 1]
  /\ UNCHANGED <<ownVars, ops>>

AwaitReadyCallable(c, d) ==
  /\ Awaits(c) /\ owner[d] = c /\ Alive(d) /\ AwaitReady(d)
  /\ GoOn(c, d)
  /\ UNCHANGED <<status, value>>

AwaitCallable(c, d) ==
  /\ Awaits(c) /\ owner[d] = c /\ Alive(d) /\ ~AwaitReady(d) /\ MaySuspend(c)
  /\ Suspend(c, d, <<>>)
  /\ waiting' = [waiting EXCEPT ![c] = d]
  /\ AddCaller(d, c)
  /\ UNCHANGED <<status, value>>

\* await_suspend() of a killed caller: the callee gets its status and runs.
AwaitWhenKilled(c, d) ==
  /\ Awaits(c) /\ owner[d] = c /\ Alive(d) /\ ~AwaitReady(d) /\ ~MaySuspend(c)
  /\ awaits' = [awaits EXCEPT ![c] = d]
  /\ IF "internal_waiting" \in flags[d]
     THEN /\ status' = [status EXCEPT ![d] = status[c]]
          /\ ResumeThen(d, "await_resume")
     ELSE Goto("await_resume") /\ UNCHANGED status
  /\ UNCHANGED <<frame, flags, waiting, callers, attached, value>>

\* await_resume(): detach(); a callee that was not done gets the status of its caller.
\* (MUTANT: it keeps its own)
CalleeStatus_Own(c, d) == status[d]
CalleeStatus(c, d) ==
  IF Exiting(d) THEN status[d] ELSE IF attached[c] THEN status[c] ELSE KILLED

DetachCallable(c, d) ==
  /\ At("await_resume") /\ Top.co = c /\ awaits[c] = d
  /\ frame[d] # "destroyed"
  /\ Detached(c)
  /\ waiting' = [waiting EXCEPT ![c] = IF attached[c] THEN Null ELSE @]
  /\ IF attached[c] THEN RemoveCaller(d, c) ELSE UNCHANGED callers
  /\ status' = [status EXCEPT ![d] = CalleeStatus(c, d)]
  /\ Goto("resume_waiting")
  /\ UNCHANGED <<frame, awaits, ownVars, value, awaited, ops>>

\* co_return, then the destruction of what the body owns, then final_suspend().
Return(c) ==
  /\ Body(c)
  /\ flags' = [flags EXCEPT ![c] = @ \cup {"returned"}]
  /\ status' = [status EXCEPT ![c] = IF Exiting(c) THEN @ ELSE DONE]
  /\ Goto("locals")
  /\ UNCHANGED <<frame, waiting, callers, awaits, attached, ownVars, value, awaited, ops>>

Owned(c) == {d \in Co : owner[d] = c /\ Alive(d)}

DestroyLocal(c) ==
  /\ At("locals") /\ Top.co = c
  /\ \E d \in Owned(c) : Push(NewCall("destroy", d))
  /\ UNCHANGED <<promiseVars, ownVars, value, awaited, ops>>

End(c) ==
  /\ At("locals") /\ Top.co = c /\ Owned(c) = {}
  /\ FinalSuspend(c)
  /\ UNCHANGED <<status, waiting, awaits, attached, ownVars, value, awaited, ops>>

\* ~callable_future() runs the coroutine to its end.  (MUTANT: it does not)
RunsOut_Never(d) == FALSE
RunsOut(d) == ~Finished(d) /\ "returned" \notin flags[d]

DestroyResumes(d) ==
  /\ At("destroy") /\ Top.co = d /\ RunsOut(d)
  /\ status' = [status EXCEPT ![d] = IF Exiting(d) THEN @ ELSE KILLED]
  /\ Push(NewCall("resume", d))
  /\ UNCHANGED <<frame, flags, waiting, callers, awaits, attached, ownVars, value, awaited, ops>>

DestroyFrame(d) ==
  /\ At("destroy") /\ Top.co = d /\ ~RunsOut(d)
  /\ frame' = [frame EXCEPT ![d] = "destroyed"]
  /\ flags' = [flags EXCEPT ![d] = @ \cup {"destroying"}]
  /\ Pop
  /\ UNCHANGED <<status, waiting, callers, awaits, attached, ownVars, value, awaited, ops>>

Destroy(d) ==
  /\ InClient /\ owner[d] = Client
  /\ Alive(d) /\ Op
  /\ Push(NewCall("destroy", d))
  /\ UNCHANGED <<promiseVars, ownVars, value, awaited>>

\* kill(): a coroutine that waits is resumed to see its new status.
Kill(d, target) ==
  /\ InClient
  /\ InMain \/ ForeignKills \/ owner[d] = Client
  /\ Alive(d) /\ Op
  /\ ~Finished(d) /\ ~Exiting(d)
  /\ status' = [status EXCEPT ![d] = target]
  /\ IF IsWaiting(d) /\ flags[d] \cap {"destroying", "returned"} = {}
     THEN Push(NewCall("resume", d)) ELSE UNCHANGED stack
  /\ UNCHANGED <<frame, flags, waiting, callers, awaits, attached, ownVars, value, awaited>>

-----------------------------------------------------------------------------
(* Generators. *)

AwaitSet(c, e) == Awaits(c) /\ AwaitReadyGenerator(c, e)

AwaitGenerator(c, e) ==
  /\ Awaits(c)
  /\ SharedWaits \/ \A b \in callers[e] : line[b] \cap line[c] = {}
  /\ \/ WaitForGenerator(c, e)
     \/ (SharedWaits \/ callers[e] = {}) /\ WaitForCallback(c, e)

SetValue(e, v) == InMain /\ Op /\ SetGenerator(e, v) /\ UNCHANGED <<ownVars, awaited>>
ResetValue(e) == InMain /\ Op /\ ResetGenerator(e) /\ UNCHANGED <<ownVars, awaited>>

-----------------------------------------------------------------------------

BodyStep(c) ==
  \/ \E d \in Co : AwaitReadyCallable(c, d) \/ AwaitCallable(c, d) \/ AwaitWhenKilled(c, d)
  \/ \E e \in Event : AwaitSet(c, e) \/ AwaitGenerator(c, e)
  \/ Return(c)

ResumeStep(c) ==
  \/ \E d \in Co : DetachCallable(c, d)
  \/ \E e \in Event : DetachGenerator(c, e) /\ UNCHANGED <<ownVars, awaited, ops>>
  \/ DestroyLocal(c) \/ End(c)
  \/ DestroyResumes(c) \/ DestroyFrame(c)

PromiseStep ==
  /\ WakeNext \/ WakeEnd \/ Resume \/ ResumeWaiting \/ ResumeCallee
  /\ UNCHANGED <<ownVars, value, awaited, ops>>

Next ==
  \/ \E c \in Co : Create(c) \/ BodyStep(c) \/ ResumeStep(c) \/ Destroy(c)
  \/ \E c \in Co, target \in KillStatus : Kill(c, target)
  \/ \E e \in Event, v \in {"ready", "gone"} : SetValue(e, v)
  \/ \E e \in Event : ResetValue(e)
  \/ PromiseStep

Spec == Init /\ [][Next]_vars

-----------------------------------------------------------------------------
(* Properties. *)

\* Nobody touches a frame that is not there: whoever is still to be woken exists,
\* handle.resume() is called on a suspended coroutine, handle.destroy() on one that
\* does not run, and an awaitable finds its callee (std_coroutine_common.cpp:95,
\* callable_promise.h:325).
HandlesLive ==
  /\ \A i \in DOMAIN stack :
       /\ stack[i].pc = "wake" => \A c \in stack[i].todo : frame[c] # "destroyed"
       /\ stack[i].pc \in {"body", "await_resume", "resume_waiting", "locals"}
            => frame[stack[i].co] = "active"
  /\ At("resume") => Suspended(Top.co)
  /\ At("destroy") => frame[Top.co] \in {"suspended", "final"}
  /\ \A c \in Co : Alive(c) /\ awaits[c] \in Co => frame[awaits[c]] # "destroyed"

\* The caller managers name exactly those that wait: whoever is registered has
\* its awaitable there, and when the event loop runs whoever is suspended, and was
\* not killed, is registered at something that is yet to come.
CallersWait ==
  /\ \A x \in Co \cup Event : \A c \in callers[x] :
       Alive(c) /\ awaits[c] = x /\ attached[c]
  /\ InMain => \A c \in Co : Suspended(c) /\ ~Exiting(c) =>
       /\ c \in callers[awaits[c]]
       /\ IF awaits[c] \in Co THEN Suspended(awaits[c]) /\ ~Exiting(awaits[c])
          ELSE value[awaits[c]] = "pending"

\* A coroutine that waited is resumed for a reason: what it waited for is over, or
\* it was killed itself.
NoSpuriousResume ==
  At("await_resume") /\ attached[Top.co] =>
    LET x == awaits[Top.co]
    IN  Exiting(Top.co) \/ IF x \in Co THEN Finished(x) ELSE value[x] # "pending"

\* A kill unwinds everything: when the event loop runs again, no coroutine that was
\* killed, itself or with its caller, is left in the middle of its body.
KillUnwinds == InMain => \A c \in Co : status[c] > DONE => frame[c] \in {"final", "destroyed"}

=============================================================================
