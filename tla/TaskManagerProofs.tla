--------------------------- MODULE TaskManagerProofs ---------------------------
(***************************************************************************)
(* Proofs about TaskManager, for any number of threads, managers, tasks    *)
(* and calls.                                                              *)
(*                                                                         *)
(* The first part does without the client contract on adding. A call that  *)
(* has taken a task out of its table (Leaving) holds it alone: until the   *)
(* task is over it stays bound to that manager, so that nobody can add it  *)
(* anywhere before cleanup_task_manager().                                 *)
(*                                                                         *)
(* The second part assumes the contract (AddWhenUnused). Then no two calls *)
(* claim the same task (Alone), so that whoever ends a task has it alone   *)
(* (EndedOnce, OneEnder), a binding that no call holds is one of a table   *)
(* (BoundHeld), and a task that is over is in a table only as long as the  *)
(* call of its own end is on its way (DoneRemoved).                        *)
(*                                                                         *)
(* The third part is about time, on one thread and in whole seconds: every *)
(* timer is where the timeout of its task is over (TimersOnTime).          *)
(***************************************************************************)
EXTENDS TaskManager, TLAPS

\* The calls that other calls can be nested in.
Below == {"check", "run", "tick", "reset_kill"}

OfManager == {"add", "remove", "cleanup", "read", "tick", "tick_locked",
              "tick_exiting", "tick_end", "reset", "reset_kill"}
OfTask == {"add", "start", "check", "remove", "cleanup", "read", "finish",
           "tick_exiting", "run", "notify", "take"}

OfTick == {"tick", "tick_locked", "tick_exiting", "tick_end"}

\* Calls whose fields are what their label says.
GoodCall ==
  {c \in Call :
     /\ c.pc \in OfManager => c.mgr \in Manager
     /\ c.pc \in OfTask => c.task \in Task
     /\ c.pc \in {"finish", "tick_exiting"} => c.end \in {"canceled", "killed", "timeout"}
     /\ c.pc = "cleanup" => c.end \in {"canceled", "killed", "timeout", "remove"}
     /\ c.pc \in OfTick => c.time \in Clock
     /\ c.pc = "add" => c.time \in Timeout
     /\ c.todo # {} => c.pc = "reset_kill"}

BelowCall == {c \in GoodCall : c.pc \in Below}

StackOK ==
  /\ stack \in [Thread -> Seq(GoodCall)]
  /\ \A t \in Thread : stack[t] # <<>> => Tail(stack[t]) \in Seq(BelowCall)

\* The thread holds a task that it took out of a table.
Leaving(t) == At(t, "cleanup") \/ At(t, "tick_exiting")
Ending(t) == At(t, "notify") \/ At(t, "take")

BindInv ==
  /\ ManagedIsBound
  /\ \A t \in Thread : Ending(t) => Exiting(Top(t).task)
  /\ \A t \in Thread : Leaving(t) =>
       \/ Exiting(Top(t).task)
       \/ /\ binding[Top(t).task] = Top(t).mgr
          /\ \A m \in Manager : Top(t).task \notin tasks[m]
  /\ \A t, u \in Thread :
       t # u /\ Leaving(t) /\ Leaving(u) /\ Top(t).task = Top(u).task
         => Exiting(Top(t).task)

IInv == TypeOK /\ StackOK /\ TimersMatch /\ BindInv

-----------------------------------------------------------------------------
(* The stack of a thread *)

\* After a call of the client, or a nested one.
LEMMA Pushed ==
  ASSUME StackOK, NEW t \in Thread, InClient(t), NEW c \in GoodCall, Push(t, c)
  PROVE  /\ StackOK'
         /\ stack'[t] # <<>> /\ Head(stack'[t]) = c
         /\ \A u \in Thread \ {t} : stack'[u] = stack[u]
<1>1. stack[t] \in Seq(BelowCall)
  <2>1. CASE stack[t] = <<>>
    BY <2>1
  <2>2. CASE stack[t] # <<>>
    <3>1. Head(stack[t]) \in BelowCall
      BY <2>2 DEF StackOK, InClient, At, Top, BelowCall, Below
    <3>2. Tail(stack[t]) \in Seq(BelowCall)
      BY <2>2 DEF StackOK
    <3> QED
      BY <3>1, <3>2, <2>2 DEF StackOK
  <2> QED
    BY <2>1, <2>2
<1>2. stack'[t] = <<c>> \o stack[t] /\ Tail(stack'[t]) = stack[t]
  BY DEF Push, StackOK
<1>3. stack' \in [Thread -> Seq(GoodCall)]
  BY DEF StackOK, Push
<1>4. \A u \in Thread \ {t} : stack'[u] = stack[u]
  BY DEF StackOK, Push
<1>5. stack'[t] # <<>> /\ Head(stack'[t]) = c
  BY <1>2
<1> QED
  BY <1>1, <1>2, <1>3, <1>4, <1>5 DEF StackOK

LEMMA Became ==
  ASSUME StackOK, NEW t \in Thread, stack[t] # <<>>, NEW c \in GoodCall, Become(t, c)
  PROVE  /\ StackOK'
         /\ stack'[t] # <<>> /\ Head(stack'[t]) = c
         /\ \A u \in Thread \ {t} : stack'[u] = stack[u]
<1>1. Tail(stack[t]) \in Seq(BelowCall)
  BY DEF StackOK
<1>2. stack'[t] = <<c>> \o Tail(stack[t]) /\ Tail(stack'[t]) = Tail(stack[t])
  BY DEF Become, StackOK
<1>3. stack' \in [Thread -> Seq(GoodCall)]
  BY DEF StackOK, Become
<1>4. \A u \in Thread \ {t} : stack'[u] = stack[u]
  BY DEF StackOK, Become
<1>5. stack'[t] # <<>> /\ Head(stack'[t]) = c
  BY <1>2
<1> QED
  BY <1>1, <1>2, <1>3, <1>4, <1>5 DEF StackOK

LEMMA Popped ==
  ASSUME StackOK, NEW t \in Thread, stack[t] # <<>>, Pop(t)
  PROVE  /\ StackOK'
         /\ stack'[t] # <<>> => Head(stack'[t]) \in BelowCall
         /\ \A u \in Thread \ {t} : stack'[u] = stack[u]
<1>1. stack'[t] = Tail(stack[t]) /\ Tail(stack[t]) \in Seq(BelowCall)
  BY DEF Pop, StackOK
<1>2. stack'[t] # <<>> => Head(stack'[t]) \in BelowCall /\ Tail(stack'[t]) \in Seq(BelowCall)
  BY <1>1
<1> QED
  BY <1>1, <1>2 DEF StackOK, Pop

LEMMA Nested ==
  ASSUME StackOK, NEW t \in Thread, stack[t] # <<>>,
         NEW c \in GoodCall, NEW d \in BelowCall,
         stack' = [stack EXCEPT ![t] = <<c, d>> \o Tail(@)]
  PROVE  /\ StackOK'
         /\ stack'[t] # <<>> /\ Head(stack'[t]) = c
         /\ \A u \in Thread \ {t} : stack'[u] = stack[u]
<1>1. Tail(stack[t]) \in Seq(BelowCall)
  BY DEF StackOK
<1>2. stack'[t] = <<c, d>> \o Tail(stack[t])
  BY DEF StackOK
<1>3. Tail(stack'[t]) = <<d>> \o Tail(stack[t])
  BY <1>1, <1>2
<1>4. <<d>> \o Tail(stack[t]) \in Seq(BelowCall)
  BY <1>1
<1>5. stack'[t] \in Seq(GoodCall) /\ Head(stack'[t]) = c /\ stack'[t] # <<>>
  BY <1>1, <1>2 DEF BelowCall
<1>6. \A u \in Thread \ {t} : stack'[u] = stack[u]
  BY DEF StackOK
<1>7. stack' \in [Thread -> Seq(GoodCall)]
  BY <1>2, <1>5, <1>6 DEF StackOK
<1> QED
  BY <1>3, <1>4, <1>5, <1>6, <1>7 DEF StackOK

\* The innermost call of a thread is a good one.
LEMMA TopGood ==
  ASSUME StackOK, NEW t \in Thread, stack[t] # <<>>
  PROVE  Top(t) \in GoodCall
BY DEF StackOK, Top

\* After these the thread neither holds a task nor ends one.
LEMMA PoppedQuiet ==
  ASSUME StackOK, NEW t \in Thread, stack[t] # <<>>, Pop(t)
  PROVE  /\ StackOK'
         /\ ~Leaving(t)' /\ ~Ending(t)'
         /\ \A u \in Thread \ {t} : stack'[u] = stack[u]
BY Popped DEF Leaving, Ending, At, Top, BelowCall, Below

LEMMA BecameQuiet ==
  ASSUME StackOK, NEW t \in Thread, stack[t] # <<>>, NEW c \in GoodCall, Become(t, c),
         c.pc \notin {"cleanup", "tick_exiting", "notify", "take"}
  PROVE  /\ StackOK'
         /\ ~Leaving(t)' /\ ~Ending(t)'
         /\ \A u \in Thread \ {t} : stack'[u] = stack[u]
BY Became DEF Leaving, Ending, At, Top

\* The call goes on by ending its task.
LEMMA BecameEnding ==
  ASSUME StackOK, NEW t \in Thread, stack[t] # <<>>, NEW c \in GoodCall, Become(t, c),
         c.pc \in {"notify", "take"}
  PROVE  /\ StackOK'
         /\ ~Leaving(t)' /\ Top(t)' = c
         /\ \A u \in Thread \ {t} : stack'[u] = stack[u]
BY Became DEF Leaving, At, Top

LEMMA StackType ==
  ASSUME NEW s \in [Thread -> Seq(GoodCall)]
  PROVE  s \in [Thread -> Seq(Call)]
<1>1. GoodCall \subseteq Call
  BY DEF GoodCall
<1>2. \A t \in Thread : s[t] \in Seq(Call)
  BY <1>1
<1> QED
  BY <1>2

-----------------------------------------------------------------------------
(* Timers *)

LEMMA NanosType ==
  ASSUME NEW x \in Time
  PROVE  Nanos(x) \in Nat
<1>1. x[1] \in Nat /\ x[2] \in Nat
  BY DEF Time
<1>2. x[1] * Nsec \in Nat
  BY <1>1, TaskManagerAssumption
<1> QED
  BY <1>1, <1>2 DEF Nanos

\* Null is no time, so a task without a timer has none to remove.
LEMMA NullIsNoTime == Null \notin Time /\ Forever \in Time
BY TaskManagerAssumption DEF Time, Forever

LEMMA EraseKeepsTimers ==
  ASSUME TypeOK, TimersMatch, NEW m \in Manager, NEW k \in Task, Erase(m, k)
  PROVE  /\ tasks' \in [Manager -> SUBSET Task]
         /\ node' \in [Manager -> [Task -> Time \cup {Null}]]
         /\ timers' \in [Manager -> SUBSET (Time \X Task)]
         /\ TimersMatch'
<1> USE DEF TypeOK, Erase, Erased, TimersWithout
<1>1. /\ tasks' \in [Manager -> SUBSET Task]
      /\ node' \in [Manager -> [Task -> Time \cup {Null}]]
      /\ timers' \in [Manager -> SUBSET (Time \X Task)]
  OBVIOUS
<1>2. TimersMatch'
  <2> SUFFICES ASSUME NEW n \in Manager
               PROVE  timers'[n] =
                        {<<node'[n][k_1], k_1>> : k_1 \in {j \in tasks'[n] : node'[n][j] # Null}}
    BY DEF TimersMatch
  <2>1. timers[n] = {<<node[n][j], j>> : j \in {i \in tasks[n] : node[n][i] # Null}}
    BY DEF TimersMatch
  <2>2. CASE n # m
    BY <2>1, <2>2
  <2>3. CASE n = m
    <3>1. /\ tasks'[m] = tasks[m] \ {k}
          /\ timers'[m] = timers[m] \ {<<node[m][k], k>>}
          /\ \A j \in Task : node'[m][j] = IF j = k THEN Null ELSE node[m][j]
      OBVIOUS
    <3> QED
      BY <2>1, <2>3, <3>1
  <2> QED
    BY <2>2, <2>3
<1> QED
  BY <1>1, <1>2

LEMMA SetKeepsTimers ==
  ASSUME TypeOK, TimersMatch, NEW m \in Manager, NEW k \in Task, NEW timeout \in Time,
         SetTimeoutTimer(m, k, timeout), tasks' = [tasks EXCEPT ![m] = @ \cup {k}]
  PROVE  /\ tasks' \in [Manager -> SUBSET Task]
         /\ node' \in [Manager -> [Task -> Time \cup {Null}]]
         /\ timers' \in [Manager -> SUBSET (Time \X Task)]
         /\ due' \in [Manager -> [Task -> Nat]]
         /\ TimersMatch'
<1> DEFINE expired == IF timeout = Forever THEN Null ELSE ExpiredTime(m, timeout)
<1>1. expired \in Time \cup {Null} /\ (expired = Null <=> timeout = Forever)
  BY NullIsNoTime DEF ExpiredTime, TypeOK, Time
<1>2. Nanos(last_tick[m]) + Nanos(timeout) \in Nat
  <2>1. Nanos(last_tick[m]) \in Nat /\ Nanos(timeout) \in Nat
    BY NanosType DEF TypeOK
  <2> QED
    BY <2>1
<1>3. /\ node' = [node EXCEPT ![m][k] = expired]
      /\ timers' = [timers EXCEPT ![m] = (timers[m] \ {<<node[m][k], k>>})
                      \cup (IF timeout = Forever THEN {} ELSE {<<expired, k>>})]
      /\ due' = [due EXCEPT ![m][k] = Nanos(last_tick[m]) + Nanos(timeout)]
  BY DEF SetTimeoutTimer, TimersWithout
<1> HIDE DEF expired
<1>4. /\ tasks' \in [Manager -> SUBSET Task]
      /\ node' \in [Manager -> [Task -> Time \cup {Null}]]
  BY <1>1, <1>3 DEF TypeOK
<1>5. timers' \in [Manager -> SUBSET (Time \X Task)]
  BY <1>1, <1>3 DEF TypeOK
<1>6. due' \in [Manager -> [Task -> Nat]]
  BY <1>2, <1>3 DEF TypeOK
<1>7. TimersMatch'
  <2> SUFFICES ASSUME NEW n \in Manager
               PROVE  timers'[n] =
                        {<<node'[n][k_1], k_1>> : k_1 \in {j \in tasks'[n] : node'[n][j] # Null}}
    BY DEF TimersMatch
  <2>1. timers[n] = {<<node[n][j], j>> : j \in {i \in tasks[n] : node[n][i] # Null}}
    BY DEF TimersMatch
  <2>2. CASE n # m
    BY <2>1, <2>2, <1>3 DEF TypeOK
  <2>3. CASE n = m
    <3>1. /\ tasks'[m] = tasks[m] \cup {k}
          /\ timers'[m] = (timers[m] \ {<<node[m][k], k>>})
                             \cup (IF timeout = Forever THEN {} ELSE {<<expired, k>>})
          /\ \A j \in Task : node'[m][j] = IF j = k THEN expired ELSE node[m][j]
          /\ tasks[m] \subseteq Task
      BY <1>3 DEF TypeOK
    <3> QED
      BY <2>1, <2>3, <3>1, <1>1
  <2> QED
    BY <2>2, <2>3
<1> QED
  BY <1>4, <1>5, <1>6, <1>7

-----------------------------------------------------------------------------
(* Steps that leave the tables, timers and bindings alone *)

LEMMA QuietKeepsBind ==
  ASSUME IInv, NEW t \in Thread,
         UNCHANGED <<binding, tasks>>,
         \A k \in Task : Exiting(k) => Exiting(k)',
         \A u \in Thread \ {t} : stack'[u] = stack[u],
         ~Leaving(t)',
         Ending(t)' => Exiting(Top(t).task)'
  PROVE  BindInv'
<1>1. ManagedIsBound'
  BY DEF IInv, BindInv, ManagedIsBound, TypeOK
<1>2. \A u \in Thread \ {t} :
        /\ Ending(u)' <=> Ending(u)
        /\ Leaving(u)' <=> Leaving(u)
        /\ Top(u)' = Top(u)
        /\ Ending(u) \/ Leaving(u) => Top(u).task \in Task
  <2> SUFFICES ASSUME NEW u \in Thread \ {t}
               PROVE  /\ Ending(u)' <=> Ending(u)
                      /\ Leaving(u)' <=> Leaving(u)
                      /\ Top(u)' = Top(u)
                      /\ Ending(u) \/ Leaving(u) => Top(u).task \in Task
    OBVIOUS
  <2>1. stack'[u] = stack[u]
    OBVIOUS
  <2>2. Ending(u) \/ Leaving(u) => Top(u).task \in Task
    BY TopGood DEF Ending, Leaving, At, IInv, GoodCall, OfTask
  <2> QED
    BY <2>1, <2>2 DEF Ending, Leaving, At, Top
<1>3. \A u \in Thread : Ending(u)' => Exiting(Top(u).task)'
  BY <1>2 DEF IInv, BindInv, Exiting
<1>4. \A u \in Thread : Leaving(u)' =>
        \/ Exiting(Top(u).task)'
        \/ /\ binding'[Top(u)'.task] = Top(u)'.mgr
           /\ \A m \in Manager : Top(u)'.task \notin tasks'[m]
  BY <1>2 DEF IInv, BindInv, Exiting
<1>5. \A u, v \in Thread :
        u # v /\ Leaving(u)' /\ Leaving(v)' /\ Top(u)'.task = Top(v)'.task
          => Exiting(Top(u).task)'
  BY <1>2 DEF IInv, BindInv, Exiting
<1> QED
  BY <1>1, <1>3, <1>4, <1>5 DEF BindInv

LEMMA QuietInv ==
  ASSUME IInv, NEW t \in Thread, StackOK',
         UNCHANGED <<binding, tasks, node, timers>>,
         status' \in [Task -> CREATED..TIMEOUT],
         done' \in [Task -> BOOLEAN],
         last_tick' \in [Manager -> Time],
         flags' \in [Manager -> SUBSET {"tick", "reset"}],
         alive' \in [Manager -> BOOLEAN],
         due' \in [Manager -> [Task -> Nat]],
         yields' \in [Task -> 0..MaxYield],
         calls' \in 0..MaxCall,
         \A k \in Task : Exiting(k) => Exiting(k)',
         \A u \in Thread \ {t} : stack'[u] = stack[u],
         ~Leaving(t)',
         Ending(t)' => Exiting(Top(t).task)'
  PROVE  IInv'
<1>1. BindInv'
  BY QuietKeepsBind
<1>2. TypeOK'
  <2>1. stack' \in [Thread -> Seq(Call)]
    BY StackType DEF StackOK
  <2> QED
    BY <2>1 DEF IInv, TypeOK
<1>3. TimersMatch'
  BY DEF IInv, TimersMatch
<1> QED
  BY <1>1, <1>2, <1>3 DEF IInv

-----------------------------------------------------------------------------
(* Calls *)

LEMMA NewCallGood ==
  ASSUME NEW l \in Label, NEW m \in Manager \cup {Null}, NEW k \in Task \cup {Null},
         l \in OfManager => m \in Manager,
         l \in OfTask => k \in Task,
         l \notin {"finish", "cleanup", "add"} \cup OfTick
  PROVE  /\ NewCall(l, m, k) \in GoodCall
         /\ NewCall(l, m, k).pc = l /\ NewCall(l, m, k).task = k
BY NullIsNoTime DEF NewCall, GoodCall, OfTick, Call, End

LEMMA EndCallGood ==
  ASSUME NEW l \in {"finish", "cleanup"}, NEW m \in Manager \cup {Null}, NEW k \in Task,
         l = "cleanup" => m \in Manager,
         NEW e \in {"canceled", "killed", "timeout", "remove"},
         l # "cleanup" => e # "remove"
  PROVE  /\ [NewCall(l, m, k) EXCEPT !.end = e] \in GoodCall
         /\ [NewCall(l, m, k) EXCEPT !.end = e].pc = l
         /\ [NewCall(l, m, k) EXCEPT !.end = e].task = k
         /\ [NewCall(l, m, k) EXCEPT !.end = e].mgr = m
BY NullIsNoTime DEF NewCall, GoodCall, OfTick, Call, End, Label, OfManager, OfTask

\* A call that goes on with another step of the same kind.
LEMMA RelabelGood ==
  ASSUME NEW c \in GoodCall, NEW l \in Label,
         l \in OfManager => c.mgr \in Manager,
         l \in OfTask => c.task \in Task,
         l \in {"finish", "tick_exiting"} => c.end \in {"canceled", "killed", "timeout"},
         l = "cleanup" => c.end \in {"canceled", "killed", "timeout", "remove"},
         l \in OfTick => c.time \in Clock,
         l # "add",
         c.pc # "reset_kill"
  PROVE  /\ [c EXCEPT !.pc = l] \in GoodCall
         /\ [c EXCEPT !.pc = l].pc = l /\ [c EXCEPT !.pc = l].task = c.task
         /\ [c EXCEPT !.pc = l].mgr = c.mgr
BY DEF GoodCall, OfTick, Call

-----------------------------------------------------------------------------
(* Quiet steps: calls of the client *)

LEMMA AddTaskInv ==
  ASSUME IInv, NEW t \in Thread, NEW m \in Manager, NEW k \in Task,
         NEW timeout \in Timeout, AddTask(t, m, k, timeout)
  PROVE  IInv'
<1> DEFINE c == [NewCall("add", m, k) EXCEPT !.time = timeout]
<1>1. c \in GoodCall /\ c.pc = "add"
  BY TaskManagerAssumption DEF NewCall, GoodCall, OfTick, Call, End, Label, OfManager, OfTask, Time
<1>2. StackOK' /\ stack'[t] # <<>> /\ Head(stack'[t]) = c
      /\ \A u \in Thread \ {t} : stack'[u] = stack[u]
  BY <1>1, Pushed DEF AddTask, NextCall, IInv
<1>3. ~Leaving(t)' /\ ~Ending(t)'
  BY <1>1, <1>2 DEF Leaving, Ending, At, Top
<1>4. calls' \in 0..MaxCall
  BY TaskManagerAssumption DEF AddTask, NextCall, IInv, TypeOK
<1> QED
  BY <1>2, <1>3, <1>4, QuietInv
  DEF AddTask, IInv, TypeOK, taskVars, mgrVars, Exiting

LEMMA StartInv ==
  ASSUME IInv, NEW t \in Thread, NEW m \in Manager \cup {Null}, NEW k \in Task,
         Start(t, m, k)
  PROVE  IInv'
<1> DEFINE c == NewCall("start", m, k)
<1>1. c \in GoodCall /\ c.pc = "start"
  BY NewCallGood DEF Label, OfManager, OfTask, OfTick
<1>2. StackOK' /\ stack'[t] # <<>> /\ Head(stack'[t]) = c
      /\ \A u \in Thread \ {t} : stack'[u] = stack[u]
  BY <1>1, Pushed DEF Start, NextCall, IInv
<1>3. ~Leaving(t)' /\ ~Ending(t)'
  BY <1>1, <1>2 DEF Leaving, Ending, At, Top
<1>4. calls' \in 0..MaxCall
  BY TaskManagerAssumption DEF Start, NextCall, IInv, TypeOK
<1> QED
  BY <1>2, <1>3, <1>4, QuietInv
  DEF Start, IInv, TypeOK, taskVars, mgrVars, Exiting

LEMMA RemoveTaskInv ==
  ASSUME IInv, NEW t \in Thread, NEW m \in Manager, NEW k \in Task,
         RemoveTask(t, m, k)
  PROVE  IInv'
<1> DEFINE c == NewCall("remove", m, k)
<1>1. c \in GoodCall /\ c.pc = "remove"
  BY NewCallGood DEF Label, OfManager, OfTask, OfTick
<1>2. StackOK' /\ stack'[t] # <<>> /\ Head(stack'[t]) = c
      /\ \A u \in Thread \ {t} : stack'[u] = stack[u]
  BY <1>1, Pushed DEF RemoveTask, NextCall, IInv
<1>3. ~Leaving(t)' /\ ~Ending(t)'
  BY <1>1, <1>2 DEF Leaving, Ending, At, Top
<1>4. calls' \in 0..MaxCall
  BY TaskManagerAssumption DEF RemoveTask, NextCall, IInv, TypeOK
<1> QED
  BY <1>2, <1>3, <1>4, QuietInv
  DEF RemoveTask, IInv, TypeOK, taskVars, mgrVars, Exiting

LEMMA ResetInv ==
  ASSUME IInv, NEW m \in Manager, NEW end \in {"none", "destroy"}, Reset(m, end)
  PROVE  IInv'
<1> DEFINE t == Ticker
           c == [NewCall("reset", m, Null) EXCEPT !.end = end]
<1>1. c \in GoodCall /\ c.pc = "reset"
  BY NullIsNoTime DEF NewCall, GoodCall, OfTick, Call, End, Label, OfManager, OfTask
<1>2. t \in Thread
  BY TaskManagerAssumption
<1>3. StackOK' /\ stack'[t] # <<>> /\ Head(stack'[t]) = c
      /\ \A u \in Thread \ {t} : stack'[u] = stack[u]
  BY <1>1, <1>2, Pushed DEF Reset, TakeFlag, NextCall, IInv
<1>4. ~Leaving(t)' /\ ~Ending(t)'
  BY <1>1, <1>3 DEF Leaving, Ending, At, Top
<1>5. flags' \in [Manager -> SUBSET {"tick", "reset"}] /\ calls' \in 0..MaxCall
  BY TaskManagerAssumption DEF Reset, TakeFlag, NextCall, IInv, TypeOK
<1> QED
  BY <1>2, <1>3, <1>4, <1>5, QuietInv
  DEF Reset, TakeFlag, IInv, TypeOK, taskVars, Exiting

-----------------------------------------------------------------------------
(* Quiet steps: of a task *)

LEMMA StartTaskInv ==
  ASSUME IInv, NEW t \in Thread, StartTask(t)
  PROVE  IInv'
<1> DEFINE k == Top(t).task
           return == [Top(t) EXCEPT !.pc = "check"]
<1>1. Top(t) \in GoodCall /\ stack[t] # <<>> /\ Top(t).pc = "start"
  BY TopGood DEF StartTask, At, IInv
<1>2. k \in Task
  BY <1>1 DEF GoodCall, OfTick, OfTask
<1>3. return \in BelowCall /\ return \in GoodCall /\ return.pc = "check"
  BY <1>1, <1>2, RelabelGood DEF Label, OfManager, OfTask, OfTick, BelowCall, Below
<1>4. CASE /\ status[k] \in {CREATED, WAITING}
           /\ status' = [status EXCEPT ![k] = RUNNING]
           /\ stack' = [stack EXCEPT ![t] = <<NewCall("run", Null, k), return>> \o Tail(@)]
  <2> DEFINE c == NewCall("run", Null, k)
  <2>1. c \in GoodCall /\ c.pc = "run"
    BY <1>2, NewCallGood DEF Label, OfManager, OfTask, OfTick
  <2>2. StackOK' /\ stack'[t] # <<>> /\ Head(stack'[t]) = c
        /\ \A u \in Thread \ {t} : stack'[u] = stack[u]
    BY <1>1, <1>3, <1>4, <2>1, Nested DEF IInv
  <2>3. ~Leaving(t)' /\ ~Ending(t)'
    BY <2>1, <2>2 DEF Leaving, Ending, At, Top
  <2>4. status' \in [Task -> CREATED..TIMEOUT] /\ \A j \in Task : Exiting(j) => Exiting(j)'
    BY <1>2, <1>4 DEF IInv, TypeOK, Exiting, CREATED, RUNNING, WAITING, DONE, TIMEOUT
  <2> QED
    BY <2>2, <2>3, <2>4, QuietInv DEF StartTask, IInv, TypeOK, mgrVars
<1>5. CASE Become(t, return) /\ UNCHANGED status
  <2>1. StackOK' /\ stack'[t] # <<>> /\ Head(stack'[t]) = return
        /\ \A u \in Thread \ {t} : stack'[u] = stack[u]
    BY <1>1, <1>3, <1>5, Became DEF IInv
  <2>2. ~Leaving(t)' /\ ~Ending(t)'
    BY <1>3, <2>1 DEF Leaving, Ending, At, Top
  <2> QED
    BY <1>5, <2>1, <2>2, QuietInv DEF StartTask, IInv, TypeOK, mgrVars, Exiting
<1> QED
  BY <1>4, <1>5 DEF StartTask

LEMMA CheckInv ==
  ASSUME IInv, NEW t \in Thread, Check(t)
  PROVE  IInv'
<1>1. Top(t) \in GoodCall /\ stack[t] # <<>> /\ Top(t).pc = "check"
  BY TopGood DEF Check, At, IInv
<1>2. CASE Pop(t)
  <2>1. StackOK' /\ ~Leaving(t)' /\ ~Ending(t)' /\ \A u \in Thread \ {t} : stack'[u] = stack[u]
    BY <1>1, <1>2, PoppedQuiet DEF IInv
  <2> QED
    BY <2>1, QuietInv DEF Check, IInv, TypeOK, taskVars, mgrVars, Exiting
<1>3. CASE Top(t).mgr # Null /\ Become(t, NewCall("remove", Top(t).mgr, Top(t).task))
  <2> DEFINE c == NewCall("remove", Top(t).mgr, Top(t).task)
  <2>1. c \in GoodCall /\ c.pc = "remove"
    BY <1>1, <1>3, NewCallGood DEF GoodCall, OfTick, Call, Label, OfManager, OfTask
  <2>2. StackOK' /\ ~Leaving(t)' /\ ~Ending(t)' /\ \A u \in Thread \ {t} : stack'[u] = stack[u]
    BY <1>1, <1>3, <2>1, BecameQuiet DEF IInv
  <2> QED
    BY <2>2, QuietInv DEF Check, IInv, TypeOK, taskVars, mgrVars, Exiting
<1> QED
  BY <1>2, <1>3 DEF Check

LEMMA ReadStatusInv ==
  ASSUME IInv, NEW t \in Thread, ReadStatus(t)
  PROVE  IInv'
<1>1. Top(t) \in GoodCall /\ stack[t] # <<>> /\ Top(t).pc = "read"
  BY TopGood DEF ReadStatus, At, IInv
<1>2. CASE Pop(t)
  <2>1. StackOK' /\ ~Leaving(t)' /\ ~Ending(t)' /\ \A u \in Thread \ {t} : stack'[u] = stack[u]
    BY <1>1, <1>2, PoppedQuiet DEF IInv
  <2> QED
    BY <2>1, QuietInv DEF ReadStatus, IInv, TypeOK, taskVars, mgrVars, Exiting
<1>3. CASE Become(t, [Top(t) EXCEPT !.pc = "finish", !.end = "killed"])
  <2> DEFINE c == [Top(t) EXCEPT !.pc = "finish", !.end = "killed"]
  <2>1. c \in GoodCall /\ c.pc = "finish"
    BY <1>1 DEF GoodCall, OfTick, Call, Label, End, OfManager, OfTask
  <2>2. StackOK' /\ ~Leaving(t)' /\ ~Ending(t)' /\ \A u \in Thread \ {t} : stack'[u] = stack[u]
    BY <1>1, <1>3, <2>1, BecameQuiet DEF IInv
  <2> QED
    BY <2>2, QuietInv DEF ReadStatus, IInv, TypeOK, taskVars, mgrVars, Exiting
<1> QED
  BY <1>2, <1>3 DEF ReadStatus

LEMMA FinishTaskInv ==
  ASSUME IInv, NEW t \in Thread, FinishTask(t)
  PROVE  IInv'
<1> DEFINE k == Top(t).task
           c == NewCall("notify", Null, k)
<1>1. Top(t) \in GoodCall /\ stack[t] # <<>> /\ Top(t).pc = "finish"
  BY TopGood DEF FinishTask, At, IInv
<1>2. k \in Task /\ Top(t).end \in {"canceled", "killed", "timeout"}
  BY <1>1 DEF GoodCall, OfTick, OfTask
<1>3. Final[Top(t).end] \in DONE..TIMEOUT
  BY <1>2 DEF Final, DONE, CANCELED, KILLED, TIMEOUT
<1> HIDE DEF k
<1>4. /\ status' \in [Task -> CREATED..TIMEOUT]
      /\ \A j \in Task : Exiting(j) => Exiting(j)'
      /\ status[k] # RUNNING => status'[k] >= DONE
  <2>1. CASE UNCHANGED status /\ status[k] = RUNNING
    BY <2>1 DEF IInv, TypeOK, Exiting
  <2>2. CASE status' = [status EXCEPT ![k] = Final[Top(t).end]]
    <3> DEFINE e == Final[Top(t).end]
    <3>1. e \in CREATED..TIMEOUT /\ e >= DONE
      BY <1>3 DEF CREATED, DONE, TIMEOUT
    <3> HIDE DEF e
    <3>2. status' = [status EXCEPT ![k] = e]
      BY <2>2 DEF e
    <3> QED
      BY <1>2, <3>1, <3>2 DEF IInv, TypeOK, Exiting
  <2> QED
    BY <2>1, <2>2 DEF FinishTask, k
<1> USE DEF k
<1>5. CASE Pop(t)
  <2>1. StackOK' /\ ~Leaving(t)' /\ ~Ending(t)' /\ \A u \in Thread \ {t} : stack'[u] = stack[u]
    BY <1>1, <1>5, PoppedQuiet DEF IInv
  <2> QED
    BY <1>4, <2>1, QuietInv DEF FinishTask, IInv, TypeOK, mgrVars
<1>6. CASE status[k] # RUNNING /\ Become(t, c)
  <2>1. c \in GoodCall /\ c.pc = "notify" /\ c.task = k
    BY <1>2, NewCallGood DEF Label, OfManager, OfTask, OfTick
  <2>2. StackOK' /\ ~Leaving(t)' /\ Top(t)' = c /\ \A u \in Thread \ {t} : stack'[u] = stack[u]
    BY <1>1, <1>6, <2>1, BecameEnding DEF IInv
  <2>3. Exiting(Top(t).task)'
    BY <1>4, <1>6, <2>1, <2>2 DEF Exiting
  <2> QED
    BY <1>4, <2>2, <2>3, QuietInv DEF FinishTask, IInv, TypeOK, mgrVars
<1> QED
  BY <1>5, <1>6 DEF FinishTask

LEMMA YieldInv ==
  ASSUME IInv, NEW t \in Thread, Yield(t)
  PROVE  IInv'
<1> DEFINE k == Top(t).task
           c == NewCall("notify", Null, k)
<1>1. Top(t) \in GoodCall /\ stack[t] # <<>> /\ Top(t).pc = "run"
  BY TopGood DEF Yield, At, IInv
<1>2. k \in Task
  BY <1>1 DEF GoodCall, OfTick, OfTask
<1>3. yields' \in [Task -> 0..MaxYield]
  BY <1>2, TaskManagerAssumption DEF Yield, IInv, TypeOK
<1>4. CASE Exiting(k) /\ Become(t, c) /\ UNCHANGED status
  <2>1. c \in GoodCall /\ c.pc = "notify" /\ c.task = k
    BY <1>2, NewCallGood DEF Label, OfManager, OfTask, OfTick
  <2>2. StackOK' /\ ~Leaving(t)' /\ Top(t)' = c /\ \A u \in Thread \ {t} : stack'[u] = stack[u]
    BY <1>1, <1>4, <2>1, BecameEnding DEF IInv
  <2>3. Exiting(Top(t).task)'
    BY <1>4, <2>1, <2>2 DEF Exiting
  <2>4. \A j \in Task : Exiting(j) => Exiting(j)'
    BY <1>4 DEF Exiting
  <2> QED
    BY <1>3, <1>4, <2>2, <2>3, <2>4, QuietInv DEF Yield, IInv, TypeOK, mgrVars
<1>5. CASE ~Exiting(k) /\ status' = [status EXCEPT ![k] = WAITING] /\ Pop(t)
  <2>1. StackOK' /\ ~Leaving(t)' /\ ~Ending(t)' /\ \A u \in Thread \ {t} : stack'[u] = stack[u]
    BY <1>1, <1>5, PoppedQuiet DEF IInv
  <2>2. status' \in [Task -> CREATED..TIMEOUT] /\ \A j \in Task : Exiting(j) => Exiting(j)'
    BY <1>2, <1>5 DEF IInv, TypeOK, Exiting, CREATED, WAITING, DONE, TIMEOUT
  <2> QED
    BY <1>3, <2>1, <2>2, QuietInv DEF Yield, IInv, TypeOK, mgrVars
<1> QED
  BY <1>4, <1>5 DEF Yield

LEMMA ReturnInv ==
  ASSUME IInv, NEW t \in Thread, Return(t)
  PROVE  IInv'
<1> DEFINE k == Top(t).task
           c == NewCall("notify", Null, k)
<1>1. Top(t) \in GoodCall /\ stack[t] # <<>> /\ Top(t).pc = "run"
  BY TopGood DEF Return, At, IInv
<1>2. k \in Task
  BY <1>1 DEF GoodCall, OfTick, OfTask
<1>3. /\ status' \in [Task -> CREATED..TIMEOUT]
      /\ done' \in [Task -> BOOLEAN]
      /\ \A j \in Task : Exiting(j) => Exiting(j)'
      /\ status'[k] >= DONE
  <2> DEFINE e == IF status[k] < DONE THEN DONE ELSE status[k]
  <2>1. e \in CREATED..TIMEOUT /\ e >= DONE
    BY <1>2 DEF IInv, TypeOK, CREATED, DONE, TIMEOUT
  <2>2. status' = [status EXCEPT ![k] = e] /\ done' = [done EXCEPT ![k] = TRUE]
    BY DEF Return
  <2> HIDE DEF e, k
  <2> QED
    BY <1>2, <2>1, <2>2 DEF IInv, TypeOK, Exiting
<1>4. c \in GoodCall /\ c.pc = "notify" /\ c.task = k
  BY <1>2, NewCallGood DEF Label, OfManager, OfTask, OfTick
<1>5. StackOK' /\ ~Leaving(t)' /\ Top(t)' = c /\ \A u \in Thread \ {t} : stack'[u] = stack[u]
  BY <1>1, <1>4, BecameEnding DEF Return, IInv
<1>6. Exiting(Top(t).task)'
  BY <1>3, <1>4, <1>5 DEF Exiting
<1> QED
  BY <1>3, <1>5, <1>6, QuietInv DEF Return, IInv, TypeOK, mgrVars

LEMMA NotifyInv ==
  ASSUME IInv, NEW t \in Thread, Notify(t)
  PROVE  IInv'
<1> DEFINE k == Top(t).task
<1>1. Top(t) \in GoodCall /\ stack[t] # <<>> /\ Top(t).pc = "notify"
  BY TopGood DEF Notify, At, IInv
<1>2. k \in Task /\ Exiting(k)
  BY <1>1 DEF GoodCall, OfTick, OfTask, IInv, BindInv, Ending, At
<1>3. CASE Goto(t, "take")
  <2> DEFINE c == [Top(t) EXCEPT !.pc = "take"]
  <2>1. c \in GoodCall /\ c.pc = "take" /\ c.task = k
    BY <1>1, <1>2 DEF GoodCall, OfTick, Call, Label, OfManager, OfTask
  <2>2. StackOK' /\ ~Leaving(t)' /\ Top(t)' = c /\ \A u \in Thread \ {t} : stack'[u] = stack[u]
    BY <1>1, <1>3, <2>1, BecameEnding DEF IInv, Goto
  <2>3. Exiting(Top(t).task)'
    BY <1>2, <2>1, <2>2 DEF Exiting, Notify, taskVars
  <2> QED
    BY <2>2, <2>3, QuietInv DEF Notify, IInv, TypeOK, taskVars, mgrVars, Exiting
<1>4. CASE Become(t, [NewCall("run", Null, k) EXCEPT !.end = "last_run"])
  <2> DEFINE c == [NewCall("run", Null, k) EXCEPT !.end = "last_run"]
  <2>1. c \in GoodCall /\ c.pc = "run"
    BY <1>2, NullIsNoTime DEF NewCall, GoodCall, OfTick, Call, Label, End, OfManager, OfTask
  <2>2. StackOK' /\ ~Leaving(t)' /\ ~Ending(t)' /\ \A u \in Thread \ {t} : stack'[u] = stack[u]
    BY <1>1, <1>4, <2>1, BecameQuiet DEF IInv
  <2> QED
    BY <2>2, QuietInv DEF Notify, IInv, TypeOK, taskVars, mgrVars, Exiting
<1> QED
  BY <1>3, <1>4 DEF Notify

-----------------------------------------------------------------------------
(* Quiet steps: of a tick and of a reset *)

LEMMA TickEmptyInv ==
  ASSUME IInv, NEW t \in Thread, TickEmpty(t)
  PROVE  IInv'
<1>1. Top(t) \in GoodCall /\ stack[t] # <<>> /\ Top(t).pc = "tick"
  BY TopGood DEF TickEmpty, At, IInv
<1>2. PICK l \in {"tick_end", "tick_locked"} : Become(t, [Top(t) EXCEPT !.pc = l])
  BY DEF TickEmpty, Goto
<1>3. [Top(t) EXCEPT !.pc = l] \in GoodCall /\ [Top(t) EXCEPT !.pc = l].pc = l
  BY <1>1 DEF GoodCall, OfTick, Call, Label, OfManager, OfTask
<1>4. StackOK' /\ ~Leaving(t)' /\ ~Ending(t)' /\ \A u \in Thread \ {t} : stack'[u] = stack[u]
  BY <1>1, <1>2, <1>3, BecameQuiet DEF IInv
<1> QED
  BY <1>4, QuietInv DEF TickEmpty, IInv, TypeOK, taskVars, mgrVars, Exiting

LEMMA TickEndInv ==
  ASSUME IInv, NEW t \in Thread, TickEnd(t)
  PROVE  IInv'
<1>1. Top(t) \in GoodCall /\ stack[t] # <<>> /\ Top(t).pc = "tick_end"
  BY TopGood DEF TickEnd, At, IInv
<1>2. Top(t).mgr \in Manager /\ Top(t).time \in Time
  BY <1>1 DEF GoodCall, OfTick, Call, OfManager
<1>3. last_tick' \in [Manager -> Time] /\ flags' \in [Manager -> SUBSET {"tick", "reset"}]
  BY <1>2 DEF TickEnd, IInv, TypeOK
<1>4. StackOK' /\ ~Leaving(t)' /\ ~Ending(t)' /\ \A u \in Thread \ {t} : stack'[u] = stack[u]
  BY <1>1, PoppedQuiet DEF TickEnd, IInv
<1> QED
  BY <1>3, <1>4, QuietInv DEF TickEnd, IInv, TypeOK, taskVars, Exiting

LEMMA ResetKillInv ==
  ASSUME IInv, NEW t \in Thread, ResetKill(t)
  PROVE  IInv'
<1> DEFINE c == Top(t)
           rest(k) == [c EXCEPT !.todo = @ \ {k}]
<1>1. c \in GoodCall /\ stack[t] # <<>> /\ c.pc = "reset_kill"
  BY TopGood DEF ResetKill, At, IInv
<1>2. c.todo \subseteq Task /\ c.mgr \in Manager
  BY <1>1 DEF GoodCall, OfTick, Call, OfManager
<1>3. alive' \in [Manager -> BOOLEAN]
  BY <1>2 DEF ResetKill, IInv, TypeOK
<1>4. \A k \in c.todo : rest(k) \in BelowCall /\ rest(k) \in GoodCall /\ rest(k).pc = "reset_kill"
  BY <1>1, <1>2 DEF GoodCall, OfTick, Call, BelowCall, Below, OfTask
<1>5. StackOK' /\ ~Leaving(t)' /\ ~Ending(t)' /\ \A u \in Thread \ {t} : stack'[u] = stack[u]
  <2>1. CASE Pop(t)
    BY <1>1, <2>1, PoppedQuiet DEF IInv
  <2>2. ASSUME NEW k \in c.todo, Become(t, rest(k))
        PROVE  StackOK' /\ ~Leaving(t)' /\ ~Ending(t)'
               /\ \A u \in Thread \ {t} : stack'[u] = stack[u]
    <3> HIDE DEF c, rest
    <3> QED
      BY <1>1, <1>4, <2>2, BecameQuiet DEF IInv
  <2>3. ASSUME NEW k \in c.todo,
               stack' = [stack EXCEPT ![t] =
                 <<[NewCall("finish", Null, k) EXCEPT !.end = "killed"], rest(k)>> \o Tail(@)]
        PROVE  StackOK' /\ ~Leaving(t)' /\ ~Ending(t)'
               /\ \A u \in Thread \ {t} : stack'[u] = stack[u]
    <3> DEFINE d == [NewCall("finish", Null, k) EXCEPT !.end = "killed"]
    <3>1. d \in GoodCall /\ d.pc = "finish"
      BY <1>2, NullIsNoTime DEF NewCall, GoodCall, OfTick, Call, End, Label, OfManager, OfTask
    <3> HIDE DEF d
    <3>2. StackOK' /\ stack'[t] # <<>> /\ Head(stack'[t]) = d
          /\ \A u \in Thread \ {t} : stack'[u] = stack[u]
      <4>1. stack' = [stack EXCEPT ![t] = <<d, rest(k)>> \o Tail(@)]
        BY <2>3 DEF d
      <4> HIDE DEF rest
      <4> QED
        BY <1>1, <1>4, <3>1, <4>1, Nested DEF IInv
    <3> QED
      BY <3>1, <3>2 DEF Leaving, Ending, At, Top
  <2> QED
    BY <2>1, <2>2, <2>3 DEF ResetKill
<1> QED
  BY <1>3, <1>5, QuietInv DEF ResetKill, IInv, TypeOK, taskVars, Exiting

-----------------------------------------------------------------------------
(* Steps that take tasks out of tables *)

LEMMA Others ==
  ASSUME IInv, NEW t \in Thread, \A u \in Thread \ {t} : stack'[u] = stack[u]
  PROVE  \A u \in Thread \ {t} :
           /\ Ending(u)' <=> Ending(u)
           /\ Leaving(u)' <=> Leaving(u)
           /\ Top(u)' = Top(u)
           /\ Ending(u) \/ Leaving(u) => Top(u).task \in Task /\ Top(u) \in GoodCall
<1> SUFFICES ASSUME NEW u \in Thread \ {t}
             PROVE  /\ Ending(u)' <=> Ending(u)
                    /\ Leaving(u)' <=> Leaving(u)
                    /\ Top(u)' = Top(u)
                    /\ Ending(u) \/ Leaving(u) => Top(u).task \in Task /\ Top(u) \in GoodCall
  OBVIOUS
<1>1. stack'[u] = stack[u]
  OBVIOUS
<1>2. Ending(u) \/ Leaving(u) => Top(u).task \in Task /\ Top(u) \in GoodCall
  BY TopGood DEF Ending, Leaving, At, IInv, GoodCall, OfTick, OfTask
<1> QED
  BY <1>1, <1>2 DEF Ending, Leaving, At, Top

\* The thread may leave with a task that it took out, if nobody else holds it.
LEMMA ShrinkKeepsBind ==
  ASSUME IInv, NEW t \in Thread,
         UNCHANGED <<binding, status>>,
         \A m \in Manager : tasks'[m] \subseteq tasks[m],
         \A u \in Thread \ {t} : stack'[u] = stack[u],
         ~Ending(t)',
         Leaving(t)' =>
           /\ Top(t)'.task \in Task
           /\ \/ Exiting(Top(t).task)'
              \/ /\ binding[Top(t)'.task] = Top(t)'.mgr
                 /\ \A m \in Manager : Top(t)'.task \notin tasks'[m]
                 /\ \A u \in Thread \ {t} : Leaving(u) => Top(u).task # Top(t)'.task
  PROVE  BindInv'
<1>1. ManagedIsBound'
  BY DEF IInv, BindInv, ManagedIsBound, Exiting
<1>2. \A u \in Thread \ {t} :
        /\ Ending(u)' <=> Ending(u)
        /\ Leaving(u)' <=> Leaving(u)
        /\ Top(u)' = Top(u)
        /\ Ending(u) \/ Leaving(u) => Top(u).task \in Task /\ Top(u) \in GoodCall
  BY Others
<1>3. \A u \in Thread : Ending(u)' => Exiting(Top(u).task)'
  BY <1>2 DEF IInv, BindInv, Exiting
<1>4. \A u \in Thread : Leaving(u)' =>
        \/ Exiting(Top(u).task)'
        \/ /\ binding'[Top(u)'.task] = Top(u)'.mgr
           /\ \A m \in Manager : Top(u)'.task \notin tasks'[m]
  BY <1>2 DEF IInv, BindInv, Exiting
<1>5. \A u, v \in Thread :
        u # v /\ Leaving(u)' /\ Leaving(v)' /\ Top(u)'.task = Top(v)'.task
          => Exiting(Top(u).task)'
  BY <1>2 DEF IInv, BindInv, Exiting
<1> QED
  BY <1>1, <1>3, <1>4, <1>5 DEF BindInv

\* The binding of one task may change if no other thread is leaving with it.
LEMMA BindKeepsBind ==
  ASSUME IInv, NEW t \in Thread, NEW k \in Task, NEW b \in Manager \cup {Null},
         binding' = [binding EXCEPT ![k] = b],
         UNCHANGED status,
         \A m \in Manager : tasks'[m] \ {k} \subseteq tasks[m],
         ~Exiting(k) => \A m \in Manager : k \in tasks'[m] => b = m,
         ~Exiting(k) => \A u \in Thread \ {t} : Leaving(u) => Top(u).task # k,
         \A u \in Thread \ {t} : stack'[u] = stack[u],
         ~Leaving(t)', ~Ending(t)'
  PROVE  BindInv'
<1>0. \A m \in Manager : tasks[m] \subseteq Task
  BY DEF IInv, TypeOK
<1>1. ManagedIsBound'
  BY <1>0 DEF IInv, BindInv, ManagedIsBound, Exiting, TypeOK
<1>2. \A u \in Thread \ {t} :
        /\ Ending(u)' <=> Ending(u)
        /\ Leaving(u)' <=> Leaving(u)
        /\ Top(u)' = Top(u)
        /\ Ending(u) \/ Leaving(u) => Top(u).task \in Task /\ Top(u) \in GoodCall
  BY Others
<1>3. \A u \in Thread : Ending(u)' => Exiting(Top(u).task)'
  BY <1>2 DEF IInv, BindInv, Exiting
<1>4. \A u \in Thread : Leaving(u)' =>
        \/ Exiting(Top(u).task)'
        \/ /\ binding'[Top(u)'.task] = Top(u)'.mgr
           /\ \A m \in Manager : Top(u)'.task \notin tasks'[m]
  <2> SUFFICES ASSUME NEW u \in Thread \ {t}, Leaving(u), ~Exiting(Top(u).task)
               PROVE  /\ binding'[Top(u).task] = Top(u).mgr
                      /\ \A m \in Manager : Top(u).task \notin tasks'[m]
    BY <1>2 DEF Exiting
  <2>1. Top(u).task \in Task /\ Top(u).task # k
    BY <1>2
  <2>2. /\ binding[Top(u).task] = Top(u).mgr
        /\ \A m \in Manager : Top(u).task \notin tasks[m]
    BY DEF IInv, BindInv
  <2> QED
    BY <2>1, <2>2 DEF IInv, TypeOK
<1>5. \A u, v \in Thread :
        u # v /\ Leaving(u)' /\ Leaving(v)' /\ Top(u)'.task = Top(v)'.task
          => Exiting(Top(u).task)'
  BY <1>2 DEF IInv, BindInv, Exiting
<1> QED
  BY <1>1, <1>3, <1>4, <1>5 DEF BindInv

LEMMA EraseToEndInv ==
  ASSUME IInv, NEW t \in Thread, NEW m \in Manager, NEW k \in Task,
         NEW end \in {"killed", "canceled"}, EraseToEnd(t, m, k, end)
  PROVE  IInv'
<1> DEFINE c == [NewCall("cleanup", m, k) EXCEPT !.end = end]
<1>1. c \in GoodCall /\ c.pc = "cleanup" /\ c.task = k /\ c.mgr = m
  BY NullIsNoTime DEF NewCall, GoodCall, OfTick, Call, End, Label, OfManager, OfTask
<1>2. Push(t, c) /\ Erase(m, k) /\ k \in tasks[m] /\ InClient(t)
  BY DEF EraseToEnd, Found, NextCall
<1> HIDE DEF c
<1>3. /\ StackOK'
      /\ stack'[t] # <<>> /\ Head(stack'[t]) = c
      /\ \A u \in Thread \ {t} : stack'[u] = stack[u]
  BY <1>1, <1>2, Pushed DEF IInv
<1>4. Top(t)' = c /\ ~Ending(t)'
  BY <1>1, <1>3 DEF Ending, At, Top
<1>5. calls' \in 0..MaxCall
  BY TaskManagerAssumption DEF EraseToEnd, Found, NextCall, IInv, TypeOK
<1>6. /\ tasks' \in [Manager -> SUBSET Task]
      /\ node' \in [Manager -> [Task -> Time \cup {Null}]]
      /\ timers' \in [Manager -> SUBSET (Time \X Task)]
      /\ TimersMatch'
  BY <1>2, EraseKeepsTimers DEF IInv
<1>7. UNCHANGED <<binding, status>>
  BY DEF EraseToEnd, taskVars
<1>8. /\ \A n \in Manager : tasks'[n] \subseteq tasks[n]
      /\ k \notin tasks'[m]
  BY <1>2 DEF Erase, Erased, IInv, TypeOK
<1>9. Exiting(k) \/ /\ binding[k] = m
                    /\ \A n \in Manager : k \notin tasks'[n]
                    /\ \A u \in Thread \ {t} : Leaving(u) => Top(u).task # k
  BY <1>2, <1>8 DEF IInv, BindInv, ManagedIsBound
<1>10. BindInv'
  BY <1>1, <1>3, <1>4, <1>7, <1>8, <1>9, ShrinkKeepsBind DEF Exiting
<1>11. stack' \in [Thread -> Seq(Call)]
  BY <1>3, StackType DEF StackOK
<1> QED
  BY <1>3, <1>5, <1>6, <1>10, <1>11 DEF EraseToEnd, Found, IInv, TypeOK, taskVars

LEMMA RemoveInv ==
  ASSUME IInv, NEW t \in Thread, Remove(t)
  PROVE  IInv'
<1>1. Top(t) \in GoodCall /\ stack[t] # <<>> /\ Top(t).pc = "remove"
  BY TopGood DEF Remove, At, IInv
<1>2. PICK m \in Manager : m = Top(t).mgr
  BY <1>1 DEF GoodCall, OfTick, OfManager
<1>3. PICK k \in Task : k = Top(t).task
  BY <1>1 DEF GoodCall, OfTick, OfTask
<1>4. CASE Pop(t) /\ UNCHANGED <<tasks, timers, node>>
  <2>1. StackOK' /\ ~Leaving(t)' /\ ~Ending(t)' /\ \A u \in Thread \ {t} : stack'[u] = stack[u]
    BY <1>1, <1>4, PoppedQuiet DEF IInv
  <2> QED
    BY <1>4, <2>1, QuietInv DEF Remove, IInv, TypeOK, taskVars, Exiting
<1>5. CASE /\ k \in tasks[m] /\ Erase(m, k)
           /\ Become(t, [NewCall("cleanup", m, k) EXCEPT !.end = "remove"])
  <2> DEFINE c == [NewCall("cleanup", m, k) EXCEPT !.end = "remove"]
  <2>1. c \in GoodCall /\ c.pc = "cleanup" /\ c.task = k /\ c.mgr = m
    BY NullIsNoTime DEF NewCall, GoodCall, OfTick, Call, End, Label, OfManager, OfTask
  <2>2. Become(t, c)
    BY <1>5
  <2> HIDE DEF c
  <2>3. /\ StackOK'
        /\ stack'[t] # <<>> /\ Head(stack'[t]) = c
        /\ \A u \in Thread \ {t} : stack'[u] = stack[u]
    BY <1>1, <2>1, <2>2, Became DEF IInv
  <2>4. Top(t)' = c /\ ~Ending(t)'
    BY <2>1, <2>3 DEF Ending, At, Top
  <2>5. /\ tasks' \in [Manager -> SUBSET Task]
        /\ node' \in [Manager -> [Task -> Time \cup {Null}]]
        /\ timers' \in [Manager -> SUBSET (Time \X Task)]
        /\ TimersMatch'
    BY <1>5, EraseKeepsTimers DEF IInv
  <2>6. UNCHANGED <<binding, status>>
    BY DEF Remove, taskVars
  <2>7. /\ \A n \in Manager : tasks'[n] \subseteq tasks[n]
        /\ k \notin tasks'[m]
    BY <1>5 DEF Erase, Erased, IInv, TypeOK
  <2>8. Exiting(k) \/ /\ binding[k] = m
                      /\ \A n \in Manager : k \notin tasks'[n]
                      /\ \A u \in Thread \ {t} : Leaving(u) => Top(u).task # k
    BY <1>5, <2>7 DEF IInv, BindInv, ManagedIsBound
  <2>9. BindInv'
    BY <2>1, <2>3, <2>4, <2>6, <2>7, <2>8, ShrinkKeepsBind DEF Exiting
  <2>10. stack' \in [Thread -> Seq(Call)]
    BY <2>3, StackType DEF StackOK
  <2> QED
    BY <2>3, <2>5, <2>9, <2>10 DEF Remove, IInv, TypeOK, taskVars
<1> QED
  BY <1>2, <1>3, <1>4, <1>5 DEF Remove

LEMMA TickLockedInv ==
  ASSUME IInv, NEW t \in Thread, TickLocked(t)
  PROVE  IInv'
<1>1. Top(t) \in GoodCall /\ stack[t] # <<>> /\ Top(t).pc = "tick_locked"
  BY TopGood DEF TickLocked, At, IInv
<1>2. PICK m \in Manager : m = Top(t).mgr
  BY <1>1 DEF GoodCall, OfTick, OfManager
<1>3. PICK now \in Clock : now = Top(t).time /\ now \in Time
  BY <1>1 DEF GoodCall, OfTick, Call
<1>4. ASSUME UNCHANGED <<tasks, timers, node>>, NEW l \in {"tick", "tick_end"}, Goto(t, l)
      PROVE  IInv'
  <2> DEFINE c == [Top(t) EXCEPT !.pc = l]
  <2>1. c \in GoodCall /\ c.pc = l
    BY <1>1 DEF GoodCall, OfTick, Call, Label, OfManager, OfTask
  <2>2. StackOK' /\ ~Leaving(t)' /\ ~Ending(t)' /\ \A u \in Thread \ {t} : stack'[u] = stack[u]
    BY <1>1, <1>4, <2>1, BecameQuiet DEF IInv, Goto
  <2> QED
    BY <1>4, <2>2, QuietInv DEF TickLocked, IInv, TypeOK, taskVars, Exiting
<1>5. ASSUME NEW k \in Task, k \in tasks[m], Erase(m, k),
             stack' = [stack EXCEPT ![t] =
               <<[NewCall("tick_exiting", m, k) EXCEPT !.end = "timeout", !.time = now],
                 [Top(t) EXCEPT !.pc = "tick"]>> \o Tail(@)]
      PROVE  IInv'
  <2> DEFINE c == [NewCall("tick_exiting", m, k) EXCEPT !.end = "timeout", !.time = now]
             d == [Top(t) EXCEPT !.pc = "tick"]
  <2>1. c \in GoodCall /\ c.pc = "tick_exiting" /\ c.task = k /\ c.mgr = m
    BY <1>3 DEF NewCall, GoodCall, OfTick, Call, End, Label, OfManager, OfTask
  <2>2. d \in BelowCall
    BY <1>1 DEF GoodCall, OfTick, Call, Label, OfManager, OfTask, BelowCall, Below
  <2>3. stack' = [stack EXCEPT ![t] = <<c, d>> \o Tail(@)]
    BY <1>5
  <2> HIDE DEF c, d
  <2>4. /\ StackOK'
        /\ stack'[t] # <<>> /\ Head(stack'[t]) = c
        /\ \A u \in Thread \ {t} : stack'[u] = stack[u]
    BY <1>1, <2>1, <2>2, <2>3, Nested DEF IInv
  <2>5. Top(t)' = c /\ ~Ending(t)'
    BY <2>1, <2>4 DEF Ending, At, Top
  <2>6. /\ tasks' \in [Manager -> SUBSET Task]
        /\ node' \in [Manager -> [Task -> Time \cup {Null}]]
        /\ timers' \in [Manager -> SUBSET (Time \X Task)]
        /\ TimersMatch'
    BY <1>5, EraseKeepsTimers DEF IInv
  <2>7. UNCHANGED <<binding, status>>
    BY DEF TickLocked, taskVars
  <2>8. /\ \A n \in Manager : tasks'[n] \subseteq tasks[n]
        /\ k \notin tasks'[m]
    BY <1>5 DEF Erase, Erased, IInv, TypeOK
  <2>9. Exiting(k) \/ /\ binding[k] = m
                      /\ \A n \in Manager : k \notin tasks'[n]
                      /\ \A u \in Thread \ {t} : Leaving(u) => Top(u).task # k
    BY <1>5, <2>8 DEF IInv, BindInv, ManagedIsBound
  <2>10. BindInv'
    BY <2>1, <2>4, <2>5, <2>7, <2>8, <2>9, ShrinkKeepsBind DEF Exiting
  <2>11. stack' \in [Thread -> Seq(Call)]
    BY <2>4, StackType DEF StackOK
  <2> QED
    BY <2>4, <2>6, <2>10, <2>11 DEF TickLocked, IInv, TypeOK, taskVars
<1>6. \A x \in Earliest(m) : x[2] \in Task
  BY DEF Earliest, IInv, TypeOK
<1> QED
  BY <1>2, <1>3, <1>4, <1>5, <1>6 DEF TickLocked

\* The task is taken out still; only the label changes.
LEMMA TickExitingInv ==
  ASSUME IInv, NEW t \in Thread, TickExiting(t)
  PROVE  IInv'
<1>1. Top(t) \in GoodCall /\ stack[t] # <<>> /\ Top(t).pc = "tick_exiting"
  BY TopGood DEF TickExiting, At, IInv
<1>2. CASE Pop(t)
  <2>1. StackOK' /\ ~Leaving(t)' /\ ~Ending(t)' /\ \A u \in Thread \ {t} : stack'[u] = stack[u]
    BY <1>1, <1>2, PoppedQuiet DEF IInv
  <2> QED
    BY <2>1, QuietInv DEF TickExiting, IInv, TypeOK, taskVars, mgrVars, Exiting
<1>3. CASE ~Exiting(Top(t).task) /\ Goto(t, "cleanup")
  <2> DEFINE c == [Top(t) EXCEPT !.pc = "cleanup"]
  <2>1. c \in GoodCall /\ c.pc = "cleanup" /\ c.task = Top(t).task /\ c.mgr = Top(t).mgr
        /\ c.task \in Task
    BY <1>1 DEF GoodCall, OfTick, Call, Label, OfManager, OfTask
  <2>2. Become(t, c)
    BY <1>3 DEF Goto
  <2> HIDE DEF c
  <2>3. /\ StackOK'
        /\ stack'[t] # <<>> /\ Head(stack'[t]) = c
        /\ \A u \in Thread \ {t} : stack'[u] = stack[u]
    BY <1>1, <2>1, <2>2, Became DEF IInv
  <2>4. Top(t)' = c /\ ~Ending(t)'
    BY <2>1, <2>3 DEF Ending, At, Top
  <2>5. UNCHANGED <<binding, status, tasks>>
    BY DEF TickExiting, taskVars, mgrVars
  <2>6. Leaving(t)
    BY <1>1 DEF Leaving, At
  <2>7. /\ binding[Top(t).task] = Top(t).mgr
        /\ \A n \in Manager : Top(t).task \notin tasks[n]
        /\ \A u \in Thread \ {t} : Leaving(u) => Top(u).task # Top(t).task
    BY <1>3, <2>6 DEF IInv, BindInv
  <2>8. BindInv'
    BY <2>1, <2>3, <2>4, <2>5, <2>7, ShrinkKeepsBind
  <2>9. stack' \in [Thread -> Seq(Call)]
    BY <2>3, StackType DEF StackOK
  <2> QED
    BY <2>3, <2>8, <2>9 DEF TickExiting, IInv, TypeOK, TimersMatch, taskVars, mgrVars
<1> QED
  BY <1>2, <1>3 DEF TickExiting

LEMMA ResetLockedInv ==
  ASSUME IInv, NEW t \in Thread, ResetLocked(t)
  PROVE  IInv'
<1>1. Top(t) \in GoodCall /\ stack[t] # <<>> /\ Top(t).pc = "reset"
  BY TopGood DEF ResetLocked, At, IInv
<1>2. PICK m \in Manager : m = Top(t).mgr
  BY <1>1 DEF GoodCall, OfTick, OfManager
<1> DEFINE c == [Top(t) EXCEPT !.pc = "reset_kill", !.todo = tasks[m]]
<1>3. c \in GoodCall /\ c.pc = "reset_kill"
  BY <1>1, <1>2 DEF GoodCall, OfTick, Call, Label, OfManager, OfTask, IInv, TypeOK
<1>4. Become(t, c)
  BY <1>2 DEF ResetLocked
<1> HIDE DEF c
<1>5. StackOK' /\ ~Leaving(t)' /\ ~Ending(t)' /\ \A u \in Thread \ {t} : stack'[u] = stack[u]
  BY <1>1, <1>3, <1>4, BecameQuiet DEF IInv
<1>6. /\ tasks' \in [Manager -> SUBSET Task]
      /\ node' \in [Manager -> [Task -> Time \cup {Null}]]
      /\ timers' \in [Manager -> SUBSET (Time \X Task)]
      /\ flags' \in [Manager -> SUBSET {"tick", "reset"}]
      /\ last_tick' \in [Manager -> Time]
  BY <1>2, NullIsNoTime DEF ResetLocked, IInv, TypeOK, Forever
<1>7. \A n \in Manager : tasks'[n] \subseteq tasks[n]
  BY <1>2 DEF ResetLocked, IInv, TypeOK
<1>8. BindInv'
  BY <1>5, <1>7, ShrinkKeepsBind DEF ResetLocked, taskVars
<1>9. TimersMatch'
  <2> SUFFICES ASSUME NEW n \in Manager
               PROVE  timers'[n] = {<<node'[n][k], k>> : k \in {j \in tasks'[n] : node'[n][j] # Null}}
    BY DEF TimersMatch
  <2>1. CASE n # m
    BY <1>2, <2>1 DEF ResetLocked, IInv, TypeOK, TimersMatch
  <2>2. CASE n = m
    BY <1>2, <2>2 DEF ResetLocked, IInv, TypeOK
  <2> QED
    BY <2>1, <2>2
<1>10. stack' \in [Thread -> Seq(Call)]
  BY <1>5, StackType DEF StackOK
<1> QED
  BY <1>5, <1>6, <1>8, <1>9, <1>10 DEF ResetLocked, IInv, TypeOK, taskVars

-----------------------------------------------------------------------------
(* Steps that change a binding *)

LEMMA CleanupInv ==
  ASSUME IInv, NEW t \in Thread, Cleanup(t)
  PROVE  IInv'
<1>1. Top(t) \in GoodCall /\ stack[t] # <<>> /\ Top(t).pc = "cleanup"
  BY TopGood DEF Cleanup, At, IInv
<1>2. PICK k \in Task : k = Top(t).task
  BY <1>1 DEF GoodCall, OfTick, OfTask
<1>3. PICK l \in {"read", "finish"} :
        Goto(t, l) /\ (l = "finish" => Top(t).end # "remove")
  BY DEF Cleanup
<1>4. [Top(t) EXCEPT !.pc = l] \in GoodCall /\ [Top(t) EXCEPT !.pc = l].pc = l
  BY <1>1, <1>3 DEF GoodCall, OfTick, Call, Label, OfManager, OfTask
<1>5. StackOK' /\ ~Leaving(t)' /\ ~Ending(t)' /\ \A u \in Thread \ {t} : stack'[u] = stack[u]
  BY <1>1, <1>3, <1>4, BecameQuiet DEF IInv, Goto
<1>6. PICK b \in Manager \cup {Null} : binding' = [binding EXCEPT ![k] = b]
  BY <1>2 DEF Cleanup, CleanedUp, IInv, TypeOK
<1>7. Leaving(t)
  BY <1>1 DEF Leaving, At
<1>8. ~Exiting(k) => /\ \A m \in Manager : k \notin tasks[m]
                     /\ \A u \in Thread \ {t} : Leaving(u) => Top(u).task # k
  BY <1>2, <1>7 DEF IInv, BindInv
<1>9. UNCHANGED <<status, tasks>>
  BY DEF Cleanup, taskVars, mgrVars
<1>10. BindInv'
  BY <1>5, <1>6, <1>8, <1>9, BindKeepsBind
<1>11. stack' \in [Thread -> Seq(Call)]
  BY <1>5, StackType DEF StackOK
<1>12. binding' \in [Task -> Manager \cup {Null}]
  BY <1>6 DEF IInv, TypeOK
<1>13. TimersMatch'
  BY DEF Cleanup, IInv, TimersMatch, mgrVars
<1> QED
  BY <1>5, <1>10, <1>11, <1>12, <1>13 DEF Cleanup, IInv, TypeOK, taskVars, mgrVars

LEMMA TakeInv ==
  ASSUME IInv, NEW t \in Thread, Take(t)
  PROVE  IInv'
<1>1. Top(t) \in GoodCall /\ stack[t] # <<>> /\ Top(t).pc = "take"
  BY TopGood DEF Take, At, IInv
<1>2. PICK k \in Task : k = Top(t).task
  BY <1>1 DEF GoodCall, OfTick, OfTask
<1>3. Exiting(k)
  BY <1>1, <1>2 DEF IInv, BindInv, Ending, At
<1>4. StackOK' /\ ~Leaving(t)' /\ ~Ending(t)' /\ \A u \in Thread \ {t} : stack'[u] = stack[u]
  <2>1. CASE Pop(t)
    BY <1>1, <2>1, PoppedQuiet DEF IInv
  <2>2. CASE binding[k] # Null /\ Become(t, NewCall("remove", binding[k], k))
    <3> DEFINE c == NewCall("remove", binding[k], k)
    <3>1. c \in GoodCall /\ c.pc = "remove"
      BY <2>2, NullIsNoTime DEF NewCall, GoodCall, OfTick, Call, End,
        Label, OfManager, OfTask, IInv, TypeOK
    <3>2. Become(t, c)
      BY <2>2
    <3> HIDE DEF c
    <3> QED
      BY <1>1, <3>1, <3>2, BecameQuiet DEF IInv
  <2> QED
    BY <1>2, <2>1, <2>2 DEF Take, Callback
<1>5. binding' = [binding EXCEPT ![k] = Null] /\ UNCHANGED <<status, tasks>>
  BY <1>2 DEF Take, taskVars, mgrVars
<1>6. BindInv'
  BY <1>3, <1>4, <1>5, BindKeepsBind
<1>7. stack' \in [Thread -> Seq(Call)]
  BY <1>4, StackType DEF StackOK
<1>8. binding' \in [Task -> Manager \cup {Null}]
  BY <1>5 DEF IInv, TypeOK
<1>9. TimersMatch'
  BY DEF Take, IInv, TimersMatch, mgrVars
<1> QED
  BY <1>4, <1>6, <1>7, <1>8, <1>9 DEF Take, IInv, TypeOK, taskVars, mgrVars

LEMMA AddLockedInv ==
  ASSUME IInv, NEW t \in Thread, AddLocked(t)
  PROVE  IInv'
<1>1. Top(t) \in GoodCall /\ stack[t] # <<>> /\ Top(t).pc = "add"
  BY TopGood DEF AddLocked, At, IInv
<1>2. PICK m \in Manager : m = Top(t).mgr
  BY <1>1 DEF GoodCall, OfTick, OfManager
<1>3. PICK k \in Task : k = Top(t).task
  BY <1>1 DEF GoodCall, OfTick, OfTask
<1>4. PICK timeout \in Time : timeout = Top(t).time
  BY <1>1 DEF GoodCall, OfTick, Call
<1>5. StackOK' /\ ~Leaving(t)' /\ ~Ending(t)' /\ \A u \in Thread \ {t} : stack'[u] = stack[u]
  BY <1>1, PoppedQuiet DEF AddLocked, IInv
<1>6. CASE UNCHANGED <<binding, tasks, node, timers, due>>
  BY <1>5, <1>6, QuietInv DEF AddLocked, IInv, TypeOK, taskVars, Exiting
<1>7. CASE /\ binding[k] = Null
           /\ binding' = [binding EXCEPT ![k] = m]
           /\ tasks' = [tasks EXCEPT ![m] = @ \cup {k}]
           /\ SetTimeoutTimer(m, k, timeout)
  <2>1. /\ tasks' \in [Manager -> SUBSET Task]
        /\ node' \in [Manager -> [Task -> Time \cup {Null}]]
        /\ timers' \in [Manager -> SUBSET (Time \X Task)]
        /\ due' \in [Manager -> [Task -> Nat]]
        /\ TimersMatch'
    BY <1>7, SetKeepsTimers DEF IInv
  <2>2. UNCHANGED status
    BY DEF AddLocked, taskVars
  <2>3. ASSUME ~Exiting(k), NEW n \in Manager, k \in tasks'[n]
        PROVE  n = m
    BY <1>7, <2>3, NullIsNoTime, TaskManagerAssumption DEF IInv, TypeOK, BindInv, ManagedIsBound
  <2>4. ASSUME ~Exiting(k), NEW u \in Thread \ {t}, Leaving(u)
        PROVE  Top(u).task # k
    <3>1. Top(u) \in GoodCall /\ Top(u).mgr \in Manager
      BY <2>4, TopGood DEF Leaving, At, IInv, GoodCall, OfTick, OfManager
    <3>2. Null \notin Manager
      BY TaskManagerAssumption
    <3> QED
      BY <1>7, <2>4, <3>1, <3>2 DEF IInv, BindInv
  <2>5. \A n \in Manager : tasks'[n] \ {k} \subseteq tasks[n]
    BY <1>7 DEF IInv, TypeOK
  <2>6. BindInv'
    BY <1>5, <1>7, <2>2, <2>3, <2>4, <2>5, BindKeepsBind
  <2>7. stack' \in [Thread -> Seq(Call)] /\ binding' \in [Task -> Manager \cup {Null}]
    BY <1>5, <1>7, StackType DEF StackOK, IInv, TypeOK
  <2> QED
    BY <1>5, <2>1, <2>6, <2>7 DEF AddLocked, IInv, TypeOK, taskVars
<1> QED
  BY <1>2, <1>3, <1>4, <1>6, <1>7 DEF AddLocked, Unbound

-----------------------------------------------------------------------------
(* Steps that change the timers alone *)

LEMMA SetTimeoutInv ==
  ASSUME IInv, NEW t \in Thread, NEW m \in Manager, NEW k \in Task,
         NEW timeout \in Timeout, SetTimeout(t, m, k, timeout)
  PROVE  IInv'
<1>1. timeout \in Time
  BY TaskManagerAssumption DEF Time
<1>2. tasks' = [tasks EXCEPT ![m] = @ \cup {k}]
  BY DEF SetTimeout, Found, IInv, TypeOK
<1>3. /\ node' \in [Manager -> [Task -> Time \cup {Null}]]
      /\ timers' \in [Manager -> SUBSET (Time \X Task)]
      /\ due' \in [Manager -> [Task -> Nat]]
      /\ TimersMatch'
  BY <1>1, <1>2, SetKeepsTimers DEF SetTimeout, Found, IInv
<1>4. calls' \in 0..MaxCall
  BY TaskManagerAssumption DEF SetTimeout, NextCall, IInv, TypeOK
<1>5. BindInv' /\ StackOK'
  BY DEF SetTimeout, taskVars, IInv, BindInv, ManagedIsBound, StackOK, Exiting, Leaving, Ending,
         At, Top
<1> QED
  BY <1>3, <1>4, <1>5 DEF SetTimeout, Found, IInv, TypeOK, taskVars

LEMMA TickInv ==
  ASSUME IInv, NEW m \in Manager, NEW now \in Clock, Tick(m, now)
  PROVE  IInv'
<1> DEFINE t == Ticker
<1>1. now \in Time /\ t \in Thread
  BY TaskManagerAssumption DEF Time
<1>2. CASE /\ flags' = [flags EXCEPT ![m] = @ \cup {"tick"}]
           /\ Push(t, [NewCall("tick", m, Null) EXCEPT !.time = now])
           /\ UNCHANGED <<timers, node, due, last_tick>>
  <2> DEFINE c == [NewCall("tick", m, Null) EXCEPT !.time = now]
  <2>1. c \in GoodCall /\ c.pc = "tick"
    BY <1>1 DEF NewCall, GoodCall, OfTick, Call, End, Label, OfManager, OfTask
  <2>2. Push(t, c) /\ InClient(t)
    BY <1>2 DEF Tick
  <2> HIDE DEF c
  <2>3. StackOK' /\ stack'[t] # <<>> /\ Head(stack'[t]) = c
        /\ \A u \in Thread \ {t} : stack'[u] = stack[u]
    BY <1>1, <2>1, <2>2, Pushed DEF IInv
  <2>4. ~Leaving(t)' /\ ~Ending(t)'
    BY <2>1, <2>3 DEF Leaving, Ending, At, Top
  <2>5. flags' \in [Manager -> SUBSET {"tick", "reset"}]
    BY <1>2 DEF IInv, TypeOK
  <2> QED
    BY <1>1, <1>2, <2>3, <2>4, <2>5, QuietInv DEF Tick, IInv, TypeOK, taskVars, Exiting
<1>3. CASE /\ timers' = [timers EXCEPT ![m] = {<<Rebased(x[1], now), x[2]>> : x \in @}]
           /\ node' = [node EXCEPT ![m] = [k \in Task |->
                IF node[m][k] = Null THEN Null ELSE Rebased(node[m][k], now)]]
           /\ due' = [due EXCEPT ![m] = [k \in Task |->
                IF node[m][k] = Null THEN due[m][k] ELSE due[m][k] + Nanos(now)]]
           /\ last_tick' = [last_tick EXCEPT ![m] = now]
           /\ UNCHANGED <<flags, stack>>
  <2>1. \A x \in Time : Rebased(x, now) \in Time
    BY <1>1 DEF Time, Rebased
  <2>2. due' \in [Manager -> [Task -> Nat]]
    <3>1. Nanos(now) \in Nat
      BY <1>1, NanosType
    <3>2. \A k \in Task : due[m][k] \in Nat /\ due[m][k] + Nanos(now) \in Nat
      BY <3>1 DEF IInv, TypeOK
    <3> QED
      BY <1>3, <3>2 DEF IInv, TypeOK
  <2>3. node' \in [Manager -> [Task -> Time \cup {Null}]]
    BY <1>3, <2>1 DEF IInv, TypeOK
  <2>4. timers' \in [Manager -> SUBSET (Time \X Task)]
    BY <1>3, <2>1 DEF IInv, TypeOK
  <2>5. last_tick' \in [Manager -> Time]
    BY <1>1, <1>3 DEF IInv, TypeOK
  <2>6. UNCHANGED <<status, tasks, binding, stack>>
    BY <1>3 DEF Tick, taskVars
  <2>7. TimersMatch'
    <3> SUFFICES ASSUME NEW n \in Manager
                 PROVE  timers'[n] =
                          {<<node'[n][k], k>> : k \in {j \in tasks'[n] : node'[n][j] # Null}}
      BY DEF TimersMatch
    <3>1. timers[n] = {<<node[n][k], k>> : k \in {j \in tasks[n] : node[n][j] # Null}}
      BY DEF IInv, TimersMatch
    <3>2. CASE n # m
      BY <1>3, <2>6, <3>1, <3>2 DEF IInv, TypeOK
    <3>3. CASE n = m
      <4>1. timers'[m] = {<<Rebased(x[1], now), x[2]>> : x \in timers[m]}
        BY <1>3 DEF IInv, TypeOK
      <4>2. \A k \in Task : node'[m][k] =
              IF node[m][k] = Null THEN Null ELSE Rebased(node[m][k], now)
        BY <1>3 DEF IInv, TypeOK
      <4>3. \A k \in Task : node'[m][k] # Null <=> node[m][k] # Null
        BY <2>1, <4>2, NullIsNoTime DEF IInv, TypeOK
      <4>4. tasks[m] \subseteq Task /\ tasks'[m] = tasks[m]
        BY <2>6 DEF IInv, TypeOK
      <4>5. timers'[m] = {<<Rebased(node[m][k], now), k>> :
                            k \in {j \in tasks[m] : node[m][j] # Null}}
        <5>1. timers[m] = {<<node[m][k], k>> : k \in {j \in tasks[m] : node[m][j] # Null}}
          BY <3>1, <3>3
        <5>2. \A x \in timers[m] : \E k \in tasks[m] : node[m][k] # Null /\ x = <<node[m][k], k>>
          BY <5>1
        <5>3. \A k \in tasks[m] : node[m][k] # Null => <<node[m][k], k>> \in timers[m]
          BY <5>1
        <5> DEFINE after == {<<Rebased(node[m][k], now), k>> :
                               k \in {j \in tasks[m] : node[m][j] # Null}}
        <5>4. ASSUME NEW y \in timers'[m] PROVE y \in after
          <6>1. PICK x \in timers[m] : y = <<Rebased(x[1], now), x[2]>>
            BY <4>1
          <6>2. PICK k \in tasks[m] : node[m][k] # Null /\ x = <<node[m][k], k>>
            BY <5>2
          <6> QED
            BY <6>1, <6>2
        <5>5. ASSUME NEW y \in after PROVE y \in timers'[m]
          <6>1. PICK k \in tasks[m] : node[m][k] # Null /\ y = <<Rebased(node[m][k], now), k>>
            OBVIOUS
          <6>2. <<node[m][k], k>> \in timers[m]
            BY <5>3, <6>1
          <6> QED
            BY <4>1, <6>1, <6>2
        <5> QED
          BY <5>4, <5>5
      <4> QED
        BY <3>3, <4>2, <4>3, <4>4, <4>5
    <3> QED
      BY <3>2, <3>3
  <2>8. BindInv' /\ StackOK'
    BY <2>6 DEF IInv, BindInv, ManagedIsBound, StackOK, Exiting, Leaving, Ending, At, Top
  <2> QED
    BY <1>3, <2>2, <2>3, <2>4, <2>5, <2>7, <2>8 DEF Tick, IInv, TypeOK, taskVars
<1> QED
  BY <1>2, <1>3 DEF Tick, TakeFlag

-----------------------------------------------------------------------------

LEMMA InitInv == Init => IInv
<1> SUFFICES ASSUME Init PROVE IInv
  OBVIOUS
<1>1. TypeOK
  <2>1. /\ status \in [Task -> CREATED..TIMEOUT]
        /\ calls \in 0..MaxCall /\ yields \in [Task -> 0..MaxYield]
    BY TaskManagerAssumption DEF Init, CREATED, TIMEOUT
  <2> QED
    BY <2>1 DEF Init, TypeOK, Time
<1>2. StackOK
  BY DEF Init, StackOK
<1>3. TimersMatch
  BY DEF Init, TimersMatch
<1>4. BindInv
  BY DEF Init, BindInv, ManagedIsBound, Leaving, Ending, At
<1> QED
  BY <1>1, <1>2, <1>3, <1>4 DEF IInv

LEMMA ClientInv ==
  ASSUME IInv, NEW t \in Thread, Client(t)
  PROVE  IInv'
<1>1. ASSUME NEW m \in Manager, NEW k \in Task,
             \/ \E timeout \in Timeout : AddTask(t, m, k, timeout) \/ SetTimeout(t, m, k, timeout)
             \/ RemoveTask(t, m, k) \/ Kill(t, m, k) \/ Cancel(t, m, k)
      PROVE  IInv'
  BY <1>1, AddTaskInv, SetTimeoutInv, RemoveTaskInv, EraseToEndInv DEF Kill, Cancel
<1>2. ASSUME NEW m \in Manager \cup {Null}, NEW k \in Task, Start(t, m, k)
      PROVE  IInv'
  BY <1>2, StartInv
<1>3. CASE Yield(t)
  BY <1>3, YieldInv
<1> QED
  BY <1>1, <1>2, <1>3 DEF Client

LEMMA ProceedInv ==
  ASSUME IInv, NEW t \in Thread, Proceed(t)
  PROVE  IInv'
<1>1. CASE AddLocked(t) \/ StartTask(t) \/ Check(t)
  BY <1>1, AddLockedInv, StartTaskInv, CheckInv
<1>2. CASE Remove(t) \/ Cleanup(t) \/ ReadStatus(t) \/ FinishTask(t)
  BY <1>2, RemoveInv, CleanupInv, ReadStatusInv, FinishTaskInv
<1>3. CASE Return(t) \/ Notify(t) \/ Take(t)
  BY <1>3, ReturnInv, NotifyInv, TakeInv
<1>4. CASE TickEmpty(t) \/ TickLocked(t) \/ TickExiting(t) \/ TickEnd(t)
  BY <1>4, TickEmptyInv, TickLockedInv, TickExitingInv, TickEndInv
<1>5. CASE ResetLocked(t) \/ ResetKill(t)
  BY <1>5, ResetLockedInv, ResetKillInv
<1> QED
  BY <1>1, <1>2, <1>3, <1>4, <1>5 DEF Proceed

LEMMA StutterInv == IInv /\ UNCHANGED vars => IInv'
BY DEF vars, taskVars, mgrVars, IInv, TypeOK, StackOK, TimersMatch, BindInv, ManagedIsBound,
       Exiting, Leaving, Ending, At, Top

LEMMA StepInv == IInv /\ [Next]_vars => IInv'
<1> SUFFICES ASSUME IInv, [Next]_vars PROVE IInv'
  OBVIOUS
<1>1. ASSUME NEW t \in Thread, Proceed(t) \/ Client(t) PROVE IInv'
  BY <1>1, ProceedInv, ClientInv
<1>2. ASSUME NEW m \in Manager, NEW now \in Clock, Tick(m, now) PROVE IInv'
  BY <1>2, TickInv
<1>3. ASSUME NEW m \in Manager, NEW end \in {"none", "destroy"}, Reset(m, end) PROVE IInv'
  BY <1>3, ResetInv
<1>4. CASE Stopped \/ UNCHANGED vars
  BY <1>4, StutterInv DEF Stopped
<1> QED
  BY <1>1, <1>2, <1>3, <1>4 DEF Next

\* The invariant of every manager, in every run of any number of threads.
THEOREM Invariant == Spec => []IInv
<1>1. Init => IInv
  BY InitInv
<1>2. IInv /\ [Next]_vars => IInv'
  BY StepInv
<1> QED
  BY <1>1, <1>2, PTL DEF Spec

\* Every variable has its type: in particular a timer is never the null one.
THEOREM TypeCorrect == Spec => []TypeOK
<1>1. IInv => TypeOK
  BY DEF IInv
<1> QED
  BY <1>1, Invariant, PTL

\* The timers of a manager are exactly those its tasks remember, so that tick()
\* never drops a timer without its task nor a task without its timer.
THEOREM TimersAgree == Spec => []TimersMatch
<1>1. IInv => TimersMatch
  BY DEF IInv
<1> QED
  BY <1>1, Invariant, PTL

\* A task in the table of a manager is bound to it until it is over: it is in no
\* second table, however its end, its removal and its addition race.
THEOREM ManagedTasksAreBound == Spec => []ManagedIsBound
<1>1. IInv => ManagedIsBound
  BY DEF IInv, BindInv
<1> QED
  BY <1>1, Invariant, PTL

-----------------------------------------------------------------------------
(* What the calls in progress have to themselves *)

\* A call holds a task that it has taken out of a table, or is to kill; and the run of
\* an action is one call.
Holds(c) ==
  c.todo \cup (IF c.pc \in {"cleanup", "tick_exiting", "read", "finish"} THEN {c.task} ELSE {})

\* The task that a call runs, what it claims of the tasks, and those it names at all.
Runs(c) == IF c.pc = "run" THEN {c.task} ELSE {}
Claims(c) == (Holds(c) \X {"hold"}) \cup (c.todo \X {"todo"}) \cup (Runs(c) \X {"run"})
Names(c) == {c.task} \cup c.todo

\* The same for the calls of a thread, of which no two claim the same.
SeqClaims(s) == UNION {Claims(s[i]) : i \in DOMAIN s}
SeqNames(s) == UNION {Names(s[i]) : i \in DOMAIN s}
SeqApart(s) == \A i, j \in DOMAIN s : i # j => Claims(s[i]) \cap Claims(s[j]) = {}

Owned(t) == SeqClaims(stack[t])
Named(t) == SeqNames(stack[t])

\* No two calls of any threads claim the same of a task.
Alone ==
  /\ \A t \in Thread : SeqApart(stack[t])
  /\ \A t, u \in Thread : t # u => Owned(t) \cap Owned(u) = {}

LEMMA OnTop ==
  ASSUME NEW s \in Seq(GoodCall), NEW c \in GoodCall
  PROVE  /\ SeqClaims(<<c>> \o s) = Claims(c) \cup SeqClaims(s)
         /\ SeqNames(<<c>> \o s) = Names(c) \cup SeqNames(s)
         /\ SeqApart(<<c>> \o s) <=> SeqApart(s) /\ Claims(c) \cap SeqClaims(s) = {}
<1> DEFINE r == <<c>> \o s
<1>1. /\ DOMAIN r = 1..(Len(s) + 1) /\ DOMAIN s = 1..Len(s) /\ Len(s) \in Nat
      /\ r[1] = c /\ \A i \in DOMAIN s : r[i + 1] = s[i]
  OBVIOUS
<1> HIDE DEF r
<1>2. \A i \in DOMAIN r : i = 1 \/ (i - 1 \in DOMAIN s /\ r[i] = s[i - 1])
  <2> SUFFICES ASSUME NEW i \in DOMAIN r, i # 1 PROVE i - 1 \in DOMAIN s /\ r[i] = s[i - 1]
    OBVIOUS
  <2>1. i - 1 \in DOMAIN s /\ (i - 1) + 1 = i
    BY <1>1
  <2> QED
    BY <1>1, <2>1
<1>3. \A i \in DOMAIN s : i + 1 \in DOMAIN r /\ i + 1 # 1 /\ r[i + 1] = s[i]
  BY <1>1
<1>4. 1 \in DOMAIN r
  BY <1>1
<1>5. SeqClaims(r) = Claims(c) \cup SeqClaims(s) /\ SeqNames(r) = Names(c) \cup SeqNames(s)
  BY <1>1, <1>2, <1>3, <1>4 DEF SeqClaims, SeqNames
<1>6. ASSUME SeqApart(r) PROVE SeqApart(s) /\ Claims(c) \cap SeqClaims(s) = {}
  <2>1. ASSUME NEW i \in DOMAIN s, NEW j \in DOMAIN s, i # j
        PROVE  Claims(s[i]) \cap Claims(s[j]) = {}
    <3>1. i + 1 # j + 1
      BY <1>1, <2>1
    <3> QED
      BY <1>3, <1>6, <3>1 DEF SeqApart
  <2>2. \A i \in DOMAIN s : Claims(c) \cap Claims(s[i]) = {}
    BY <1>1, <1>3, <1>4, <1>6 DEF SeqApart
  <2> QED
    BY <2>1, <2>2 DEF SeqApart, SeqClaims
<1>7. ASSUME SeqApart(s), Claims(c) \cap SeqClaims(s) = {} PROVE SeqApart(r)
  <2>1. \A i \in DOMAIN s : Claims(c) \cap Claims(s[i]) = {}
    BY <1>7 DEF SeqClaims
  <2> SUFFICES ASSUME NEW i \in DOMAIN r, NEW j \in DOMAIN r, i # j
               PROVE  Claims(r[i]) \cap Claims(r[j]) = {}
    BY DEF SeqApart
  <2>2. CASE i = 1
    BY <1>1, <1>2, <2>1, <2>2
  <2>3. CASE j = 1
    BY <1>1, <1>2, <2>1, <2>3
  <2>4. CASE i # 1 /\ j # 1
    <3>1. i - 1 # j - 1
      BY <1>1
    <3> QED
      BY <1>2, <1>7, <2>4, <3>1 DEF SeqApart
  <2> QED
    BY <2>2, <2>3, <2>4
<1> QED
  BY <1>5, <1>6, <1>7 DEF r

LEMMA TopAndRest ==
  ASSUME StackOK, NEW t \in Thread, stack[t] # <<>>
  PROVE  /\ Top(t) \in GoodCall /\ Tail(stack[t]) \in Seq(GoodCall)
         /\ Owned(t) = Claims(Top(t)) \cup SeqClaims(Tail(stack[t]))
         /\ Named(t) = Names(Top(t)) \cup SeqNames(Tail(stack[t]))
         /\ SeqApart(stack[t]) <=> /\ SeqApart(Tail(stack[t]))
                                   /\ Claims(Top(t)) \cap SeqClaims(Tail(stack[t])) = {}
<1> DEFINE c == Top(t)
           r == Tail(stack[t])
<1>1. stack[t] \in Seq(GoodCall)
  BY DEF StackOK
<1>2. c \in GoodCall /\ r \in Seq(GoodCall) /\ stack[t] = <<c>> \o r
  BY <1>1 DEF Top
<1> HIDE DEF c, r
<1>3. /\ SeqClaims(<<c>> \o r) = Claims(c) \cup SeqClaims(r)
      /\ SeqNames(<<c>> \o r) = Names(c) \cup SeqNames(r)
      /\ SeqApart(<<c>> \o r) <=> SeqApart(r) /\ Claims(c) \cap SeqClaims(r) = {}
  BY <1>2, OnTop
<1> QED
  BY <1>2, <1>3 DEF Owned, Named, c, r

\* How the claims of the threads change with the stack of one.
Changed(t, gone, new) ==
  /\ Owned(t)' = (Owned(t) \ gone) \cup new
  /\ \A u \in Thread \ {t} : Owned(u)' = Owned(u) /\ Named(u)' = Named(u)

LEMMA AloneAgain ==
  ASSUME Alone, NEW t \in Thread, NEW gone, NEW new, Changed(t, gone, new), SeqApart(stack'[t]),
         \A u \in Thread \ {t} : stack'[u] = stack[u],
         gone \subseteq Owned(t), \A u \in Thread : (new \ gone) \cap Owned(u) = {}
  PROVE  Alone'
<1>1. \A u \in Thread : SeqApart(stack[u])'
  BY DEF Alone
<1>2. ASSUME NEW u \in Thread, NEW v \in Thread, u # v PROVE Owned(u)' \cap Owned(v)' = {}
  <2>1. Owned(t)' \subseteq Owned(t) \cup (new \ gone) /\ \A w \in Thread \ {t} : Owned(w)' = Owned(w)
    BY DEF Changed
  <2>2. Owned(u) \cap Owned(v) = {}
    BY <1>2 DEF Alone
  <2> QED
    BY <1>2, <2>1, <2>2
<1> QED
  BY <1>1, <1>2 DEF Alone

LEMMA AfterPush ==
  ASSUME StackOK, Alone, NEW t \in Thread, NEW c \in GoodCall, Push(t, c),
         \A u \in Thread : Claims(c) \cap Owned(u) = {}
  PROVE  Alone' /\ Changed(t, {}, Claims(c)) /\ Named(t)' = Named(t) \cup Names(c)
<1> DEFINE r == stack[t]
<1>1. stack'[t] = <<c>> \o r /\ r \in Seq(GoodCall)
      /\ \A u \in Thread \ {t} : stack'[u] = stack[u]
  BY DEF StackOK, Push
<1>2. SeqApart(r) /\ Claims(c) \cap SeqClaims(r) = {}
  BY DEF Alone, Owned
<1> HIDE DEF r
<1>3. /\ SeqClaims(<<c>> \o r) = Claims(c) \cup SeqClaims(r)
      /\ SeqNames(<<c>> \o r) = Names(c) \cup SeqNames(r)
      /\ SeqApart(<<c>> \o r)
  BY <1>1, <1>2, OnTop
<1>4. /\ Owned(t)' = Claims(c) \cup Owned(t) /\ Named(t)' = Names(c) \cup Named(t)
      /\ SeqApart(stack'[t])
  BY <1>1, <1>3 DEF Owned, Named, r
<1>5. Changed(t, {}, Claims(c))
  BY <1>1, <1>4 DEF Changed, Owned, Named
<1>6. \A u \in Thread : (Claims(c) \ {}) \cap Owned(u) = {}
  OBVIOUS
<1>7. Alone'
  BY <1>1, <1>4, <1>5, <1>6, AloneAgain
<1> QED
  BY <1>4, <1>5, <1>7

LEMMA AfterPop ==
  ASSUME StackOK, Alone, NEW t \in Thread, stack[t] # <<>>, Pop(t)
  PROVE  /\ Alone' /\ Changed(t, Claims(Top(t)), {})
         /\ Claims(Top(t)) \subseteq Owned(t) /\ Named(t)' \subseteq Named(t)
<1>1. stack'[t] = Tail(stack[t]) /\ \A u \in Thread \ {t} : stack'[u] = stack[u]
  BY DEF StackOK, Pop
<1>2. /\ Owned(t)' = Owned(t) \ Claims(Top(t)) /\ Named(t)' \subseteq Named(t)
      /\ SeqApart(stack'[t]) /\ Claims(Top(t)) \subseteq Owned(t)
  BY <1>1, TopAndRest DEF Owned, Named, Alone
<1>3. Changed(t, Claims(Top(t)), {})
  BY <1>1, <1>2 DEF Changed, Owned, Named
<1> QED
  BY <1>1, <1>2, <1>3, AloneAgain

LEMMA AfterBecome ==
  ASSUME StackOK, Alone, NEW t \in Thread, stack[t] # <<>>, NEW c \in GoodCall, Become(t, c),
         \A u \in Thread : (Claims(c) \ Claims(Top(t))) \cap Owned(u) = {}
  PROVE  /\ Alone' /\ Changed(t, Claims(Top(t)), Claims(c))
         /\ Claims(Top(t)) \subseteq Owned(t) /\ Named(t)' \subseteq Named(t) \cup Names(c)
<1> DEFINE r == Tail(stack[t])
<1>1. stack'[t] = <<c>> \o r /\ r \in Seq(GoodCall)
      /\ \A u \in Thread \ {t} : stack'[u] = stack[u]
  BY TopAndRest DEF StackOK, Become
<1>2. /\ Owned(t) = Claims(Top(t)) \cup SeqClaims(r)
      /\ Named(t) = Names(Top(t)) \cup SeqNames(r)
      /\ SeqApart(r) /\ Claims(Top(t)) \cap SeqClaims(r) = {}
  BY TopAndRest DEF Alone
<1> HIDE DEF r
<1>3. SeqApart(r) /\ Claims(c) \cap SeqClaims(r) = {}
  BY <1>2
<1>4. /\ SeqClaims(<<c>> \o r) = Claims(c) \cup SeqClaims(r)
      /\ SeqNames(<<c>> \o r) = Names(c) \cup SeqNames(r)
      /\ SeqApart(<<c>> \o r)
  BY <1>1, <1>3, OnTop
<1>5. /\ Owned(t)' = Claims(c) \cup SeqClaims(r)
      /\ Named(t)' = Names(c) \cup SeqNames(r)
      /\ SeqApart(stack'[t])
  BY <1>1, <1>4 DEF Owned, Named
<1>6. Changed(t, Claims(Top(t)), Claims(c))
  <2>1. Owned(t)' = (Owned(t) \ Claims(Top(t))) \cup Claims(c)
    BY <1>2, <1>5
  <2> QED
    BY <1>1, <2>1 DEF Changed, Owned, Named
<1>7. Alone'
  BY <1>1, <1>2, <1>5, <1>6, AloneAgain
<1> QED
  BY <1>2, <1>5, <1>6, <1>7

LEMMA AfterNested ==
  ASSUME StackOK, Alone, NEW t \in Thread, stack[t] # <<>>,
         NEW c \in GoodCall, NEW d \in GoodCall, Claims(c) \cap Claims(d) = {},
         stack' = [stack EXCEPT ![t] = <<c, d>> \o Tail(@)],
         \A u \in Thread : ((Claims(c) \cup Claims(d)) \ Claims(Top(t))) \cap Owned(u) = {}
  PROVE  /\ Alone' /\ Changed(t, Claims(Top(t)), Claims(c) \cup Claims(d))
         /\ Claims(Top(t)) \subseteq Owned(t)
         /\ Named(t)' \subseteq Named(t) \cup Names(c) \cup Names(d)
<1> DEFINE r == Tail(stack[t])
           s == <<d>> \o r
<1>1. stack'[t] = <<c, d>> \o r /\ r \in Seq(GoodCall)
      /\ \A u \in Thread \ {t} : stack'[u] = stack[u]
  BY TopAndRest DEF StackOK
<1>2. /\ Owned(t) = Claims(Top(t)) \cup SeqClaims(r)
      /\ Named(t) = Names(Top(t)) \cup SeqNames(r)
      /\ SeqApart(r) /\ Claims(Top(t)) \cap SeqClaims(r) = {}
  BY TopAndRest DEF Alone
<1> HIDE DEF r
<1>3. s \in Seq(GoodCall)
  BY <1>1
<1>4. stack'[t] = <<c>> \o s
  <2> DEFINE q == <<c, d>> \o r
  <2>1. q \in Seq(GoodCall) /\ q # <<>> /\ Head(q) = c /\ Tail(q) = <<d>> \o r
    BY <1>1
  <2>2. q = <<Head(q)>> \o Tail(q)
    <3> HIDE DEF q
    <3> QED
      BY <2>1
  <2> QED
    BY <1>1, <2>1, <2>2
<1>5. Claims(d) \cap SeqClaims(r) = {} /\ Claims(c) \cap (Claims(d) \cup SeqClaims(r)) = {}
  BY <1>2
<1>6. /\ SeqClaims(s) = Claims(d) \cup SeqClaims(r)
      /\ SeqNames(s) = Names(d) \cup SeqNames(r)
      /\ SeqApart(s)
  BY <1>1, <1>2, <1>5, OnTop
<1> HIDE DEF s
<1>7. /\ SeqClaims(<<c>> \o s) = Claims(c) \cup SeqClaims(s)
      /\ SeqNames(<<c>> \o s) = Names(c) \cup SeqNames(s)
      /\ SeqApart(<<c>> \o s)
  BY <1>3, <1>5, <1>6, OnTop
<1>8. /\ Owned(t)' = Claims(c) \cup Claims(d) \cup SeqClaims(r)
      /\ Named(t)' = Names(c) \cup Names(d) \cup SeqNames(r)
      /\ SeqApart(stack'[t])
  BY <1>4, <1>6, <1>7 DEF Owned, Named
<1>9. Changed(t, Claims(Top(t)), Claims(c) \cup Claims(d))
  <2>1. Owned(t)' = (Owned(t) \ Claims(Top(t))) \cup (Claims(c) \cup Claims(d))
    BY <1>2, <1>8
  <2> QED
    BY <1>1, <2>1 DEF Changed, Owned, Named
<1>10. Alone'
  BY <1>1, <1>2, <1>8, <1>9, AloneAgain
<1> QED
  BY <1>2, <1>8, <1>9, <1>10

LEMMA ClaimTokens ==
  ASSUME NEW c, NEW k
  PROVE  /\ <<k, "hold">> \in Claims(c) <=> k \in Holds(c)
         /\ <<k, "todo">> \in Claims(c) <=> k \in c.todo
         /\ <<k, "run">> \in Claims(c) <=> k \in Runs(c)
BY DEF Claims

-----------------------------------------------------------------------------
(* What the manager keeps to under the contract on adding *)

\* What a thread does at the moment, by its innermost call.
Adds(t, k) == At(t, "add") /\ Top(t).task = k
Ends(t, k) == At(t, "notify") /\ Top(t).task = k
Tells(t, k) == Ending(t) /\ Top(t).task = k
Removes(t, k, m) == At(t, "remove") /\ Top(t).task = k /\ Top(t).mgr = m
\* The caller has set the binding to null and goes on with the task.
LetsGo(t, k) ==
  (At(t, "read") \/ (At(t, "finish") /\ Top(t).end = "canceled")) /\ Top(t).task = k

\* A task is in one table at most.
OneTable == \A m, n \in Manager, k \in Task : k \in tasks[m] /\ k \in tasks[n] => m = n

\* A call that holds a task has it out of every table.
FreeInTable == \A m \in Manager, k \in Task, t \in Thread :
  k \in tasks[m] => <<k, "hold">> \notin Owned(t)

\* The action that a call runs has not returned, and its status says so.
RunsRunning == \A t \in Thread, k \in Task :
  <<k, "run">> \in Owned(t) => ~done[k] /\ (Exiting(k) \/ status[k] = RUNNING)

\* An action that has returned has ended its task.
DoneExiting == \A k \in Task : done[k] => Exiting(k)

\* Whoever ends a task has it to itself: unless its action has returned it is in no
\* table any more, and no call is about to kill it a second time.
EndedOnce == \A k \in Task : Exiting(k) /\ ~done[k] =>
  /\ \A m \in Manager : k \notin tasks[m]
  /\ \A t \in Thread : <<k, "hold">> \notin Owned(t)

\* Who ends a task before its action has returned is alone and finds it at rest.
OneEnder == \A t \in Thread, k \in Task : Ends(t, k) /\ ~done[k] =>
  /\ \A u \in Thread : <<k, "run">> \notin Owned(u)
  /\ \A u \in Thread : Ends(u, k) => u = t

\* reset() leaves the bindings of the tasks that it is to kill.
StillBound == \A t \in Thread, k \in Task :
  <<k, "todo">> \in Owned(t) => Exiting(k) \/ binding[k] # Null

\* Nor is a task bound that its holder let go, unless it is over.
LetGo == \A t \in Thread, k \in Task : LetsGo(t, k) => Exiting(k) \/ binding[k] = Null

\* A binding of a task that is not over is that of its table, or some call holds the task.
BoundHeld == \A k \in Task : ~Exiting(k) /\ binding[k] # Null =>
  k \in tasks[binding[k]] \/ \E t \in Thread : <<k, "hold">> \in Owned(t)

\* A task that is being added is in no table and no other call works on it.
AddedAlone == \A t \in Thread, k \in Task : Adds(t, k) =>
  /\ ~Exiting(k)
  /\ \A m \in Manager : k \notin tasks[m]
  /\ \A u \in Thread \ {t} : k \notin Named(u)

\* The task's own call of its manager is still to come.
DoneRemoved == \A m \in Manager, k \in Task :
  k \in tasks[m] /\ done[k] /\ "reset" \notin flags[m] =>
    \E t \in Thread : (Tells(t, k) /\ binding[k] = m) \/ Removes(t, k, m)

UseInv ==
  /\ Alone /\ OneTable /\ FreeInTable /\ RunsRunning /\ DoneExiting /\ EndedOnce /\ OneEnder
  /\ StillBound /\ LetGo /\ BoundHeld /\ AddedAlone /\ DoneRemoved

LEMMA OtherThreads ==
  ASSUME NEW t \in Thread, \A u \in Thread \ {t} : stack'[u] = stack[u]
  PROVE  \A u \in Thread \ {t}, k \in Task :
           /\ Adds(u, k)' <=> Adds(u, k)
           /\ Ends(u, k)' <=> Ends(u, k)
           /\ Tells(u, k)' <=> Tells(u, k)
           /\ LetsGo(u, k)' <=> LetsGo(u, k)
           /\ \A m \in Manager : Removes(u, k, m)' <=> Removes(u, k, m)
BY DEF Adds, Ends, Tells, LetsGo, Removes, Ending, At, Top

\* A step that leaves the tables, the bindings and the ends of the actions alone.
LEMMA CalmUse ==
  ASSUME UseInv, NEW t \in Thread, Alone', RunsRunning', OneEnder',
         UNCHANGED <<done, binding, tasks>>,
         \A k \in Task : Exiting(k)' <=> Exiting(k),
         \A m \in Manager : "reset" \in flags[m] => "reset" \in flags'[m],
         \A u \in Thread \ {t} :
           stack'[u] = stack[u] /\ Owned(u)' = Owned(u) /\ Named(u)' = Named(u),
         \A k \in Task : <<k, "hold">> \in Owned(t)' => <<k, "hold">> \in Owned(t),
         \A k \in Task : <<k, "todo">> \in Owned(t)' => <<k, "todo">> \in Owned(t),
         \A k \in Task : <<k, "hold">> \in Owned(t) =>
           <<k, "hold">> \in Owned(t)' \/ Exiting(k) \/ binding[k] = Null,
         \A k \in Task : Adds(t, k)' =>
           /\ ~Exiting(k)
           /\ \A m \in Manager : k \notin tasks[m]
           /\ \A u \in Thread \ {t} : k \notin Named(u),
         \A k \in Task : k \in Named(t)' =>
           k \in Named(t) \/ \A u \in Thread \ {t} : ~Adds(u, k),
         \A k \in Task : LetsGo(t, k)' => Exiting(k) \/ binding[k] = Null,
         \A k \in Task : Tells(t, k) => Tells(t, k)' \/ ~done[k],
         \A k \in Task, m \in Manager :
           Removes(t, k, m) => Removes(t, k, m)' \/ "reset" \in flags[m] \/ k \notin tasks[m]
  PROVE  UseInv'
<1>1. \A u \in Thread \ {t}, k \in Task :
        /\ Adds(u, k)' <=> Adds(u, k)
        /\ Ends(u, k)' <=> Ends(u, k)
        /\ Tells(u, k)' <=> Tells(u, k)
        /\ LetsGo(u, k)' <=> LetsGo(u, k)
        /\ \A m \in Manager : Removes(u, k, m)' <=> Removes(u, k, m)
  BY OtherThreads
<1>2. OneTable'
  BY DEF UseInv, OneTable
<1>3. FreeInTable'
  BY DEF UseInv, FreeInTable
<1>4. DoneExiting'
  BY DEF UseInv, DoneExiting
<1>5. EndedOnce'
  BY DEF UseInv, EndedOnce
<1>6. StillBound'
  BY DEF UseInv, StillBound
<1>7. LetGo'
  BY <1>1 DEF UseInv, LetGo
<1>8. BoundHeld'
  <2> SUFFICES ASSUME NEW k \in Task, ~Exiting(k), binding[k] # Null, k \notin tasks[binding[k]]
               PROVE  \E u \in Thread : <<k, "hold">> \in Owned(u)'
    BY DEF BoundHeld
  <2>1. PICK u \in Thread : <<k, "hold">> \in Owned(u)
    BY DEF UseInv, BoundHeld
  <2> QED
    BY <2>1
<1>9. AddedAlone'
  BY <1>1 DEF UseInv, AddedAlone
<1>10. DoneRemoved'
  <2> SUFFICES ASSUME NEW m \in Manager, NEW k \in Task,
                      k \in tasks[m], done[k], "reset" \notin flags[m]
               PROVE  \E u \in Thread : (Tells(u, k)' /\ binding[k] = m) \/ Removes(u, k, m)'
    BY DEF DoneRemoved
  <2>1. PICK u \in Thread : (Tells(u, k) /\ binding[k] = m) \/ Removes(u, k, m)
    BY DEF UseInv, DoneRemoved
  <2> QED
    BY <1>1, <2>1
<1> QED
  BY <1>2, <1>3, <1>4, <1>5, <1>6, <1>7, <1>8, <1>9, <1>10 DEF UseInv

\* Nothing at all changes but the calls of one thread, which starts or ends no action.
LEMMA PlainUse ==
  ASSUME UseInv, NEW t \in Thread, Alone',
         UNCHANGED <<status, done, binding, tasks>>,
         \A m \in Manager : "reset" \in flags[m] => "reset" \in flags'[m],
         \A u \in Thread \ {t} :
           stack'[u] = stack[u] /\ Owned(u)' = Owned(u) /\ Named(u)' = Named(u),
         Owned(t)' \subseteq Owned(t),
         \A k \in Task : <<k, "hold">> \in Owned(t) =>
           <<k, "hold">> \in Owned(t)' \/ Exiting(k) \/ binding[k] = Null,
         \A k \in Task : Adds(t, k)' =>
           /\ ~Exiting(k)
           /\ \A m \in Manager : k \notin tasks[m]
           /\ \A u \in Thread \ {t} : k \notin Named(u),
         \A k \in Task : k \in Named(t)' =>
           k \in Named(t) \/ \A u \in Thread \ {t} : ~Adds(u, k),
         \A k \in Task : LetsGo(t, k)' => Exiting(k) \/ binding[k] = Null,
         \A k \in Task : ~Ends(t, k)',
         \A k \in Task : Tells(t, k) => Tells(t, k)' \/ ~done[k],
         \A k \in Task, m \in Manager :
           Removes(t, k, m) => Removes(t, k, m)' \/ "reset" \in flags[m] \/ k \notin tasks[m]
  PROVE  UseInv'
<1>1. \A u \in Thread \ {t}, k \in Task : Ends(u, k)' <=> Ends(u, k)
  BY OtherThreads
<1>2. \A k \in Task : Exiting(k)' <=> Exiting(k)
  BY DEF Exiting
<1>3. RunsRunning'
  <2>1. \A u \in Thread : Owned(u)' \subseteq Owned(u)
    OBVIOUS
  <2> QED
    BY <1>2, <2>1 DEF UseInv, RunsRunning
<1>4. OneEnder'
  <2>1. \A u \in Thread : Owned(u)' \subseteq Owned(u)
    OBVIOUS
  <2>2. \A u \in Thread, k \in Task : Ends(u, k)' => Ends(u, k)
    BY <1>1
  <2> QED
    BY <2>1, <2>2 DEF UseInv, OneEnder
<1> QED
  BY <1>2, <1>3, <1>4, CalmUse

\* A thread between two calls neither ends nor removes a task.
LEMMA BelowIsIdle ==
  ASSUME NEW t \in Thread, stack[t] # <<>> => Top(t).pc \in Below
  PROVE  \A k \in Task : /\ ~Adds(t, k) /\ ~Ends(t, k) /\ ~Tells(t, k) /\ ~LetsGo(t, k)
                         /\ \A m \in Manager : ~Removes(t, k, m)
BY DEF Adds, Ends, Tells, LetsGo, Removes, Ending, At, Below

LEMMA PushUse ==
  ASSUME StackOK, UseInv, NEW t \in Thread, InClient(t), NEW c \in GoodCall, Push(t, c),
         UNCHANGED <<status, done, binding, tasks>>,
         \A m \in Manager : "reset" \in flags[m] => "reset" \in flags'[m],
         c.pc \in {"add", "start", "remove", "tick", "reset"},
         c.pc = "add" =>
           /\ ~Exiting(c.task)
           /\ \A m \in Manager : c.task \notin tasks[m]
           /\ \A u \in Thread \ {t} : c.task \notin Named(u),
         \A u \in Thread \ {t} : ~Adds(u, c.task)
  PROVE  UseInv'
<1>1. Claims(c) = {} /\ Names(c) = {c.task}
  BY DEF GoodCall, OfTick, Claims, Holds, Runs, Names
<1>2. Alone' /\ Changed(t, {}, Claims(c)) /\ Named(t)' = Named(t) \cup Names(c)
  BY <1>1, AfterPush DEF UseInv
<1>3. stack'[t] # <<>> /\ Head(stack'[t]) = c /\ \A u \in Thread \ {t} : stack'[u] = stack[u]
  BY Pushed
<1>4. \A k \in Task : /\ Adds(t, k)' => c.pc = "add" /\ k = c.task
                      /\ ~LetsGo(t, k)' /\ ~Ends(t, k)'
  BY <1>3 DEF Adds, LetsGo, Ends, At, Top
<1>5. \A k \in Task : ~Tells(t, k) /\ \A m \in Manager : ~Removes(t, k, m)
  BY BelowIsIdle DEF InClient, At, Below
<1> QED
  BY <1>1, <1>2, <1>3, <1>4, <1>5, PlainUse DEF Changed

LEMMA PopUse ==
  ASSUME StackOK, UseInv, NEW t \in Thread, stack[t] # <<>>, Pop(t),
         UNCHANGED <<status, done, binding, tasks>>,
         \A m \in Manager : "reset" \in flags[m] => "reset" \in flags'[m],
         \A k \in Task : k \in Holds(Top(t)) => Exiting(k) \/ binding[k] = Null,
         \A k \in Task : ~Tells(t, k),
         \A k \in Task, m \in Manager :
           Removes(t, k, m) => "reset" \in flags[m] \/ k \notin tasks[m]
  PROVE  UseInv'
<1>1. /\ Alone' /\ Changed(t, Claims(Top(t)), {})
      /\ Claims(Top(t)) \subseteq Owned(t) /\ Named(t)' \subseteq Named(t)
  BY AfterPop DEF UseInv
<1>2. /\ stack'[t] # <<>> => Head(stack'[t]) \in BelowCall
      /\ \A u \in Thread \ {t} : stack'[u] = stack[u]
  BY Popped
<1>3. \A k \in Task : ~Adds(t, k)' /\ ~Ends(t, k)' /\ ~LetsGo(t, k)'
  BY <1>2 DEF BelowCall, Below, Adds, Ends, LetsGo, At, Top
<1>4. \A k \in Task : <<k, "hold">> \in Owned(t) =>
        <<k, "hold">> \in Owned(t)' \/ Exiting(k) \/ binding[k] = Null
  BY <1>1, ClaimTokens DEF Changed
<1> QED
  BY <1>1, <1>2, <1>3, <1>4, PlainUse DEF Changed

LEMMA BecomeUse ==
  ASSUME StackOK, UseInv, NEW t \in Thread, stack[t] # <<>>, NEW c \in GoodCall, Become(t, c),
         UNCHANGED <<status, done, binding, tasks>>,
         \A m \in Manager : "reset" \in flags[m] => "reset" \in flags'[m],
         Claims(c) \subseteq Claims(Top(t)), Names(c) \subseteq Names(Top(t)),
         \A k \in Task : k \in Holds(Top(t)) =>
           k \in Holds(c) \/ Exiting(k) \/ binding[k] = Null,
         c.pc \notin {"add", "notify"},
         c.pc = "read" \/ (c.pc = "finish" /\ c.end = "canceled") =>
           Exiting(c.task) \/ binding[c.task] = Null,
         \A k \in Task : Tells(t, k) => (c.pc = "take" /\ c.task = k) \/ ~done[k],
         \A k \in Task, m \in Manager : ~Removes(t, k, m)
  PROVE  UseInv'
<1>1. /\ Alone' /\ Changed(t, Claims(Top(t)), Claims(c))
      /\ Claims(Top(t)) \subseteq Owned(t) /\ Named(t)' \subseteq Named(t) \cup Names(c)
  BY AfterBecome DEF UseInv
<1>2. stack'[t] # <<>> /\ Head(stack'[t]) = c /\ \A u \in Thread \ {t} : stack'[u] = stack[u]
  BY Became
<1>3. \A k \in Task : /\ ~Adds(t, k)' /\ ~Ends(t, k)'
                      /\ LetsGo(t, k)' => Exiting(k) \/ binding[k] = Null
                      /\ Tells(t, k)' <=> c.pc = "take" /\ c.task = k
  BY <1>2 DEF Adds, Ends, LetsGo, Tells, Ending, At, Top
<1>4. \A k \in Task : <<k, "hold">> \in Owned(t) =>
        <<k, "hold">> \in Owned(t)' \/ Exiting(k) \/ binding[k] = Null
  BY <1>1, ClaimTokens DEF Changed
<1>5. Named(t)' \subseteq Named(t)
  BY <1>1, TopAndRest
<1> QED
  BY <1>1, <1>2, <1>3, <1>4, <1>5, PlainUse DEF Changed

LEMMA NamedFrames ==
  ASSUME NEW u \in Thread, NEW k
  PROVE  k \in Named(u) <=> \E c \in Frames(u) : c.task = k \/ k \in c.todo
BY DEF Named, SeqNames, Names, Frames

LEMMA TopFrame ==
  ASSUME StackOK, NEW u \in Thread, stack[u] # <<>>
  PROVE  Top(u) \in Frames(u)
<1>1. stack[u] \in Seq(GoodCall)
  BY DEF StackOK
<1>2. 1 \in DOMAIN stack[u] /\ Head(stack[u]) = stack[u][1]
  BY <1>1
<1> QED
  BY <1>2 DEF Top, Frames

-----------------------------------------------------------------------------
(* The calls of the client, and those that only read *)

\* What the contract gives: a task that is being added is not worked on.
LEMMA NotAdded ==
  ASSUME StackOK, AddWhenUnused, NEW k \in Task, MayCall(k)
  PROVE  \A u \in Thread : ~Adds(u, k)
BY TopFrame DEF MayCall, Adding, Adds, At

LEMMA AddTaskUse ==
  ASSUME AddWhenUnused, IInv, UseInv, NEW t \in Thread, NEW m \in Manager, NEW k \in Task,
         NEW timeout \in Timeout, AddTask(t, m, k, timeout)
  PROVE  UseInv'
<1> DEFINE c == [NewCall("add", m, k) EXCEPT !.time = timeout]
<1>1. c \in GoodCall /\ c.pc = "add" /\ c.task = k
  BY TaskManagerAssumption DEF NewCall, GoodCall, OfTick, Call, End, Label, OfManager, OfTask, Time
<1>2. Push(t, c) /\ InClient(t)
  BY DEF AddTask, NextCall
<1> HIDE DEF c
<1>3. /\ ~Exiting(k)
      /\ \A n \in Manager : k \notin tasks[n]
      /\ \A u \in Thread \ {t} : k \notin Named(u)
  BY NamedFrames DEF AddTask, MayAdd
<1>4. \A u \in Thread \ {t} : ~Adds(u, k)
  BY <1>3, TopAndRest DEF Adds, At, Names, IInv
<1> QED
  BY <1>1, <1>2, <1>3, <1>4, PushUse DEF AddTask, IInv, taskVars, mgrVars

LEMMA StartUse ==
  ASSUME AddWhenUnused, IInv, UseInv, NEW t \in Thread, NEW m \in Manager \cup {Null},
         NEW k \in Task, Start(t, m, k)
  PROVE  UseInv'
<1> DEFINE c == NewCall("start", m, k)
<1>1. c \in GoodCall /\ c.pc = "start" /\ c.task = k
  BY NewCallGood DEF Label, OfManager, OfTask, OfTick
<1>2. Push(t, c) /\ InClient(t)
  BY DEF Start, NextCall
<1> HIDE DEF c
<1>3. \A u \in Thread : ~Adds(u, k)
  BY NotAdded DEF Start, IInv
<1> QED
  BY <1>1, <1>2, <1>3, PushUse DEF Start, IInv, taskVars, mgrVars

LEMMA RemoveTaskUse ==
  ASSUME AddWhenUnused, IInv, UseInv, NEW t \in Thread, NEW m \in Manager, NEW k \in Task,
         RemoveTask(t, m, k)
  PROVE  UseInv'
<1> DEFINE c == NewCall("remove", m, k)
<1>1. c \in GoodCall /\ c.pc = "remove" /\ c.task = k
  BY NewCallGood DEF Label, OfManager, OfTask, OfTick
<1>2. Push(t, c) /\ InClient(t)
  BY DEF RemoveTask, NextCall
<1> HIDE DEF c
<1>3. \A u \in Thread : ~Adds(u, k)
  BY NotAdded DEF RemoveTask, IInv
<1> QED
  BY <1>1, <1>2, <1>3, PushUse DEF RemoveTask, IInv, taskVars, mgrVars

\* A manager is added to by no call on Null.
LEMMA NullIsNoTask ==
  ASSUME StackOK
  PROVE  \A u \in Thread : ~Adds(u, Null)
BY TopGood, TaskManagerAssumption DEF Adds, At, GoodCall, OfTick, OfTask

LEMMA ResetUse ==
  ASSUME IInv, UseInv, NEW m \in Manager, NEW end \in {"none", "destroy"}, Reset(m, end)
  PROVE  UseInv'
<1> DEFINE t == Ticker
           c == [NewCall("reset", m, Null) EXCEPT !.end = end]
<1>1. c \in GoodCall /\ c.pc = "reset" /\ c.task = Null
  BY NullIsNoTime DEF NewCall, GoodCall, OfTick, Call, End, Label, OfManager, OfTask
<1>2. t \in Thread
  BY TaskManagerAssumption
<1>3. Push(t, c) /\ InClient(t)
  BY DEF Reset, NextCall
<1> HIDE DEF c
<1>4. \A n \in Manager : "reset" \in flags[n] => "reset" \in flags'[n]
  BY DEF Reset, TakeFlag, IInv, TypeOK
<1> QED
  BY <1>1, <1>2, <1>3, <1>4, NullIsNoTask, PushUse DEF Reset, IInv, taskVars

LEMMA SameStackUse ==
  ASSUME UseInv, UNCHANGED <<status, done, binding, tasks, flags, stack>>
  PROVE  UseInv'
<1>1. \A t \in Thread :
        Owned(t)' = Owned(t) /\ Named(t)' = Named(t) /\ SeqApart(stack[t])' = SeqApart(stack[t])
  BY DEF Owned, Named
<1>2. \A t \in Thread, k \in Task :
        /\ Adds(t, k)' <=> Adds(t, k)
        /\ Ends(t, k)' <=> Ends(t, k)
        /\ Tells(t, k)' <=> Tells(t, k)
        /\ LetsGo(t, k)' <=> LetsGo(t, k)
        /\ \A m \in Manager : Removes(t, k, m)' <=> Removes(t, k, m)
  BY DEF Adds, Ends, Tells, LetsGo, Removes, Ending, At, Top
<1>3. \A k \in Task : Exiting(k)' <=> Exiting(k)
  BY DEF Exiting
<1>4. Alone' /\ OneTable' /\ FreeInTable' /\ DoneExiting' /\ EndedOnce' /\ StillBound'
  BY <1>1, <1>3 DEF UseInv, Alone, OneTable, FreeInTable, DoneExiting, EndedOnce, StillBound
<1>5. RunsRunning' /\ BoundHeld'
  BY <1>1, <1>3 DEF UseInv, RunsRunning, BoundHeld
<1>6. OneEnder' /\ LetGo' /\ AddedAlone'
  BY <1>1, <1>2, <1>3 DEF UseInv, OneEnder, LetGo, AddedAlone
<1>7. DoneRemoved'
  BY <1>2 DEF UseInv, DoneRemoved
<1> QED
  BY <1>4, <1>5, <1>6, <1>7 DEF UseInv

LEMMA TickUse ==
  ASSUME IInv, UseInv, NEW m \in Manager, NEW now \in Clock, Tick(m, now)
  PROVE  UseInv'
<1> DEFINE t == Ticker
<1>1. now \in Time /\ t \in Thread
  BY TaskManagerAssumption DEF Time
<1>2. CASE /\ flags' = [flags EXCEPT ![m] = @ \cup {"tick"}]
           /\ Push(t, [NewCall("tick", m, Null) EXCEPT !.time = now])
  <2> DEFINE c == [NewCall("tick", m, Null) EXCEPT !.time = now]
  <2>1. c \in GoodCall /\ c.pc = "tick" /\ c.task = Null
    BY <1>1 DEF NewCall, GoodCall, OfTick, Call, End, Label, OfManager, OfTask
  <2>2. Push(t, c) /\ InClient(t)
    BY <1>2 DEF Tick
  <2> HIDE DEF c
  <2>3. \A n \in Manager : "reset" \in flags[n] => "reset" \in flags'[n]
    BY <1>2 DEF IInv, TypeOK
  <2> QED
    BY <1>1, <2>1, <2>2, <2>3, NullIsNoTask, PushUse DEF Tick, IInv, taskVars
<1>3. CASE UNCHANGED <<flags, stack>>
  BY <1>3, SameStackUse DEF Tick, taskVars
<1> QED
  BY <1>2, <1>3 DEF Tick, TakeFlag

LEMMA SetTimeoutUse ==
  ASSUME UseInv, NEW t \in Thread, NEW m \in Manager, NEW k \in Task,
         NEW timeout \in Timeout, SetTimeout(t, m, k, timeout)
  PROVE  UseInv'
BY SameStackUse DEF SetTimeout, taskVars

LEMMA CheckUse ==
  ASSUME IInv, UseInv, NEW t \in Thread, Check(t)
  PROVE  UseInv'
<1>1. Top(t) \in GoodCall /\ stack[t] # <<>> /\ Top(t).pc = "check"
  BY TopGood DEF Check, At, IInv
<1>2. UNCHANGED <<status, done, binding, tasks, flags>>
  BY DEF Check, taskVars, mgrVars
<1>3. \A k \in Task : /\ ~Tells(t, k)
                      /\ \A m \in Manager : ~Removes(t, k, m)
  BY <1>1, BelowIsIdle DEF Below
<1>4. Holds(Top(t)) = {}
  BY <1>1 DEF Holds, GoodCall, OfTick
<1>5. CASE Pop(t)
  BY <1>1, <1>2, <1>3, <1>4, <1>5, PopUse DEF IInv
<1>6. CASE Top(t).mgr # Null /\ Become(t, NewCall("remove", Top(t).mgr, Top(t).task))
  <2> DEFINE c == NewCall("remove", Top(t).mgr, Top(t).task)
  <2>1. c \in GoodCall /\ c.pc = "remove" /\ c.task = Top(t).task
    BY <1>1, <1>6, NewCallGood DEF GoodCall, OfTick, Call, Label, OfManager, OfTask
  <2>2. Become(t, c)
    BY <1>6
  <2> HIDE DEF c
  <2>3. Claims(c) = {} /\ Names(c) \subseteq Names(Top(t))
    BY <2>1 DEF GoodCall, OfTick, Claims, Holds, Runs, Names
  <2> QED
    BY <1>1, <1>2, <1>3, <1>4, <2>1, <2>2, <2>3, BecomeUse DEF IInv
<1> QED
  BY <1>5, <1>6 DEF Check

LEMMA ReadStatusUse ==
  ASSUME IInv, UseInv, NEW t \in Thread, ReadStatus(t)
  PROVE  UseInv'
<1>1. Top(t) \in GoodCall /\ stack[t] # <<>> /\ Top(t).pc = "read"
  BY TopGood DEF ReadStatus, At, IInv
<1>2. UNCHANGED <<status, done, binding, tasks, flags>>
  BY DEF ReadStatus, taskVars, mgrVars
<1>3. \A k \in Task : ~Tells(t, k) /\ \A m \in Manager : ~Removes(t, k, m)
  BY <1>1 DEF Tells, Ending, Removes, At
<1>4. Top(t).task \in Task /\ Holds(Top(t)) = {Top(t).task}
  BY <1>1 DEF Holds, GoodCall, OfTick, OfTask
<1>5. CASE Pop(t)
  <2>1. Exiting(Top(t).task) \/ binding[Top(t).task] = Null
    BY <1>1, <1>4 DEF UseInv, LetGo, LetsGo, At
  <2> QED
    BY <1>1, <1>2, <1>3, <1>4, <1>5, <2>1, PopUse DEF IInv
<1>6. CASE Become(t, [Top(t) EXCEPT !.pc = "finish", !.end = "killed"])
  <2> DEFINE c == [Top(t) EXCEPT !.pc = "finish", !.end = "killed"]
  <2>1. c \in GoodCall /\ c.pc = "finish" /\ c.end = "killed"
        /\ c.task = Top(t).task /\ c.todo = Top(t).todo
    BY <1>1 DEF GoodCall, OfTick, Call, Label, End, OfManager, OfTask
  <2>2. Become(t, c)
    BY <1>6
  <2> HIDE DEF c
  <2>3. Claims(c) = Claims(Top(t)) /\ Names(c) = Names(Top(t)) /\ Holds(c) = Holds(Top(t))
    BY <1>1, <2>1 DEF Claims, Holds, Runs, Names
  <2> QED
    BY <1>1, <1>2, <1>3, <2>1, <2>2, <2>3, BecomeUse DEF IInv
<1> QED
  BY <1>5, <1>6 DEF ReadStatus

LEMMA TickEmptyUse ==
  ASSUME IInv, UseInv, NEW t \in Thread, TickEmpty(t)
  PROVE  UseInv'
<1>1. Top(t) \in GoodCall /\ stack[t] # <<>> /\ Top(t).pc = "tick"
  BY TopGood DEF TickEmpty, At, IInv
<1>2. UNCHANGED <<status, done, binding, tasks, flags>>
  BY DEF TickEmpty, taskVars, mgrVars
<1>3. PICK l \in {"tick_end", "tick_locked"} : Become(t, [Top(t) EXCEPT !.pc = l])
  BY DEF TickEmpty, Goto
<1> DEFINE c == [Top(t) EXCEPT !.pc = l]
<1>4. c \in GoodCall /\ c.pc = l /\ c.task = Top(t).task /\ c.todo = Top(t).todo
  BY <1>1 DEF GoodCall, OfTick, Call, Label, OfManager, OfTask
<1>5. Become(t, c)
  BY <1>3
<1> HIDE DEF c
<1>6. Claims(c) = Claims(Top(t)) /\ Names(c) = Names(Top(t)) /\ Holds(c) = Holds(Top(t))
  BY <1>1, <1>4 DEF Claims, Holds, Runs, Names
<1>7. \A k \in Task : ~Tells(t, k) /\ \A m \in Manager : ~Removes(t, k, m)
  BY <1>1, BelowIsIdle DEF Below
<1> QED
  BY <1>1, <1>2, <1>4, <1>5, <1>6, <1>7, BecomeUse DEF IInv

LEMMA TickEndUse ==
  ASSUME IInv, UseInv, NEW t \in Thread, TickEnd(t)
  PROVE  UseInv'
<1>1. Top(t) \in GoodCall /\ stack[t] # <<>> /\ Top(t).pc = "tick_end"
  BY TopGood DEF TickEnd, At, IInv
<1>2. UNCHANGED <<status, done, binding, tasks>> /\ Pop(t)
  BY DEF TickEnd, taskVars
<1>3. \A m \in Manager : "reset" \in flags[m] => "reset" \in flags'[m]
  BY DEF TickEnd, IInv, TypeOK
<1>4. \A k \in Task : ~Tells(t, k) /\ \A m \in Manager : ~Removes(t, k, m)
  BY <1>1 DEF Tells, Ending, Removes, At
<1>5. Holds(Top(t)) = {}
  BY <1>1 DEF Holds, GoodCall, OfTick
<1> QED
  BY <1>1, <1>2, <1>3, <1>4, <1>5, PopUse DEF IInv

LEMMA TickExitingUse ==
  ASSUME IInv, UseInv, NEW t \in Thread, TickExiting(t)
  PROVE  UseInv'
<1>1. Top(t) \in GoodCall /\ stack[t] # <<>> /\ Top(t).pc = "tick_exiting"
  BY TopGood DEF TickExiting, At, IInv
<1>2. UNCHANGED <<status, done, binding, tasks, flags>>
  BY DEF TickExiting, taskVars, mgrVars
<1>3. \A k \in Task : ~Tells(t, k) /\ \A m \in Manager : ~Removes(t, k, m)
  BY <1>1 DEF Tells, Ending, Removes, At
<1>4. Top(t).task \in Task /\ Holds(Top(t)) = {Top(t).task}
  BY <1>1 DEF Holds, GoodCall, OfTick, OfTask
<1>5. CASE Exiting(Top(t).task) /\ Pop(t)
  BY <1>1, <1>2, <1>3, <1>4, <1>5, PopUse DEF IInv
<1>6. CASE Goto(t, "cleanup")
  <2> DEFINE c == [Top(t) EXCEPT !.pc = "cleanup"]
  <2>1. c \in GoodCall /\ c.pc = "cleanup" /\ c.task = Top(t).task /\ c.todo = Top(t).todo
    BY <1>1 DEF GoodCall, OfTick, Call, Label, OfManager, OfTask
  <2>2. Become(t, c)
    BY <1>6 DEF Goto
  <2> HIDE DEF c
  <2>3. Claims(c) = Claims(Top(t)) /\ Names(c) = Names(Top(t)) /\ Holds(c) = Holds(Top(t))
    BY <1>1, <2>1 DEF Claims, Holds, Runs, Names
  <2> QED
    BY <1>1, <1>2, <1>3, <2>1, <2>2, <2>3, BecomeUse DEF IInv
<1> QED
  BY <1>5, <1>6 DEF TickExiting

LEMMA ResetKillUse ==
  ASSUME IInv, UseInv, NEW t \in Thread, ResetKill(t)
  PROVE  UseInv'
<1> DEFINE c == Top(t)
           rest(k) == [c EXCEPT !.todo = @ \ {k}]
           kill(k) == [NewCall("finish", Null, k) EXCEPT !.end = "killed"]
<1>1. c \in GoodCall /\ stack[t] # <<>> /\ c.pc = "reset_kill"
  BY TopGood DEF ResetKill, At, IInv
<1>2. c.todo \subseteq Task /\ Holds(c) = c.todo
  BY <1>1 DEF GoodCall, OfTick, Call, Holds
<1>3. UNCHANGED <<status, done, binding, tasks, flags>>
  BY DEF ResetKill, taskVars
<1>4. \A k \in Task : ~Tells(t, k) /\ \A m \in Manager : ~Removes(t, k, m)
  BY <1>1, BelowIsIdle DEF Below
<1>5. ASSUME NEW k \in c.todo
      PROVE  /\ rest(k) \in GoodCall /\ rest(k).pc = "reset_kill" /\ rest(k).task = c.task
             /\ rest(k).todo = c.todo \ {k}
  BY <1>1, <1>2 DEF GoodCall, OfTick, Call, OfTask
<1>6. CASE c.todo = {} /\ Pop(t)
  BY <1>1, <1>2, <1>3, <1>4, <1>6, PopUse DEF IInv
<1>7. ASSUME NEW k \in c.todo, Exiting(k), Become(t, rest(k))
      PROVE  UseInv'
  <2>1. Claims(rest(k)) \subseteq Claims(c) /\ Names(rest(k)) \subseteq Names(c)
        /\ Holds(rest(k)) = c.todo \ {k}
    BY <1>1, <1>5 DEF Claims, Holds, Runs, Names
  <2>2. \A j \in Task : j \in Holds(c) => j \in Holds(rest(k)) \/ Exiting(j) \/ binding[j] = Null
    BY <1>2, <1>7, <2>1
  <2>3. rest(k) \in GoodCall /\ rest(k).pc = "reset_kill"
    BY <1>5
  <2> HIDE DEF rest
  <2> QED
    BY <1>1, <1>3, <1>4, <1>7, <2>1, <2>2, <2>3, BecomeUse DEF IInv
<1>8. ASSUME NEW k \in c.todo, stack' = [stack EXCEPT ![t] = <<kill(k), rest(k)>> \o Tail(@)]
      PROVE  UseInv'
  <2>1. /\ kill(k) \in GoodCall /\ kill(k).pc = "finish" /\ kill(k).task = k
        /\ kill(k).end = "killed" /\ kill(k).todo = {}
    BY <1>2, NullIsNoTime DEF NewCall, GoodCall, OfTick, Call, End, Label, OfManager, OfTask
  <2>2. /\ rest(k) \in GoodCall /\ rest(k).pc = "reset_kill" /\ rest(k).task = c.task
        /\ rest(k).todo = c.todo \ {k} /\ rest(k) \in BelowCall
    BY <1>5 DEF BelowCall, Below
  <2> HIDE DEF rest, kill, c
  <2>3. /\ Claims(kill(k)) = {<<k, "hold">>}
        /\ Claims(rest(k)) = ((c.todo \ {k}) \X {"hold"}) \cup ((c.todo \ {k}) \X {"todo"})
        /\ Claims(c) = (c.todo \X {"hold"}) \cup (c.todo \X {"todo"})
        /\ Names(kill(k)) = {k} /\ Names(rest(k)) \subseteq Names(c) /\ k \in Names(c)
    BY <1>1, <2>1, <2>2 DEF Claims, Holds, Runs, Names
  <2>4. Claims(kill(k)) \cap Claims(rest(k)) = {}
        /\ Claims(kill(k)) \cup Claims(rest(k)) \subseteq Claims(c)
    BY <2>3
  <2>5. \A j \in c.todo : <<j, "hold">> \in Claims(kill(k)) \cup Claims(rest(k))
    BY <2>3
  <2>6. /\ Alone' /\ Changed(t, Claims(c), Claims(kill(k)) \cup Claims(rest(k)))
        /\ Claims(c) \subseteq Owned(t)
        /\ Named(t)' \subseteq Named(t) \cup Names(kill(k)) \cup Names(rest(k))
    BY <1>1, <1>8, <2>1, <2>2, <2>4, AfterNested DEF IInv, UseInv, c
  <2>7. stack'[t] # <<>> /\ Head(stack'[t]) = kill(k) /\ \A u \in Thread \ {t} : stack'[u] = stack[u]
    BY <1>1, <1>8, <2>1, <2>2, Nested DEF IInv
  <2>8. \A j \in Task : ~Adds(t, j)' /\ ~Ends(t, j)' /\ ~LetsGo(t, j)'
    BY <2>1, <2>7 DEF Adds, Ends, LetsGo, At, Top
  <2>9. \A j \in Task : <<j, "hold">> \in Owned(t) => <<j, "hold">> \in Owned(t)'
    BY <1>2, <2>5, <2>6, ClaimTokens DEF Changed
  <2>10. Owned(t)' \subseteq Owned(t)
    BY <2>4, <2>6 DEF Changed
  <2>11. Named(t)' \subseteq Named(t)
    BY <1>1, <2>3, <2>6, TopAndRest DEF IInv, c
  <2> QED
    BY <1>3, <1>4, <2>6, <2>7, <2>8, <2>9, <2>10, <2>11, PlainUse DEF Changed
<1> QED
  BY <1>6, <1>7, <1>8 DEF ResetKill

LEMMA StartTaskUse ==
  ASSUME IInv, UseInv, NEW t \in Thread, StartTask(t)
  PROVE  UseInv'
<1> DEFINE k == Top(t).task
           return == [Top(t) EXCEPT !.pc = "check"]
           c == NewCall("run", Null, k)
<1>1. Top(t) \in GoodCall /\ stack[t] # <<>> /\ Top(t).pc = "start"
  BY TopGood DEF StartTask, At, IInv
<1>2. k \in Task
  BY <1>1 DEF GoodCall, OfTick, OfTask
<1>3. /\ return \in BelowCall /\ return \in GoodCall /\ return.pc = "check"
      /\ return.task = k /\ return.todo = {} /\ Top(t).todo = {}
  BY <1>1, <1>2 DEF GoodCall, OfTick, Call, Label, OfManager, OfTask, BelowCall, Below
<1>4. UNCHANGED <<done, binding, tasks, flags>>
  BY DEF StartTask, mgrVars
<1>5. \A j \in Task : ~Tells(t, j) /\ \A m \in Manager : ~Removes(t, j, m)
  BY <1>1 DEF Tells, Ending, Removes, At
<1>6. CASE Become(t, return) /\ UNCHANGED status
  <2>1. Claims(return) = {} /\ Names(return) \subseteq Names(Top(t)) /\ Holds(Top(t)) = {}
    BY <1>1, <1>3 DEF Claims, Holds, Runs, Names
  <2> HIDE DEF return, k
  <2> QED
    BY <1>1, <1>3, <1>4, <1>5, <1>6, <2>1, BecomeUse DEF IInv
<1>7. CASE /\ status[k] \in {CREATED, WAITING}
           /\ status' = [status EXCEPT ![k] = RUNNING]
           /\ stack' = [stack EXCEPT ![t] = <<c, return>> \o Tail(@)]
  <2>1. c \in GoodCall /\ c.pc = "run" /\ c.task = k /\ c.todo = {}
    BY <1>2, NewCallGood DEF Label, OfManager, OfTask, OfTick, NewCall
  <2>2. ~Exiting(k) /\ status[k] # RUNNING
    BY <1>7 DEF Exiting, CREATED, RUNNING, WAITING, DONE
  <2>3. /\ \A j \in Task : Exiting(j)' <=> Exiting(j)
        /\ status'[k] = RUNNING /\ \A j \in Task \ {k} : status'[j] = status[j]
    <3>1. status'[k] = RUNNING /\ \A j \in Task \ {k} : status'[j] = status[j]
      BY <1>2, <1>7 DEF IInv, TypeOK
    <3>2. ~(RUNNING >= DONE)
      BY DEF RUNNING, DONE
    <3> QED
      BY <2>2, <3>1, <3>2 DEF Exiting
  <2>4. /\ Claims(c) = {<<k, "run">>} /\ Claims(return) = {} /\ Claims(Top(t)) = {}
        /\ Names(c) = {k} /\ Names(return) = {k} /\ k \in Names(Top(t))
    BY <1>1, <1>3, <2>1 DEF Claims, Holds, Runs, Names
  <2> HIDE DEF c, return, k
  <2>5. \A u \in Thread : <<k, "run">> \notin Owned(u)
    BY <1>2, <2>2 DEF UseInv, RunsRunning
  <2>6. /\ Alone' /\ Changed(t, {}, {<<k, "run">>})
        /\ Named(t)' \subseteq Named(t) \cup {k}
    <3>1. Claims(c) \cap Claims(return) = {}
      BY <2>4
    <3>2. \A u \in Thread : ((Claims(c) \cup Claims(return)) \ Claims(Top(t))) \cap Owned(u) = {}
      BY <2>4, <2>5
    <3>3. /\ Alone' /\ Changed(t, Claims(Top(t)), Claims(c) \cup Claims(return))
          /\ Named(t)' \subseteq Named(t) \cup Names(c) \cup Names(return)
      BY <1>1, <1>3, <1>7, <2>1, <3>1, <3>2, AfterNested DEF IInv, UseInv
    <3> QED
      BY <2>4, <3>3 DEF Changed
  <2>7. stack'[t] # <<>> /\ Head(stack'[t]) = c /\ \A u \in Thread \ {t} : stack'[u] = stack[u]
    BY <1>1, <1>3, <1>7, <2>1, Nested DEF IInv
  <2>8. \A j \in Task : ~Adds(t, j)' /\ ~Ends(t, j)' /\ ~LetsGo(t, j)'
    BY <2>1, <2>7 DEF Adds, Ends, LetsGo, At, Top
  <2>9. Named(t)' \subseteq Named(t)
    BY <1>1, <2>4, <2>6, TopAndRest DEF IInv
  <2>10. ~done[k]
    BY <1>2, <2>2 DEF UseInv, DoneExiting
  <2>11. RunsRunning'
    BY <1>2, <1>4, <2>3, <2>6, <2>10 DEF UseInv, RunsRunning, Changed
  <2>12. OneEnder'
    <3> SUFFICES ASSUME NEW u \in Thread, NEW j \in Task, Ends(u, j)', ~done[j]
                 PROVE  /\ \A v \in Thread : <<j, "run">> \notin Owned(v)'
                        /\ \A v \in Thread : Ends(v, j)' => v = u
      BY <1>4 DEF OneEnder
    <3>1. u # t /\ Ends(u, j)
      BY <2>7, <2>8, OtherThreads
    <3>2. j # k
      BY <2>2, <3>1 DEF IInv, BindInv, Ending, Ends
    <3>3. /\ \A v \in Thread : <<j, "run">> \notin Owned(v)
          /\ \A v \in Thread : Ends(v, j) => v = u
      BY <3>1 DEF UseInv, OneEnder
    <3>4. \A v \in Thread : Ends(v, j)' => Ends(v, j)
      BY <2>7, <2>8, OtherThreads
    <3> QED
      BY <2>6, <3>2, <3>3, <3>4 DEF Changed
  <2>13. \A j \in Task : /\ <<j, "hold">> \in Owned(t)' <=> <<j, "hold">> \in Owned(t)
                         /\ <<j, "todo">> \in Owned(t)' <=> <<j, "todo">> \in Owned(t)
    BY <2>6 DEF Changed
  <2> QED
    BY <1>4, <1>5, <2>3, <2>6, <2>7, <2>8, <2>9, <2>11, <2>12, <2>13, CalmUse DEF Changed
<1> QED
  BY <1>6, <1>7 DEF StartTask

LEMMA YieldUse ==
  ASSUME IInv, UseInv, NEW t \in Thread, Yield(t)
  PROVE  UseInv'
<1> DEFINE k == Top(t).task
           c == NewCall("notify", Null, k)
<1>1. Top(t) \in GoodCall /\ stack[t] # <<>> /\ Top(t).pc = "run"
  BY TopGood DEF Yield, At, IInv
<1>2. k \in Task /\ Top(t).todo = {}
  BY <1>1 DEF GoodCall, OfTick, OfTask
<1>3. UNCHANGED <<done, binding, tasks, flags>>
  BY DEF Yield, mgrVars
<1>4. \A j \in Task : ~Tells(t, j) /\ \A m \in Manager : ~Removes(t, j, m)
  BY <1>1 DEF Tells, Ending, Removes, At
<1>5. Claims(Top(t)) = {<<k, "run">>} /\ k \in Names(Top(t))
  BY <1>1, <1>2 DEF Claims, Holds, Runs, Names
<1> HIDE DEF k
<1>6. <<k, "run">> \in Owned(t) /\ Names(Top(t)) \subseteq Named(t)
  BY <1>1, <1>5, TopAndRest DEF IInv
<1>7. \A u \in Thread \ {t} : <<k, "run">> \notin Owned(u)
  BY <1>6 DEF UseInv, Alone
<1>8. ASSUME NEW u \in Thread, Ends(u, k), ~done[k] PROVE FALSE
  BY <1>2, <1>6, <1>8 DEF UseInv, OneEnder
<1>9. CASE Exiting(k) /\ Become(t, c) /\ UNCHANGED status
  <2>1. c \in GoodCall /\ c.pc = "notify" /\ c.task = k /\ c.todo = {}
    BY <1>2, NewCallGood DEF Label, OfManager, OfTask, OfTick, NewCall
  <2>2. Claims(c) = {} /\ Names(c) = {k}
    BY <2>1 DEF Claims, Holds, Runs, Names
  <2> HIDE DEF c
  <2>3. /\ Alone' /\ Changed(t, {<<k, "run">>}, {})
        /\ Named(t)' \subseteq Named(t)
    BY <1>1, <1>5, <1>6, <1>9, <2>1, <2>2, AfterBecome DEF IInv, UseInv
  <2>4. stack'[t] # <<>> /\ Head(stack'[t]) = c /\ \A u \in Thread \ {t} : stack'[u] = stack[u]
    BY <1>1, <1>9, <2>1, Became DEF IInv
  <2>5. \A j \in Task : ~Adds(t, j)' /\ ~LetsGo(t, j)' /\ (Ends(t, j)' => j = k)
    BY <2>1, <2>4 DEF Adds, Ends, LetsGo, At, Top
  <2>6. \A j \in Task : Exiting(j)' <=> Exiting(j)
    BY <1>9 DEF Exiting
  <2>7. RunsRunning'
    <3>1. \A u \in Thread : Owned(u)' \subseteq Owned(u)
      BY <2>3 DEF Changed
    <3> QED
      BY <1>3, <1>9, <2>6, <3>1 DEF UseInv, RunsRunning
  <2>8. OneEnder'
    <3> SUFFICES ASSUME NEW u \in Thread, NEW j \in Task, Ends(u, j)', ~done[j]
                 PROVE  /\ \A v \in Thread : <<j, "run">> \notin Owned(v)'
                        /\ \A v \in Thread : Ends(v, j)' => v = u
      BY <1>3 DEF OneEnder
    <3>1. \A v \in Thread \ {t} : Ends(v, j)' <=> Ends(v, j)
      BY <2>4, OtherThreads
    <3>2. CASE j = k
      BY <1>7, <1>8, <2>3, <3>1, <3>2 DEF Changed
    <3>3. CASE j # k
      BY <2>3, <2>5, <3>1, <3>3 DEF Changed, UseInv, OneEnder
    <3> QED
      BY <3>2, <3>3
  <2>9. \A j \in Task : /\ <<j, "hold">> \in Owned(t)' <=> <<j, "hold">> \in Owned(t)
                        /\ <<j, "todo">> \in Owned(t)' <=> <<j, "todo">> \in Owned(t)
    BY <2>3 DEF Changed
  <2> QED
    BY <1>3, <1>4, <2>3, <2>4, <2>5, <2>6, <2>7, <2>8, <2>9, CalmUse DEF Changed
<1>10. CASE ~Exiting(k) /\ status' = [status EXCEPT ![k] = WAITING] /\ Pop(t)
  <2>1. Alone' /\ Changed(t, {<<k, "run">>}, {}) /\ Named(t)' \subseteq Named(t)
    BY <1>1, <1>5, <1>10, AfterPop DEF IInv, UseInv
  <2>2. /\ stack'[t] # <<>> => Head(stack'[t]) \in BelowCall
        /\ \A u \in Thread \ {t} : stack'[u] = stack[u]
    BY <1>1, <1>10, Popped DEF IInv
  <2>3. \A j \in Task : ~Adds(t, j)' /\ ~Ends(t, j)' /\ ~LetsGo(t, j)'
    BY <2>2 DEF BelowCall, Below, Adds, Ends, LetsGo, At, Top
  <2>4. /\ \A j \in Task : Exiting(j)' <=> Exiting(j)
        /\ \A j \in Task \ {k} : status'[j] = status[j]
    <3>1. status'[k] = WAITING /\ \A j \in Task \ {k} : status'[j] = status[j]
      BY <1>2, <1>10 DEF IInv, TypeOK
    <3>2. ~(WAITING >= DONE)
      BY DEF WAITING, DONE
    <3> QED
      BY <1>10, <3>1, <3>2 DEF Exiting
  <2>5. \A u \in Thread : Owned(u)' \subseteq Owned(u) \ {<<k, "run">>}
    BY <1>7, <2>1 DEF Changed
  <2>6. RunsRunning'
    BY <1>3, <2>4, <2>5 DEF UseInv, RunsRunning
  <2>7. OneEnder'
    <3>1. \A u \in Thread, j \in Task : Ends(u, j)' => Ends(u, j)
      BY <2>2, <2>3, OtherThreads
    <3> QED
      BY <1>3, <2>5, <3>1 DEF UseInv, OneEnder
  <2>8. \A j \in Task : /\ <<j, "hold">> \in Owned(t)' <=> <<j, "hold">> \in Owned(t)
                        /\ <<j, "todo">> \in Owned(t)' <=> <<j, "todo">> \in Owned(t)
    BY <2>1 DEF Changed
  <2> QED
    BY <1>3, <1>4, <2>1, <2>2, <2>3, <2>4, <2>6, <2>7, <2>8, CalmUse DEF Changed
<1> QED
  BY <1>9, <1>10 DEF Yield, k

LEMMA NotifyUse ==
  ASSUME IInv, UseInv, NEW t \in Thread, Notify(t)
  PROVE  UseInv'
<1> DEFINE k == Top(t).task
<1>1. Top(t) \in GoodCall /\ stack[t] # <<>> /\ Top(t).pc = "notify"
  BY TopGood DEF Notify, At, IInv
<1>2. k \in Task /\ Exiting(k) /\ Top(t).todo = {}
  BY <1>1 DEF GoodCall, OfTick, OfTask, IInv, BindInv, Ending, At
<1>3. UNCHANGED <<status, done, binding, tasks, flags>>
  BY DEF Notify, taskVars, mgrVars
<1>4. \A j \in Task : /\ \A m \in Manager : ~Removes(t, j, m)
                      /\ Tells(t, j) <=> j = k
                      /\ Ends(t, j) <=> j = k
  BY <1>1 DEF Tells, Ends, Ending, Removes, At
<1>5. Claims(Top(t)) = {} /\ Names(Top(t)) = {k} /\ Holds(Top(t)) = {}
  BY <1>1, <1>2 DEF Claims, Holds, Runs, Names
<1>6. CASE Goto(t, "take")
  <2> DEFINE c == [Top(t) EXCEPT !.pc = "take"]
  <2>1. c \in GoodCall /\ c.pc = "take" /\ c.task = k /\ c.todo = {}
    BY <1>1, <1>2 DEF GoodCall, OfTick, Call, Label, OfManager, OfTask
  <2>2. Become(t, c)
    BY <1>6 DEF Goto
  <2> HIDE DEF c
  <2>3. Claims(c) = {} /\ Names(c) = {k}
    BY <2>1 DEF Claims, Holds, Runs, Names
  <2> HIDE DEF k
  <2> QED
    BY <1>1, <1>3, <1>4, <1>5, <2>1, <2>2, <2>3, BecomeUse DEF IInv
<1>7. CASE ~done[k] /\ Become(t, [NewCall("run", Null, k) EXCEPT !.end = "last_run"])
  <2> DEFINE c == [NewCall("run", Null, k) EXCEPT !.end = "last_run"]
  <2>1. c \in GoodCall /\ c.pc = "run" /\ c.task = k /\ c.todo = {}
    BY <1>2, NullIsNoTime DEF NewCall, GoodCall, OfTick, Call, Label, End, OfManager, OfTask
  <2>2. Become(t, c)
    BY <1>7
  <2> HIDE DEF c
  <2>3. Claims(c) = {<<k, "run">>} /\ Names(c) = {k}
    BY <2>1 DEF Claims, Holds, Runs, Names
  <2> HIDE DEF k
  <2>4. \A u \in Thread : <<k, "run">> \notin Owned(u) /\ (Ends(u, k) => u = t)
    BY <1>2, <1>4, <1>7 DEF UseInv, OneEnder
  <2>5. Alone' /\ Changed(t, {}, {<<k, "run">>}) /\ Named(t)' \subseteq Named(t) \cup {k}
    <3>1. \A u \in Thread : (Claims(c) \ Claims(Top(t))) \cap Owned(u) = {}
      BY <1>5, <2>3, <2>4
    <3>2. /\ Alone' /\ Changed(t, Claims(Top(t)), Claims(c))
          /\ Named(t)' \subseteq Named(t) \cup Names(c)
      BY <1>1, <2>1, <2>2, <3>1, AfterBecome DEF IInv, UseInv
    <3> QED
      BY <1>5, <2>3, <3>2
  <2>6. stack'[t] # <<>> /\ Head(stack'[t]) = c /\ \A u \in Thread \ {t} : stack'[u] = stack[u]
    BY <1>1, <2>1, <2>2, Became DEF IInv
  <2>7. \A j \in Task : ~Adds(t, j)' /\ ~Ends(t, j)' /\ ~LetsGo(t, j)'
    BY <2>1, <2>6 DEF Adds, Ends, LetsGo, At, Top
  <2>8. Named(t)' \subseteq Named(t)
    BY <1>1, <1>5, <2>5, TopAndRest DEF IInv
  <2>9. \A j \in Task : Exiting(j)' <=> Exiting(j)
    BY <1>3 DEF Exiting
  <2>10. RunsRunning'
    BY <1>2, <1>3, <1>7, <2>5, <2>9 DEF UseInv, RunsRunning, Changed
  <2>11. OneEnder'
    <3> SUFFICES ASSUME NEW u \in Thread, NEW j \in Task, Ends(u, j)', ~done[j]
                 PROVE  /\ \A v \in Thread : <<j, "run">> \notin Owned(v)'
                        /\ \A v \in Thread : Ends(v, j)' => v = u
      BY <1>3 DEF OneEnder
    <3>1. \A v \in Thread : Ends(v, j)' => Ends(v, j) /\ v # t
      BY <2>6, <2>7, OtherThreads
    <3>2. j # k
      BY <2>4, <3>1
    <3> QED
      BY <2>5, <3>1, <3>2 DEF Changed, UseInv, OneEnder
  <2>12. \A j \in Task : /\ <<j, "hold">> \in Owned(t)' <=> <<j, "hold">> \in Owned(t)
                         /\ <<j, "todo">> \in Owned(t)' <=> <<j, "todo">> \in Owned(t)
    BY <2>5 DEF Changed
  <2> QED
    BY <1>3, <1>4, <1>7, <2>5, <2>6, <2>7, <2>8, <2>9, <2>10, <2>11, <2>12, CalmUse DEF Changed
<1> QED
  BY <1>6, <1>7 DEF Notify

-----------------------------------------------------------------------------
(* The steps that take a task out of a table, and those that hold one *)

\* A call takes a task out of a table, and holds it.
LEMMA ErasedUse ==
  ASSUME IInv, UseInv, NEW t \in Thread, NEW m \in Manager, NEW k \in Task,
         k \in tasks[m], Erase(m, k), UNCHANGED <<status, done, binding, flags>>,
         Alone', Changed(t, {}, {<<k, "hold">>}), Named(t)' \subseteq Named(t) \cup {k},
         \A u \in Thread \ {t} : stack'[u] = stack[u],
         \A j \in Task : /\ ~Adds(t, j)' /\ ~Ends(t, j)' /\ ~LetsGo(t, j)' /\ ~Tells(t, j)
                         /\ \A n \in Manager : Removes(t, j, n) => j = k /\ n = m
  PROVE  UseInv'
<1>1. /\ tasks'[m] = tasks[m] \ {k} /\ \A n \in Manager \ {m} : tasks'[n] = tasks[n]
      /\ \A n \in Manager : tasks'[n] \subseteq tasks[n] /\ k \notin tasks'[n]
  BY DEF Erase, Erased, IInv, TypeOK, UseInv, OneTable
<1>2. \A u \in Thread \ {t}, j \in Task :
        /\ Adds(u, j)' <=> Adds(u, j)
        /\ Ends(u, j)' <=> Ends(u, j)
        /\ Tells(u, j)' <=> Tells(u, j)
        /\ LetsGo(u, j)' <=> LetsGo(u, j)
        /\ \A n \in Manager : Removes(u, j, n)' <=> Removes(u, j, n)
  BY OtherThreads
<1>3. \A j \in Task : Exiting(j)' <=> Exiting(j)
  BY DEF Exiting
<1>4. \A u \in Thread, j \in Task :
        /\ <<j, "run">> \in Owned(u)' => <<j, "run">> \in Owned(u)
        /\ <<j, "todo">> \in Owned(u)' => <<j, "todo">> \in Owned(u)
        /\ <<j, "hold">> \in Owned(u) => <<j, "hold">> \in Owned(u)'
        /\ <<j, "hold">> \in Owned(u)' => <<j, "hold">> \in Owned(u) \/ j = k
  BY DEF Changed
<1>5. OneTable'
  BY <1>1 DEF UseInv, OneTable
<1>6. FreeInTable'
  <2>1. FreeInTable
    BY DEF UseInv
  <2>2. SUFFICES ASSUME NEW n \in Manager, NEW j \in Task, NEW u \in Thread,
                        j \in tasks'[n], <<j, "hold">> \in Owned(u)'
                 PROVE  FALSE
    BY DEF FreeInTable
  <2>3. j \in tasks[n] /\ j # k
    BY <1>1, <2>2
  <2>4. <<j, "hold">> \in Owned(u)
    BY <1>4, <2>2, <2>3
  <2> QED
    BY <2>1, <2>3, <2>4 DEF FreeInTable
<1>7. RunsRunning'
  BY <1>3, <1>4 DEF UseInv, RunsRunning
<1>8. DoneExiting'
  BY <1>3 DEF UseInv, DoneExiting
<1>9. EndedOnce'
  BY <1>1, <1>3, <1>4 DEF UseInv, EndedOnce
<1>10. OneEnder'
  <2>1. \A u \in Thread, j \in Task : Ends(u, j)' => Ends(u, j)
    BY <1>2
  <2> QED
    BY <1>4, <2>1 DEF UseInv, OneEnder
<1>11. StillBound'
  BY <1>3, <1>4 DEF UseInv, StillBound
<1>12. LetGo'
  BY <1>2, <1>3 DEF UseInv, LetGo
<1>13. BoundHeld'
  <2> SUFFICES ASSUME NEW j \in Task, ~Exiting(j), binding[j] # Null, j \notin tasks'[binding[j]]
               PROVE  \E u \in Thread : <<j, "hold">> \in Owned(u)'
    BY <1>3 DEF BoundHeld
  <2>1. CASE j = k
    BY <2>1 DEF Changed
  <2>2. CASE j # k
    <3>1. binding[j] \in Manager
      BY DEF IInv, TypeOK
    <3>2. j \notin tasks[binding[j]]
      BY <1>1, <2>2, <3>1
    <3>3. PICK u \in Thread : <<j, "hold">> \in Owned(u)
      BY <3>2 DEF UseInv, BoundHeld
    <3> QED
      BY <1>4, <3>3
  <2> QED
    BY <2>1, <2>2
<1>14. AddedAlone'
  <2> SUFFICES ASSUME NEW u \in Thread, NEW j \in Task, Adds(u, j)'
               PROVE  /\ ~Exiting(j)
                      /\ \A n \in Manager : j \notin tasks'[n]
                      /\ \A v \in Thread \ {u} : j \notin Named(v)'
    BY <1>3 DEF AddedAlone
  <2>1. u # t /\ Adds(u, j)
    BY <1>2
  <2>2. /\ ~Exiting(j)
        /\ \A n \in Manager : j \notin tasks[n]
        /\ \A v \in Thread \ {u} : j \notin Named(v)
    BY <2>1 DEF UseInv, AddedAlone
  <2> QED
    BY <1>1, <2>2 DEF Changed
<1>15. DoneRemoved'
  <2> SUFFICES ASSUME NEW n \in Manager, NEW j \in Task,
                      j \in tasks'[n], done[j], "reset" \notin flags[n]
               PROVE  \E u \in Thread : (Tells(u, j)' /\ binding[j] = n) \/ Removes(u, j, n)'
    BY DEF DoneRemoved
  <2>1. j # k /\ j \in tasks[n]
    BY <1>1
  <2>2. PICK u \in Thread : (Tells(u, j) /\ binding[j] = n) \/ Removes(u, j, n)
    BY <2>1 DEF UseInv, DoneRemoved
  <2> QED
    BY <1>2, <2>1, <2>2
<1> QED
  BY <1>5, <1>6, <1>7, <1>8, <1>9, <1>10, <1>11, <1>12, <1>13, <1>14, <1>15 DEF UseInv

LEMMA EraseToEndUse ==
  ASSUME IInv, UseInv, NEW t \in Thread, NEW m \in Manager, NEW k \in Task,
         NEW end \in {"killed", "canceled"}, EraseToEnd(t, m, k, end)
  PROVE  UseInv'
<1> DEFINE c == [NewCall("cleanup", m, k) EXCEPT !.end = end]
<1>1. c \in GoodCall /\ c.pc = "cleanup" /\ c.task = k /\ c.todo = {}
  BY NullIsNoTime DEF NewCall, GoodCall, OfTick, Call, End, Label, OfManager, OfTask
<1>2. Push(t, c) /\ Erase(m, k) /\ k \in tasks[m] /\ InClient(t)
      /\ UNCHANGED <<status, done, binding, flags>>
  BY DEF EraseToEnd, Found, NextCall, taskVars
<1> HIDE DEF c
<1>3. Claims(c) = {<<k, "hold">>} /\ Names(c) = {k}
  BY <1>1 DEF Claims, Holds, Runs, Names
<1>4. \A u \in Thread : Claims(c) \cap Owned(u) = {}
  BY <1>2, <1>3 DEF UseInv, FreeInTable
<1>5. Alone' /\ Changed(t, {}, Claims(c)) /\ Named(t)' = Named(t) \cup Names(c)
  BY <1>1, <1>2, <1>4, AfterPush DEF IInv, UseInv
<1>6. stack'[t] # <<>> /\ Head(stack'[t]) = c /\ \A u \in Thread \ {t} : stack'[u] = stack[u]
  BY <1>1, <1>2, Pushed DEF IInv
<1>7. \A j \in Task : ~Adds(t, j)' /\ ~Ends(t, j)' /\ ~LetsGo(t, j)'
  BY <1>1, <1>6 DEF Adds, Ends, LetsGo, At, Top
<1>8. \A j \in Task : ~Tells(t, j) /\ \A n \in Manager : ~Removes(t, j, n)
  BY <1>2, BelowIsIdle DEF InClient, At, Below
<1>9. Changed(t, {}, {<<k, "hold">>}) /\ Named(t)' \subseteq Named(t) \cup {k}
  BY <1>3, <1>5
<1> QED
  BY <1>2, <1>5, <1>6, <1>7, <1>8, <1>9, ErasedUse

LEMMA RemoveUse ==
  ASSUME IInv, UseInv, NEW t \in Thread, Remove(t)
  PROVE  UseInv'
<1>1. Top(t) \in GoodCall /\ stack[t] # <<>> /\ Top(t).pc = "remove"
  BY TopGood DEF Remove, At, IInv
<1>2. PICK m \in Manager : m = Top(t).mgr
  BY <1>1 DEF GoodCall, OfTick, OfManager
<1>3. PICK k \in Task : k = Top(t).task
  BY <1>1 DEF GoodCall, OfTick, OfTask
<1>4. UNCHANGED <<status, done, binding, flags>>
  BY DEF Remove, taskVars
<1>5. \A j \in Task : /\ ~Tells(t, j)
                      /\ \A n \in Manager : Removes(t, j, n) => j = k /\ n = m
  BY <1>1, <1>2, <1>3 DEF Tells, Ending, Removes, At
<1>6. Top(t).todo = {} /\ Claims(Top(t)) = {} /\ Holds(Top(t)) = {}
  BY <1>1 DEF GoodCall, OfTick, Claims, Holds, Runs
<1>7. CASE ("reset" \in flags[m] \/ k \notin tasks[m]) /\ Pop(t) /\ UNCHANGED tasks
  BY <1>1, <1>4, <1>5, <1>6, <1>7, PopUse DEF IInv
<1>8. CASE /\ k \in tasks[m] /\ Erase(m, k)
           /\ Become(t, [NewCall("cleanup", m, k) EXCEPT !.end = "remove"])
  <2> DEFINE c == [NewCall("cleanup", m, k) EXCEPT !.end = "remove"]
  <2>1. c \in GoodCall /\ c.pc = "cleanup" /\ c.task = k /\ c.todo = {}
    BY NullIsNoTime DEF NewCall, GoodCall, OfTick, Call, End, Label, OfManager, OfTask
  <2>2. Become(t, c)
    BY <1>8
  <2> HIDE DEF c
  <2>3. Claims(c) = {<<k, "hold">>} /\ Names(c) = {k}
    BY <2>1 DEF Claims, Holds, Runs, Names
  <2>4. \A u \in Thread : (Claims(c) \ Claims(Top(t))) \cap Owned(u) = {}
    BY <1>8, <2>3 DEF UseInv, FreeInTable
  <2>5. /\ Alone' /\ Changed(t, Claims(Top(t)), Claims(c))
        /\ Named(t)' \subseteq Named(t) \cup Names(c)
    BY <1>1, <2>1, <2>2, <2>4, AfterBecome DEF IInv, UseInv
  <2>6. stack'[t] # <<>> /\ Head(stack'[t]) = c /\ \A u \in Thread \ {t} : stack'[u] = stack[u]
    BY <1>1, <2>1, <2>2, Became DEF IInv
  <2>7. \A j \in Task : ~Adds(t, j)' /\ ~Ends(t, j)' /\ ~LetsGo(t, j)'
    BY <2>1, <2>6 DEF Adds, Ends, LetsGo, At, Top
  <2>8. Changed(t, {}, {<<k, "hold">>}) /\ Named(t)' \subseteq Named(t) \cup {k}
    BY <1>6, <2>3, <2>5
  <2> QED
    BY <1>4, <1>5, <1>8, <2>5, <2>6, <2>7, <2>8, ErasedUse
<1> QED
  BY <1>2, <1>3, <1>7, <1>8 DEF Remove

LEMMA TickLockedUse ==
  ASSUME IInv, UseInv, NEW t \in Thread, TickLocked(t)
  PROVE  UseInv'
<1>1. Top(t) \in GoodCall /\ stack[t] # <<>> /\ Top(t).pc = "tick_locked"
  BY TopGood DEF TickLocked, At, IInv
<1>2. PICK m \in Manager : m = Top(t).mgr
  BY <1>1 DEF GoodCall, OfTick, OfManager
<1>3. PICK now \in Clock : now = Top(t).time /\ now \in Time
  BY <1>1 DEF GoodCall, OfTick, Call
<1>4. UNCHANGED <<status, done, binding, flags>>
  BY DEF TickLocked, taskVars
<1>5. \A j \in Task : ~Tells(t, j) /\ \A n \in Manager : ~Removes(t, j, n)
  BY <1>1 DEF Tells, Ending, Removes, At
<1>6. Top(t).todo = {} /\ Claims(Top(t)) = {} /\ Holds(Top(t)) = {}
  BY <1>1 DEF GoodCall, OfTick, Claims, Holds, Runs
<1>7. ASSUME UNCHANGED <<tasks, timers, node>>, NEW l \in {"tick", "tick_end"}, Goto(t, l)
      PROVE  UseInv'
  <2> DEFINE c == [Top(t) EXCEPT !.pc = l]
  <2>1. c \in GoodCall /\ c.pc = l /\ c.task = Top(t).task /\ c.todo = {}
    BY <1>1, <1>6 DEF GoodCall, OfTick, Call, Label, OfManager, OfTask
  <2>2. Become(t, c)
    BY <1>7 DEF Goto
  <2> HIDE DEF c
  <2>3. Claims(c) = {} /\ Names(c) = Names(Top(t))
    BY <1>6, <2>1 DEF Claims, Holds, Runs, Names
  <2> QED
    BY <1>1, <1>4, <1>5, <1>6, <1>7, <2>1, <2>2, <2>3, BecomeUse DEF IInv
<1>8. ASSUME NEW k \in Task, k \in tasks[m], Erase(m, k),
             stack' = [stack EXCEPT ![t] =
               <<[NewCall("tick_exiting", m, k) EXCEPT !.end = "timeout", !.time = now],
                 [Top(t) EXCEPT !.pc = "tick"]>> \o Tail(@)]
      PROVE  UseInv'
  <2> DEFINE c == [NewCall("tick_exiting", m, k) EXCEPT !.end = "timeout", !.time = now]
             d == [Top(t) EXCEPT !.pc = "tick"]
  <2>1. c \in GoodCall /\ c.pc = "tick_exiting" /\ c.task = k /\ c.todo = {}
    BY <1>3 DEF NewCall, GoodCall, OfTick, Call, End, Label, OfManager, OfTask
  <2>2. d \in BelowCall /\ d \in GoodCall /\ d.pc = "tick" /\ d.task = Top(t).task /\ d.todo = {}
    BY <1>1, <1>6 DEF GoodCall, OfTick, Call, Label, OfManager, OfTask, BelowCall, Below
  <2>3. stack' = [stack EXCEPT ![t] = <<c, d>> \o Tail(@)]
    BY <1>8
  <2> HIDE DEF c, d
  <2>4. /\ Claims(c) = {<<k, "hold">>} /\ Names(c) = {k}
        /\ Claims(d) = {} /\ Names(d) = Names(Top(t))
    BY <1>6, <2>1, <2>2 DEF Claims, Holds, Runs, Names
  <2>5. /\ Claims(c) \cap Claims(d) = {}
        /\ \A u \in Thread : ((Claims(c) \cup Claims(d)) \ Claims(Top(t))) \cap Owned(u) = {}
    BY <1>8, <2>4 DEF UseInv, FreeInTable
  <2>6. /\ Alone' /\ Changed(t, Claims(Top(t)), Claims(c) \cup Claims(d))
        /\ Named(t)' \subseteq Named(t) \cup Names(c) \cup Names(d)
    BY <1>1, <2>1, <2>2, <2>3, <2>5, AfterNested DEF IInv, UseInv
  <2>7. stack'[t] # <<>> /\ Head(stack'[t]) = c /\ \A u \in Thread \ {t} : stack'[u] = stack[u]
    BY <1>1, <2>1, <2>2, <2>3, Nested DEF IInv
  <2>8. \A j \in Task : ~Adds(t, j)' /\ ~Ends(t, j)' /\ ~LetsGo(t, j)'
    BY <2>1, <2>7 DEF Adds, Ends, LetsGo, At, Top
  <2>9. Changed(t, {}, {<<k, "hold">>})
    BY <1>6, <2>4, <2>6 DEF Changed
  <2>10. Named(t)' \subseteq Named(t) \cup {k}
    BY <1>1, <2>4, <2>6, TopAndRest DEF IInv
  <2> QED
    BY <1>4, <1>5, <1>8, <2>6, <2>7, <2>8, <2>9, <2>10, ErasedUse
<1>9. \A x \in Earliest(m) : x[2] \in Task
  BY DEF Earliest, IInv, TypeOK
<1> QED
  BY <1>2, <1>3, <1>7, <1>8, <1>9 DEF TickLocked

LEMMA TodoIsHeld ==
  ASSUME NEW s, NEW k, <<k, "todo">> \in SeqClaims(s)
  PROVE  <<k, "hold">> \in SeqClaims(s)
<1>1. PICK i \in DOMAIN s : <<k, "todo">> \in Claims(s[i])
  BY DEF SeqClaims
<1>2. k \in s[i].todo
  BY <1>1, ClaimTokens
<1>3. <<k, "hold">> \in Claims(s[i])
  BY <1>2, ClaimTokens DEF Holds
<1> QED
  BY <1>3 DEF SeqClaims

\* What a call holds it names.
LEMMA ClaimedIsNamed ==
  ASSUME NEW u \in Thread, NEW k, <<k, "hold">> \in Owned(u)
  PROVE  k \in Named(u)
<1>1. PICK i \in DOMAIN stack[u] : <<k, "hold">> \in Claims(stack[u][i])
  BY DEF Owned, SeqClaims
<1>2. k \in Names(stack[u][i])
  BY <1>1, ClaimTokens DEF Holds, Names
<1> QED
  BY <1>1, <1>2 DEF Named, SeqNames

\* The task that a call itself holds is on nobody's list.
LEMMA HeldOnNoList ==
  ASSUME StackOK, Alone, NEW t \in Thread, stack[t] # <<>>, NEW k \in Task,
         k \in Holds(Top(t)), Top(t).todo = {}
  PROVE  \A u \in Thread : <<k, "todo">> \notin Owned(u)
<1>1. /\ Owned(t) = Claims(Top(t)) \cup SeqClaims(Tail(stack[t]))
      /\ Claims(Top(t)) \cap SeqClaims(Tail(stack[t])) = {}
  BY TopAndRest DEF Alone
<1>2. <<k, "hold">> \in Claims(Top(t)) /\ <<k, "todo">> \notin Claims(Top(t))
  BY ClaimTokens
<1>3. <<k, "todo">> \notin Owned(t)
  BY <1>1, <1>2, TodoIsHeld
<1>4. ASSUME NEW u \in Thread \ {t} PROVE <<k, "todo">> \notin Owned(u)
  <2>1. <<k, "hold">> \notin Owned(u)
    BY <1>1, <1>2 DEF Alone
  <2> QED
    BY <2>1, TodoIsHeld DEF Owned
<1> QED
  BY <1>3, <1>4

\* What a thread holds without its innermost call is on the list of a reset().
LEMMA HeldBelow ==
  ASSUME StackOK, NEW t \in Thread, stack[t] # <<>>, NEW k, Holds(Top(t)) = {},
         <<k, "hold">> \in Owned(t)
  PROVE  <<k, "todo">> \in Owned(t)
<1> DEFINE r == Tail(stack[t])
<1>1. Owned(t) = Claims(Top(t)) \cup SeqClaims(r) /\ r \in Seq(BelowCall)
  BY TopAndRest DEF StackOK
<1>2. <<k, "hold">> \in SeqClaims(r)
  BY <1>1, ClaimTokens
<1> HIDE DEF r
<1>3. PICK i \in DOMAIN r : <<k, "hold">> \in Claims(r[i])
  BY <1>2 DEF SeqClaims
<1>4. r[i] \in BelowCall
  BY <1>1
<1>5. <<k, "todo">> \in Claims(r[i])
  BY <1>3, <1>4, ClaimTokens DEF BelowCall, Below, Holds
<1> QED
  BY <1>1, <1>3, <1>5 DEF SeqClaims

\* A step that forgets a binding.
LEMMA ForgetUse ==
  ASSUME IInv, UseInv, NEW t \in Thread, NEW k \in Task, NEW b \in Manager \cup {Null},
         binding' = [binding EXCEPT ![k] = b], UNCHANGED <<status, done, tasks, flags>>,
         Exiting(k) \/ (b = Null /\ \A u \in Thread : <<k, "todo">> \notin Owned(u)),
         Alone', Owned(t)' = Owned(t), Named(t)' \subseteq Named(t),
         \A u \in Thread \ {t} :
           stack'[u] = stack[u] /\ Owned(u)' = Owned(u) /\ Named(u)' = Named(u),
         \A j \in Task : /\ ~Adds(t, j)' /\ ~Ends(t, j)'
                         /\ LetsGo(t, j)' => Exiting(j) \/ binding'[j] = Null,
         DoneRemoved'
  PROVE  UseInv'
<1>1. \A u \in Thread \ {t}, j \in Task :
        /\ Adds(u, j)' <=> Adds(u, j)
        /\ Ends(u, j)' <=> Ends(u, j)
        /\ LetsGo(u, j)' <=> LetsGo(u, j)
  BY OtherThreads
<1>2. \A j \in Task : Exiting(j)' <=> Exiting(j)
  BY DEF Exiting
<1>3. \A u \in Thread : Owned(u)' = Owned(u)
  OBVIOUS
<1>4. binding'[k] = b /\ \A j \in Task \ {k} : binding'[j] = binding[j]
  BY DEF IInv, TypeOK
<1>5. OneTable' /\ FreeInTable' /\ DoneExiting' /\ EndedOnce'
  BY <1>2, <1>3 DEF UseInv, OneTable, FreeInTable, DoneExiting, EndedOnce
<1>6. RunsRunning'
  BY <1>2, <1>3 DEF UseInv, RunsRunning
<1>7. OneEnder'
  <2>1. \A u \in Thread, j \in Task : Ends(u, j)' => Ends(u, j)
    BY <1>1
  <2> QED
    BY <1>3, <2>1 DEF UseInv, OneEnder
<1>8. StillBound'
  BY <1>2, <1>3, <1>4 DEF UseInv, StillBound
<1>9. LetGo'
  BY <1>1, <1>2, <1>4 DEF UseInv, LetGo
<1>10. BoundHeld'
  <2> SUFFICES ASSUME NEW j \in Task, ~Exiting(j), binding'[j] # Null
               PROVE  j \in tasks[binding'[j]] \/ \E u \in Thread : <<j, "hold">> \in Owned(u)
    BY <1>2, <1>3 DEF BoundHeld
  <2>1. j # k
    BY <1>4
  <2> QED
    BY <1>4, <2>1 DEF UseInv, BoundHeld
<1>11. AddedAlone'
  BY <1>1, <1>2 DEF UseInv, AddedAlone
<1> QED
  BY <1>5, <1>6, <1>7, <1>8, <1>9, <1>10, <1>11 DEF UseInv

LEMMA CleanupUse ==
  ASSUME IInv, UseInv, NEW t \in Thread, Cleanup(t)
  PROVE  UseInv'
<1>1. Top(t) \in GoodCall /\ stack[t] # <<>> /\ Top(t).pc = "cleanup"
  BY TopGood DEF Cleanup, At, IInv
<1>2. PICK k \in Task : k = Top(t).task
  BY <1>1 DEF GoodCall, OfTick, OfTask
<1>3. PICK l \in {"read", "finish"} :
        Goto(t, l) /\ (l = "finish" => Top(t).end # "remove")
  BY DEF Cleanup
<1> DEFINE c == [Top(t) EXCEPT !.pc = l]
<1>4. c \in GoodCall /\ c.pc = l /\ c.task = k /\ c.todo = Top(t).todo /\ Top(t).todo = {}
  BY <1>1, <1>2, <1>3 DEF GoodCall, OfTick, Call, Label, OfManager, OfTask
<1>5. Become(t, c)
  BY <1>3 DEF Goto
<1> HIDE DEF c
<1>6. Claims(c) = Claims(Top(t)) /\ Names(c) = Names(Top(t)) /\ Holds(Top(t)) = {k}
  BY <1>1, <1>2, <1>4 DEF Claims, Holds, Runs, Names
<1>7. /\ Alone' /\ Changed(t, Claims(Top(t)), Claims(c))
      /\ Claims(Top(t)) \subseteq Owned(t) /\ Named(t)' \subseteq Named(t) \cup Names(c)
  BY <1>1, <1>4, <1>5, <1>6, AfterBecome DEF IInv, UseInv
<1>8. Owned(t)' = Owned(t) /\ Named(t)' \subseteq Named(t)
  <2>1. Names(Top(t)) \subseteq Named(t)
    BY <1>1, TopAndRest DEF IInv
  <2> QED
    BY <1>6, <1>7, <2>1 DEF Changed
<1>9. stack'[t] # <<>> /\ Head(stack'[t]) = c /\ \A u \in Thread \ {t} : stack'[u] = stack[u]
  BY <1>1, <1>4, <1>5, Became DEF IInv
<1>10. \A u \in Thread : <<k, "todo">> \notin Owned(u)
  BY <1>1, <1>4, <1>6, HeldOnNoList DEF IInv, UseInv
<1>11. Exiting(k) \/ CleanedUp(Top(t).mgr, k) = Null
  BY <1>1, <1>2 DEF IInv, BindInv, Leaving, At, CleanedUp
<1>12. PICK b \in Manager \cup {Null} :
         binding' = [binding EXCEPT ![k] = b] /\ (Exiting(k) \/ b = Null)
  BY <1>2, <1>11 DEF Cleanup, CleanedUp, IInv, TypeOK
<1>13. UNCHANGED <<status, done, tasks, flags>>
  BY DEF Cleanup, taskVars, mgrVars
<1>14. \A j \in Task : /\ ~Adds(t, j)' /\ ~Ends(t, j)'
                       /\ LetsGo(t, j)' => Exiting(j) \/ binding'[j] = Null
  <2>1. binding'[k] = b
    BY <1>12 DEF IInv, TypeOK
  <2> QED
    BY <1>4, <1>9, <1>12, <2>1 DEF Adds, Ends, LetsGo, At, Top
<1>15. DoneRemoved'
  <2> SUFFICES ASSUME NEW n \in Manager, NEW j \in Task,
                      j \in tasks[n], done[j], "reset" \notin flags[n]
               PROVE  \E u \in Thread : (Tells(u, j)' /\ binding'[j] = n) \/ Removes(u, j, n)'
    BY <1>13 DEF DoneRemoved
  <2>1. <<k, "hold">> \in Owned(t)
    BY <1>6, <1>7, ClaimTokens
  <2>2. j # k
    BY <2>1 DEF UseInv, FreeInTable
  <2>3. PICK u \in Thread : (Tells(u, j) /\ binding[j] = n) \/ Removes(u, j, n)
    BY DEF UseInv, DoneRemoved
  <2>4. u # t
    BY <1>1, <2>3 DEF Tells, Ending, Removes, At
  <2>5. binding'[j] = binding[j]
    BY <1>12, <2>2 DEF IInv, TypeOK
  <2> QED
    BY <1>9, <2>3, <2>4, <2>5, OtherThreads
<1> QED
  BY <1>7, <1>8, <1>9, <1>10, <1>12, <1>13, <1>14, <1>15, ForgetUse DEF Changed

LEMMA TakeUse ==
  ASSUME IInv, UseInv, NEW t \in Thread, Take(t)
  PROVE  UseInv'
<1>1. Top(t) \in GoodCall /\ stack[t] # <<>> /\ Top(t).pc = "take"
  BY TopGood DEF Take, At, IInv
<1>2. PICK k \in Task : k = Top(t).task
  BY <1>1 DEF GoodCall, OfTick, OfTask
<1>3. Exiting(k)
  BY <1>1, <1>2 DEF IInv, BindInv, Ending, At
<1>4. binding' = [binding EXCEPT ![k] = Null] /\ UNCHANGED <<status, done, tasks, flags>>
  BY <1>2 DEF Take, taskVars, mgrVars
<1>5. Claims(Top(t)) = {} /\ Names(Top(t)) = {k}
  BY <1>1, <1>2 DEF GoodCall, OfTick, Claims, Holds, Runs, Names
<1>6. /\ Alone' /\ Owned(t)' = Owned(t) /\ Named(t)' \subseteq Named(t)
      /\ \A u \in Thread \ {t} :
           stack'[u] = stack[u] /\ Owned(u)' = Owned(u) /\ Named(u)' = Named(u)
      /\ \A j \in Task : ~Adds(t, j)' /\ ~Ends(t, j)' /\ ~LetsGo(t, j)'
      /\ \A n \in Manager : binding[k] = n => Removes(t, k, n)'
  <2>1. CASE binding[k] = Null /\ Pop(t)
    <3>1. /\ Alone' /\ Changed(t, Claims(Top(t)), {}) /\ Named(t)' \subseteq Named(t)
      BY <1>1, <2>1, AfterPop DEF IInv, UseInv
    <3>2. /\ stack'[t] # <<>> => Head(stack'[t]) \in BelowCall
          /\ \A u \in Thread \ {t} : stack'[u] = stack[u]
      BY <1>1, <2>1, Popped DEF IInv
    <3>3. \A j \in Task : ~Adds(t, j)' /\ ~Ends(t, j)' /\ ~LetsGo(t, j)'
      BY <3>2 DEF BelowCall, Below, Adds, Ends, LetsGo, At, Top
    <3>4. Null \notin Manager
      BY TaskManagerAssumption
    <3> QED
      BY <1>5, <2>1, <3>1, <3>2, <3>3, <3>4 DEF Changed
  <2>2. CASE binding[k] # Null /\ Become(t, NewCall("remove", binding[k], k))
    <3> DEFINE c == NewCall("remove", binding[k], k)
    <3>1. /\ c \in GoodCall /\ c.pc = "remove" /\ c.task = k /\ c.todo = {}
          /\ c.mgr = binding[k]
      BY <2>2, NullIsNoTime DEF NewCall, GoodCall, OfTick, Call, End,
        Label, OfManager, OfTask, IInv, TypeOK
    <3>2. Become(t, c)
      BY <2>2
    <3> HIDE DEF c
    <3>3. Claims(c) = {} /\ Names(c) = {k}
      BY <3>1 DEF Claims, Holds, Runs, Names
    <3>4. /\ Alone' /\ Changed(t, Claims(Top(t)), Claims(c))
          /\ Named(t)' \subseteq Named(t) \cup Names(c)
      BY <1>1, <3>1, <3>2, <3>3, AfterBecome DEF IInv, UseInv
    <3>5. stack'[t] # <<>> /\ Head(stack'[t]) = c /\ \A u \in Thread \ {t} : stack'[u] = stack[u]
      BY <1>1, <3>1, <3>2, Became DEF IInv
    <3>6. /\ \A j \in Task : ~Adds(t, j)' /\ ~Ends(t, j)' /\ ~LetsGo(t, j)'
          /\ \A n \in Manager : binding[k] = n => Removes(t, k, n)'
      BY <3>1, <3>5 DEF Adds, Ends, LetsGo, Removes, At, Top
    <3>7. Named(t)' \subseteq Named(t)
      BY <1>1, <1>5, <3>3, <3>4, TopAndRest DEF IInv
    <3> QED
      BY <1>5, <3>3, <3>4, <3>5, <3>6, <3>7 DEF Changed
  <2> QED
    BY <1>2, <2>1, <2>2 DEF Take, Callback
<1>7. DoneRemoved'
  <2> SUFFICES ASSUME NEW n \in Manager, NEW j \in Task,
                      j \in tasks[n], done[j], "reset" \notin flags[n]
               PROVE  \E u \in Thread : (Tells(u, j)' /\ binding'[j] = n) \/ Removes(u, j, n)'
    BY <1>4 DEF DoneRemoved
  <2>1. PICK u \in Thread : (Tells(u, j) /\ binding[j] = n) \/ Removes(u, j, n)
    BY DEF UseInv, DoneRemoved
  <2>2. CASE Removes(u, j, n)
    <3>1. u # t
      BY <1>1, <2>2 DEF Removes, At
    <3> QED
      BY <1>6, <2>2, <3>1, OtherThreads
  <2>3. CASE j = k /\ Tells(u, j) /\ binding[j] = n
    BY <1>6, <2>3
  <2>4. CASE j # k /\ Tells(u, j) /\ binding[j] = n
    <3>1. u # t
      BY <1>1, <1>2, <2>4 DEF Tells
    <3>2. binding'[j] = binding[j]
      BY <1>4, <2>4 DEF IInv, TypeOK
    <3> QED
      BY <1>6, <2>4, <3>1, <3>2, OtherThreads
  <2> QED
    BY <2>1, <2>2, <2>3, <2>4
<1> QED
  BY <1>3, <1>4, <1>6, <1>7, ForgetUse

-----------------------------------------------------------------------------
(* The steps that add a task, end one, or clear a manager *)

LEMMA AddLockedUse ==
  ASSUME IInv, UseInv, NEW t \in Thread, AddLocked(t)
  PROVE  UseInv'
<1>1. Top(t) \in GoodCall /\ stack[t] # <<>> /\ Top(t).pc = "add"
  BY TopGood DEF AddLocked, At, IInv
<1>2. PICK m \in Manager : m = Top(t).mgr
  BY <1>1 DEF GoodCall, OfTick, OfManager
<1>3. PICK k \in Task : k = Top(t).task
  BY <1>1 DEF GoodCall, OfTick, OfTask
<1>4. UNCHANGED <<status, done, flags>> /\ Pop(t)
  BY DEF AddLocked, taskVars
<1>5. \A j \in Task : ~Tells(t, j) /\ \A n \in Manager : ~Removes(t, j, n)
  BY <1>1 DEF Tells, Ending, Removes, At
<1>6. Claims(Top(t)) = {} /\ Holds(Top(t)) = {}
  BY <1>1 DEF GoodCall, OfTick, Claims, Holds, Runs
<1>7. CASE UNCHANGED <<binding, tasks>>
  BY <1>1, <1>4, <1>5, <1>6, <1>7, PopUse DEF IInv
<1>8. CASE /\ binding[k] = Null
           /\ binding' = [binding EXCEPT ![k] = m]
           /\ tasks' = [tasks EXCEPT ![m] = @ \cup {k}]
  <2>1. Alone' /\ Changed(t, Claims(Top(t)), {}) /\ Named(t)' \subseteq Named(t)
    BY <1>1, <1>4, AfterPop DEF IInv, UseInv
  <2>2. /\ stack'[t] # <<>> => Head(stack'[t]) \in BelowCall
        /\ \A u \in Thread \ {t} : stack'[u] = stack[u]
    BY <1>1, <1>4, Popped DEF IInv
  <2>3. \A j \in Task : ~Adds(t, j)' /\ ~Ends(t, j)' /\ ~LetsGo(t, j)'
    BY <2>2 DEF BelowCall, Below, Adds, Ends, LetsGo, At, Top
  <2>4. \A u \in Thread : Owned(u)' = Owned(u) /\ Named(u)' \subseteq Named(u)
    BY <1>6, <2>1 DEF Changed
  <2>5. \A u \in Thread \ {t}, j \in Task :
          /\ Adds(u, j)' <=> Adds(u, j)
          /\ Ends(u, j)' <=> Ends(u, j)
          /\ Tells(u, j)' <=> Tells(u, j)
          /\ LetsGo(u, j)' <=> LetsGo(u, j)
          /\ \A n \in Manager : Removes(u, j, n)' <=> Removes(u, j, n)
    BY <2>2, OtherThreads
  <2>6. \A j \in Task : Exiting(j)' <=> Exiting(j)
    BY <1>4 DEF Exiting
  <2>7. /\ ~Exiting(k) /\ \A n \in Manager : k \notin tasks[n]
        /\ \A u \in Thread \ {t} : k \notin Named(u)
    BY <1>1, <1>3 DEF UseInv, AddedAlone, Adds, At
  <2>8. ~done[k]
    BY <2>7 DEF UseInv, DoneExiting
  <2>9. \A u \in Thread : <<k, "hold">> \notin Owned(u)
    <3>1. \A u \in Thread : <<k, "todo">> \notin Owned(u)
      BY <1>8, <2>7 DEF UseInv, StillBound
    <3>2. <<k, "hold">> \notin Owned(t)
      BY <1>1, <1>6, <3>1, HeldBelow DEF IInv
    <3>3. ASSUME NEW u \in Thread \ {t} PROVE <<k, "hold">> \notin Owned(u)
      BY <2>7, ClaimedIsNamed
    <3> QED
      BY <3>2, <3>3
  <2>10. /\ binding'[k] = m /\ \A j \in Task \ {k} : binding'[j] = binding[j]
         /\ tasks'[m] = tasks[m] \cup {k} /\ \A n \in Manager \ {m} : tasks'[n] = tasks[n]
         /\ m # Null
    BY <1>8, TaskManagerAssumption DEF IInv, TypeOK
  <2>11. OneTable'
    BY <2>7, <2>10 DEF UseInv, OneTable
  <2>12. FreeInTable'
    BY <2>4, <2>9, <2>10 DEF UseInv, FreeInTable
  <2>13. RunsRunning' /\ DoneExiting'
    BY <1>4, <2>4, <2>6 DEF UseInv, RunsRunning, DoneExiting
  <2>14. EndedOnce'
    BY <1>4, <2>4, <2>6, <2>7, <2>10 DEF UseInv, EndedOnce
  <2>15. OneEnder'
    <3>1. \A u \in Thread, j \in Task : Ends(u, j)' => Ends(u, j)
      BY <2>3, <2>5
    <3> QED
      BY <1>4, <2>4, <3>1 DEF UseInv, OneEnder
  <2>16. StillBound'
    BY <2>4, <2>6, <2>10 DEF UseInv, StillBound
  <2>17. LetGo'
    <3> SUFFICES ASSUME NEW u \in Thread, NEW j \in Task, LetsGo(u, j)'
                 PROVE  Exiting(j) \/ binding'[j] = Null
      BY <2>6 DEF LetGo
    <3>1. u # t /\ LetsGo(u, j)
      BY <2>3, <2>5
    <3>2. j # k
      BY <2>7, <3>1, TopAndRest DEF LetsGo, At, Names, IInv
    <3> QED
      BY <2>10, <3>1, <3>2 DEF UseInv, LetGo
  <2>18. BoundHeld'
    <3> SUFFICES ASSUME NEW j \in Task, ~Exiting(j), binding'[j] # Null
                 PROVE  j \in tasks'[binding'[j]] \/ \E u \in Thread : <<j, "hold">> \in Owned(u)
      BY <2>4, <2>6 DEF BoundHeld
    <3>1. CASE j = k
      BY <2>10, <3>1
    <3>2. CASE j # k
      <4>1. binding'[j] = binding[j] /\ binding[j] \in Manager
        BY <2>10, <3>2 DEF IInv, TypeOK
      <4>2. tasks[binding[j]] \subseteq tasks'[binding[j]]
        BY <2>10, <4>1
      <4> QED
        BY <4>1, <4>2 DEF UseInv, BoundHeld
    <3> QED
      BY <3>1, <3>2
  <2>19. AddedAlone'
    <3> SUFFICES ASSUME NEW u \in Thread, NEW j \in Task, Adds(u, j)'
                 PROVE  /\ ~Exiting(j)
                        /\ \A n \in Manager : j \notin tasks'[n]
                        /\ \A v \in Thread \ {u} : j \notin Named(v)'
      BY <2>6 DEF AddedAlone
    <3>1. u # t /\ Adds(u, j)
      BY <2>3, <2>5
    <3>2. j # k
      BY <2>7, <3>1, TopAndRest DEF Adds, At, Names, IInv
    <3> QED
      BY <2>4, <2>10, <3>1, <3>2 DEF UseInv, AddedAlone
  <2>20. DoneRemoved'
    <3> SUFFICES ASSUME NEW n \in Manager, NEW j \in Task,
                        j \in tasks'[n], done[j], "reset" \notin flags[n]
                 PROVE  \E u \in Thread : (Tells(u, j)' /\ binding'[j] = n) \/ Removes(u, j, n)'
      BY <1>4 DEF DoneRemoved
    <3>1. j # k /\ j \in tasks[n]
      BY <2>8, <2>10
    <3>2. PICK u \in Thread : (Tells(u, j) /\ binding[j] = n) \/ Removes(u, j, n)
      BY <3>1 DEF UseInv, DoneRemoved
    <3>3. u # t
      BY <1>5, <3>2
    <3> QED
      BY <2>5, <2>10, <3>1, <3>2, <3>3
  <2> QED
    BY <2>1, <2>11, <2>12, <2>13, <2>14, <2>15, <2>16, <2>17, <2>18, <2>19, <2>20 DEF UseInv
<1> QED
  BY <1>2, <1>3, <1>7, <1>8 DEF AddLocked, Unbound

\* A step that ends the action of a task, or whose status it changes to an end.
LEMMA EndedUse ==
  ASSUME IInv, UseInv, NEW t \in Thread, NEW k \in Task,
         UNCHANGED <<binding, tasks, flags>>,
         Exiting(k)', \A j \in Task \ {k} : status'[j] = status[j] /\ done'[j] = done[j],
         k \in Named(t), Alone', Named(t)' \subseteq Named(t), Owned(t)' \subseteq Owned(t),
         \A j \in Task \ {k} : <<j, "hold">> \in Owned(t) => <<j, "hold">> \in Owned(t)',
         \A u \in Thread \ {t} :
           stack'[u] = stack[u] /\ Owned(u)' = Owned(u) /\ Named(u)' = Named(u),
         \A j \in Task : ~Adds(t, j)' /\ ~LetsGo(t, j)',
         RunsRunning', EndedOnce', OneEnder', DoneRemoved'
  PROVE  UseInv'
<1>1. \A u \in Thread \ {t}, j \in Task :
        /\ Adds(u, j)' <=> Adds(u, j)
        /\ LetsGo(u, j)' <=> LetsGo(u, j)
  BY OtherThreads
<1>2. \A j \in Task : (Exiting(j) => Exiting(j)') /\ (j # k => (Exiting(j)' <=> Exiting(j)))
  BY DEF Exiting
<1>3. \A u \in Thread : Owned(u)' \subseteq Owned(u) /\ Named(u)' \subseteq Named(u)
  OBVIOUS
<1>4. OneTable'
  BY DEF UseInv, OneTable
<1>5. FreeInTable'
  BY <1>3 DEF UseInv, FreeInTable
<1>6. DoneExiting'
  BY <1>2 DEF UseInv, DoneExiting
<1>7. StillBound' /\ LetGo'
  BY <1>1, <1>2, <1>3 DEF UseInv, StillBound, LetGo
<1>8. BoundHeld'
  <2> SUFFICES ASSUME NEW j \in Task, ~Exiting(j)', binding[j] # Null, j \notin tasks[binding[j]]
               PROVE  \E u \in Thread : <<j, "hold">> \in Owned(u)'
    BY DEF BoundHeld
  <2>1. j # k /\ ~Exiting(j)
    BY <1>2
  <2>2. PICK u \in Thread : <<j, "hold">> \in Owned(u)
    BY <2>1 DEF UseInv, BoundHeld
  <2> QED
    BY <2>1, <2>2
<1>9. AddedAlone'
  <2> SUFFICES ASSUME NEW u \in Thread, NEW j \in Task, Adds(u, j)'
               PROVE  /\ ~Exiting(j)'
                      /\ \A n \in Manager : j \notin tasks[n]
                      /\ \A v \in Thread \ {u} : j \notin Named(v)'
    BY DEF AddedAlone
  <2>1. u # t /\ Adds(u, j)
    BY <1>1
  <2>2. j # k
    BY <2>1 DEF UseInv, AddedAlone
  <2> QED
    BY <1>2, <1>3, <2>1, <2>2 DEF UseInv, AddedAlone
<1> QED
  BY <1>4, <1>5, <1>6, <1>7, <1>8, <1>9 DEF UseInv

LEMMA FinishTaskUse ==
  ASSUME IInv, UseInv, NEW t \in Thread, FinishTask(t)
  PROVE  UseInv'
<1> DEFINE e == Final[Top(t).end]
           c == NewCall("notify", Null, Top(t).task)
<1>1. Top(t) \in GoodCall /\ stack[t] # <<>> /\ Top(t).pc = "finish"
  BY TopGood DEF FinishTask, At, IInv
<1>2. PICK k \in Task : k = Top(t).task
  BY <1>1 DEF GoodCall, OfTick, OfTask
<1>3. e \in DONE..TIMEOUT
  BY <1>1 DEF GoodCall, OfTick, Final, DONE, CANCELED, KILLED, TIMEOUT
<1>4. UNCHANGED <<done, binding, tasks, flags>>
  BY DEF FinishTask, mgrVars
<1>5. \A j \in Task : ~Tells(t, j) /\ \A n \in Manager : ~Removes(t, j, n)
  BY <1>1 DEF Tells, Ending, Removes, At
<1>6. /\ Top(t).todo = {} /\ Holds(Top(t)) = {k} /\ Claims(Top(t)) = {<<k, "hold">>}
      /\ Names(Top(t)) = {k}
  BY <1>1, <1>2 DEF GoodCall, OfTick, Claims, Holds, Runs, Names
<1>7. <<k, "hold">> \in Owned(t) /\ k \in Named(t)
  BY <1>1, <1>6, TopAndRest DEF IInv
<1>8. CASE Top(t).end = "canceled" /\ status[k] = RUNNING /\ UNCHANGED status /\ Pop(t)
  <2>1. Exiting(k) \/ binding[k] = Null
    BY <1>1, <1>2, <1>8 DEF UseInv, LetGo, LetsGo, At
  <2> QED
    BY <1>1, <1>4, <1>5, <1>6, <1>8, <2>1, PopUse DEF IInv
<1>9. CASE /\ status' = [status EXCEPT ![k] = e]
           /\ IF status[k] = RUNNING THEN Pop(t) ELSE Become(t, c)
  <2>1. Exiting(k)' /\ \A j \in Task \ {k} : status'[j] = status[j]
    <3>1. e >= DONE
      BY <1>3 DEF DONE, TIMEOUT
    <3> HIDE DEF e
    <3> QED
      BY <1>9, <3>1 DEF Exiting, IInv, TypeOK
  <2>2. Exiting(k) => done[k]
    BY <1>7 DEF UseInv, EndedOnce
  <2>3. /\ Alone' /\ Changed(t, {<<k, "hold">>}, {}) /\ Named(t)' \subseteq Named(t)
        /\ \A u \in Thread \ {t} : stack'[u] = stack[u]
        /\ \A j \in Task : ~Adds(t, j)' /\ ~LetsGo(t, j)'
        /\ \A j \in Task : Ends(t, j)' => j = k /\ status[k] # RUNNING
    <3>1. CASE Pop(t)
      <4>1. Alone' /\ Changed(t, Claims(Top(t)), {}) /\ Named(t)' \subseteq Named(t)
        BY <1>1, <3>1, AfterPop DEF IInv, UseInv
      <4>2. /\ stack'[t] # <<>> => Head(stack'[t]) \in BelowCall
            /\ \A u \in Thread \ {t} : stack'[u] = stack[u]
        BY <1>1, <3>1, Popped DEF IInv
      <4>3. \A j \in Task : ~Adds(t, j)' /\ ~Ends(t, j)' /\ ~LetsGo(t, j)'
        BY <4>2 DEF BelowCall, Below, Adds, Ends, LetsGo, At, Top
      <4> QED
        BY <1>6, <4>1, <4>2, <4>3
    <3>2. CASE status[k] # RUNNING /\ Become(t, c)
      <4>1. c \in GoodCall /\ c.pc = "notify" /\ c.task = k /\ c.todo = {}
        BY <1>2, NewCallGood DEF Label, OfManager, OfTask, OfTick, NewCall
      <4> HIDE DEF c
      <4>2. Claims(c) = {} /\ Names(c) = {k}
        BY <4>1 DEF Claims, Holds, Runs, Names
      <4>3. /\ Alone' /\ Changed(t, Claims(Top(t)), Claims(c))
            /\ Named(t)' \subseteq Named(t) \cup Names(c)
        BY <1>1, <3>2, <4>1, <4>2, AfterBecome DEF IInv, UseInv
      <4>4. stack'[t] # <<>> /\ Head(stack'[t]) = c /\ \A u \in Thread \ {t} : stack'[u] = stack[u]
        BY <1>1, <3>2, <4>1, Became DEF IInv
      <4>5. \A j \in Task : ~Adds(t, j)' /\ ~LetsGo(t, j)' /\ (Ends(t, j)' => j = k)
        BY <4>1, <4>4 DEF Adds, Ends, LetsGo, At, Top
      <4> QED
        BY <1>6, <1>7, <3>2, <4>2, <4>3, <4>4, <4>5
    <3> QED
      BY <1>9, <3>1, <3>2
  <2>4. \A u \in Thread : Owned(u)' \subseteq Owned(u) \ {<<k, "hold">>}
    <3>1. \A u \in Thread \ {t} : <<k, "hold">> \notin Owned(u)
      BY <1>7 DEF UseInv, Alone
    <3> QED
      BY <2>3, <3>1 DEF Changed
  <2>5. \A j \in Task : j # k => (Exiting(j)' <=> Exiting(j))
    BY <2>1 DEF Exiting
  <2>6. RunsRunning'
    BY <1>4, <2>1, <2>4, <2>5 DEF UseInv, RunsRunning
  <2>7. EndedOnce'
    <3>1. \A m \in Manager : k \notin tasks[m]
      BY <1>7 DEF UseInv, FreeInTable
    <3> QED
      BY <1>4, <2>4, <2>5, <3>1 DEF UseInv, EndedOnce
  <2>8. OneEnder'
    <3> SUFFICES ASSUME NEW u \in Thread, NEW j \in Task, Ends(u, j)', ~done[j]
                 PROVE  /\ \A v \in Thread : <<j, "run">> \notin Owned(v)
                        /\ \A v \in Thread : Ends(v, j)' => v = u
      BY <1>4, <2>4 DEF OneEnder
    <3>1. \A v \in Thread \ {t} : Ends(v, j)' <=> Ends(v, j)
      BY <2>3, OtherThreads
    <3>2. CASE j = k
      <4>1. ~Exiting(k)
        BY <2>2, <3>2
      <4>2. \A v \in Thread : ~Ends(v, k)
        BY <4>1 DEF IInv, BindInv, Ending, Ends
      <4>3. u = t /\ status[k] # RUNNING
        BY <2>3, <3>1, <3>2, <4>2
      <4> QED
        BY <3>1, <3>2, <4>1, <4>2, <4>3 DEF UseInv, RunsRunning
    <3>3. CASE j # k
      BY <2>3, <3>1, <3>3 DEF UseInv, OneEnder
    <3> QED
      BY <3>2, <3>3
  <2>9. DoneRemoved'
    <3> SUFFICES ASSUME NEW n \in Manager, NEW j \in Task,
                        j \in tasks[n], done[j], "reset" \notin flags[n]
                 PROVE  \E u \in Thread : (Tells(u, j)' /\ binding[j] = n) \/ Removes(u, j, n)'
      BY <1>4 DEF DoneRemoved
    <3>1. PICK u \in Thread : (Tells(u, j) /\ binding[j] = n) \/ Removes(u, j, n)
      BY DEF UseInv, DoneRemoved
    <3> QED
      BY <1>5, <2>3, <3>1, OtherThreads
  <2>10. \A j \in Task \ {k} : <<j, "hold">> \in Owned(t) => <<j, "hold">> \in Owned(t)'
    BY <2>3 DEF Changed
  <2> QED
    BY <1>4, <1>7, <2>1, <2>3, <2>4, <2>6, <2>7, <2>8, <2>9, <2>10, EndedUse DEF Changed
<1> QED
  BY <1>2, <1>8, <1>9 DEF FinishTask

LEMMA ReturnUse ==
  ASSUME IInv, UseInv, NEW t \in Thread, Return(t)
  PROVE  UseInv'
<1> DEFINE c == NewCall("notify", Null, Top(t).task)
<1>1. Top(t) \in GoodCall /\ stack[t] # <<>> /\ Top(t).pc = "run"
  BY TopGood DEF Return, At, IInv
<1>2. PICK k \in Task : k = Top(t).task
  BY <1>1 DEF GoodCall, OfTick, OfTask
<1>3. UNCHANGED <<binding, tasks, flags>>
  BY DEF Return, mgrVars
<1>4. /\ Exiting(k)' /\ done'[k]
      /\ \A j \in Task \ {k} : status'[j] = status[j] /\ done'[j] = done[j]
  <2> DEFINE e == IF status[k] < DONE THEN DONE ELSE status[k]
  <2>1. e >= DONE
    <3>1. status[k] \in Int
      <4>1. status \in [Task -> CREATED..TIMEOUT]
        BY DEF IInv, TypeOK
      <4>2. status[k] \in CREATED..TIMEOUT
        BY <1>2, <4>1
      <4> QED
        BY <4>2 DEF CREATED, TIMEOUT
    <3> QED
      BY <3>1 DEF DONE
  <2>2. status' = [status EXCEPT ![k] = e] /\ done' = [done EXCEPT ![k] = TRUE]
    BY <1>2 DEF Return
  <2> HIDE DEF e
  <2> QED
    BY <1>2, <2>1, <2>2 DEF IInv, TypeOK, Exiting
<1>5. \A j \in Task : ~Tells(t, j) /\ \A n \in Manager : ~Removes(t, j, n)
  BY <1>1 DEF Tells, Ending, Removes, At
<1>6. Claims(Top(t)) = {<<k, "run">>} /\ Names(Top(t)) = {k}
  BY <1>1, <1>2 DEF GoodCall, OfTick, Claims, Holds, Runs, Names
<1>7. <<k, "run">> \in Owned(t) /\ k \in Named(t)
  BY <1>1, <1>6, TopAndRest DEF IInv
<1>8. ~done[k]
  BY <1>7 DEF UseInv, RunsRunning
<1>9. c \in GoodCall /\ c.pc = "notify" /\ c.task = k /\ c.todo = {} /\ Become(t, c)
  BY <1>2, NewCallGood DEF Label, OfManager, OfTask, OfTick, NewCall, Return
<1> HIDE DEF c
<1>10. Claims(c) = {} /\ Names(c) = {k}
  BY <1>9 DEF Claims, Holds, Runs, Names
<1>11. Alone' /\ Changed(t, {<<k, "run">>}, {}) /\ Named(t)' \subseteq Named(t)
  <2>1. /\ Alone' /\ Changed(t, Claims(Top(t)), Claims(c))
        /\ Named(t)' \subseteq Named(t) \cup Names(c)
    BY <1>1, <1>9, <1>10, AfterBecome DEF IInv, UseInv
  <2> QED
    BY <1>6, <1>7, <1>10, <2>1
<1>12. stack'[t] # <<>> /\ Head(stack'[t]) = c /\ \A u \in Thread \ {t} : stack'[u] = stack[u]
  BY <1>1, <1>9, Became DEF IInv
<1>13. \A j \in Task : /\ ~Adds(t, j)' /\ ~LetsGo(t, j)'
                       /\ Ends(t, j)' => j = k
                       /\ Tells(t, j)' <=> j = k
  BY <1>9, <1>12 DEF Adds, Ends, LetsGo, Tells, Ending, At, Top
<1>14. \A u \in Thread : Owned(u)' \subseteq Owned(u) \ {<<k, "run">>}
  <2>1. \A u \in Thread \ {t} : <<k, "run">> \notin Owned(u)
    BY <1>7 DEF UseInv, Alone
  <2> QED
    BY <1>11, <2>1 DEF Changed
<1>15. \A j \in Task : j # k => (Exiting(j)' <=> Exiting(j))
  BY <1>4 DEF Exiting
<1>16. RunsRunning'
  BY <1>4, <1>14, <1>15 DEF UseInv, RunsRunning
<1>17. EndedOnce'
  BY <1>3, <1>4, <1>14, <1>15 DEF UseInv, EndedOnce
<1>18. OneEnder'
  <2>1. \A u \in Thread, j \in Task : j # k => (Ends(u, j)' => Ends(u, j))
    BY <1>12, <1>13, OtherThreads
  <2> QED
    BY <1>4, <1>14, <2>1 DEF UseInv, OneEnder
<1>19. DoneRemoved'
  <2> SUFFICES ASSUME NEW n \in Manager, NEW j \in Task,
                      j \in tasks[n], done'[j], "reset" \notin flags[n]
               PROVE  \E u \in Thread : (Tells(u, j)' /\ binding[j] = n) \/ Removes(u, j, n)'
    BY <1>3 DEF DoneRemoved
  <2>1. CASE j = k
    <3>1. ~Exiting(k)
      BY <1>8, <2>1 DEF UseInv, EndedOnce
    <3>2. binding[k] = n
      BY <2>1, <3>1 DEF IInv, BindInv, ManagedIsBound
    <3> QED
      BY <1>13, <2>1, <3>2
  <2>2. CASE j # k
    <3>1. PICK u \in Thread : (Tells(u, j) /\ binding[j] = n) \/ Removes(u, j, n)
      BY <1>4, <2>2 DEF UseInv, DoneRemoved
    <3> QED
      BY <1>5, <1>12, <3>1, OtherThreads
  <2> QED
    BY <2>1, <2>2
<1>20. \A j \in Task \ {k} : <<j, "hold">> \in Owned(t) => <<j, "hold">> \in Owned(t)'
  BY <1>11 DEF Changed
<1> QED
  BY <1>3, <1>4, <1>7, <1>11, <1>12, <1>13, <1>14, <1>16, <1>17, <1>18, <1>19, <1>20, EndedUse
  DEF Changed

LEMMA ResetLockedUse ==
  ASSUME IInv, UseInv, NEW t \in Thread, ResetLocked(t)
  PROVE  UseInv'
<1>1. Top(t) \in GoodCall /\ stack[t] # <<>> /\ Top(t).pc = "reset"
  BY TopGood DEF ResetLocked, At, IInv
<1>2. PICK m \in Manager : m = Top(t).mgr
  BY <1>1 DEF GoodCall, OfTick, OfManager
<1> DEFINE c == [Top(t) EXCEPT !.pc = "reset_kill", !.todo = tasks[m]]
<1>3. /\ c \in GoodCall /\ c.pc = "reset_kill" /\ c.task = Top(t).task /\ c.todo = tasks[m]
      /\ tasks[m] \subseteq Task
  BY <1>1, <1>2 DEF GoodCall, OfTick, Call, Label, OfManager, OfTask, IInv, TypeOK
<1>4. Become(t, c)
  BY <1>2 DEF ResetLocked
<1> HIDE DEF c
<1>5. UNCHANGED <<status, done, binding>>
  BY DEF ResetLocked, taskVars
<1>6. /\ tasks'[m] = {} /\ \A n \in Manager \ {m} : tasks'[n] = tasks[n]
      /\ \A n \in Manager \ {m} : flags'[n] = flags[n]
  BY <1>2 DEF ResetLocked, IInv, TypeOK
<1>7. Claims(Top(t)) = {}
  BY <1>1 DEF GoodCall, OfTick, Claims, Holds, Runs
<1>8. /\ Claims(c) = (tasks[m] \X {"hold"}) \cup (tasks[m] \X {"todo"})
      /\ Names(c) \subseteq Names(Top(t)) \cup tasks[m]
  BY <1>3 DEF Claims, Holds, Runs, Names
<1>9. \A u \in Thread : (Claims(c) \ Claims(Top(t))) \cap Owned(u) = {}
  <2>1. ASSUME NEW u \in Thread, NEW k \in tasks[m]
        PROVE  <<k, "hold">> \notin Owned(u) /\ <<k, "todo">> \notin Owned(u)
    <3>1. <<k, "hold">> \notin Owned(u)
      BY <1>3 DEF UseInv, FreeInTable
    <3> QED
      BY <3>1, TodoIsHeld DEF Owned
  <2>2. ASSUME NEW u \in Thread, NEW x \in Claims(c), x \in Owned(u) PROVE FALSE
    <3>1. PICK k \in tasks[m] : x = <<k, "hold">> \/ x = <<k, "todo">>
      BY <1>8
    <3> QED
      BY <2>1, <2>2, <3>1
  <2> QED
    BY <2>2
<1>10. /\ Alone' /\ Changed(t, Claims(Top(t)), Claims(c))
       /\ Named(t)' \subseteq Named(t) \cup Names(c)
  BY <1>1, <1>3, <1>4, <1>9, AfterBecome DEF IInv, UseInv
<1>11. stack'[t] # <<>> /\ Head(stack'[t]) = c /\ \A u \in Thread \ {t} : stack'[u] = stack[u]
  BY <1>1, <1>3, <1>4, Became DEF IInv
<1>12. \A j \in Task : ~Adds(t, j)' /\ ~Ends(t, j)' /\ ~LetsGo(t, j)'
  BY <1>3, <1>11 DEF Adds, Ends, LetsGo, At, Top
<1>13. \A j \in Task : ~Tells(t, j) /\ \A n \in Manager : ~Removes(t, j, n)
  BY <1>1 DEF Tells, Ending, Removes, At
<1>14. Named(t)' \subseteq Named(t) \cup tasks[m]
  BY <1>1, <1>8, <1>10, TopAndRest DEF IInv
<1>15. \A u \in Thread, j \in Task :
         /\ <<j, "run">> \in Owned(u)' => <<j, "run">> \in Owned(u)
         /\ <<j, "hold">> \in Owned(u) => <<j, "hold">> \in Owned(u)'
         /\ <<j, "hold">> \in Owned(u)' => <<j, "hold">> \in Owned(u) \/ j \in tasks[m]
         /\ <<j, "todo">> \in Owned(u)' => <<j, "todo">> \in Owned(u) \/ j \in tasks[m]
  BY <1>7, <1>8, <1>10 DEF Changed
<1>16. \A k \in tasks[m] : <<k, "hold">> \in Owned(t)'
  BY <1>8, <1>10 DEF Changed
<1>17. \A u \in Thread \ {t}, j \in Task :
         /\ Adds(u, j)' <=> Adds(u, j)
         /\ Ends(u, j)' <=> Ends(u, j)
         /\ Tells(u, j)' <=> Tells(u, j)
         /\ LetsGo(u, j)' <=> LetsGo(u, j)
         /\ \A n \in Manager : Removes(u, j, n)' <=> Removes(u, j, n)
  BY <1>11, OtherThreads
<1>18. \A j \in Task : Exiting(j)' <=> Exiting(j)
  BY <1>5 DEF Exiting
<1>19. \A n \in Manager, j \in Task :
         j \in tasks'[n] => n # m /\ j \in tasks[n] /\ j \notin tasks[m]
  BY <1>6 DEF UseInv, OneTable
<1>20. OneTable' /\ FreeInTable'
  BY <1>15, <1>19 DEF UseInv, OneTable, FreeInTable
<1>21. RunsRunning' /\ DoneExiting'
  BY <1>5, <1>15, <1>18 DEF UseInv, RunsRunning, DoneExiting
<1>22. EndedOnce'
  BY <1>5, <1>15, <1>18, <1>19 DEF UseInv, EndedOnce
<1>23. OneEnder'
  <2>1. \A u \in Thread, j \in Task : Ends(u, j)' => Ends(u, j)
    BY <1>12, <1>17
  <2> QED
    BY <1>5, <1>15, <2>1 DEF UseInv, OneEnder
<1>24. StillBound'
  <2>1. \A j \in tasks[m] : Exiting(j) \/ binding[j] # Null
    BY <1>3, TaskManagerAssumption DEF IInv, BindInv, ManagedIsBound
  <2> QED
    BY <1>5, <1>15, <1>18, <2>1 DEF UseInv, StillBound
<1>25. LetGo'
  BY <1>5, <1>12, <1>17, <1>18 DEF UseInv, LetGo
<1>26. BoundHeld'
  <2> SUFFICES ASSUME NEW j \in Task, ~Exiting(j), binding[j] # Null, j \notin tasks'[binding[j]]
               PROVE  \E u \in Thread : <<j, "hold">> \in Owned(u)'
    BY <1>5, <1>18 DEF BoundHeld
  <2>1. CASE j \in tasks[m]
    BY <1>16, <2>1
  <2>2. CASE j \notin tasks[m]
    <3>1. binding[j] \in Manager
      BY DEF IInv, TypeOK
    <3>2. j \notin tasks[binding[j]]
      BY <1>6, <2>2, <3>1
    <3>3. PICK u \in Thread : <<j, "hold">> \in Owned(u)
      BY <3>2 DEF UseInv, BoundHeld
    <3> QED
      BY <1>15, <3>3
  <2> QED
    BY <2>1, <2>2
<1>27. AddedAlone'
  <2> SUFFICES ASSUME NEW u \in Thread, NEW j \in Task, Adds(u, j)'
               PROVE  /\ ~Exiting(j)
                      /\ \A n \in Manager : j \notin tasks'[n]
                      /\ \A v \in Thread \ {u} : j \notin Named(v)'
    BY <1>18 DEF AddedAlone
  <2>1. u # t /\ Adds(u, j)
    BY <1>12, <1>17
  <2>2. /\ ~Exiting(j)
        /\ \A n \in Manager : j \notin tasks[n]
        /\ \A v \in Thread \ {u} : j \notin Named(v)
    BY <2>1 DEF UseInv, AddedAlone
  <2> QED
    BY <1>10, <1>14, <1>19, <2>2 DEF Changed
<1>28. DoneRemoved'
  <2> SUFFICES ASSUME NEW n \in Manager, NEW j \in Task,
                      j \in tasks'[n], done[j], "reset" \notin flags'[n]
               PROVE  \E u \in Thread : (Tells(u, j)' /\ binding[j] = n) \/ Removes(u, j, n)'
    BY <1>5 DEF DoneRemoved
  <2>1. n # m /\ j \in tasks[n] /\ "reset" \notin flags[n]
    BY <1>6, <1>19
  <2>2. PICK u \in Thread : (Tells(u, j) /\ binding[j] = n) \/ Removes(u, j, n)
    BY <2>1 DEF UseInv, DoneRemoved
  <2> QED
    BY <1>13, <1>17, <2>2
<1> QED
  BY <1>10, <1>20, <1>21, <1>22, <1>23, <1>24, <1>25, <1>26, <1>27, <1>28 DEF UseInv

-----------------------------------------------------------------------------
(* The invariant, and what follows from it *)

LEMMA InitUse == Init => UseInv
<1> SUFFICES ASSUME Init PROVE UseInv
  OBVIOUS
<1>1. \A t \in Thread : stack[t] = <<>> /\ Owned(t) = {} /\ SeqApart(stack[t])
  BY DEF Init, Owned, SeqClaims, SeqApart
<1>2. \A t \in Thread, k \in Task : ~Adds(t, k) /\ ~Ends(t, k) /\ ~LetsGo(t, k)
  BY <1>1 DEF Adds, Ends, LetsGo, At
<1>3. /\ \A k \in Task : ~done[k] /\ ~Exiting(k) /\ binding[k] = Null
      /\ \A m \in Manager : tasks[m] = {}
  BY DEF Init, Exiting, CREATED, DONE
<1> QED
  BY <1>1, <1>2, <1>3
  DEF UseInv, Alone, OneTable, FreeInTable, RunsRunning, DoneExiting, EndedOnce, OneEnder,
      StillBound, LetGo, BoundHeld, AddedAlone, DoneRemoved

LEMMA StepUse == AddWhenUnused /\ IInv /\ UseInv /\ [Next]_vars => UseInv'
<1> SUFFICES ASSUME AddWhenUnused, IInv, UseInv, [Next]_vars PROVE UseInv'
  OBVIOUS
<1>1. ASSUME NEW t \in Thread, Proceed(t) PROVE UseInv'
  <2>1. CASE AddLocked(t) \/ StartTask(t) \/ Check(t)
    BY <2>1, AddLockedUse, StartTaskUse, CheckUse
  <2>2. CASE Remove(t) \/ Cleanup(t) \/ ReadStatus(t) \/ FinishTask(t)
    BY <2>2, RemoveUse, CleanupUse, ReadStatusUse, FinishTaskUse
  <2>3. CASE Return(t) \/ Notify(t) \/ Take(t)
    BY <2>3, ReturnUse, NotifyUse, TakeUse
  <2>4. CASE TickEmpty(t) \/ TickLocked(t) \/ TickExiting(t) \/ TickEnd(t)
    BY <2>4, TickEmptyUse, TickLockedUse, TickExitingUse, TickEndUse
  <2>5. CASE ResetLocked(t) \/ ResetKill(t)
    BY <2>5, ResetLockedUse, ResetKillUse
  <2> QED
    BY <1>1, <2>1, <2>2, <2>3, <2>4, <2>5 DEF Proceed
<1>2. ASSUME NEW t \in Thread, NEW m \in Manager, NEW k \in Task,
             \/ \E timeout \in Timeout : AddTask(t, m, k, timeout) \/ SetTimeout(t, m, k, timeout)
             \/ RemoveTask(t, m, k) \/ Kill(t, m, k) \/ Cancel(t, m, k)
      PROVE  UseInv'
  BY <1>2, AddTaskUse, SetTimeoutUse, RemoveTaskUse, EraseToEndUse DEF Kill, Cancel
<1>3. ASSUME NEW t \in Thread, NEW m \in Manager \cup {Null}, NEW k \in Task, Start(t, m, k)
      PROVE  UseInv'
  BY <1>3, StartUse
<1>4. ASSUME NEW t \in Thread, Yield(t) PROVE UseInv'
  BY <1>4, YieldUse
<1>5. ASSUME NEW t \in Thread, Client(t) PROVE UseInv'
  BY <1>2, <1>3, <1>4, <1>5 DEF Client
<1>6. ASSUME NEW m \in Manager, NEW now \in Clock, Tick(m, now) PROVE UseInv'
  BY <1>6, TickUse
<1>7. ASSUME NEW m \in Manager, NEW end \in {"none", "destroy"}, Reset(m, end) PROVE UseInv'
  BY <1>7, ResetUse
<1>8. CASE Stopped \/ UNCHANGED vars
  BY <1>8, SameStackUse DEF Stopped, vars, taskVars, mgrVars
<1> QED
  BY <1>1, <1>5, <1>6, <1>7, <1>8 DEF Next

\* Under the contract on adding, every task is worked on as the calls in progress say.
THEOREM UseInvariant ==
  ASSUME AddWhenUnused
  PROVE  Spec => [](IInv /\ UseInv)
<1>1. Init => IInv /\ UseInv
  BY InitInv, InitUse
<1>2. IInv /\ UseInv /\ [Next]_vars => (IInv /\ UseInv)'
  BY StepInv, StepUse
<1> QED
  BY <1>1, <1>2, PTL DEF Spec

\* A task that is not over and is bound is in the table of that manager, or a call in
\* progress still holds it: when nobody does, it can be added again or is managed.
THEOREM BoundTasksAreManaged ==
  ASSUME AddWhenUnused
  PROVE  Spec => []BoundIsManaged
<1>1. UseInv => BoundIsManaged
  <2> SUFFICES ASSUME UseInv, NEW k \in Task, ~Exiting(k), binding[k] # Null,
                      k \notin tasks[binding[k]]
               PROVE  InHands(k)
    BY DEF BoundIsManaged
  <2>1. PICK t \in Thread : <<k, "hold">> \in Owned(t)
    BY DEF UseInv, BoundHeld
  <2> QED
    BY <2>1, ClaimedIsNamed, NamedFrames DEF InHands
<1> QED
  BY <1>1, UseInvariant, PTL

\* A task whose action has returned leaves its table, by the call of its own end,
\* whoever else removes, kills or resets meanwhile.
THEOREM FinishedTasksAreRemoved ==
  ASSUME AddWhenUnused
  PROVE  Spec => []FinishedIsRemoved
<1>1. IInv /\ UseInv => FinishedIsRemoved
  <2> SUFFICES ASSUME IInv, UseInv, NEW k \in Task, NEW m \in Manager, done[k],
                      "reset" \notin flags[m], k \in tasks[m]
               PROVE  InHands(k)
    BY DEF FinishedIsRemoved
  <2>1. PICK t \in Thread : Tells(t, k) \/ Removes(t, k, m)
    BY DEF UseInv, DoneRemoved
  <2>2. stack[t] # <<>> /\ Top(t).task = k
    BY <2>1 DEF Tells, Ending, Removes, At
  <2> QED
    BY <2>2, TopFrame DEF InHands, IInv
<1> QED
  BY <1>1, UseInvariant, PTL

\* Whoever ends a task whose action has not returned finds it at rest: kills, timeouts,
\* removals and resets never leave two calls to run it to its end.
THEOREM EndersNeverSpin ==
  ASSUME AddWhenUnused
  PROVE  Spec => []NotifyNeverSpins
<1>1. IInv /\ UseInv => NotifyNeverSpins
  <2> SUFFICES ASSUME IInv, UseInv, NEW t \in Thread, At(t, "notify"), ~done[Top(t).task],
                      Running(Top(t).task)
               PROVE  FALSE
    BY DEF NotifyNeverSpins
  <2>1. PICK k \in Task : k = Top(t).task
    BY TopGood DEF At, IInv, GoodCall, OfTick, OfTask
  <2>2. PICK u \in Thread : \E c \in Frames(u) : c.pc = "run" /\ c.task = k
    BY <2>1 DEF Running
  <2>3. PICK c \in Frames(u) : c.pc = "run" /\ c.task = k
    BY <2>2
  <2>4. <<k, "run">> \in Claims(c)
    BY <2>3 DEF Claims, Runs
  <2>5. <<k, "run">> \in Owned(u)
    BY <2>3, <2>4 DEF Owned, SeqClaims, Frames
  <2> QED
    BY <2>1, <2>5 DEF UseInv, OneEnder, Ends
<1> QED
  BY <1>1, UseInvariant, PTL

-----------------------------------------------------------------------------
(* Time: the times of timers *)

\* One thread, and timeouts in whole seconds, whose sums need no carry.
WholeSeconds == Thread = {Ticker} /\ \A x \in Timeout : x[2] = 0

\* A timer is at the time when its task's timeout is over.
NodeOnTime(m, k) ==
  node[m][k] # Null =>
    /\ node[m][k][2] < Nsec
    /\ due[m][k] = Nanos(node[m][k])
    /\ FirstTick(m) => node[m][k][2] = 0

\* What the timers say, without what the thread sees of them.
TimersOnTime ==
  /\ \A m \in Manager : FirstTick(m) \/ last_tick[m] \in Clock
  /\ \A m \in Manager, k \in Task : NodeOnTime(m, k)

LEMMA NanosBefore ==
  ASSUME NEW x \in Time, NEW y \in Time, x[2] < Nsec, Before(x, y)
  PROVE  Nanos(x) < Nanos(y)
<1>1. /\ x[1] \in Nat /\ x[2] \in Nat /\ y[1] \in Nat /\ y[2] \in Nat /\ Nsec \in Nat
  BY TaskManagerAssumption DEF Time
<1>2. CASE x[1] = y[1]
  BY <1>1, <1>2 DEF Before, Nanos
<1>3. CASE x[1] < y[1]
  <2>1. PICK d \in Nat : y[1] = x[1] + 1 + d
    <3>1. y[1] - x[1] - 1 \in Nat /\ y[1] = x[1] + 1 + (y[1] - x[1] - 1)
      BY <1>1, <1>3
    <3> QED
      BY <3>1
  <2>2. y[1] * Nsec = x[1] * Nsec + Nsec + d * Nsec
    BY <1>1, <2>1
  <2>3. d * Nsec \in Nat /\ x[1] * Nsec \in Nat /\ y[1] * Nsec \in Nat
    BY <1>1
  <2> DEFINE a == x[1] * Nsec
             b == y[1] * Nsec
             e == d * Nsec
  <2> HIDE DEF a, b, e
  <2>4. b = a + Nsec + e /\ a \in Nat /\ b \in Nat /\ e \in Nat
    BY <2>2, <2>3 DEF a, b, e
  <2>5. a + x[2] < b + y[2]
    BY <1>1, <2>4
  <2> QED
    BY <2>5 DEF Nanos, a, b
<1> QED
  BY <1>2, <1>3 DEF Before

\* Nanoseconds add up whether or not they are carried.
LEMMA NanosSum ==
  ASSUME NEW x \in Time, NEW y \in Time
  PROVE  Nanos(<<x[1] + y[1], x[2] + y[2]>>) = Nanos(x) + Nanos(y)
<1>1. /\ x[1] \in Nat /\ x[2] \in Nat /\ y[1] \in Nat /\ y[2] \in Nat /\ Nsec \in Nat
  BY TaskManagerAssumption DEF Time
<1>2. (x[1] + y[1]) * Nsec = x[1] * Nsec + y[1] * Nsec
  BY <1>1
<1>3. x[1] * Nsec \in Nat /\ y[1] * Nsec \in Nat
  BY <1>1
<1> QED
  BY <1>1, <1>2, <1>3 DEF Nanos

\* A time that is not before another is not before an earlier one.
LEMMA NotBefore ==
  ASSUME NEW x \in Time, NEW y \in Time, NEW z \in Time, ~Before(x, z), ~Before(y, x)
  PROVE  ~Before(y, z)
<1>1. /\ x[1] \in Int /\ x[2] \in Int /\ y[1] \in Int /\ y[2] \in Int
      /\ z[1] \in Int /\ z[2] \in Int
  BY DEF Time
<1> QED
  BY <1>1 DEF Before

LEMMA HeadOf ==
  ASSUME NEW S, NEW s \in Seq(S), NEW c
  PROVE  <<c>> \o s # <<>> /\ Head(<<c>> \o s) = c
<1>1. s \in Seq(S \cup {c}) /\ <<c>> \in Seq(S \cup {c})
  OBVIOUS
<1> QED
  BY <1>1

LEMMA HeadOfTwo ==
  ASSUME NEW S, NEW s \in Seq(S), NEW c, NEW d
  PROVE  <<c, d>> \o s # <<>> /\ Head(<<c, d>> \o s) = c
<1>1. s \in Seq(S \cup {c, d}) /\ <<c, d>> \in Seq(S \cup {c, d})
  OBVIOUS
<1> QED
  BY <1>1

LEMMA SameTimers ==
  ASSUME TimersOnTime, UNCHANGED <<node, due, last_tick>>
  PROVE  TimersOnTime'
BY DEF TimersOnTime, NodeOnTime, FirstTick, Nanos

LEMMA ErasedTimer ==
  ASSUME IInv, TimersOnTime, NEW m \in Manager, NEW k \in Task, Erase(m, k),
         UNCHANGED <<due, last_tick>>
  PROVE  TimersOnTime'
<1>1. \A n \in Manager, j \in Task : node'[n][j] = node[n][j] \/ node'[n][j] = Null
  BY DEF Erase, IInv, TypeOK
<1> QED
  BY <1>1 DEF TimersOnTime, NodeOnTime, FirstTick, Nanos

LEMMA ForgottenTimers ==
  ASSUME IInv, TimersOnTime, NEW m \in Manager,
         node' = [node EXCEPT ![m] = [k \in Task |-> Null]],
         last_tick' = [last_tick EXCEPT ![m] = <<0, 0>>], UNCHANGED due
  PROVE  TimersOnTime'
<1>1. \A n \in Manager, j \in Task :
        node'[n][j] = Null \/ (n # m /\ node'[n][j] = node[n][j])
  BY DEF IInv, TypeOK
<1>2. \A n \in Manager : last_tick'[n] = <<0, 0>> \/ (n # m /\ last_tick'[n] = last_tick[n])
  BY DEF IInv, TypeOK
<1>3. \A n \in Manager : n # m => last_tick'[n] = last_tick[n]
  BY DEF IInv, TypeOK
<1> QED
  BY <1>1, <1>2, <1>3 DEF TimersOnTime, NodeOnTime, FirstTick, Nanos

LEMMA LastTickSplit ==
  ASSUME IInv, TimersOnTime, NEW m \in Manager
  PROVE  last_tick[m] \in Time /\ last_tick[m][2] < Nsec
<1>1. last_tick[m] \in Time
  BY DEF IInv, TypeOK
<1>2. CASE last_tick[m] = <<0, 0>>
  BY <1>1, <1>2, TaskManagerAssumption
<1>3. CASE last_tick[m] \in Clock
  BY <1>1, <1>3, TaskManagerAssumption
<1> QED
  BY <1>1, <1>2, <1>3 DEF TimersOnTime, FirstTick

LEMMA NewTimer ==
  ASSUME IInv, TimersOnTime, WholeSeconds, NEW m \in Manager, NEW k \in Task,
         NEW timeout \in Timeout, SetTimeoutTimer(m, k, timeout), UNCHANGED last_tick
  PROVE  TimersOnTime'
<1>1. timeout \in Time /\ timeout[2] = 0 /\ ExpiredTime(m, timeout) \in Time
  BY TaskManagerAssumption DEF Time, WholeSeconds, ExpiredTime, IInv, TypeOK
<1>2. due'[m][k] = Nanos(last_tick[m]) + Nanos(timeout)
  BY DEF SetTimeoutTimer, IInv, TypeOK
<1>3. ExpiredTime(m, timeout) = <<last_tick[m][1] + timeout[1], last_tick[m][2] + timeout[2]>>
  BY DEF ExpiredTime
<1>4. Nanos(ExpiredTime(m, timeout)) = due'[m][k]
  BY <1>1, <1>2, <1>3, LastTickSplit, NanosSum
<1>5. ExpiredTime(m, timeout)[2] = last_tick[m][2]
  BY <1>1, <1>3, LastTickSplit DEF Time
<1>6. node'[m][k] \in {Null, ExpiredTime(m, timeout)}
  BY DEF SetTimeoutTimer, IInv, TypeOK
<1>7. NodeOnTime(m, k)'
  <2>1. FirstTick(m)' => last_tick[m][2] = 0
    BY DEF FirstTick
  <2>2. CASE node'[m][k] = Null
    BY <2>2 DEF NodeOnTime
  <2>3. CASE node'[m][k] = ExpiredTime(m, timeout)
    <3>1. node'[m][k][2] < Nsec /\ (FirstTick(m)' => node'[m][k][2] = 0)
      BY <1>5, <2>1, <2>3, LastTickSplit
    <3>2. due'[m][k] = Nanos(node'[m][k])
      BY <1>4, <2>3
    <3> QED
      BY <3>1, <3>2 DEF NodeOnTime, Nanos
  <2> QED
    BY <1>6, <2>2, <2>3
<1>8. ASSUME NEW n \in Manager, NEW j \in Task, n # m \/ j # k PROVE NodeOnTime(n, j)'
  <2>1. node'[n][j] = node[n][j] /\ due'[n][j] = due[n][j] /\ last_tick' = last_tick
    BY <1>8 DEF SetTimeoutTimer, IInv, TypeOK
  <2> QED
    BY <2>1 DEF TimersOnTime, NodeOnTime, FirstTick, Nanos
<1>9. \A n \in Manager : FirstTick(n)' \/ last_tick'[n] \in Clock
  BY DEF TimersOnTime, FirstTick
<1> QED
  BY <1>7, <1>8, <1>9 DEF TimersOnTime

\* The first tick.
LEMMA RebasedTimers ==
  ASSUME IInv, TimersOnTime, NEW m \in Manager, NEW now \in Clock, FirstTick(m),
         node' = [node EXCEPT ![m] = [k \in Task |->
           IF node[m][k] = Null THEN Null ELSE Rebased(node[m][k], now)]],
         due' = [due EXCEPT ![m] = [k \in Task |->
           IF node[m][k] = Null THEN due[m][k] ELSE due[m][k] + Nanos(now)]],
         last_tick' = [last_tick EXCEPT ![m] = now]
  PROVE  TimersOnTime'
<1>1. now \in Time /\ now[2] < Nsec /\ now # <<0, 0>> /\ now[2] \in Nat
  BY TaskManagerAssumption DEF Time
<1>2. last_tick'[m] = now /\ \A n \in Manager \ {m} : last_tick'[n] = last_tick[n]
  BY DEF IInv, TypeOK
<1>3. \A n \in Manager : FirstTick(n)' \/ last_tick'[n] \in Clock
  BY <1>2 DEF TimersOnTime, FirstTick
<1>4. ASSUME NEW k \in Task PROVE NodeOnTime(m, k)'
  <2> DEFINE x == node[m][k]
  <2>1. CASE x = Null
    <3>1. node'[m][k] = Null
      BY <2>1 DEF IInv, TypeOK
    <3> QED
      BY <3>1 DEF NodeOnTime
  <2>2. CASE x # Null
    <3>1. x \in Time /\ x[2] = 0 /\ due[m][k] = Nanos(x)
      BY <2>2 DEF IInv, TypeOK, TimersOnTime, NodeOnTime
    <3>2. node'[m][k] = <<x[1] + now[1], x[2] + now[2]>> /\ due'[m][k] = due[m][k] + Nanos(now)
      BY <2>2 DEF Rebased, IInv, TypeOK
    <3>3. due'[m][k] = Nanos(node'[m][k])
      BY <1>1, <3>1, <3>2, NanosSum
    <3>4. node'[m][k][2] = now[2]
      BY <1>1, <3>1, <3>2
    <3>5. ~FirstTick(m)'
      BY <1>1, <1>2 DEF FirstTick
    <3> QED
      BY <1>1, <3>3, <3>4, <3>5 DEF NodeOnTime, Nanos
  <2> QED
    BY <2>1, <2>2
<1>5. ASSUME NEW n \in Manager \ {m}, NEW k \in Task PROVE NodeOnTime(n, k)'
  <2>1. node'[n][k] = node[n][k] /\ due'[n][k] = due[n][k] /\ last_tick'[n] = last_tick[n]
    BY DEF IInv, TypeOK
  <2> QED
    BY <2>1 DEF TimersOnTime, NodeOnTime, FirstTick, Nanos
<1> QED
  BY <1>3, <1>4, <1>5 DEF TimersOnTime

LEMMA LaterTick ==
  ASSUME IInv, TimersOnTime, NEW m \in Manager, NEW now \in Clock,
         last_tick' = [last_tick EXCEPT ![m] = now], UNCHANGED <<node, due>>
  PROVE  TimersOnTime'
<1>1. \A n \in Manager : last_tick'[n] = IF n = m THEN now ELSE last_tick[n]
  BY DEF IInv, TypeOK
<1>2. now # <<0, 0>>
  BY TaskManagerAssumption
<1>3. \A n \in Manager : FirstTick(n)' \/ last_tick'[n] \in Clock
  BY <1>1 DEF TimersOnTime, FirstTick
<1>4. ASSUME NEW n \in Manager, NEW k \in Task PROVE NodeOnTime(n, k)'
  <2>1. FirstTick(n)' => FirstTick(n)
    BY <1>1, <1>2 DEF FirstTick
  <2>2. NodeOnTime(n, k)
    BY DEF TimersOnTime
  <2> QED
    BY <2>1, <2>2 DEF NodeOnTime, Nanos
<1> QED
  BY <1>3, <1>4 DEF TimersOnTime

-----------------------------------------------------------------------------
(* The timers under every step *)

LEMMA ProceedOnTime ==
  ASSUME IInv, TimersOnTime, WholeSeconds, NEW t \in Thread, Proceed(t)
  PROVE  TimersOnTime'
<1>1. Top(t) \in GoodCall
  <2>1. stack[t] # <<>>
    BY DEF Proceed, AddLocked, StartTask, Check, Remove, Cleanup, ReadStatus, FinishTask, Return,
           Notify, Take, TickEmpty, TickLocked, TickExiting, TickEnd, ResetLocked, ResetKill, At
  <2> QED
    BY <2>1, TopGood DEF IInv
<1>2. CASE AddLocked(t)
  <2>1. Top(t).mgr \in Manager /\ Top(t).task \in Task /\ Top(t).time \in Timeout
    BY <1>1, <1>2 DEF AddLocked, At, GoodCall, OfManager, OfTask
  <2>2. CASE UNCHANGED <<node, due>>
    BY <1>2, <2>2, SameTimers DEF AddLocked
  <2>3. CASE SetTimeoutTimer(Top(t).mgr, Top(t).task, Top(t).time)
    BY <1>2, <2>1, <2>3, NewTimer DEF AddLocked
  <2> QED
    BY <1>2, <2>2, <2>3 DEF AddLocked
<1>3. CASE Remove(t)
  <2>1. Top(t).mgr \in Manager /\ Top(t).task \in Task
    BY <1>1, <1>3 DEF Remove, At, GoodCall, OfManager, OfTask
  <2> QED
    BY <1>3, <2>1, SameTimers, ErasedTimer DEF Remove
<1>4. CASE TickLocked(t)
  <2>1. PICK m \in Manager : m = Top(t).mgr
    BY <1>1, <1>4 DEF TickLocked, At, GoodCall, OfManager
  <2>2. \A x \in Earliest(m) : x[2] \in Task
    BY DEF Earliest, IInv, TypeOK
  <2>3. CASE UNCHANGED <<tasks, timers, node>>
    BY <1>4, <2>3, SameTimers DEF TickLocked
  <2>4. ASSUME NEW x \in Earliest(m), Erase(m, x[2])
        PROVE  TimersOnTime'
    BY <1>4, <2>2, <2>4, ErasedTimer DEF TickLocked
  <2> QED
    BY <1>4, <2>1, <2>3, <2>4 DEF TickLocked
<1>5. CASE TickEnd(t)
  <2>1. Top(t).mgr \in Manager /\ Top(t).time \in Clock
    BY <1>1, <1>5 DEF TickEnd, At, GoodCall, OfManager, OfTick
  <2> QED
    BY <1>5, <2>1, LaterTick DEF TickEnd
<1>6. CASE ResetLocked(t)
  <2>1. Top(t).mgr \in Manager
    BY <1>1, <1>6 DEF ResetLocked, At, GoodCall, OfManager
  <2> QED
    BY <1>6, <2>1, ForgottenTimers DEF ResetLocked
<1>7. CASE StartTask(t) \/ Check(t) \/ Cleanup(t) \/ ReadStatus(t) \/ FinishTask(t) \/ Return(t)
           \/ Notify(t) \/ Take(t) \/ TickEmpty(t) \/ TickExiting(t) \/ ResetKill(t)
  BY <1>7, SameTimers DEF StartTask, Check, Cleanup, ReadStatus, FinishTask, Return, Notify, Take,
                          TickEmpty, TickExiting, ResetKill, mgrVars
<1> QED
  BY <1>2, <1>3, <1>4, <1>5, <1>6, <1>7 DEF Proceed

LEMMA ClientOnTime ==
  ASSUME IInv, TimersOnTime, WholeSeconds, NEW t \in Thread, Client(t)
  PROVE  TimersOnTime'
<1>1. ASSUME NEW m \in Manager, NEW k \in Task, NEW timeout \in Timeout, AddTask(t, m, k, timeout)
      PROVE  TimersOnTime'
  BY <1>1, SameTimers DEF AddTask, mgrVars
<1>2. ASSUME NEW m \in Manager, NEW k \in Task, NEW timeout \in Timeout, SetTimeout(t, m, k, timeout)
      PROVE  TimersOnTime'
  BY <1>2, NewTimer DEF SetTimeout
<1>3. ASSUME NEW m \in Manager, NEW k \in Task, RemoveTask(t, m, k)
      PROVE  TimersOnTime'
  BY <1>3, SameTimers DEF RemoveTask, mgrVars
<1>4. ASSUME NEW m \in Manager, NEW k \in Task, NEW e, EraseToEnd(t, m, k, e)
      PROVE  TimersOnTime'
  BY <1>4, ErasedTimer DEF EraseToEnd
<1>5. ASSUME NEW m \in Manager \cup {Null}, NEW k \in Task, Start(t, m, k)
      PROVE  TimersOnTime'
  BY <1>5, SameTimers DEF Start, mgrVars
<1>6. CASE Yield(t)
  BY <1>6, SameTimers DEF Yield, mgrVars
<1> QED
  BY <1>1, <1>2, <1>3, <1>4, <1>5, <1>6 DEF Client, Kill, Cancel

-----------------------------------------------------------------------------
(* What the thread of tick() sees of them *)

\* The thread is not where TimedOutInTime looks.
Elsewhere(t) == ~At(t, "tick_exiting") /\ ~At(t, "tick_end")

LEMMA ElsewhereOnTop ==
  ASSUME StackOK, NEW t \in Thread, NEW c, c.pc \notin {"tick_exiting", "tick_end"},
         \/ Push(t, c)
         \/ stack[t] # <<>> /\ Become(t, c)
         \/ stack[t] # <<>> /\ \E d : stack' = [stack EXCEPT ![t] = <<c, d>> \o Tail(@)]
  PROVE  Elsewhere(t)'
<1>1. stack[t] \in Seq(GoodCall) /\ stack \in [Thread -> Seq(GoodCall)]
  BY DEF StackOK
<1>2. stack[t] # <<>> => Tail(stack[t]) \in Seq(GoodCall)
  BY <1>1
<1>3. stack'[t] # <<>> /\ Head(stack'[t]) = c
  <2>1. CASE Push(t, c)
    <3>1. stack'[t] = <<c>> \o stack[t]
      BY <1>1, <2>1 DEF Push
    <3> QED
      BY <1>1, <3>1, HeadOf
  <2>2. CASE stack[t] # <<>> /\ Become(t, c)
    <3> DEFINE r == Tail(stack[t])
    <3>1. stack'[t] = <<c>> \o r /\ r \in Seq(GoodCall)
      BY <1>1, <1>2, <2>2 DEF Become
    <3> HIDE DEF r
    <3> QED
      BY <3>1, HeadOf
  <2>3. ASSUME stack[t] # <<>>, NEW d, stack' = [stack EXCEPT ![t] = <<c, d>> \o Tail(@)]
        PROVE  stack'[t] # <<>> /\ Head(stack'[t]) = c
    <3> DEFINE r == Tail(stack[t])
    <3>1. stack'[t] = <<c, d>> \o r /\ r \in Seq(GoodCall)
      BY <1>1, <1>2, <2>3
    <3> HIDE DEF r
    <3> QED
      BY <3>1, HeadOfTwo
  <2> QED
    BY <2>1, <2>2, <2>3
<1> QED
  BY <1>3 DEF Elsewhere, At, Top

LEMMA ElsewhereBelow ==
  ASSUME StackOK, NEW t \in Thread, stack[t] # <<>>, Pop(t)
  PROVE  Elsewhere(t)'
BY Popped DEF Elsewhere, At, Top, BelowCall, Below

LEMMA ElsewhereInClient ==
  ASSUME NEW t \in Thread, InClient(t), UNCHANGED stack
  PROVE  Elsewhere(t)'
BY DEF InClient, Elsewhere, At, Top

LEMMA ElsewhereInTime ==
  ASSUME WholeSeconds, Elsewhere(Ticker)'
  PROVE  TimedOutInTime'
BY DEF WholeSeconds, Elsewhere, TimedOutInTime

\* Another step of the same call.
LEMMA ElsewhereRelabelled ==
  ASSUME StackOK, NEW t \in Thread, stack[t] # <<>>,
         NEW l \in Label \ {"tick_exiting", "tick_end"}, Goto(t, l)
  PROVE  Elsewhere(t)'
<1>1. [Top(t) EXCEPT !.pc = l].pc = l
  BY TopGood DEF GoodCall, Call
<1> QED
  BY <1>1, ElsewhereOnTop DEF Goto

LEMMA ClientElsewhere ==
  ASSUME IInv, NEW t \in Thread, Client(t)
  PROVE  Elsewhere(t)'
<1>1. ASSUME NEW m \in Manager, NEW k \in Task, NEW timeout \in Timeout, AddTask(t, m, k, timeout)
      PROVE  Elsewhere(t)'
  <2> DEFINE c == [NewCall("add", m, k) EXCEPT !.time = timeout]
  <2>1. c.pc = "add" /\ Push(t, c)
    BY <1>1 DEF AddTask, NewCall
  <2> QED
    BY <2>1, ElsewhereOnTop DEF IInv
<1>2. ASSUME NEW m \in Manager, NEW k \in Task, NEW timeout \in Timeout, SetTimeout(t, m, k, timeout)
      PROVE  Elsewhere(t)'
  BY <1>2, ElsewhereInClient DEF SetTimeout, NextCall
<1>3. ASSUME NEW m \in Manager \cup {Null}, NEW k \in Task,
             NEW l \in {"remove", "start"}, Push(t, NewCall(l, m, k))
      PROVE  Elsewhere(t)'
  <2>1. NewCall(l, m, k).pc = l
    BY DEF NewCall
  <2> QED
    BY <1>3, <2>1, ElsewhereOnTop DEF IInv
<1>4. ASSUME NEW m \in Manager, NEW k \in Task, NEW e, EraseToEnd(t, m, k, e)
      PROVE  Elsewhere(t)'
  <2> DEFINE c == [NewCall("cleanup", m, k) EXCEPT !.end = e]
  <2>1. c.pc = "cleanup" /\ Push(t, c)
    BY <1>4 DEF EraseToEnd, NewCall
  <2> QED
    BY <2>1, ElsewhereOnTop DEF IInv
<1>5. CASE Yield(t)
  <2>1. stack[t] # <<>>
    BY <1>5 DEF Yield, At
  <2>2. NewCall("notify", Null, Top(t).task).pc = "notify"
    BY DEF NewCall
  <2>3. Become(t, NewCall("notify", Null, Top(t).task)) \/ Pop(t)
    BY <1>5 DEF Yield
  <2> QED
    BY <2>1, <2>2, <2>3, ElsewhereOnTop, ElsewhereBelow DEF IInv
<1> QED
  BY <1>1, <1>2, <1>3, <1>4, <1>5 DEF Client, RemoveTask, Start, Kill, Cancel

LEMMA ProceedElsewhere ==
  ASSUME IInv, NEW t \in Thread, Proceed(t), ~TickEmpty(t), ~TickLocked(t)
  PROVE  Elsewhere(t)'
<1>1. stack[t] # <<>> /\ Top(t) \in Call
  <2>1. stack[t] # <<>>
    BY DEF Proceed, AddLocked, StartTask, Check, Remove, Cleanup, ReadStatus, FinishTask, Return,
           Notify, Take, TickExiting, TickEnd, ResetLocked, ResetKill, At
  <2> QED
    BY <2>1, TopGood DEF IInv, GoodCall
<1>2. CASE Pop(t)
  BY <1>1, <1>2, ElsewhereBelow DEF IInv
<1>3. ASSUME NEW l \in {"remove", "cleanup", "notify", "run"}, NEW m, NEW k, NEW e,
             Become(t, NewCall(l, m, k)) \/ Become(t, [NewCall(l, m, k) EXCEPT !.end = e])
      PROVE  Elsewhere(t)'
  <2>1. NewCall(l, m, k).pc = l /\ [NewCall(l, m, k) EXCEPT !.end = e].pc = l
    BY DEF NewCall
  <2> QED
    BY <1>1, <1>3, <2>1, ElsewhereOnTop DEF IInv
<1>4. ASSUME NEW l \in {"check", "cleanup", "read", "finish", "take"}, Goto(t, l)
      PROVE  Elsewhere(t)'
  BY <1>1, <1>4, ElsewhereRelabelled DEF IInv, Label
<1>5. CASE AddLocked(t) \/ TickEnd(t)
  BY <1>2, <1>5 DEF AddLocked, TickEnd
<1>6. CASE StartTask(t)
  <2>1. Goto(t, "check") \/ \E d : stack' = [stack EXCEPT ![t] =
          <<NewCall("run", Null, Top(t).task), d>> \o Tail(@)]
    BY <1>6 DEF StartTask, Goto
  <2>2. NewCall("run", Null, Top(t).task).pc = "run"
    BY DEF NewCall
  <2> QED
    BY <1>1, <1>4, <2>1, <2>2, ElsewhereOnTop DEF IInv
<1>7. CASE Check(t) \/ Remove(t)
  BY <1>2, <1>3, <1>7 DEF Check, Remove
<1>8. CASE Cleanup(t) \/ TickExiting(t)
  BY <1>2, <1>4, <1>8 DEF Cleanup, TickExiting
<1>9. CASE ReadStatus(t)
  <2>1. [Top(t) EXCEPT !.pc = "finish", !.end = "killed"].pc = "finish"
    BY <1>1 DEF Call
  <2> QED
    BY <1>1, <1>2, <1>9, <2>1, ElsewhereOnTop DEF ReadStatus, IInv
<1>10. CASE FinishTask(t) \/ Return(t) \/ Notify(t) \/ Take(t)
  BY <1>2, <1>3, <1>4, <1>10 DEF FinishTask, Return, Notify, Take
<1>11. CASE ResetLocked(t)
  <2> DEFINE c == [Top(t) EXCEPT !.pc = "reset_kill", !.todo = tasks[Top(t).mgr]]
  <2>1. c.pc = "reset_kill" /\ Become(t, c)
    BY <1>1, <1>11 DEF Call, ResetLocked
  <2> QED
    BY <1>1, <2>1, ElsewhereOnTop DEF IInv
<1>12. CASE ResetKill(t)
  <2>1. Top(t).pc = "reset_kill"
    BY <1>12 DEF ResetKill, At
  <2>2. ASSUME NEW k, Become(t, [Top(t) EXCEPT !.todo = @ \ {k}])
        PROVE  Elsewhere(t)'
    <3>1. [Top(t) EXCEPT !.todo = @ \ {k}].pc = "reset_kill"
      BY <1>1, <2>1 DEF Call
    <3> QED
      BY <1>1, <2>2, <3>1, ElsewhereOnTop DEF IInv
  <2>3. ASSUME NEW k, NEW d, stack' = [stack EXCEPT ![t] =
                 <<[NewCall("finish", Null, k) EXCEPT !.end = "killed"], d>> \o Tail(@)]
        PROVE  Elsewhere(t)'
    <3>1. [NewCall("finish", Null, k) EXCEPT !.end = "killed"].pc = "finish"
      BY DEF NewCall
    <3> QED
      BY <1>1, <2>3, <3>1, ElsewhereOnTop DEF IInv
  <2> QED
    BY <1>2, <1>12, <2>2, <2>3 DEF ResetKill
<1> QED
  BY <1>5, <1>6, <1>7, <1>8, <1>9, <1>10, <1>11, <1>12 DEF Proceed

\* An empty table leaves nothing behind.
LEMMA EmptyInTime ==
  ASSUME IInv, WholeSeconds, NEW t \in Thread, TickEmpty(t)
  PROVE  TimedOutInTime'
<1>1. stack[t] # <<>> /\ Top(t) \in GoodCall /\ t = Ticker
  BY TopGood DEF TickEmpty, At, IInv, WholeSeconds
<1>2. CASE timers[Top(t).mgr] = {}
  <2> DEFINE c == [Top(t) EXCEPT !.pc = "tick_end"]
             r == Tail(stack[t])
  <2>1. c.pc = "tick_end" /\ c.mgr = Top(t).mgr
    BY <1>1 DEF GoodCall, Call
  <2>2. stack'[t] = <<c>> \o r /\ r \in Seq(GoodCall)
    BY <1>1, <1>2 DEF TickEmpty, Goto, Become, IInv, StackOK
  <2>3. Top(t)' = c /\ timers'[c.mgr] = {}
    <3> HIDE DEF r, c
    <3> QED
      BY <1>2, <2>1, <2>2, HeadOf DEF TickEmpty, mgrVars, Top
  <2> HIDE DEF c
  <2> QED
    BY <1>1, <2>1, <2>3 DEF TimedOutInTime, At, WholeSeconds
<1>3. CASE timers[Top(t).mgr] # {}
  <2>1. Goto(t, "tick_locked")
    BY <1>3 DEF TickEmpty
  <2> QED
    BY <1>1, <2>1, ElsewhereRelabelled, ElsewhereInTime DEF IInv, Label
<1> QED
  BY <1>2, <1>3

\* The loop ends at a timer that is still to come, before all others; and the task
\* that it takes out is that of a timer which is over.
LEMMA LockedInTime ==
  ASSUME IInv, TimersOnTime, WholeSeconds, NEW t \in Thread, TickLocked(t)
  PROVE  TimedOutInTime'
<1>1. stack[t] # <<>> /\ Top(t) \in GoodCall /\ t = Ticker /\ Top(t).pc = "tick_locked"
  BY TopGood DEF TickLocked, At, IInv, WholeSeconds
<1>2. PICK m \in Manager : m = Top(t).mgr
  BY <1>1 DEF GoodCall, OfManager
<1>3. PICK now \in Time : now = Top(t).time
  BY <1>1 DEF GoodCall, Call
<1>4. CASE Goto(t, "tick")
  BY <1>1, <1>4, ElsewhereRelabelled, ElsewhereInTime DEF IInv, Label
<1>5. ASSUME Goto(t, "tick_end"), UNCHANGED timers, \A y \in timers[m] : ~Before(y[1], now)
      PROVE  TimedOutInTime'
  <2> DEFINE c == [Top(t) EXCEPT !.pc = "tick_end"]
             r == Tail(stack[t])
  <2>1. c.pc = "tick_end" /\ c.mgr = m /\ c.time = now
    BY <1>1, <1>2, <1>3 DEF GoodCall, Call
  <2>2. stack'[t] = <<c>> \o r /\ r \in Seq(GoodCall)
    BY <1>1, <1>5 DEF Goto, Become, IInv, StackOK
  <2>3. Top(t)' = c
    <3> HIDE DEF r, c
    <3> QED
      BY <2>2, HeadOf DEF Top
  <2> HIDE DEF c
  <2>4. \A y \in timers'[c.mgr] : ~Before(y[1], c.time)
    BY <1>5, <2>1
  <2> QED
    BY <1>1, <2>1, <2>3, <2>4 DEF TimedOutInTime, At, WholeSeconds, Before
<1>6. ASSUME NEW x \in Earliest(m), ~Expired(now, x)
      PROVE  \A y \in timers[m] : ~Before(y[1], now)
  <2>1. x \in timers[m] /\ timers[m] \subseteq Time \X Task
    BY DEF Earliest, IInv, TypeOK
  <2> SUFFICES ASSUME NEW y \in timers[m] PROVE ~Before(y[1], now)
    OBVIOUS
  <2>2. ~Before(y[1], x[1]) /\ ~Before(x[1], now)
    BY <1>6 DEF Earliest, Precedes, Expired
  <2> QED
    BY <2>1, <2>2, NotBefore
<1>7. ASSUME NEW x \in Earliest(m), Expired(now, x), NEW d,
             stack' = [stack EXCEPT ![t] =
               <<[NewCall("tick_exiting", m, x[2]) EXCEPT !.end = "timeout", !.time = now], d>>
               \o Tail(@)]
      PROVE  TimedOutInTime'
  <2> DEFINE c == [NewCall("tick_exiting", m, x[2]) EXCEPT !.end = "timeout", !.time = now]
             r == Tail(stack[t])
  <2>1. c.pc = "tick_exiting" /\ c.mgr = m /\ c.time = now /\ c.task = x[2]
    BY DEF NewCall
  <2>2. stack'[t] = <<c, d>> \o r /\ r \in Seq(GoodCall)
    BY <1>1, <1>7 DEF IInv, StackOK
  <2>3. Top(t)' = c
    <3> HIDE DEF r, c
    <3> QED
      BY <2>2, HeadOfTwo DEF Top
  <2>4. PICK k \in tasks[m] : node[m][k] # Null /\ x = <<node[m][k], k>>
    BY DEF Earliest, IInv, TimersMatch
  <2>5. k \in Task /\ node[m][k] \in Time
    BY <2>4 DEF IInv, TypeOK
  <2>6. Nanos(node[m][k]) < Nanos(now)
    BY <1>7, <2>4, <2>5, NanosBefore DEF TimersOnTime, NodeOnTime, Expired
  <2>7. due[m][k] < Nanos(now) /\ x[2] = k
    BY <2>4, <2>5, <2>6 DEF TimersOnTime, NodeOnTime
  <2>8. due' = due
    BY DEF TickLocked
  <2> HIDE DEF c
  <2>9. due'[c.mgr][c.task] < Nanos(c.time)
    BY <2>1, <2>7, <2>8
  <2> QED
    BY <1>1, <2>1, <2>3, <2>9 DEF TimedOutInTime, At, WholeSeconds, Nanos
<1>8. CASE timers[m] = {} /\ Goto(t, "tick_end") /\ UNCHANGED timers
  BY <1>5, <1>8
<1> QED
  BY <1>2, <1>3, <1>4, <1>5, <1>6, <1>7, <1>8 DEF TickLocked

LEMMA TickOnTime ==
  ASSUME IInv, TimersOnTime, WholeSeconds, NEW m \in Manager, NEW now \in Clock, Tick(m, now)
  PROVE  TimersOnTime' /\ TimedOutInTime'
<1>1. Ticker \in Thread /\ InClient(Ticker)
  BY TaskManagerAssumption DEF Tick
<1>2. CASE Push(Ticker, [NewCall("tick", m, Null) EXCEPT !.time = now])
           /\ UNCHANGED <<node, due, last_tick>>
  <2>1. [NewCall("tick", m, Null) EXCEPT !.time = now].pc = "tick"
    BY DEF NewCall
  <2> QED
    BY <1>1, <1>2, <2>1, SameTimers, ElsewhereOnTop, ElsewhereInTime DEF IInv
<1>3. CASE ~(Push(Ticker, [NewCall("tick", m, Null) EXCEPT !.time = now])
             /\ UNCHANGED <<node, due, last_tick>>)
  <2>1. TimersOnTime'
    BY <1>3, RebasedTimers DEF Tick
  <2>2. UNCHANGED stack
    BY <1>3 DEF Tick
  <2> QED
    BY <1>1, <2>1, <2>2, ElsewhereInClient, ElsewhereInTime
<1> QED
  BY <1>2, <1>3

LEMMA ResetOnTime ==
  ASSUME IInv, TimersOnTime, WholeSeconds, NEW m \in Manager, NEW end, Reset(m, end)
  PROVE  TimersOnTime' /\ TimedOutInTime'
<1> DEFINE c == [NewCall("reset", m, Null) EXCEPT !.end = end]
<1>1. c.pc = "reset" /\ Push(Ticker, c) /\ Ticker \in Thread
  BY TaskManagerAssumption DEF NewCall, Reset
<1>2. TimersOnTime'
  BY SameTimers DEF Reset
<1> HIDE DEF c
<1> QED
  BY <1>1, <1>2, ElsewhereOnTop, ElsewhereInTime DEF IInv

LEMMA InitOnTime == Init => TimersOnTime /\ TimedOutInTime
BY DEF Init, TimersOnTime, NodeOnTime, FirstTick, TimedOutInTime, At

LEMMA StepOnTime ==
  WholeSeconds /\ IInv /\ TimersOnTime /\ TimedOutInTime /\ [Next]_vars
    => TimersOnTime' /\ TimedOutInTime'
<1> SUFFICES ASSUME WholeSeconds, IInv, TimersOnTime, TimedOutInTime, [Next]_vars
             PROVE  TimersOnTime' /\ TimedOutInTime'
  OBVIOUS
<1>1. ASSUME NEW t \in Thread, Proceed(t) PROVE TimersOnTime' /\ TimedOutInTime'
  <2>1. TimedOutInTime'
    BY <1>1, EmptyInTime, LockedInTime, ProceedElsewhere, ElsewhereInTime DEF WholeSeconds
  <2> QED
    BY <1>1, <2>1, ProceedOnTime
<1>2. ASSUME NEW t \in Thread, Client(t) PROVE TimersOnTime' /\ TimedOutInTime'
  BY <1>2, ClientOnTime, ClientElsewhere, ElsewhereInTime DEF WholeSeconds
<1>3. ASSUME NEW m \in Manager, NEW now \in Clock, Tick(m, now)
      PROVE  TimersOnTime' /\ TimedOutInTime'
  BY <1>3, TickOnTime
<1>4. ASSUME NEW m \in Manager, NEW end \in {"none", "destroy"}, Reset(m, end)
      PROVE  TimersOnTime' /\ TimedOutInTime'
  BY <1>4, ResetOnTime
<1>5. CASE Stopped \/ UNCHANGED vars
  <2>1. UNCHANGED vars
    BY <1>5 DEF Stopped
  <2>2. TimersOnTime'
    BY <2>1, SameTimers DEF vars, mgrVars
  <2> QED
    BY <2>1, <2>2 DEF vars, mgrVars, TimedOutInTime, At, Top, Nanos, Before
<1> QED
  BY <1>1, <1>2, <1>3, <1>4, <1>5 DEF Next

\* On one thread, and with timeouts in whole seconds, tick() times a task out after
\* its timeout is over and never before, and leaves no timer behind that is over:
\* for any clock, through resets, and whatever the actions it ends do to the manager.
THEOREM TasksTimeOutInTime ==
  ASSUME WholeSeconds
  PROVE  Spec => []TimedOutInTime
<1>1. Init => TimersOnTime /\ TimedOutInTime
  BY InitOnTime
<1>2. IInv /\ TimersOnTime /\ TimedOutInTime /\ [Next]_vars => TimersOnTime' /\ TimedOutInTime'
  BY StepOnTime
<1> QED
  BY <1>1, <1>2, Invariant, PTL DEF Spec

=============================================================================
