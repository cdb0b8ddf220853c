------------------------ MODULE CoroutineContextProofs ------------------------
(***************************************************************************)
(* Proofs about CoroutineContext.  The safety properties follow from one   *)
(* inductive invariant.  It says where each suspended or executing stack   *)
(* is (StackInv), what a stack that is inside a call knows about the       *)
(* coroutine it called (CallInv), and what the status of a coroutine says  *)
(* about its stack (CoInv).  At the end, FiberContext is shown to          *)
(* implement CoroutineContext.                                             *)
(***************************************************************************)
EXTENDS FiberContext, TLAPS

\* The coroutine a stack belongs to.
Own(f) == IF f \in Coroutine THEN f ELSE Null

Calling == {"set", "jump_in", "in_start", "returned"}

\* The stack of a coroutine between the jump into it and the jump out of it.
Inside == Executing \cup {"in_start"}

OnStack ==
  \A t \in Thread : pc[on[t]] \in Executing /\ this_co[t] = Own(on[t])

StackInv ==
  \A f \in Frame :
    /\ pc[f] \in {"jump_in", "in_start", "jump_out", "in_yield", "dead"}
         => from_co[f] = Own(f)
    /\ f \in Thread => pc[f] \in Calling \cup {"user"}
    /\ pc[f] = "jump_out" => arg[f] = f

CallInv ==
  \A f \in Frame : pc[f] \in Calling =>
    /\ arg[f] \in Coroutine
    /\ callee[arg[f]] = arg[f]
    /\ pc[f] = "set" => status[arg[f]] = "READY" /\ pc[arg[f]] = "fresh"
    /\ pc[f] = "jump_in" => /\ status[arg[f]] = "RUNNING"
                            /\ pc[arg[f]] \in {"fresh", "in_yield"}
                            /\ runner[arg[f]]
    /\ pc[f] = "in_start" => pc[arg[f]] \in Inside
    /\ pc[f] = "returned" => /\ pc[arg[f]] \in {"in_yield", "dead"}
                             /\ status[arg[f]] \in {"READY", "FINISHED"}
    /\ pc[f] \in {"in_start", "returned"} => caller[arg[f]] = f

OneCall ==
  \A f, g \in Frame :
    pc[f] \in Calling /\ pc[g] \in Calling /\ arg[f] = arg[g] => f = g

\* The statuses a coroutine can have when its stack is at a given point.
StatusAt(c) ==
  CASE pc[c] = "fresh"    -> {"INVALID", "READY", "RUNNING"}
    [] pc[c] = "in_yield" -> {"READY", "RUNNING"}
    [] pc[c] = "dead"     -> {"FINISHED", "EXITED"}
    [] pc[c] = "jump_out" -> {StatusAfterYield(c)}
    [] OTHER              -> {"RUNNING"}

CoInvOf(c) ==
  /\ callee[c] \in {Null, c}
  /\ callee[c] = Null => pc[c] = "fresh" /\ status[c] = "INVALID"
  /\ status[c] \in StatusAt(c)
  /\ pc[c] # "jump_out" => (finished[c] <=> pc[c] \in {"finish", "dead"})
  /\ pc[c] \in Inside => /\ caller[c] \in Frame
                         /\ pc[caller[c]] = "in_start"
                         /\ arg[caller[c]] = c
  /\ status[c] = "EXITED" => NoCallInProgress(c)
  /\ exception[c] => finished[c]
  /\ \/ status[c] = "INVALID"
     \/ runner[c]
     \/ \E f \in Frame : pc[f] = "set" /\ arg[f] = c
  /\ pc[c] # "fresh" => runner[c]

CoInv == \A c \in Coroutine : CoInvOf(c)

IInv ==
  /\ TypeOK
  /\ StackExclusive
  /\ OnStack
  /\ StackInv
  /\ CallInv
  /\ OneCall
  /\ CoInv

LEMMA CreatePreserves ==
  ASSUME IInv, NEW t \in Thread, NEW c \in Coroutine, NEW r \in BOOLEAN, Create(t, c, r)
  PROVE  IInv'
<1>1. TypeOK'
  BY NamesDistinct DEF IInv, TypeOK, Frame, Status, Executing, Suspended, Create,
     InitialStatus, InClientCode, At
<1>2. StackExclusive'
  BY NamesDistinct DEF IInv, StackExclusive, Create, InitialStatus, InClientCode, At
<1>3. OnStack'
  BY NamesDistinct DEF IInv, TypeOK, OnStack, Own, Frame, Executing, Create,
     InitialStatus, InClientCode,
     At
<1>4. StackInv'
  BY NamesDistinct DEF IInv, TypeOK, OnStack, StackInv, Own, Frame, Calling, Executing,
     Create, InitialStatus, InClientCode, At
<1>5. CallInv'
  BY NamesDistinct DEF IInv, TypeOK, OnStack, CallInv, OneCall, CoInv, CoInvOf, StatusAt,
     Frame, Executing, Calling, Inside, NoCallInProgress, Create, InitialStatus,
     InClientCode, At
<1>6. OneCall'
  BY NamesDistinct DEF IInv, TypeOK, OneCall, CallInv, CoInv, CoInvOf, Frame, Calling,
     NoCallInProgress, Create, InitialStatus, InClientCode, At
<1>7. CoInv'
  BY NamesDistinct DEF IInv, TypeOK, OnStack, CallInv, OneCall, CoInv, CoInvOf, StatusAt,
     StatusAfterYield, Frame, Executing, Own, Calling, Inside, NoCallInProgress, Create,
     InitialStatus, InClientCode, At
<1> QED BY <1>1, <1>2, <1>3, <1>4, <1>5, <1>6, <1>7 DEF IInv

LEMMA SetRunnerPreserves ==
  ASSUME IInv, NEW t \in Thread, NEW c \in Coroutine, SetRunner(t, c)
  PROVE  IInv'
<1>1. TypeOK'
  BY NamesDistinct DEF IInv, TypeOK, Frame, Status, Executing, Suspended, SetRunner,
     InClientCode, At, Goto
<1>2. StackExclusive'
  BY NamesDistinct DEF IInv, StackExclusive, SetRunner, InClientCode, At, Goto
<1>3. OnStack'
  BY NamesDistinct DEF IInv, TypeOK, OnStack, Own, Frame, Executing, SetRunner,
     InClientCode, At, Goto
<1>4. StackInv'
  BY NamesDistinct DEF IInv, TypeOK, OnStack, StackInv, Own, Frame, Calling, Executing,
     SetRunner, InClientCode, At, Goto
<1>5. CallInv'
  BY NamesDistinct DEF IInv, TypeOK, OnStack, CallInv, OneCall, CoInv, CoInvOf, StatusAt,
     StatusAfterYield, Frame, Executing, Calling, Inside, NoCallInProgress, SetRunner,
     InClientCode, At, Goto
<1>6. OneCall'
  BY NamesDistinct DEF IInv, TypeOK, OneCall, CallInv, CoInv, CoInvOf, StatusAt,
     StatusAfterYield, Frame, Inside, Executing, Calling, NoCallInProgress, SetRunner,
     InClientCode, At, Goto
<1>7. CoInv'
  BY NamesDistinct DEF IInv, TypeOK, OnStack, CallInv, OneCall, CoInv, CoInvOf, StatusAt,
     StatusAfterYield, Frame, Executing, Own, Calling, Inside, NoCallInProgress,
     SetRunner, InClientCode, At, Goto
<1> QED BY <1>1, <1>2, <1>3, <1>4, <1>5, <1>6, <1>7 DEF IInv

LEMMA StoreRunnerPreserves ==
  ASSUME IInv, NEW t \in Thread, StoreRunner(t)
  PROVE  IInv'
<1>1. TypeOK'
  BY NamesDistinct DEF IInv, TypeOK, Frame, Status, Executing, Suspended, StoreRunner, At,
     Goto
<1>2. StackExclusive'
  BY NamesDistinct DEF IInv, StackExclusive, StoreRunner, At, Goto
<1>3. OnStack'
  BY NamesDistinct DEF IInv, TypeOK, OnStack, Own, Frame, Executing, StoreRunner, At, Goto
<1>4. StackInv'
  BY NamesDistinct DEF IInv, TypeOK, OnStack, StackInv, Own, Frame, Calling, Executing,
     StoreRunner, At, Goto
<1>5. CallInv'
  BY NamesDistinct DEF IInv, TypeOK, OnStack, CallInv, OneCall, CoInv, CoInvOf, StatusAt,
     Frame, Executing, Calling, Inside, NoCallInProgress, StoreRunner, At, Goto
<1>6. OneCall'
  BY NamesDistinct DEF IInv, TypeOK, OneCall, CallInv, CoInv, CoInvOf, Frame, Calling,
     NoCallInProgress, StoreRunner, At, Goto
<1>7. CoInv'
  BY NamesDistinct DEF IInv, TypeOK, OnStack, CallInv, OneCall, CoInv, CoInvOf, StatusAt,
     StatusAfterYield, Frame, Executing, Own, Calling, Inside, NoCallInProgress,
     StoreRunner, At, Goto
<1> QED BY <1>1, <1>2, <1>3, <1>4, <1>5, <1>6, <1>7 DEF IInv

LEMMA StartPreserves ==
  ASSUME IInv, NEW t \in Thread, NEW c \in Coroutine, NoCallInProgress(c), Start(t, c)
  PROVE  IInv'
<1>1. TypeOK'
  BY NamesDistinct DEF IInv, TypeOK, Frame, Status, Executing, Suspended, Start,
     InClientCode, At, Goto
<1>2. StackExclusive'
  BY NamesDistinct DEF IInv, StackExclusive, Start, InClientCode, At, Goto
<1>3. OnStack'
  BY NamesDistinct DEF IInv, TypeOK, OnStack, Own, Frame, Executing, Start, InClientCode,
     At, Goto
<1>4. StackInv'
  BY NamesDistinct DEF IInv, TypeOK, OnStack, StackInv, Own, Frame, Calling, Executing,
     Start, InClientCode, At, Goto
<1>5. CallInv'
  BY NamesDistinct, SMTT(40) DEF IInv, TypeOK, OnStack, CallInv, OneCall, CoInv, CoInvOf,
     StatusAt,
     Frame, Executing, Calling, Inside, NoCallInProgress, Start, InClientCode, At, Goto
<1>6. OneCall'
  BY NamesDistinct DEF IInv, TypeOK, OneCall, CallInv, CoInv, CoInvOf, Frame, Calling,
     NoCallInProgress, Start, InClientCode, At, Goto
<1>7. CoInv'
  BY NamesDistinct DEF IInv, TypeOK, OnStack, CallInv, OneCall, CoInv, CoInvOf, StatusAt,
     StatusAfterYield, Frame, Executing, Own, Calling, Inside, NoCallInProgress, Start,
     InClientCode, At, Goto
<1> QED BY <1>1, <1>2, <1>3, <1>4, <1>5, <1>6, <1>7 DEF IInv

LEMMA JumpInPreserves ==
  ASSUME IInv, NEW t \in Thread, JumpIn(t)
  PROVE  IInv'
<1> DEFINE f == on[t]
           c == arg[f]
<1>1. /\ f \in Frame /\ pc[f] = "jump_in"
      /\ c \in Coroutine /\ callee[c] = c /\ c # f
      /\ pc[c] \in {"fresh", "in_yield"} /\ status[c] = "RUNNING" /\ runner[c]
      /\ from_co[f] = Own(f) /\ Current(c) = c
  BY NamesDistinct DEF IInv, TypeOK, StackInv, CallInv, Frame, JumpIn, At, Own, Current,
     Calling
<1>2. /\ on' = [on EXCEPT ![t] = c]
      /\ caller' = [caller EXCEPT ![c] = f]
      /\ this_co' = [this_co EXCEPT ![t] = c]
      /\ pc' = [pc EXCEPT ![f] = "in_start", ![c] = "user"]
  BY <1>1 DEF JumpIn, Landing, SaveCaller
<1>3. callee' \in [Coroutine -> Frame \cup {Null}] /\ \A d \in Coroutine : callee'[d] = IF d = f THEN f ELSE callee[d]
  BY <1>1, NamesDistinct DEF JumpIn, SaveCallee, IInv, TypeOK, Own, Frame
<1>4. UNCHANGED <<status, finished, runner, exception, arg, from_co>>
  BY DEF JumpIn
<1>5. TypeOK'
  BY <1>1, <1>2, <1>3, <1>4, NamesDistinct DEF IInv, TypeOK, Frame, Executing, Suspended
<1>6. StackExclusive' /\ OnStack'
  BY <1>1, <1>2, NamesDistinct DEF IInv, TypeOK, StackExclusive, OnStack, Own, Frame,
     Executing
<1>7. StackInv'
  BY <1>1, <1>2, <1>4, NamesDistinct DEF IInv, TypeOK, StackInv, Own, Frame, Calling
<1>8. CallInv'
  BY <1>1, <1>2, <1>3, <1>4 DEF IInv, TypeOK, CallInv, OneCall, Frame, Calling, Inside,
     Executing
<1>9. OneCall'
  BY <1>1, <1>2, <1>4 DEF IInv, TypeOK, OneCall, Frame, Calling
<1>10. CoInv'
  <2> SUFFICES ASSUME NEW d \in Coroutine PROVE CoInvOf(d)'
    BY DEF CoInv
  <2>1. CASE d = c
    BY <2>1, <1>1, <1>2, <1>3, <1>4, NamesDistinct DEF IInv, TypeOK, CoInv, CoInvOf,
       StatusAt, StatusAfterYield, Frame, Calling, Inside, Executing, NoCallInProgress
  <2>2. CASE d # c
    BY <2>2, <1>1, <1>2, <1>3, <1>4, NamesDistinct, SMTT(40) DEF IInv, TypeOK, CoInv,
       CoInvOf,
       StatusAt, StatusAfterYield, Frame, Calling, Inside, Executing, NoCallInProgress
  <2> QED BY <2>1, <2>2
<1> QED BY <1>5, <1>6, <1>7, <1>8, <1>9, <1>10 DEF IInv

LEMMA ReturnPreserves ==
  ASSUME IInv, NEW t \in Thread, Return(t)
  PROVE  IInv'
<1>1. TypeOK'
  BY NamesDistinct DEF IInv, TypeOK, Frame, Status, Executing, Suspended, Return, At,
     Goto, StatusAfterReturn
<1>2. StackExclusive'
  BY NamesDistinct DEF IInv, StackExclusive, Return, At, Goto, StatusAfterReturn
<1>3. OnStack'
  BY NamesDistinct DEF IInv, TypeOK, OnStack, Own, Frame, Executing, Return, At, Goto,
     StatusAfterReturn
<1>4. StackInv'
  BY NamesDistinct DEF IInv, TypeOK, OnStack, StackInv, Own, Frame, Calling, Executing,
     Return, At, Goto, StatusAfterReturn
<1>5. CallInv'
  BY NamesDistinct DEF IInv, TypeOK, OnStack, CallInv, OneCall, CoInv, CoInvOf, StatusAt,
     Frame, Executing, Calling, Inside, NoCallInProgress, Return, At, Goto,
     StatusAfterReturn
<1>6. OneCall'
  BY NamesDistinct DEF IInv, TypeOK, OneCall, CallInv, CoInv, CoInvOf, Frame, Calling,
     NoCallInProgress, Return, At, Goto, StatusAfterReturn
<1>7. CoInv'
  <2> DEFINE c == arg[on[t]]
  <2>1. /\ on[t] \in Frame /\ pc[on[t]] = "returned" /\ c \in Coroutine
        /\ pc' = [pc EXCEPT ![on[t]] = "user"] /\ arg' = [arg EXCEPT ![on[t]] = Null]
        /\ status' = [status EXCEPT ![c] = StatusAfterReturn(c)]
        /\ exception' = [exception EXCEPT ![c] = FALSE]
        /\ UNCHANGED <<finished, runner, caller, callee>>
    BY NamesDistinct DEF IInv, TypeOK, CallInv, Frame, Executing, Calling, Return, At, Goto
  <2>2. ASSUME NEW d \in Coroutine PROVE CoInvOf(d)'
    BY <2>1, <2>2, NamesDistinct, SMTT(40) DEF IInv, TypeOK, OnStack, CallInv, OneCall,
       CoInv, CoInvOf, StatusAt, StatusAfterYield, Frame, Executing, Own, Calling, Inside,
       NoCallInProgress, StatusAfterReturn
  <2> QED BY <2>2 DEF CoInv
<1> QED BY <1>1, <1>2, <1>3, <1>4, <1>5, <1>6, <1>7 DEF IInv

LEMMA YieldCasPreserves ==
  ASSUME IInv, NEW t \in Thread, NEW c \in Coroutine, c = on[t], At(t, "user") \/ At(t, "finish"), YieldCas(t, c)
  PROVE  IInv'
<1>1. TypeOK'
  BY NamesDistinct DEF IInv, TypeOK, Frame, Status, Executing, Suspended,
     StatusAfterYield, YieldCas, At, Goto
<1>2. StackExclusive'
  BY NamesDistinct DEF IInv, StackExclusive, YieldCas, At, Goto
<1>3. OnStack'
  BY NamesDistinct DEF IInv, TypeOK, OnStack, Own, Frame, Executing, YieldCas, At, Goto
<1>4. StackInv'
  BY NamesDistinct DEF IInv, TypeOK, OnStack, StackInv, Own, Frame, Calling, Executing,
     YieldCas, At, Goto
<1>5. CallInv'
  BY NamesDistinct DEF IInv, TypeOK, OnStack, CallInv, OneCall, CoInv, CoInvOf, StatusAt,
     Frame, Executing, Calling, Inside, NoCallInProgress, YieldCas, At, Goto
<1>6. OneCall'
  BY NamesDistinct DEF IInv, TypeOK, OneCall, CallInv, CoInv, CoInvOf, Frame, Calling,
     NoCallInProgress, YieldCas, At, Goto
<1>7. CoInv'
  BY NamesDistinct DEF IInv, TypeOK, OnStack, CallInv, OneCall, CoInv, CoInvOf, StatusAt,
     StatusAfterYield, Frame, Executing, Own, Calling, Inside, NoCallInProgress, YieldCas,
     At, Goto
<1> QED BY <1>1, <1>2, <1>3, <1>4, <1>5, <1>6, <1>7 DEF IInv

LEMMA JumpOutPreserves ==
  ASSUME IInv, NEW t \in Thread, JumpOut(t)
  PROVE  IInv'
<1> DEFINE c == on[t]
           g == caller[c]
<1>1. /\ c \in Coroutine /\ pc[c] = "jump_out" /\ arg[c] = c
      /\ from_co[c] = c /\ status[c] = StatusAfterYield(c)
      /\ g \in Frame /\ pc[g] = "in_start" /\ arg[g] = c /\ g # c
      /\ Current(g) = Own(g)
  BY NamesDistinct DEF IInv, TypeOK, StackInv, CoInv, CoInvOf, StatusAt, Frame, JumpOut,
     At, Own, Current, Calling, Inside, Executing
<1>2. /\ on' = [on EXCEPT ![t] = g]
      /\ callee' = [callee EXCEPT ![c] = c]
      /\ this_co' = [this_co EXCEPT ![t] = Own(g)]
      /\ pc' = [pc EXCEPT ![c] = IF finished[c] THEN "dead" ELSE "in_yield",
                          ![g] = "returned"]
  BY <1>1, NamesDistinct DEF JumpOut, Landing, SaveCallee
<1>3. UNCHANGED <<status, finished, runner, exception, caller, arg, from_co>>
  BY DEF JumpOut
<1>4. TypeOK'
  BY <1>1, <1>2, <1>3, NamesDistinct DEF IInv, TypeOK, Frame, Executing, Suspended, Own
<1>5. StackExclusive' /\ OnStack'
  BY <1>1, <1>2, NamesDistinct, SMTT(40) DEF IInv, TypeOK, StackExclusive, OnStack, Own,
     Frame,
     Executing
<1>6. StackInv'
  BY <1>1, <1>2, <1>3, NamesDistinct DEF IInv, TypeOK, StackInv, Own, Frame, Calling
<1>7. CallInv'
  BY <1>1, <1>2, <1>3 DEF IInv, TypeOK, CallInv, OneCall, StatusAfterYield, Frame,
     Calling, Inside, Executing
<1>8. OneCall'
  BY <1>1, <1>2, <1>3 DEF IInv, TypeOK, OneCall, Frame, Calling
<1>9. CoInv'
  <2> SUFFICES ASSUME NEW d \in Coroutine PROVE CoInvOf(d)'
    BY DEF CoInv
  <2>1. CASE d = c
    BY <2>1, <1>1, <1>2, <1>3, NamesDistinct DEF IInv, TypeOK, CoInv, CoInvOf, StatusAt,
       StatusAfterYield, Frame, Calling, Inside, Executing, NoCallInProgress
  <2>2. CASE d # c
    BY <2>2, <1>1, <1>2, <1>3, NamesDistinct DEF IInv, TypeOK, CoInv, CoInvOf, StatusAt,
       StatusAfterYield, Frame, Calling, Inside, Executing, NoCallInProgress
  <2> QED BY <2>1, <2>2
<1> QED BY <1>4, <1>5, <1>6, <1>7, <1>8, <1>9 DEF IInv

LEMMA FinishRunnerPreserves ==
  ASSUME IInv, NEW t \in Thread, NEW e \in BOOLEAN, FinishRunner(t, e)
  PROVE  IInv'
<1>1. TypeOK'
  BY NamesDistinct DEF IInv, TypeOK, Frame, Status, Executing, Suspended, FinishRunner,
     At, Goto
<1>2. StackExclusive'
  BY NamesDistinct DEF IInv, StackExclusive, FinishRunner, At, Goto
<1>3. OnStack'
  BY NamesDistinct DEF IInv, TypeOK, OnStack, Own, Frame, Executing, FinishRunner, At, Goto
<1>4. StackInv'
  BY NamesDistinct DEF IInv, TypeOK, OnStack, StackInv, Own, Frame, Calling, Executing,
     FinishRunner, At, Goto
<1>5. CallInv'
  BY NamesDistinct DEF IInv, TypeOK, OnStack, CallInv, OneCall, CoInv, CoInvOf, StatusAt,
     Frame, Executing, Calling, Inside, NoCallInProgress, FinishRunner, At, Goto
<1>6. OneCall'
  BY NamesDistinct DEF IInv, TypeOK, OneCall, CallInv, CoInv, CoInvOf, Frame, Calling,
     NoCallInProgress, FinishRunner, At, Goto
<1>7. CoInv'
  BY NamesDistinct, SMTT(40) DEF IInv, TypeOK, OnStack, CallInv, OneCall, CoInv, CoInvOf,
     StatusAt,
     StatusAfterYield, Frame, Executing, Own, Calling, Inside, NoCallInProgress,
     FinishRunner, At, Goto
<1> QED BY <1>1, <1>2, <1>3, <1>4, <1>5, <1>6, <1>7 DEF IInv

LEMMA InitEstablishes == Init => IInv
<1> SUFFICES ASSUME Init PROVE IInv
  OBVIOUS
<1>1. TypeOK
  BY NamesDistinct DEF Init, TypeOK, Frame, Status, Executing, Suspended
<1>2. StackExclusive /\ OnStack
  BY NamesDistinct DEF Init, StackExclusive, OnStack, Own, Frame, Executing
<1>3. StackInv /\ CallInv /\ OneCall
  BY NamesDistinct DEF Init, StackInv, CallInv, OneCall, Frame, Calling
<1>4. CoInv
  BY NamesDistinct DEF Init, CoInv, CoInvOf, StatusAt, Frame, Inside, Executing
<1> QED BY <1>1, <1>2, <1>3, <1>4 DEF IInv

\* One case per action of the program.
LEMMA NextPreserves == IInv /\ [Next]_vars => IInv'
<1> SUFFICES ASSUME IInv, [Next]_vars PROVE IInv'
  OBVIOUS
<1>1. CASE UNCHANGED vars
  BY <1>1 DEF vars, IInv, TypeOK, StackExclusive, OnStack, StackInv, CallInv, OneCall,
     CoInv, CoInvOf, StatusAt, StatusAfterYield, NoCallInProgress
<1>2. ASSUME NEW t \in Thread, Step(t) PROVE IInv'
  <2>1. CASE \E c \in Coroutine, r \in BOOLEAN : Create(t, c, r)
    BY <2>1, CreatePreserves
  <2>2. CASE \E c \in Coroutine : SetRunner(t, c)
    BY <2>2, SetRunnerPreserves
  <2>3. CASE StoreRunner(t)
    BY <2>3, StoreRunnerPreserves
  <2>4. CASE JumpIn(t)
    BY <2>4, JumpInPreserves
  <2>5. CASE Return(t)
    BY <2>5, ReturnPreserves
  <2>6. CASE YieldThis(t)
    <3>1. this_co[t] \in Coroutine /\ this_co[t] = on[t]
      BY <2>6, NamesDistinct DEF YieldThis, IInv, OnStack, Own
    <3>2. At(t, "user") /\ YieldCas(t, this_co[t])
      BY <2>6 DEF YieldThis, Yield, InClientCode
    <3> QED BY <3>1, <3>2, YieldCasPreserves
  <2>7. CASE JumpOut(t)
    BY <2>7, JumpOutPreserves
  <2>8. CASE \E e \in BOOLEAN : FinishRunner(t, e)
    BY <2>8, FinishRunnerPreserves
  <2>9. CASE FinalYield(t)
    <3>1. on[t] \in Coroutine
      BY <2>9, NamesDistinct DEF FinalYield, At, IInv, TypeOK, StackInv, Frame, Calling
    <3> QED BY <2>9, <3>1, YieldCasPreserves DEF FinalYield
  <2> QED BY <1>2, <2>1, <2>2, <2>3, <2>4, <2>5, <2>6, <2>7, <2>8, <2>9 DEF Step
<1>3. ASSUME NEW t \in Thread, NEW c \in Coroutine, NoCallInProgress(c), Start(t, c) PROVE IInv'
  BY <1>3, StartPreserves
<1>4. CASE AllExited
  BY <1>1, <1>4 DEF AllExited
<1> QED BY <1>1, <1>2, <1>3, <1>4 DEF Next

\* The inductive invariant: where every coroutine and every thread stand
\* (coroutine_context.cpp), for any number of both.
THEOREM Invariance == Spec => []IInv
  BY InitEstablishes, NextPreserves, PTL DEF Spec

-----------------------------------------------------------------------------
(* The results. *)

\* Every variable of the coroutine runtime keeps its type, for any number of
\* threads and coroutines.
THEOREM Typing == Spec => []TypeOK
<1>1. IInv => TypeOK
  BY DEF IInv
<1> QED BY <1>1, Invariance, PTL

\* Two threads never execute on one stack as long as the clients do not overlap
\* calls of start() on one coroutine.
THEOREM StacksAreExclusive == Spec => []StackExclusive
<1>1. IInv => StackExclusive
  BY DEF IInv
<1> QED BY <1>1, Invariance, PTL

\* this_coroutine::get_coroutine() is right wherever client code can call it.
THEOREM ThisCoroutineIsExact == Spec => []ThisCoroutineExact
<1>1. IInv => ThisCoroutineExact
  BY DEF IInv, OnStack, ThisCoroutineExact, Own
<1> QED BY <1>1, Invariance, PTL

\* Whatever start() accepts under the contract has a complete continuation.
THEOREM ReadyCoroutinesResume == Spec => []ReadyIsResumable
<1>1. IInv => ReadyIsResumable
  <2> SUFFICES ASSUME IInv, NEW c \in Coroutine, status[c] = "READY", NoCallInProgress(c)
               PROVE  /\ pc[c] \in {"fresh", "in_yield"} /\ callee[c] = c
                      /\ runner[c]
                      /\ \A t \in Thread : on[t] # c
                      /\ \A d \in Coroutine \ {c} : callee[d] # c
    BY DEF ReadyIsResumable
  <2>1. pc[c] \in {"fresh", "in_yield"}
    BY DEF IInv, TypeOK, CoInv, CoInvOf, StatusAt, Frame, Executing, Suspended, Inside,
       NoCallInProgress
  <2>2. callee[c] = c /\ \A d \in Coroutine \ {c} : callee[d] # c
    BY NamesDistinct DEF IInv, CoInv, CoInvOf
  <2>3. runner[c]
    BY DEF IInv, CoInv, CoInvOf, NoCallInProgress
  <2>4. \A t \in Thread : on[t] # c
    BY <2>1 DEF IInv, OnStack, Executing
  <2> QED BY <2>1, <2>2, <2>3, <2>4
<1> QED BY <1>1, Invariance, PTL

\* Every suspended starter is the caller_ of the coroutine it started.
THEOREM StartersAreCallers == Spec => []StarterIsCaller
<1>1. IInv => StarterIsCaller
  BY DEF IInv, CallInv, StarterIsCaller, Calling
<1> QED BY <1>1, Invariance, PTL

\* coroutine_context_callback never returns: its yield() always succeeds.
THEOREM FinalYieldsSucceed == Spec => []FinalYieldSucceeds
<1>1. IInv => FinalYieldSucceeds
  <2> SUFFICES ASSUME IInv, NEW t \in Thread, pc[on[t]] = "finish" PROVE status[on[t]] = "RUNNING"
    BY DEF FinalYieldSucceeds, At
  <2>1. on[t] \in Coroutine
    BY NamesDistinct DEF IInv, TypeOK, StackInv, Frame, Calling
  <2>2. status[on[t]] \in StatusAt(on[t])
    BY <2>1 DEF IInv, CoInv, CoInvOf
  <2> QED BY <2>2 DEF StatusAt
<1> QED BY <1>1, Invariance, PTL

\* An EXITED coroutine is off its stack, so releasing the stack is safe.
THEOREM ExitedCoroutinesAreReleasable == Spec => []ExitedIsReleasable
<1>1. IInv => ExitedIsReleasable
  <2> SUFFICES ASSUME IInv, NEW c \in Coroutine, status[c] = "EXITED"
               PROVE  /\ pc[c] = "dead"
                      /\ NoCallInProgress(c)
                      /\ \A t \in Thread : on[t] # c
    BY DEF ExitedIsReleasable
  <2>1. pc[c] = "dead" /\ NoCallInProgress(c)
    BY DEF IInv, TypeOK, CoInv, CoInvOf, StatusAt, StatusAfterYield
  <2> QED BY <2>1 DEF IInv, OnStack, Executing
<1> QED BY <1>1, Invariance, PTL

\* No coroutine runs before its runner is stored.
THEOREM RunnersAreStored == Spec => []RunnerIsStored
<1>1. IInv => RunnerIsStored
  BY DEF IInv, OnStack, CoInv, CoInvOf, RunnerIsStored, Executing
<1> QED BY <1>1, Invariance, PTL

\* An escaped exception is handed to the start() call that the finished
\* coroutine returns to, and to no other.
THEOREM ExceptionsReachStarters == Spec => ExceptionReachesStarter
<1>1. ASSUME IInv, [Next]_vars, NEW c \in Coroutine, exception[c], ~exception'[c]
      PROVE  /\ status'[c] = "EXITED"
             /\ \E t \in Thread : At(t, "returned") /\ on[t] = caller[c]
  <2>1. PICK t \in Thread : Step(t) \/ \E d \in Coroutine : Start(t, d)
    BY <1>1 DEF Next, AllExited, vars
  <2>2. finished[c] /\ exception \in [Coroutine -> BOOLEAN] /\ on[t] \in Frame
    BY <1>1 DEF IInv, CoInv, CoInvOf, TypeOK
  <2>3. ~ \E e \in BOOLEAN : FinishRunner(t, e)
    <3> SUFFICES ASSUME NEW e \in BOOLEAN, FinishRunner(t, e) PROVE FALSE
      OBVIOUS
    <3>1. c = on[t] /\ pc[c] = "user"
      BY <1>1, <2>2 DEF FinishRunner, At
    <3> QED BY <1>1, <2>2, <3>1 DEF IInv, CoInv, CoInvOf
  <2>4. Return(t)
    BY <1>1, <2>1, <2>2, <2>3 DEF Step, Create, SetRunner, StoreRunner, Start, JumpIn,
       YieldThis, Yield, YieldCas, JumpOut, FinalYield
  <2>5. At(t, "returned") /\ arg[on[t]] = c
    BY <1>1, <2>2, <2>4 DEF Return
  <2>6. caller[c] = on[t] /\ status[c] \in {"READY", "FINISHED"}
    BY <2>2, <2>5, <1>1 DEF IInv, CallInv, Calling, At
  <2> QED BY <1>1, <2>2, <2>4, <2>5, <2>6 DEF Return, StatusAfterReturn, IInv, TypeOK
<1>2. IInv /\ [Next]_vars =>
        [\A c \in Coroutine :
           exception[c] /\ ~exception'[c] =>
             /\ status'[c] = "EXITED"
             /\ \E t \in Thread : At(t, "returned") /\ on[t] = caller[c]]_vars
  BY <1>1
<1> QED BY <1>2, Invariance, PTL DEF Spec, ExceptionReachesStarter

-----------------------------------------------------------------------------
(* Threads keep their stacks: a coroutine may move between threads, the native    *)
(* stack of a thread may not.                                                      *)

\* Each stack that is suspended in start() and the one it started are of one thread.
HomeOf(home) ==
  /\ \A t \in Thread : home[t] = t /\ home[on[t]] = t
  /\ \A f \in Frame : pc[f] = "in_start" => home[arg[f]] = home[f]

HomeInv == \E home \in [Frame -> Frame] : HomeOf(home)

\* A jump into a coroutine, as far as the stacks are concerned.
LEMMA JumpedIn ==
  ASSUME IInv, NEW t \in Thread, JumpIn(t)
  PROVE  /\ on[t] \in Frame /\ pc[on[t]] = "jump_in"
         /\ arg[on[t]] \in Coroutine /\ arg[on[t]] # on[t]
         /\ pc[arg[on[t]]] \in {"fresh", "in_yield"}
         /\ on' = [on EXCEPT ![t] = arg[on[t]]]
         /\ caller' = [caller EXCEPT ![arg[on[t]]] = on[t]]
         /\ pc' = [pc EXCEPT ![on[t]] = "in_start", ![arg[on[t]]] = "user"]
         /\ arg' = arg
<1>1. /\ on[t] \in Frame /\ pc[on[t]] = "jump_in"
      /\ arg[on[t]] \in Coroutine /\ callee[arg[on[t]]] = arg[on[t]] /\ arg[on[t]] # on[t]
      /\ pc[arg[on[t]]] \in {"fresh", "in_yield"}
  BY DEF IInv, TypeOK, CallInv, JumpIn, At, Calling
<1> QED
  BY <1>1 DEF JumpIn, Landing, SaveCaller

LEMMA JumpedOut ==
  ASSUME IInv, NEW t \in Thread, At(t, "jump_out")
  PROVE  /\ on[t] \in Coroutine /\ arg[on[t]] = on[t] /\ from_co[on[t]] = on[t]
         /\ callee[on[t]] = on[t]
         /\ caller[on[t]] \in Frame /\ caller[on[t]] # on[t]
         /\ pc[caller[on[t]]] = "in_start" /\ arg[caller[on[t]]] = on[t]
<1>1. on[t] \in Coroutine /\ arg[on[t]] = on[t] /\ from_co[on[t]] = on[t]
  BY NamesDistinct DEF IInv, TypeOK, StackInv, Frame, At, Own, Calling
<1> QED
  BY <1>1 DEF IInv, CoInv, CoInvOf, At, Inside, Executing

LEMMA HomeStays ==
  ASSUME IInv, HomeInv, NEW t \in Thread, UNCHANGED on,
         \E l \in Executing, c \in Coroutine \cup {Null} : Goto(t, l, c)
  PROVE  HomeInv'
<1>1. PICK home \in [Frame -> Frame] : HomeOf(home)
  BY DEF HomeInv
<1>2. PICK l \in Executing, c \in Coroutine \cup {Null} : Goto(t, l, c)
  OBVIOUS
<1>3. \A f \in Frame : pc'[f] = "in_start" => pc[f] = "in_start" /\ arg'[f] = arg[f]
  BY <1>2 DEF Goto, IInv, TypeOK, Executing
<1> QED
  BY <1>1, <1>3 DEF HomeInv, HomeOf

LEMMA HomeJumpIn ==
  ASSUME IInv, HomeInv, NEW t \in Thread, JumpIn(t)
  PROVE  HomeInv'
<1>1. PICK home \in [Frame -> Frame] : HomeOf(home)
  BY DEF HomeInv
<1>2. PICK f \in Frame, c \in Coroutine : f = on[t] /\ c = arg[f]
  BY JumpedIn
<1>3. /\ pc[f] = "jump_in" /\ c # f /\ pc[c] \in {"fresh", "in_yield"}
      /\ on' = [on EXCEPT ![t] = c] /\ arg' = arg
      /\ pc' = [pc EXCEPT ![f] = "in_start", ![c] = "user"]
  BY <1>2, JumpedIn
<1>4. c \in Frame /\ c \notin Thread /\ t \in Frame
  BY NamesDistinct DEF Frame
<1>5. PICK new \in [Frame -> Frame] : new = [home EXCEPT ![c] = t]
  BY <1>1, <1>4
<1>6. new[c] = t /\ \A g \in Frame \ {c} : new[g] = home[g]
  BY <1>1, <1>4, <1>5
<1>7. ASSUME NEW u \in Thread PROVE new[u] = u /\ new[on'[u]] = u
  <2>1. new[u] = u
    BY <1>1, <1>4, <1>6 DEF HomeOf, Frame
  <2>2. u = t => new[on'[u]] = u
    BY <1>3, <1>6 DEF IInv, TypeOK
  <2>3. u # t => on'[u] = on[u] /\ on[u] # c /\ on[u] \in Frame
    BY <1>3 DEF IInv, TypeOK, OnStack, Executing
  <2> QED
    BY <1>1, <1>6, <2>1, <2>2, <2>3 DEF HomeOf
<1>8. ASSUME NEW g \in Frame, pc'[g] = "in_start" PROVE new[arg'[g]] = new[g]
  <2>1. g # c
    BY <1>3, <1>4, <1>8 DEF IInv, TypeOK
  <2>2. CASE g = f
    BY <1>1, <1>2, <1>3, <1>6, <2>2 DEF HomeOf
  <2>3. CASE g # f
    <3>1. pc[g] = "in_start"
      BY <1>3, <1>8, <2>1, <2>3 DEF IInv, TypeOK
    <3>2. arg[g] # c /\ arg[g] \in Frame
      BY <1>2, <1>3, <2>3, <3>1 DEF IInv, OneCall, CallInv, Calling, Frame
    <3> QED
      BY <1>1, <1>3, <1>6, <2>1, <3>1, <3>2 DEF HomeOf
  <2> QED
    BY <2>2, <2>3
<1> QED
  BY <1>7, <1>8 DEF HomeInv, HomeOf

LEMMA HomeJumpOut ==
  ASSUME IInv, HomeInv, NEW t \in Thread, JumpOut(t)
  PROVE  HomeInv'
<1> DEFINE c == on[t]
           g == caller[c]
<1>1. PICK home \in [Frame -> Frame] : HomeOf(home)
  BY DEF HomeInv
<1>2. /\ c \in Coroutine /\ arg[c] = c /\ g \in Frame /\ g # c /\ pc[g] = "in_start" /\ arg[g] = c
  BY JumpedOut DEF JumpOut
<1>3. /\ on' = [on EXCEPT ![t] = g] /\ arg' = arg
      /\ \A f \in Frame : pc'[f] = "in_start" => pc[f] = "in_start"
  BY <1>2 DEF JumpOut, Landing, IInv, TypeOK
<1>4. home[g] = t
  BY <1>1, <1>2 DEF HomeOf
<1>5. \A u \in Thread : home[on'[u]] = u
  BY <1>1, <1>3, <1>4 DEF HomeOf, IInv, TypeOK
<1> QED
  BY <1>1, <1>3, <1>5 DEF HomeInv, HomeOf

\* The steps that neither jump nor call start().
QuietStep(t) ==
  \/ \E c \in Coroutine, r \in BOOLEAN : Create(t, c, r)
  \/ \E c \in Coroutine : SetRunner(t, c)
  \/ StoreRunner(t)
  \/ Return(t)
  \/ YieldThis(t)
  \/ \E e \in BOOLEAN : FinishRunner(t, e)
  \/ FinalYield(t)

LEMMA HomeQuiet ==
  ASSUME IInv, HomeInv, NEW t \in Thread, QuietStep(t)
  PROVE  HomeInv'
<1>1. CASE \E c \in Coroutine, r \in BOOLEAN : Create(t, c, r)
  <2>1. UNCHANGED <<on, pc, arg>>
    BY <1>1 DEF Create
  <2> QED
    BY <2>1 DEF HomeInv, HomeOf
<1>2. CASE \/ \E c \in Coroutine : SetRunner(t, c)
           \/ StoreRunner(t)
           \/ Return(t)
           \/ \E e \in BOOLEAN : FinishRunner(t, e)
  <2>1. UNCHANGED on /\ \E l \in Executing, c \in Coroutine \cup {Null} : Goto(t, l, c)
    BY <1>2 DEF SetRunner, StoreRunner, Return, FinishRunner, Executing
  <2> QED
    BY <2>1, HomeStays
<1>3. CASE YieldThis(t) \/ FinalYield(t)
  <2>1. /\ UNCHANGED on
        /\ Goto(t, "jump_out", this_co[t]) \/ Goto(t, "jump_out", on[t])
    BY <1>3 DEF YieldThis, Yield, FinalYield, YieldCas
  <2>2. /\ this_co[t] \in Coroutine \cup {Null}
        /\ FinalYield(t) => on[t] \in Coroutine
    BY NamesDistinct DEF IInv, TypeOK, FinalYield, At, StackInv, Frame, Calling
  <2>3. \E c \in Coroutine \cup {Null} : Goto(t, "jump_out", c)
    BY <1>3, <2>2 DEF YieldThis, Yield, FinalYield, YieldCas
  <2> QED
    BY <2>1, <2>3, HomeStays DEF Executing
<1> QED
  BY <1>1, <1>2, <1>3 DEF QuietStep

LEMMA OwnStack ==
  ASSUME IInv, HomeInv, NEW t \in Thread, on[t] \in Thread
  PROVE  on[t] = t
<1>1. PICK home \in [Frame -> Frame] : HomeOf(home)
  BY DEF HomeInv
<1> QED
  BY <1>1 DEF HomeOf

LEMMA HomeNext ==
  ASSUME IInv, HomeInv, [Next]_vars
  PROVE  HomeInv'
<1>1. ASSUME NEW t \in Thread, Step(t) PROVE HomeInv'
  BY <1>1, HomeQuiet, HomeJumpIn, HomeJumpOut DEF Step, QuietStep
<1>2. ASSUME NEW t \in Thread, NEW c \in Coroutine, Start(t, c) PROVE HomeInv'
  BY <1>2, HomeStays DEF Start, Executing
<1>3. CASE UNCHANGED vars
  BY <1>3 DEF vars, HomeInv, HomeOf
<1> QED
  BY <1>1, <1>2, <1>3 DEF Next, AllExited

LEMMA HomeInit == Init => HomeInv
<1> SUFFICES ASSUME Init PROVE HomeInv
  OBVIOUS
<1>1. PICK home \in [Frame -> Frame] : \A f \in Frame : home[f] = f
  <2>1. [f \in Frame |-> f] \in [Frame -> Frame]
    OBVIOUS
  <2> QED
    BY <2>1
<1> QED
  BY <1>1 DEF Init, HomeInv, HomeOf, Frame

\* Whatever coroutines are handed from thread to thread, no thread ever returns to the
\* native stack of another one: the jump out of a coroutine goes back to the thread
\* that jumped into it.
THEOREM ThreadsKeepTheirStacks ==
  Spec => [](\A t \in Thread : on[t] \in Thread => on[t] = t)
<1>1. IInv /\ HomeInv => \A t \in Thread : on[t] \in Thread => on[t] = t
  BY OwnStack
<1> QED
  BY <1>1, HomeInit, HomeNext, Invariance, PTL DEF Spec

-----------------------------------------------------------------------------
(* Fibers.  Under the contract of fibers, each step of FiberContext is a step of  *)
(* CoroutineContext, so that all of the above holds in a build with fibers.        *)

\* The jump data of a thread that is inside a coroutine name a coroutine and the stack
\* that resumed it, and no other thread is about to take that one over.
JumpDataInv ==
  /\ jump_data \in [Thread -> [from_fiber : Frame \cup {Null}, to_co : Coroutine \cup {Null}]]
  /\ \A t \in Thread : on[t] \in Coroutine =>
       /\ jump_data[t].to_co \in Coroutine
       /\ caller[jump_data[t].to_co] = jump_data[t].from_fiber
       /\ \A u \in Thread \ {t} : At(u, "jump_in") => arg[on[u]] # jump_data[t].to_co

FiberInv == IInv /\ HomeInv /\ JumpDataInv

\* SwitchToFiber() leaves callee_ alone, and so does the store of fcontext: it finds
\* there what it stores.
LEMMA CalleeKept ==
  ASSUME IInv, NEW f \in Frame, pc[f] \in {"jump_in", "jump_out"}
  PROVE  SaveCallee(from_co[f], f) = callee
<1>1. from_co[f] = Own(f)
  BY DEF IInv, StackInv
<1>2. f \in Coroutine => callee[f] = f
  BY NamesDistinct DEF IInv, CoInv, CoInvOf
<1> QED
  BY <1>1, <1>2, NamesDistinct DEF IInv, TypeOK, SaveCallee, Own

\* start() on fibers is start() on fcontext; the thread local data describe it.
LEMMA SwitchInIsJumpIn ==
  ASSUME FiberInv, NEW t \in Thread, SwitchIn(t)
  PROVE  /\ JumpIn(t)
         /\ jump_data' = [jump_data EXCEPT ![t] = [from_fiber |-> on[t], to_co |-> arg[on[t]]]]
<1>1. PICK f \in Frame, c \in Coroutine : f = on[t] /\ c = arg[f]
  BY DEF FiberInv, IInv, TypeOK, CallInv, SwitchIn, At, Calling
<1>2. pc[f] = "jump_in" /\ t \in Frame
  BY <1>1 DEF SwitchIn, At, Frame
<1>3. this_co[t] = Own(f)
  BY <1>1 DEF FiberInv, IInv, OnStack
<1>4. ThisFiber(t) = f
  <2>1. CASE f \in Thread
    BY <1>1, <1>3, <2>1, OwnStack, NamesDistinct DEF FiberInv, ThisFiber, Own
  <2>2. CASE f \in Coroutine
    BY <1>2, <1>3, <2>2, NamesDistinct DEF FiberInv, IInv, CoInv, CoInvOf, ThisFiber, Own
  <2> QED
    BY <2>1, <2>2 DEF Frame
<1>5. jump_data' = [jump_data EXCEPT ![t] = [from_fiber |-> f, to_co |-> c]]
  BY <1>1, <1>4 DEF SwitchIn, BuildJumpSrc
<1>6. jump_data'[t] = [from_fiber |-> f, to_co |-> c]
  BY <1>5 DEF FiberInv, JumpDataInv
<1>7. caller' = SaveCaller(c, f)
  BY <1>1, <1>6, NamesDistinct DEF SwitchIn, SwitchTo, UpdatedCaller, SaveCaller
<1>8. callee' = SaveCallee(from_co[f], f)
  BY <1>2, CalleeKept DEF FiberInv, SwitchIn, SwitchTo
<1> QED
  BY <1>1, <1>5, <1>7, <1>8 DEF SwitchIn, SwitchTo, JumpIn

\* yield() on fibers is yield() on fcontext: what it stores into caller_ again is there.
LEMMA SwitchOutIsJumpOut ==
  ASSUME FiberInv, NEW t \in Thread, SwitchOut(t)
  PROVE  JumpOut(t) /\ jump_data' = jump_data
<1>1. on[t] \in Coroutine /\ pc[on[t]] = "jump_out"
  BY JumpedOut DEF FiberInv, SwitchOut, At
<1>2. UpdatedCaller(jump_data[t]) = caller
  BY <1>1, NamesDistinct DEF FiberInv, IInv, TypeOK, JumpDataInv, UpdatedCaller
<1>3. callee' = SaveCallee(from_co[on[t]], on[t])
  BY <1>1, CalleeKept DEF FiberInv, SwitchOut, SwitchTo, Frame
<1> QED
  BY <1>2, <1>3 DEF SwitchOut, SwitchTo, JumpOut

\* Only start() takes a stack to the point before the jump into a coroutine.
LEMMA JumpDataQuiet ==
  ASSUME IInv, JumpDataInv, NEW t \in Thread, QuietStep(t), UNCHANGED jump_data
  PROVE  JumpDataInv'
<1>1. UNCHANGED <<on, caller>>
  BY DEF QuietStep, Create, SetRunner, StoreRunner, Return, YieldThis, Yield, YieldCas,
     FinishRunner, FinalYield
<1>2. ASSUME NEW u \in Thread, At(u, "jump_in")'
      PROVE  At(u, "jump_in") /\ arg'[on[u]] = arg[on[u]]
  <2>1. on[u] \in Frame
    BY DEF IInv, TypeOK
  <2>2. CASE UNCHANGED <<pc, arg>>
    BY <1>1, <1>2, <2>2 DEF At
  <2>3. CASE \E l \in Executing \ {"jump_in"} : \E c : Goto(t, l, c)
    BY <1>1, <1>2, <2>1, <2>3 DEF At, Goto, IInv, TypeOK
  <2> QED
    BY <2>2, <2>3 DEF QuietStep, Create, SetRunner, StoreRunner, Return, YieldThis, Yield,
       YieldCas, FinishRunner, FinalYield, Executing
<1> QED
  BY <1>1, <1>2 DEF JumpDataInv, At

LEMMA FiberStartPreserves ==
  ASSUME FiberInv, NEW t \in Thread, NEW c \in Coroutine, NotTakenOver(t, c), Start(t, c),
         UNCHANGED jump_data
  PROVE  HomeInv' /\ JumpDataInv'
<1>1. UNCHANGED <<on, caller>> /\ Goto(t, "jump_in", c)
  BY DEF Start
<1>2. HomeInv'
  BY <1>1, HomeStays DEF FiberInv, Executing
<1>3. ASSUME NEW v \in Thread, on[v] \in Coroutine, NEW u \in Thread \ {v}, At(u, "jump_in")'
      PROVE  arg'[on[u]] # jump_data[v].to_co
  <2>1. on[u] \in Frame /\ on[t] \in Frame
    BY DEF FiberInv, IInv, TypeOK
  <2>2. CASE u = t
    BY <1>1, <1>3, <2>1, <2>2 DEF NotTakenOver, Goto, FiberInv, IInv, TypeOK
  <2>3. CASE u # t
    <3>1. on[u] # on[t]
      BY <2>3 DEF FiberInv, IInv, StackExclusive
    <3>2. At(u, "jump_in") /\ arg'[on[u]] = arg[on[u]]
      BY <1>1, <1>3, <2>1, <3>1 DEF At, Goto, FiberInv, IInv, TypeOK
    <3> QED
      BY <1>3, <3>2 DEF FiberInv, JumpDataInv
  <2> QED
    BY <2>2, <2>3
<1>4. JumpDataInv'
  BY <1>1, <1>3 DEF FiberInv, JumpDataInv
<1> QED
  BY <1>2, <1>4

\* No other thread is about to start what this one starts (OneCall), and none was about
\* to start what another one's jump data name.
LEMMA JumpDataIn ==
  ASSUME FiberInv, NEW t \in Thread, SwitchIn(t)
  PROVE  JumpDataInv'
<1>1. PICK f \in Frame, c \in Coroutine : f = on[t] /\ c = arg[f]
  BY DEF FiberInv, IInv, TypeOK, CallInv, SwitchIn, At, Calling
<1>2. /\ pc[f] = "jump_in" /\ c # f /\ pc[c] \in {"fresh", "in_yield"}
      /\ on' = [on EXCEPT ![t] = c] /\ arg' = arg
      /\ caller' = [caller EXCEPT ![c] = f]
      /\ pc' = [pc EXCEPT ![f] = "in_start", ![c] = "user"]
      /\ jump_data' = [jump_data EXCEPT ![t] = [from_fiber |-> f, to_co |-> c]]
  BY <1>1, SwitchInIsJumpIn, JumpedIn DEF FiberInv
<1>3. /\ on \in [Thread -> Frame] /\ caller \in [Coroutine -> Frame \cup {Null}]
      /\ pc \in [Frame -> Executing \cup Suspended]
      /\ c \in Frame
      /\ jump_data \in [Thread -> [from_fiber : Frame \cup {Null}, to_co : Coroutine \cup {Null}]]
  BY DEF FiberInv, IInv, TypeOK, JumpDataInv, Frame
<1>4. jump_data' \in [Thread -> [from_fiber : Frame \cup {Null}, to_co : Coroutine \cup {Null}]]
  BY <1>2, <1>3
<1>5. ASSUME NEW u \in Thread \ {t}
      PROVE  /\ on'[u] = on[u] /\ on[u] # f
             /\ At(u, "jump_in")' => At(u, "jump_in") /\ arg[on[u]] # c
  <2>1. on'[u] = on[u] /\ on[u] \in Frame /\ on[u] # f
    BY <1>1, <1>2, <1>3 DEF FiberInv, IInv, StackExclusive
  <2>2. At(u, "jump_in")' => At(u, "jump_in")
    BY <1>2, <1>3, <2>1 DEF At
  <2>3. At(u, "jump_in") => arg[on[u]] # c
    BY <1>1, <1>2, <2>1 DEF At, FiberInv, IInv, OneCall, Calling
  <2> QED
    BY <2>1, <2>2, <2>3
<1>6. ASSUME NEW v \in Thread, on'[v] \in Coroutine
      PROVE  /\ jump_data'[v].to_co \in Coroutine
             /\ caller'[jump_data'[v].to_co] = jump_data'[v].from_fiber
             /\ \A u \in Thread \ {v} : At(u, "jump_in")' => arg'[on'[u]] # jump_data'[v].to_co
  <2>1. CASE v = t
    <3>1. jump_data'[v].to_co = c /\ jump_data'[v].from_fiber = f
      BY <1>2, <1>3, <2>1
    <3> QED
      BY <1>2, <1>3, <1>5, <2>1, <3>1
  <2>2. CASE v # t
    <3>1. jump_data'[v] = jump_data[v] /\ on'[v] = on[v]
      BY <1>2, <1>3, <2>2
    <3>2. /\ jump_data[v].to_co \in Coroutine
          /\ caller[jump_data[v].to_co] = jump_data[v].from_fiber
          /\ \A u \in Thread \ {v} : At(u, "jump_in") => arg[on[u]] # jump_data[v].to_co
      BY <1>6, <3>1 DEF FiberInv, JumpDataInv
    <3>3. jump_data[v].to_co # c
      BY <1>1, <1>2, <2>2, <3>2 DEF At
    <3>4. \A u \in Thread \ {v} : At(u, "jump_in")' => u # t
      BY <1>2, <1>3 DEF At
    <3> QED
      BY <1>2, <1>3, <1>5, <3>1, <3>2, <3>3, <3>4
  <2> QED
    BY <2>1, <2>2
<1> QED
  BY <1>4, <1>6 DEF JumpDataInv, At

LEMMA JumpDataOut ==
  ASSUME FiberInv, NEW t \in Thread, SwitchOut(t)
  PROVE  JumpDataInv'
<1>1. PICK c \in Coroutine, g \in Frame : c = on[t] /\ g = caller[c]
  BY JumpedOut DEF FiberInv, SwitchOut
<1>2. /\ pc[g] = "in_start" /\ arg[c] = c /\ g # c
      /\ JumpOut(t) /\ UNCHANGED jump_data
  BY <1>1, SwitchOutIsJumpOut, JumpedOut DEF FiberInv, SwitchOut
<1>3. /\ on' = [on EXCEPT ![t] = g]
      /\ UNCHANGED <<arg, caller, jump_data>>
      /\ pc' = [pc EXCEPT ![c] = IF finished[c] THEN "dead" ELSE "in_yield",
                          ![g] = "returned"]
  BY <1>1, <1>2 DEF JumpOut, Landing
<1>4. /\ \A f \in Frame : pc'[f] = "jump_in" => pc[f] = "jump_in"
      /\ pc'[g] = "returned"
  BY <1>1, <1>3 DEF FiberInv, IInv, TypeOK, Frame
<1>5. ASSUME NEW u \in Thread, At(u, "jump_in")'
      PROVE  At(u, "jump_in") /\ on'[u] = on[u]
  BY <1>3, <1>4, <1>5 DEF At, FiberInv, IInv, TypeOK
<1>6. ASSUME NEW v \in Thread, on'[v] \in Coroutine
      PROVE  on[v] \in Coroutine
  BY <1>1, <1>3, <1>6 DEF FiberInv, IInv, TypeOK
<1>7. ASSUME NEW v \in Thread, on'[v] \in Coroutine
      PROVE  /\ jump_data[v].to_co \in Coroutine
             /\ caller[jump_data[v].to_co] = jump_data[v].from_fiber
             /\ \A u \in Thread \ {v} : At(u, "jump_in")' => arg[on'[u]] # jump_data[v].to_co
  BY <1>5, <1>6, <1>7 DEF FiberInv, JumpDataInv
<1>8. jump_data \in [Thread -> [from_fiber : Frame \cup {Null}, to_co : Coroutine \cup {Null}]]
  BY DEF FiberInv, JumpDataInv
<1> QED
  BY <1>3, <1>7, <1>8 DEF JumpDataInv

LEMMA FiberInitEstablishes == FiberInit => FiberInv
<1> SUFFICES ASSUME FiberInit PROVE FiberInv
  OBVIOUS
<1>1. IInv
  BY InitEstablishes DEF FiberInit
<1>2. HomeInv
  BY HomeInit DEF FiberInit
<1>3. JumpDataInv
  BY NamesDistinct DEF FiberInit, Init, JumpDataInv
<1> QED
  BY <1>1, <1>2, <1>3 DEF FiberInv

\* Each step of the fibers is the step of the same name of the contexts.
LEMMA FiberStepIsStep ==
  ASSUME FiberInv, [FiberNext]_fiberVars
  PROVE  FiberInv' /\ [Next]_vars
<1>1. ASSUME NEW t \in Thread, SwitchIn(t) PROVE HomeInv' /\ JumpDataInv' /\ Step(t)
  BY <1>1, SwitchInIsJumpIn, HomeJumpIn, JumpDataIn DEF FiberInv, Step
<1>2. ASSUME NEW t \in Thread, SwitchOut(t) PROVE HomeInv' /\ JumpDataInv' /\ Step(t)
  BY <1>2, SwitchOutIsJumpOut, HomeJumpOut, JumpDataOut DEF FiberInv, Step
<1>3. ASSUME NEW t \in Thread, FiberStep(t) PROVE HomeInv' /\ JumpDataInv' /\ Step(t)
  <2>1. CASE SwitchIn(t)
    BY <1>1, <2>1
  <2>2. CASE SwitchOut(t)
    BY <1>2, <2>2
  <2>3. CASE ~SwitchIn(t) /\ ~SwitchOut(t)
    <3>1. QuietStep(t) /\ UNCHANGED jump_data
      BY <1>3, <2>3 DEF FiberStep, QuietStep, FiberCreate, FiberSetRunner, FiberStoreRunner,
         FiberReturn, FiberYield, FiberFinishRunner, FiberFinalYield
    <3>2. Step(t)
      BY <3>1 DEF QuietStep, Step
    <3> QED
      BY <3>1, <3>2, HomeQuiet, JumpDataQuiet DEF FiberInv
  <2> QED
    BY <2>1, <2>2, <2>3
<1>4. ASSUME NEW t \in Thread, NEW c \in Coroutine,
             NoCallInProgress(c), NotTakenOver(t, c), FiberStart(t, c)
      PROVE  HomeInv' /\ JumpDataInv' /\ Start(t, c)
  BY <1>4, FiberStartPreserves DEF FiberStart
<1>5. CASE UNCHANGED fiberVars
  <2>1. UNCHANGED <<vars, jump_data, on, pc, arg, caller>>
    BY <1>5 DEF fiberVars, vars
  <2>2. HomeInv' /\ JumpDataInv'
    BY <2>1 DEF FiberInv, HomeInv, HomeOf, JumpDataInv, At
  <2> QED
    BY <2>1, <2>2, NextPreserves DEF FiberInv
<1>6. CASE AllExited /\ UNCHANGED jump_data
  BY <1>5, <1>6 DEF AllExited, fiberVars
<1>7. CASE \E t \in Thread :
             \/ FiberStep(t)
             \/ \E c \in Coroutine :
                  NoCallInProgress(c) /\ NotTakenOver(t, c) /\ FiberStart(t, c)
  <2>1. HomeInv' /\ JumpDataInv' /\ Next
    BY <1>3, <1>4, <1>7 DEF Next
  <2> QED
    BY <2>1, NextPreserves DEF FiberInv
<1> QED
  BY <1>5, <1>6, <1>7 DEF FiberNext

\* On fibers the jump data of each thread stay those of its last start(), for any
\* number of threads and coroutines.
THEOREM FiberInvariance == FiberSpec => []FiberInv
  BY FiberInitEstablishes, FiberStepIsStep, PTL DEF FiberSpec

\* The coroutines of coroutine_context_fiber.cpp are those of coroutine_context.cpp,
\* though the code behind a jump writes the caller_ of the thread's last start() also
\* after a yield().
THEOREM FibersImplementContexts == FiberSpec => Spec
<1>1. FiberInit => Init
  BY DEF FiberInit
<1> QED
  BY <1>1, FiberStepIsStep, FiberInvariance, PTL DEF FiberSpec, Spec

\* No two threads ever switch to one fiber, and each returns to its own.
THEOREM FibersAreExclusive ==
  FiberSpec => /\ []StackExclusive
               /\ [](\A t \in Thread : on[t] \in Thread => on[t] = t)
  BY FibersImplementContexts, StacksAreExclusive, ThreadsKeepTheirStacks, PTL

\* this_coroutine::get_coroutine(), what start() accepts and where an exception goes
\* are on fibers what they are on fcontext.
THEOREM FibersKeepPromises ==
  FiberSpec => []ThisCoroutineExact /\ []ReadyIsResumable /\ ExceptionReachesStarter
  BY FibersImplementContexts, ThisCoroutineIsExact, ReadyCoroutinesResume,
     ExceptionsReachStarters, PTL
=============================================================================
