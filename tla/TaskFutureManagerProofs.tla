------------------------ MODULE TaskFutureManagerProofs ------------------------
(***************************************************************************)
(* Proofs about TaskFuture and TaskFutureManager, for any number of tasks, *)
(* generators, futures, timers and nested calls: no call in progress       *)
(* touches a frame or a context that is gone, no wake-up and no kill is    *)
(* lost, the last future ends its task, and the table of the manager is    *)
(* exact.                                                                  *)
(*                                                                         *)
(* A step can only go wrong through what the calls in progress still have  *)
(* to do.  CallOK says what each of them needs when it goes on, Supported  *)
(* what each of them has below it that provides it: the end of a task runs *)
(* above the call that will release its context, and kill() and start()    *)
(* above whoever holds a future of the task.                               *)
(***************************************************************************)
EXTENDS TaskFutureManager, FiniteSetTheorems, SequenceTheorems, TLAPS

\* What the client keeps to: a task does not destroy itself while it runs, nor one that
\* is to be woken with it.
Contract == ~DropsRunning /\ ~DropsWoken

\* The calls in progress, and those below the innermost one.
CallsOf(S) == {S[i] : i \in 1..Len(S)}
Deeper(S, i) == {S[j] : j \in (i+1)..Len(S)}
InProgress == CallsOf(stack)
Rest == IF stack = <<>> THEN <<>> ELSE Tail(stack)
Below == CallsOf(Rest)
TopIs(label, c) == At(label) /\ Top.co = c

Runs(k) == k.pc \in {"body", "await_resume", "locals"}
OfTask == {"body", "await_resume", "locals", "resume", "drop", "release", "final", "unbind",
           "unlock", "started"}

\* What a call needs when it goes on.
CallOK(k) ==
  /\ k.pc \in OfTask \cup {"wake", "forget", "tick", "reset", "destroyed"}
  /\ k.pc \in OfTask => k.co \in Co /\ k.todo = {}
  /\ Runs(k) => frame[k.co] = "active"
  /\ k.pc \in {"body", "await_resume"} => "returned" \notin flags[k.co]
  /\ k.pc \in {"locals", "release"} => "returned" \in flags[k.co]
  /\ k.pc \in {"body", "locals"} => awaits[k.co] = Null /\ ~attached[k.co]
  /\ k.pc = "resume" => Suspended(k.co) /\ status[k.co] # CREATED
  /\ k.pc = "drop" => Exiting(k.co)
  /\ k.pc \in {"unbind", "final"} => Finished(k.co)
  /\ k.pc \in {"drop", "release", "unlock", "started"} => Alive(k.co)
  /\ k.pc = "wake" => /\ k.co \in Co \cup Event
                      /\ k.co \in Co => Finished(k.co)
                      /\ \A c \in k.todo : Alive(c) /\ status[c] # CREATED
  /\ k.pc = "forget" => \A d \in k.todo : Alive(d)
  /\ k.pc = "reset" => \A d \in k.todo : /\ frame[d] # "none" /\ d \notin Managed
                                         /\ bound[d] \/ Exiting(d)
CallsOK == \A k \in InProgress : CallOK(k)
BelowOK == \A k \in Below : k.pc \notin {"resume", "await_resume"}

\* What a call needs of those below it.
Supported(fu, fl, k, D) ==
  /\ Runs(k) \/ (k.pc = "drop" /\ "returned" \notin fl[k.co])
       => \A m \in D : Runs(m) => m.co # k.co
  /\ k.pc = "wake" => \A m \in D : Runs(m) => m.co \notin k.todo
  /\ k.pc \in {"unbind", "final", "wake"} /\ k.co \in Co
       => \E m \in D : m.pc = "release" /\ m.co = k.co
  /\ k.pc \in {"unlock", "started"} =>
       \/ Main \in fu[k.co]
       \/ \E m \in D : \/ m.pc = "forget" /\ k.co \in m.todo
                       \/ m.pc = "body" /\ m.co \in fu[k.co]
  /\ k.pc = "reset" =>
       /\ \A d \in k.todo : \E m \in D : m.pc = "forget" /\ d \in m.todo
       /\ \A m \in D : m.pc = "reset" => m.todo \cap k.todo = {}
Stacked(fu, fl, S) == \A i \in 1..Len(S) : Supported(fu, fl, S[i], Deeper(S, i))
StackOK == Stacked(futures, flags, stack)

\* A frame that runs is run by a call, and the promise holds the context until the end.
FrameInv == \A c \in Co :
  /\ kept[c] <=> frame[c] \in {"suspended", "active"}
  /\ futures[c] # {} => Alive(c)
  /\ frame[c] = "active" => \E k \in InProgress : Runs(k) /\ k.co = c
  /\ frame[c] = "final" => "returned" \in flags[c]
  /\ "returned" \in flags[c] => Exiting(c) /\ frame[c] \in {"active", "final", "destroyed"}
  /\ "destroying" \in flags[c] => frame[c] = "destroyed"
  /\ status[c] = CREATED => frame[c] \in {"none", "suspended"} /\ ~attached[c]

\* Who awaits is suspended, or about to detach, and what it awaits lives.
AwaitInv == \A c \in Co :
  /\ waiting[c] = Null
  /\ attached[c] <=> "internal_waiting" \in flags[c]
  /\ attached[c] => awaits[c] # Null /\ (Suspended(c) \/ TopIs("await_resume", c))
  /\ awaits[c] # Null => (Suspended(c) /\ attached[c]) \/ TopIs("await_resume", c)
  /\ awaits[c] \in Co => Alive(awaits[c])

\* Callers wait, and what is over has none once its end has notified them.
CallersInv ==
  /\ \A x \in Co \cup Event : \A c \in callers[x] : attached[c] /\ awaits[c] = x
  /\ \A d \in Co : callers[d] # {} =>
       Alive(d) /\ (Finished(d) => \E k \in InProgress : k.pc = "final" /\ k.co = d)
  /\ \A e \in Event : callers[e] # {} => value[e] = "pending"

\* Who waits is registered, or it is about to be woken.
Reg == \A c \in Co : Suspended(c) /\ attached[c] =>
  \/ c \in callers[awaits[c]]
  \/ \E k \in InProgress : k.pc = "wake" /\ k.co = awaits[c] /\ c \in k.todo
  \/ TopIs("resume", c)

\* Who was killed while it waited is being resumed or run to its end.
KillCover == \A c \in Co : Exiting(c) /\ Suspended(c) /\ attached[c] =>
  TopIs("resume", c) \/ \E k \in InProgress : k.pc = "drop" /\ k.co = c

\* A task without a future has a call that will let go of it.
Held(d) == \E k \in InProgress : \/ k.pc = "forget" /\ d \in k.todo
                                 \/ k.pc \in {"drop", "release", "locals"} /\ k.co = d
HeldInv == \A d \in Co : Alive(d) /\ futures[d] = {} => Held(d)

\* A task that is over stays in the table only until its end calls the manager back.
TableInv ==
  /\ \A d \in Co : timer[d] # 0 => d \in Managed
  /\ \A d \in Managed : bound[d] /\ alive
  /\ \A d \in Managed : Finished(d) => \E k \in InProgress : k.pc = "unbind" /\ k.co = d

IInv == TypeOK /\ CallsOK /\ BelowOK /\ StackOK /\ FrameInv /\ AwaitInv /\ CallersInv /\ Reg
        /\ KillCover /\ HeldInv /\ TableInv

-----------------------------------------------------------------------------
(* Sequences of calls. *)

LEMMA Put ==
  ASSUME NEW S \in Seq(Call), NEW k \in Call
  PROVE  /\ <<k>> \o S \in Seq(Call) /\ <<k>> \o S # <<>>
         /\ Head(<<k>> \o S) = k /\ Tail(<<k>> \o S) = S
         /\ Len(<<k>> \o S) = Len(S) + 1 /\ (<<k>> \o S)[1] = k
         /\ \A i \in 1..Len(S) : (<<k>> \o S)[i + 1] = S[i]
         /\ CallsOf(<<k>> \o S) = {k} \cup CallsOf(S)
<1>. DEFINE T == <<k>> \o S
<1>1. T \in Seq(Call) /\ Len(T) = Len(S) + 1 /\ T[1] = k /\ \A i \in 1..Len(S) : T[i + 1] = S[i]
  OBVIOUS
<1>2. T # <<>> /\ Head(T) = k
  BY <1>1
<1>3. Tail(T) = S
  OBVIOUS
<1>4. ASSUME NEW x \in CallsOf(T) PROVE x \in {k} \cup CallsOf(S)
  <2>. HIDE DEF T
  <2>1. PICK i \in 1..Len(T) : x = T[i]
    BY DEF CallsOf
  <2>2. CASE i = 1
    BY <2>1, <2>2, <1>1
  <2>3. CASE i # 1
    <3>1. i - 1 \in 1..Len(S) /\ T[(i - 1) + 1] = S[i - 1] /\ (i - 1) + 1 = i
      BY <2>1, <2>3, <1>1
    <3>. QED BY <3>1, <2>1 DEF CallsOf
  <2>. QED BY <2>2, <2>3
<1>5. ASSUME NEW x \in {k} \cup CallsOf(S) PROVE x \in CallsOf(T)
  <2>. HIDE DEF T
  <2>1. CASE x = k
    <3>1. 1 \in 1..Len(T)
      BY <1>1
    <3>. QED BY <3>1, <2>1, <1>1 DEF CallsOf
  <2>2. CASE x \in CallsOf(S)
    <3>1. PICK i \in 1..Len(S) : x = S[i]
      BY <2>2 DEF CallsOf
    <3>2. i + 1 \in 1..Len(T) /\ T[i + 1] = x
      BY <3>1, <1>1
    <3>. QED BY <3>2 DEF CallsOf
  <2>. QED BY <2>1, <2>2
<1>. QED BY <1>1, <1>2, <1>3, <1>4, <1>5

LEMMA TakeApart ==
  ASSUME NEW S \in Seq(Call), S # <<>>
  PROVE  /\ Tail(S) \in Seq(Call) /\ Head(S) \in Call
         /\ S = <<Head(S)>> \o Tail(S)
         /\ CallsOf(S) = {Head(S)} \cup CallsOf(Tail(S))
<1>1. Tail(S) \in Seq(Call) /\ Head(S) \in Call
  OBVIOUS
<1>2. S = <<Head(S)>> \o Tail(S)
  OBVIOUS
<1>. DEFINE h == Head(S)
            R == Tail(S)
<1>. HIDE DEF h, R
<1>3. CallsOf(<<h>> \o R) = {h} \cup CallsOf(R)
  BY <1>1, Put DEF h, R
<1>. QED BY <1>1, <1>2, <1>3 DEF h, R

LEMMA CallsIn ==
  ASSUME NEW S \in Seq(Call)
  PROVE  CallsOf(S) \subseteq Call /\ \A i \in 1..Len(S) : Deeper(S, i) \subseteq CallsOf(S)
<1>1. \A i \in 1..Len(S) : \A j \in (i + 1)..Len(S) : j \in 1..Len(S)
  OBVIOUS
<1>. QED BY <1>1 DEF CallsOf, Deeper

LEMMA NoCalls == CallsOf(<<>>) = {}
BY DEF CallsOf

\* What the calls of S have below them when k is put on top.
LEMMA PutDeeper ==
  ASSUME NEW S \in Seq(Call), NEW k \in Call
  PROVE  /\ Deeper(<<k>> \o S, 1) = CallsOf(S)
         /\ \A i \in 1..Len(S) : Deeper(<<k>> \o S, i + 1) = Deeper(S, i)
<1>. DEFINE T == <<k>> \o S
<1>1. Len(T) = Len(S) + 1 /\ \A i \in 1..Len(S) : T[i + 1] = S[i]
  BY Put
<1>2. Len(S) \in Nat
  OBVIOUS
<1>. HIDE DEF T
<1>3. ASSUME NEW i \in 0..Len(S), NEW x \in Deeper(T, i + 1)
      PROVE  \E j \in (i + 1)..Len(S) : x = S[j]
  <2>1. PICK j \in ((i + 1) + 1)..Len(T) : x = T[j]
    BY <1>3 DEF Deeper
  <2>2. j - 1 \in (i + 1)..Len(S) /\ j - 1 \in 1..Len(S) /\ (j - 1) + 1 = j
    BY <2>1, <1>1, <1>2
  <2>3. x = S[j - 1]
    BY <2>1, <2>2, <1>1
  <2>. QED BY <2>2, <2>3
<1>4. ASSUME NEW i \in 0..Len(S), NEW j \in (i + 1)..Len(S)
      PROVE  S[j] \in Deeper(T, i + 1)
  <2>1. j \in 1..Len(S) /\ j + 1 \in ((i + 1) + 1)..Len(T)
    BY <1>1, <1>2
  <2>2. T[j + 1] = S[j]
    BY <2>1, <1>1
  <2>. QED BY <2>1, <2>2 DEF Deeper
<1>5. Deeper(T, 1) = CallsOf(S)
  <2>1. 0 \in 0..Len(S) /\ 0 + 1 = 1
    BY <1>2
  <2>2. ASSUME NEW x \in Deeper(T, 1) PROVE x \in CallsOf(S)
    BY <2>1, <2>2, <1>3 DEF CallsOf
  <2>3. ASSUME NEW x \in CallsOf(S) PROVE x \in Deeper(T, 1)
    BY <2>1, <2>3, <1>4 DEF CallsOf
  <2>. QED BY <2>2, <2>3
<1>6. ASSUME NEW i \in 1..Len(S) PROVE Deeper(T, i + 1) = Deeper(S, i)
  <2>1. i \in 0..Len(S)
    BY <1>2
  <2>2. ASSUME NEW x \in Deeper(T, i + 1) PROVE x \in Deeper(S, i)
    BY <2>1, <2>2, <1>3 DEF Deeper
  <2>3. ASSUME NEW x \in Deeper(S, i) PROVE x \in Deeper(T, i + 1)
    BY <2>1, <2>3, <1>4 DEF Deeper
  <2>. QED BY <2>2, <2>3
<1>. QED BY <1>5, <1>6 DEF T

LEMMA StackedPut ==
  ASSUME NEW fu, NEW fl, NEW S \in Seq(Call), NEW k \in Call
  PROVE  Stacked(fu, fl, <<k>> \o S) <=> Stacked(fu, fl, S) /\ Supported(fu, fl, k, CallsOf(S))
<1>. DEFINE T == <<k>> \o S
<1>1. /\ Len(T) = Len(S) + 1 /\ T[1] = k /\ \A i \in 1..Len(S) : T[i + 1] = S[i]
      /\ Deeper(T, 1) = CallsOf(S) /\ \A i \in 1..Len(S) : Deeper(T, i + 1) = Deeper(S, i)
  BY Put, PutDeeper
<1>2. Len(S) \in Nat
  OBVIOUS
<1>. HIDE DEF T
<1>3. ASSUME Stacked(fu, fl, S), Supported(fu, fl, k, CallsOf(S))
      PROVE  Stacked(fu, fl, T)
  <2>1. SUFFICES ASSUME NEW i \in 1..Len(T) PROVE Supported(fu, fl, T[i], Deeper(T, i))
    BY DEF Stacked
  <2>2. CASE i = 1
    BY <2>2, <1>1, <1>3
  <2>3. CASE i # 1
    <3>1. i - 1 \in 1..Len(S) /\ (i - 1) + 1 = i
      BY <2>3, <1>1, <1>2
    <3>2. T[i] = S[i - 1] /\ Deeper(T, i) = Deeper(S, i - 1)
      BY <3>1, <1>1
    <3>. QED BY <3>1, <3>2, <1>3 DEF Stacked
  <2>. QED BY <2>2, <2>3
<1>4. ASSUME Stacked(fu, fl, T)
      PROVE  Stacked(fu, fl, S) /\ Supported(fu, fl, k, CallsOf(S))
  <2>1. ASSUME NEW i \in 1..Len(S) PROVE Supported(fu, fl, S[i], Deeper(S, i))
    <3>1. i + 1 \in 1..Len(T)
      BY <1>1, <1>2
    <3>2. Supported(fu, fl, T[i + 1], Deeper(T, i + 1))
      BY <3>1, <1>4 DEF Stacked
    <3>. QED BY <3>2, <1>1
  <2>2. 1 \in 1..Len(T)
    BY <1>1, <1>2
  <2>3. Supported(fu, fl, T[1], Deeper(T, 1))
    BY <2>2, <1>4 DEF Stacked
  <2>. QED BY <2>1, <2>3, <1>1 DEF Stacked
<1>. QED BY <1>3, <1>4 DEF T

LEMMA StackedKept ==
  ASSUME NEW fu, NEW fl, NEW fu2, NEW fl2, NEW S \in Seq(Call), Stacked(fu, fl, S),
         \A c \in Co : "returned" \in fl[c] => "returned" \in fl2[c],
         \A d \in Co : Main \in fu[d] => Main \in fu2[d],
         \A m \in CallsOf(S) : \A d \in Co : m.pc = "body" /\ m.co \in fu[d] => m.co \in fu2[d],
         \A m \in CallsOf(S) : m.pc \in OfTask => m.co \in Co
  PROVE  Stacked(fu2, fl2, S)
<1>1. SUFFICES ASSUME NEW i \in 1..Len(S) PROVE Supported(fu2, fl2, S[i], Deeper(S, i))
  BY DEF Stacked
<1>. DEFINE k == S[i]
            D == Deeper(S, i)
<1>2. Supported(fu, fl, k, D)
  BY DEF Stacked
<1>3. D \subseteq CallsOf(S) /\ k \in CallsOf(S)
  BY CallsIn DEF CallsOf
<1>. HIDE DEF k, D
<1>4. k.pc \in {"unlock", "started", "drop"} => k.co \in Co
  BY <1>3 DEF OfTask
<1>5. k.pc \in {"unlock", "started"} =>
       \/ Main \in fu2[k.co]
       \/ \E m \in D : \/ m.pc = "forget" /\ k.co \in m.todo
                       \/ m.pc = "body" /\ m.co \in fu2[k.co]
  BY <1>2, <1>3, <1>4 DEF Supported
<1>6. Runs(k) \/ (k.pc = "drop" /\ "returned" \notin fl2[k.co])
       => \A m \in D : Runs(m) => m.co # k.co
  BY <1>2, <1>4 DEF Supported
<1>7. Supported(fu2, fl2, k, D)
  BY <1>2, <1>5, <1>6 DEF Supported
<1>. QED BY <1>7 DEF k, D

-----------------------------------------------------------------------------
(* The stack before and after a step. *)

LEMMA StackNow ==
  ASSUME IInv
  PROVE  /\ stack \in Seq(Call) /\ Rest \in Seq(Call)
         /\ InProgress \subseteq Call /\ Below \subseteq InProgress
         /\ stack = <<>> => Rest = <<>> /\ InProgress = {} /\ Below = {}
         /\ stack # <<>> => /\ stack = <<Top>> \o Rest /\ Rest = Tail(stack)
                            /\ Top \in Call /\ Top \in InProgress
                            /\ InProgress = {Top} \cup Below
                            /\ Supported(futures, flags, Top, Below)
         /\ Stacked(futures, flags, Rest) /\ Stacked(futures, flags, stack)
         /\ \A k \in InProgress : CallOK(k)
         /\ \A k \in Below : k.pc \notin {"resume", "await_resume"}
<1>1. stack \in Seq(Call) /\ Stacked(futures, flags, stack)
  BY DEF IInv, TypeOK, TaskTypeOK, PromiseTypeOK, StackOK
<1>2. CASE stack = <<>>
  BY <1>1, <1>2, NoCalls DEF Rest, Below, InProgress, IInv, CallsOK, BelowOK
<1>3. CASE stack # <<>>
  <2>1. Rest = Tail(stack) /\ Top = Head(stack)
    BY <1>3 DEF Rest, Top
  <2>2. /\ Rest \in Seq(Call) /\ Top \in Call /\ stack = <<Top>> \o Rest
        /\ CallsOf(stack) = {Top} \cup CallsOf(Rest)
    BY <2>1, <1>1, <1>3, TakeApart
  <2>3. Stacked(futures, flags, Rest) /\ Supported(futures, flags, Top, CallsOf(Rest))
    BY <2>2, <1>1, StackedPut
  <2>4. InProgress \subseteq Call
    BY <1>1, CallsIn DEF InProgress
  <2>. QED BY <1>1, <1>3, <2>1, <2>2, <2>3, <2>4 DEF Below, InProgress, IInv, CallsOK, BelowOK
<1>. QED BY <1>2, <1>3

LEMMA StackPut ==
  ASSUME NEW S \in Seq(Call), NEW k \in Call, stack' = <<k>> \o S
  PROVE  /\ stack' \in Seq(Call) /\ stack' # <<>> /\ Top' = k
         /\ InProgress' = {k} \cup CallsOf(S) /\ Below' = CallsOf(S)
         /\ StackOK' <=> Stacked(futures', flags', S) /\ Supported(futures', flags', k, CallsOf(S))
<1>. DEFINE T == <<k>> \o S
<1>1. /\ T \in Seq(Call) /\ T # <<>> /\ Head(T) = k /\ Tail(T) = S
      /\ CallsOf(T) = {k} \cup CallsOf(S)
  BY Put
<1>2. Stacked(futures', flags', T) <=>
        Stacked(futures', flags', S) /\ Supported(futures', flags', k, CallsOf(S))
  BY StackedPut
<1>3. stack' = T
  OBVIOUS
<1>. HIDE DEF T
<1>. QED BY <1>1, <1>2, <1>3 DEF Top, InProgress, Below, Rest, StackOK

LEMMA StackIs ==
  ASSUME NEW S \in Seq(Call), stack' = S
  PROVE  /\ stack' \in Seq(Call) /\ InProgress' = CallsOf(S)
         /\ Below' \subseteq CallsOf(S)
         /\ stack' # <<>> => Top' \in CallsOf(S)
         /\ StackOK' <=> Stacked(futures', flags', S)
<1>1. ASSUME S # <<>>
      PROVE  CallsOf(S) = {Head(S)} \cup CallsOf(Tail(S))
  BY <1>1, TakeApart
<1>2. CASE S = <<>>
  BY <1>2, NoCalls DEF InProgress, Below, Rest, StackOK
<1>3. CASE S # <<>>
  BY <1>1, <1>3 DEF InProgress, Below, Rest, StackOK, Top
<1>. QED BY <1>2, <1>3

LEMMA Fresh ==
  ASSUME NEW l \in Label, NEW x \in Co \cup Event \cup {Null}
  PROVE  /\ NewCall(l, x) \in Call /\ NewCall(l, x).pc = l
         /\ NewCall(l, x).co = x /\ NewCall(l, x).todo = {}
BY DEF NewCall, Call

LEMMA FreshTodo ==
  ASSUME NEW l \in Label, NEW x \in Co \cup Event \cup {Null}, NEW w \in SUBSET Co
  PROVE  /\ [NewCall(l, x) EXCEPT !.todo = w] \in Call
         /\ [NewCall(l, x) EXCEPT !.todo = w].pc = l
         /\ [NewCall(l, x) EXCEPT !.todo = w].co = x
         /\ [NewCall(l, x) EXCEPT !.todo = w].todo = w
BY DEF NewCall, Call

LEMMA FreshForget ==
  ASSUME NEW w \in SUBSET Co
  PROVE  Forget(w) \in Call /\ Forget(w).pc = "forget" /\ Forget(w).todo = w
<1>1. "forget" \in Label /\ Null \in Co \cup Event \cup {Null}
  BY DEF Label
<1>. QED BY <1>1, FreshTodo DEF Forget

\* The call k goes on at another point, or has less left to do.
LEMMA Moved ==
  ASSUME NEW k \in Call, NEW l \in Label
  PROVE  /\ [k EXCEPT !.pc = l] \in Call /\ [k EXCEPT !.pc = l].pc = l
         /\ [k EXCEPT !.pc = l].co = k.co /\ [k EXCEPT !.pc = l].todo = k.todo
<1>1. /\ k.pc \in Label /\ k.co \in Co \cup Event \cup {Null}
      /\ k.todo \in SUBSET Co /\ k.time \in Nat
      /\ k = [pc |-> k.pc, co |-> k.co, todo |-> k.todo, time |-> k.time]
  BY DEF Call
<1>2. [k EXCEPT !.pc = l] = [pc |-> l, co |-> k.co, todo |-> k.todo, time |-> k.time]
  BY <1>1
<1>. QED BY <1>1, <1>2 DEF Call

LEMMA Less ==
  ASSUME NEW k \in Call, NEW d
  PROVE  /\ [k EXCEPT !.todo = @ \ {d}] \in Call /\ [k EXCEPT !.todo = @ \ {d}].pc = k.pc
         /\ [k EXCEPT !.todo = @ \ {d}].co = k.co
         /\ [k EXCEPT !.todo = @ \ {d}].todo = k.todo \ {d}
<1>1. /\ k.pc \in Label /\ k.co \in Co \cup Event \cup {Null}
      /\ k.todo \in SUBSET Co /\ k.time \in Nat
      /\ k = [pc |-> k.pc, co |-> k.co, todo |-> k.todo, time |-> k.time]
  BY DEF Call
<1>2. [k EXCEPT !.todo = @ \ {d}] = [pc |-> k.pc, co |-> k.co, todo |-> k.todo \ {d}, time |-> k.time]
  BY <1>1
<1>. QED BY <1>1, <1>2 DEF Call

LEMMA Names == Main \notin Co /\ Null \notin Co /\ Table \notin Co /\ Main # Table /\ Co \cap Event = {}
               /\ Null \notin Event /\ Main # Null
BY TaskFutureAssumption, PromiseAssumption

-----------------------------------------------------------------------------
(* Steps that only change who holds what, the manager, and who is to be called.  *)

\* A status changes only before the task is over.
StatusGrows == \A c \in Co : status'[c] # status[c] => ~Exiting(c) /\ status'[c] # CREATED

LEMMA Grown ==
  ASSUME IInv, StatusGrows, NEW c \in Co
  PROVE  /\ Exiting(c) => status'[c] = status[c] /\ Exiting(c)'
         /\ status'[c] = CREATED => status[c] = CREATED
         /\ status[c] # CREATED => status'[c] # CREATED
BY DEF StatusGrows, Exiting

\* What a call needs, it still has.
LEMMA CallStays ==
  ASSUME IInv, UNCHANGED frameVars, StatusGrows, NEW k \in Call, CallOK(k),
         k.pc = "reset" => \A d \in k.todo : d \notin Managed' /\ (bound'[d] \/ Exiting(d)')
  PROVE  CallOK(k)'
<1>1. frame' = frame /\ flags' = flags /\ awaits' = awaits /\ attached' = attached
  BY DEF frameVars
<1>2. k.pc \in OfTask \cup {"wake", "forget", "tick", "reset", "destroyed"}
      /\ (k.pc \in OfTask => k.co \in Co /\ k.todo = {})
  BY DEF CallOK
<1>3. k.todo \subseteq Co
  BY DEF Call
<1>4. CASE k.pc \in OfTask
  <2>1. k.co \in Co
    BY <1>2, <1>4
  <2>2. (Exiting(k.co) => Exiting(k.co)') /\ (status[k.co] # CREATED => status'[k.co] # CREATED)
    BY <2>1, Grown
  <2>3. Finished(k.co)' = Finished(k.co) /\ Alive(k.co)' = Alive(k.co) /\ Suspended(k.co)' = Suspended(k.co)
    BY <1>1 DEF Finished, Alive, Suspended
  <2>4. k.pc \notin {"wake", "forget", "tick", "reset", "destroyed"}
    BY <1>4 DEF OfTask
  <2>. QED BY <1>1, <1>2, <2>2, <2>3, <2>4 DEF CallOK, Runs
<1>5. CASE k.pc \notin OfTask
  <2>1. k.pc \notin {"body", "await_resume", "locals", "resume", "drop", "release", "final", "unbind",
           "unlock", "started"}
    BY <1>5 DEF OfTask
  <2>2. \A c \in k.todo : (status[c] # CREATED => status'[c] # CREATED)
    BY <1>3, Grown
  <2>3. \A c \in Co : Finished(c)' = Finished(c) /\ Alive(c)' = Alive(c)
    BY <1>1 DEF Finished, Alive
  <2>4. \A d \in k.todo : Alive(d)' = Alive(d)
    BY <1>3, <2>3
  <2>. QED BY <1>1, <1>2, <1>3, <1>5, <2>1, <2>2, <2>3, <2>4 DEF CallOK, Runs
<1>. QED BY <1>4, <1>5

\* The calls below are supported as long as only futures of the table go.
LEMMA BaseStays ==
  ASSUME IInv, UNCHANGED flags, \A d \in Co : futures[d] \ {Table} \subseteq futures'[d],
         NEW S \in {stack, Rest}
  PROVE  S \in Seq(Call) /\ Stacked(futures', flags', S) /\ CallsOf(S) \subseteq InProgress
<1>1. S \in Seq(Call) /\ Stacked(futures, flags, S) /\ CallsOf(S) \subseteq InProgress
  BY StackNow DEF InProgress, Below
<1>2. \A m \in CallsOf(S) : m.pc \in OfTask => m.co \in Co
  BY <1>1, StackNow DEF CallOK
<1>3. \A m \in CallsOf(S) : \A d \in Co : m.pc = "body" /\ m.co \in futures[d] => m.co \in futures'[d]
  BY <1>2, Names DEF OfTask
<1>4. \A d \in Co : Main \in futures[d] => Main \in futures'[d]
  BY Names
<1>5. \A c \in Co : "returned" \in flags[c] => "returned" \in flags'[c]
  OBVIOUS
<1>. HIDE DEF InProgress
<1>6. Stacked(futures', flags', S)
  BY <1>1, <1>2, <1>3, <1>4, <1>5, StackedKept
<1>. QED BY <1>1, <1>6

LEMMA Unsupported ==
  ASSUME NEW fu, NEW fl, NEW k, NEW D, k.pc \in {"forget", "tick", "destroyed", "resume"}
  PROVE  Supported(fu, fl, k, D)
BY DEF Supported, Runs

LEMMA TwoCalls ==
  ASSUME NEW S \in Seq(Call), NEW k \in Call, NEW m \in Call
  PROVE  <<k, m>> \o S = <<k>> \o (<<m>> \o S)
<1>. DEFINE a == <<k>>
            b == <<m>>
            ab == <<k, m>>
<1>1. a \in Seq(Call) /\ b \in Seq(Call) /\ ab \in Seq(Call)
  OBVIOUS
<1>2. a \o b \in Seq(Call) /\ Len(a \o b) = 2 /\ (a \o b)[1] = k /\ (a \o b)[2] = m
  BY <1>1
<1>3. Len(ab) = 2 /\ ab[1] = k /\ ab[2] = m
  OBVIOUS
<1>. HIDE DEF a, b, ab
<1>4. \A i \in 1..Len(a \o b) : (a \o b)[i] = ab[i]
  <2>1. \A i \in 1..2 : i = 1 \/ i = 2
    OBVIOUS
  <2>. QED BY <1>2, <1>3, <2>1
<1>5. a \o b = ab
  BY <1>1, <1>2, <1>3, <1>4, SeqEqual
<1>6. (a \o b) \o S = a \o (b \o S)
  BY <1>1, ConcatAssociative
<1>. QED BY <1>5, <1>6 DEF a, b, ab


\* A step puts calls that are as in L on top of S.
Adds(S, L) ==
  /\ stack' \in Seq(Call)
  /\ CallsOf(S) \subseteq InProgress'
  /\ \A k \in InProgress' : k \in CallsOf(S) \/ (k.pc \in L /\ CallOK(k)')
  /\ \A k \in Below' : k \in CallsOf(S) \/ k.pc \in L \ {"resume"}
  /\ StackOK'

LEMMA AddsNone ==
  ASSUME NEW S \in Seq(Call), stack' = S, Stacked(futures', flags', S), NEW L
  PROVE  Adds(S, L)
BY StackIs DEF Adds

LEMMA AddsOne ==
  ASSUME NEW S \in Seq(Call), NEW k \in Call, stack' = <<k>> \o S, Stacked(futures', flags', S),
         Supported(futures', flags', k, CallsOf(S)), CallOK(k)', NEW L, k.pc \in L
  PROVE  Adds(S, L) /\ Top' = k /\ k \in InProgress' /\ stack' # <<>>
BY StackPut DEF Adds

\* The call k between what was added and S was added as well.
LEMMA AddsMore ==
  ASSUME NEW S \in Seq(Call), NEW k \in Call, NEW T, T = <<k>> \o S, NEW L, Adds(T, L),
         CallOK(k)', k.pc \in L, k.pc # "resume"
  PROVE  Adds(S, L) /\ k \in InProgress'
<1>1. CallsOf(T) = {k} \cup CallsOf(S)
  BY Put
<1>. QED BY <1>1 DEF Adds

LEMMA AddsWider ==
  ASSUME NEW S, NEW L, NEW M, L \subseteq M, Adds(S, L)
  PROVE  Adds(S, M)
BY DEF Adds

LEMMA Killing ==
  ASSUME IInv, UNCHANGED frameVars, ~At("await_resume"), NEW S \in Seq(Call), NEW d \in Co,
         NEW target \in CANCLE..TIMEOUT, NEW force, force => Suspended(d), Alive(d),
         KillTask(d, target, force, S), Stacked(futures', flags', S),
         \/ Main \in futures'[d]
         \/ \E m \in CallsOf(S) : \/ m.pc = "forget" /\ d \in m.todo
                                  \/ m.pc = "body" /\ m.co \in futures'[d]
  PROVE  /\ Adds(S, {"resume", "unlock"}) /\ StatusGrows
         /\ status' \in [Co -> CREATED..TIMEOUT] /\ locked' \in [Co -> BOOLEAN]
         /\ \A c \in Co : Suspended(c) /\ attached[c] /\ Exiting(c)' /\ ~Exiting(c) => TopIs("resume", c)'
<1>1. status \in [Co -> CREATED..TIMEOUT] /\ locked \in [Co -> BOOLEAN]
  BY DEF IInv, TypeOK, TaskTypeOK, PromiseTypeOK
<1>2. CASE ~CanKill(d)
  <2>1. stack' = S /\ status' = status /\ locked' = locked
    BY <1>2 DEF KillTask
  <2>2. Adds(S, {"resume", "unlock"})
    BY <2>1, AddsNone
  <2>. QED BY <2>1, <2>2, <1>1 DEF StatusGrows, Exiting
<1>3. CASE CanKill(d)
  <2>1. status' = [status EXCEPT ![d] = target] /\ ~Exiting(d)
    BY <1>3 DEF KillTask, CanKill
  <2>2. /\ status' \in [Co -> CREATED..TIMEOUT] /\ status'[d] = target
        /\ \A c \in Co \ {d} : status'[c] = status[c]
        /\ target # CREATED
    <3>1. target \in CREATED..TIMEOUT /\ target # CREATED
      BY DEF CREATED, CANCLE, TIMEOUT
    <3>. QED BY <2>1, <1>1, <3>1
  <2>3. StatusGrows
    BY <2>1, <2>2 DEF StatusGrows
  <2>4. ASSUME NEW c \in Co, Exiting(c)', ~Exiting(c) PROVE c = d
    BY <2>2, <2>4 DEF Exiting
  <2>5. frame' = frame /\ flags' = flags /\ attached' = attached
    BY DEF frameVars
  <2>6. CASE KillResumes(d, force)
    <3>. DEFINE r == NewCall("resume", d)
                u == NewCall("unlock", d)
    <3>1. stack' = <<r, u>> \o S /\ locked' = [locked EXCEPT ![d] = TRUE]
      BY <1>3, <2>6 DEF KillTask
    <3>2. /\ r \in Call /\ r.pc = "resume" /\ r.co = d /\ r.todo = {}
          /\ u \in Call /\ u.pc = "unlock" /\ u.co = d /\ u.todo = {}
      <4>1. "resume" \in Label /\ "unlock" \in Label /\ d \in Co \cup Event \cup {Null}
        BY DEF Label
      <4>. QED BY <4>1, Fresh
    <3>. HIDE DEF r, u
    <3>3. stack' = <<r>> \o (<<u>> \o S)
      BY <3>1, <3>2, TwoCalls
    <3>4. Suspended(d)
      <4>1. waiting[d] = Null /\ (attached[d] <=> "internal_waiting" \in flags[d])
            /\ (attached[d] => Suspended(d) \/ TopIs("await_resume", d))
        BY DEF IInv, AwaitInv
      <4>. QED BY <4>1, <2>6 DEF KillResumes, IsWaiting, TopIs
    <3>5. CallOK(r)'
      BY <3>2, <3>4, <2>2, <2>5 DEF CallOK, OfTask, Runs, Suspended
    <3>6. CallOK(u)'
      BY <3>2, <2>5 DEF CallOK, OfTask, Runs, Alive
    <3>7. Supported(futures', flags', u, CallsOf(S))
      BY <3>2 DEF Supported, Runs
    <3>8. Stacked(futures', flags', <<u>> \o S) /\ <<u>> \o S \in Seq(Call)
      BY <3>2, <3>7, StackedPut, Put
    <3>9. Supported(futures', flags', r, CallsOf(<<u>> \o S))
      BY <3>2, Unsupported
    <3>10. Adds(<<u>> \o S, {"resume", "unlock"}) /\ Top' = r /\ stack' # <<>>
      BY <3>2, <3>3, <3>5, <3>8, <3>9, AddsOne
    <3>11. Adds(S, {"resume", "unlock"})
      BY <3>2, <3>6, <3>10, AddsMore
    <3>12. TopIs("resume", d)'
      BY <3>2, <3>10 DEF TopIs, At
    <3>13. locked' \in [Co -> BOOLEAN]
      BY <3>1, <1>1
    <3>. QED BY <3>11, <3>12, <3>13, <2>2, <2>3, <2>4
  <2>7. CASE ~KillResumes(d, force)
    <3>1. stack' = S /\ locked' = locked
      BY <1>3, <2>7 DEF KillTask
    <3>2. Adds(S, {"resume", "unlock"})
      BY <3>1, AddsNone
    <3>3. ~(Suspended(d) /\ attached[d])
      <4>1. attached[d] => "internal_waiting" \in flags[d]
        BY DEF IInv, AwaitInv
      <4>2. Suspended(d) => flags[d] \cap {"destroying", "returned"} = {}
        BY DEF IInv, FrameInv, Suspended
      <4>. QED BY <4>1, <4>2, <2>7 DEF KillResumes, IsWaiting
    <3>. QED BY <3>1, <3>2, <3>3, <1>1, <2>2, <2>3, <2>4
  <2>. QED BY <2>6, <2>7
<1>. QED BY <1>2, <1>3

LEMMA Starting ==
  ASSUME IInv, UNCHANGED frameVars, NEW S \in Seq(Call), NEW d \in Co, Alive(d),
         StartTask(d, S), Stacked(futures', flags', S)
  PROVE  /\ Adds(S, {"resume"}) /\ StatusGrows /\ status' \in [Co -> CREATED..TIMEOUT]
         /\ \A c \in Co : Exiting(c)' => Exiting(c)
<1>1. status \in [Co -> CREATED..TIMEOUT]
  BY DEF IInv, TypeOK, TaskTypeOK, PromiseTypeOK
<1>2. CASE ~CanStart(d)
  <2>1. stack' = S /\ status' = status
    BY <1>2 DEF StartTask
  <2>2. Adds(S, {"resume"})
    BY <2>1, AddsNone
  <2>. QED BY <2>1, <2>2, <1>1 DEF StatusGrows, Exiting
<1>3. CASE CanStart(d)
  <2>. DEFINE r == NewCall("resume", d)
  <2>1. stack' = <<r>> \o S /\ status' = [status EXCEPT ![d] = RUNNING] /\ status[d] = CREATED
    BY <1>3 DEF StartTask, CanStart
  <2>2. r \in Call /\ r.pc = "resume" /\ r.co = d /\ r.todo = {}
    <3>1. "resume" \in Label /\ d \in Co \cup Event \cup {Null}
      BY DEF Label
    <3>. QED BY <3>1, Fresh
  <2>. HIDE DEF r
  <2>3. /\ status' \in [Co -> CREATED..TIMEOUT] /\ status'[d] = RUNNING
        /\ \A c \in Co \ {d} : status'[c] = status[c]
    <3>1. RUNNING \in CREATED..TIMEOUT
      BY DEF CREATED, RUNNING, TIMEOUT
    <3>. QED BY <2>1, <1>1, <3>1
  <2>4. StatusGrows /\ \A c \in Co : Exiting(c)' => Exiting(c)
    BY <2>1, <2>3 DEF StatusGrows, Exiting, RUNNING, CREATED, DONE
  <2>5. Suspended(d) /\ frame' = frame
    BY <2>1 DEF IInv, FrameInv, Alive, Suspended, frameVars
  <2>6. CallOK(r)'
    <3>1. RUNNING # CREATED
      BY DEF RUNNING, CREATED
    <3>. QED BY <3>1, <2>2, <2>3, <2>5 DEF CallOK, OfTask, Runs, Suspended
  <2>7. Supported(futures', flags', r, CallsOf(S))
    BY <2>2, Unsupported
  <2>8. Adds(S, {"resume"})
    BY <2>1, <2>2, <2>6, <2>7, AddsOne
  <2>. QED BY <2>3, <2>4, <2>8
<1>. QED BY <1>2, <1>3

LEMMA LettingGo ==
  ASSUME Contract, IInv, UNCHANGED frameVars, NEW S \in Seq(Call), NEW d \in Co, NEW left, Alive(d),
         LetGo(d, left, S), Stacked(futures', flags', S),
         \A m \in CallsOf(S) : Runs(m) => frame[m.co] = "active"
  PROVE  /\ Adds(S, {"drop"}) /\ StatusGrows /\ status' \in [Co -> CREATED..TIMEOUT]
         /\ left = 0 => \E k \in InProgress' : k.pc = "drop" /\ k.co = d
         /\ \A c \in Co : Exiting(c)' /\ ~Exiting(c) => left = 0 /\ c = d
<1>1. status \in [Co -> CREATED..TIMEOUT]
  BY DEF IInv, TypeOK, TaskTypeOK, PromiseTypeOK
<1>2. CASE left # 0
  <2>1. stack' = S /\ status' = status
    BY <1>2 DEF LetGo
  <2>2. Adds(S, {"drop"})
    BY <2>1, AddsNone
  <2>. QED BY <2>1, <2>2, <1>1, <1>2 DEF StatusGrows, Exiting
<1>3. CASE left = 0
  <2>. DEFINE k == NewCall("drop", d)
  <2>1. stack' = <<k>> \o S /\ status' = [status EXCEPT ![d] = ForcedStatus(d)] /\ ~Running(d)
    BY <1>3 DEF LetGo, Contract
  <2>2. k \in Call /\ k.pc = "drop" /\ k.co = d /\ k.todo = {}
    <3>1. "drop" \in Label /\ d \in Co \cup Event \cup {Null}
      BY DEF Label
    <3>. QED BY <3>1, Fresh
  <2>. HIDE DEF k
  <2>3. /\ ForcedStatus(d) \in CREATED..TIMEOUT /\ ForcedStatus(d) >= DONE /\ ForcedStatus(d) # CREATED
        /\ Exiting(d) => ForcedStatus(d) = status[d]
    <3>1. status[d] \in CREATED..TIMEOUT
      BY <1>1
    <3>. QED BY <3>1 DEF ForcedStatus, Exiting, CREATED, DONE, KILLED, TIMEOUT
  <2>4. /\ status' \in [Co -> CREATED..TIMEOUT] /\ status'[d] = ForcedStatus(d)
        /\ \A c \in Co \ {d} : status'[c] = status[c]
    BY <2>1, <2>3, <1>1
  <2>5. StatusGrows /\ Exiting(d)' /\ \A c \in Co : Exiting(c)' /\ ~Exiting(c) => c = d
    BY <2>3, <2>4 DEF StatusGrows, Exiting
  <2>6. frame' = frame /\ flags' = flags
    BY DEF frameVars
  <2>7. CallOK(k)'
    BY <2>2, <2>5, <2>6 DEF CallOK, OfTask, Runs, Alive
  <2>8. Supported(futures', flags', k, CallsOf(S))
    <3>1. "returned" \notin flags'[d] => frame[d] # "active"
      BY <2>1, <2>6 DEF Running
    <3>. QED BY <3>1, <2>2 DEF Supported, Runs
  <2>9. Adds(S, {"drop"}) /\ k \in InProgress'
    BY <2>1, <2>2, <2>7, <2>8, AddsOne
  <2>. QED BY <2>2, <2>4, <2>5, <2>9, <1>3
<1>. QED BY <1>2, <1>3

\* Who is to be woken is woken, unless it does not wait any more.
WakesStay == \A c \in Co, k \in InProgress :
  Suspended(c) /\ k.pc = "wake" /\ c \in k.todo =>
    TopIs("resume", c)' \/ \E m \in InProgress' : m.pc = "wake" /\ m.co = k.co /\ c \in m.todo

LEMMA Quiet ==
  ASSUME IInv, UNCHANGED frameVars, TypeOK', StatusGrows, ~At("resume"), ~At("await_resume"),
         NEW S \in {stack, Rest}, NEW L, "await_resume" \notin L, Adds(S, L),
         S = stack \/ Top.pc \notin {"body", "locals", "final"},
         \A k \in CallsOf(S) : k.pc = "reset" =>
            \A d \in k.todo : d \notin Managed' /\ (bound'[d] \/ Exiting(d)'),
         WakesStay, \A d \in Co : futures'[d] # {} => futures[d] # {},
         KillCover', HeldInv', TableInv'
  PROVE  IInv'
<1>1. /\ frame' = frame /\ flags' = flags /\ awaits' = awaits /\ attached' = attached
      /\ waiting' = waiting /\ callers' = callers /\ value' = value /\ self' = self /\ kept' = kept
  BY DEF frameVars
<1>2. InProgress = CallsOf(stack) /\ Below = CallsOf(Rest)
  BY DEF InProgress, Below
<1>13. \A k \in InProgress : (k = Top /\ stack # <<>>) \/ k \in Below
  BY StackNow
<1>14. \A k \in InProgress : k \in Call /\ CallOK(k)
  BY StackNow
<1>15. stack # <<>> => Top.pc \notin {"resume", "await_resume"}
  BY DEF At
<1>16. \A k \in InProgress : k.pc \notin {"resume", "await_resume"}
  <2>1. \A k \in Below : k.pc \notin {"resume", "await_resume"}
    BY StackNow
  <2>. QED BY <1>13, <1>15, <2>1
<1>17. CallsOf(S) \subseteq InProgress
  <2>1. Below \subseteq InProgress
    BY StackNow
  <2>. QED BY <1>2, <2>1
<1>18. ASSUME NEW k \in InProgress, k.pc \in {"body", "locals", "await_resume", "final"}
       PROVE  k \in CallsOf(S)
  BY <1>2, <1>13, <1>15, <1>18
<1>3. CallsOK'
  <2>1. SUFFICES ASSUME NEW k \in InProgress' PROVE CallOK(k)'
    BY DEF CallsOK
  <2>2. ASSUME k \in CallsOf(S) PROVE CallOK(k)'
    <3>1. k \in Call /\ CallOK(k) /\ k.pc # "resume"
      BY <1>14, <1>16, <1>17, <2>2
    <3>. QED BY <2>2, <3>1, CallStays
  <2>. QED BY <2>1, <2>2 DEF Adds
<1>4. BelowOK'
  BY <1>16, <1>17 DEF BelowOK, Adds
<1>5. StackOK'
  BY DEF Adds
<1>6. \A c \in Co : /\ Exiting(c) => Exiting(c)'
                    /\ status'[c] = CREATED => status[c] = CREATED
  BY Grown
<1>7. \A k \in InProgress : k.pc \in {"body", "locals", "await_resume", "final"} => k \in InProgress'
  BY <1>18 DEF Adds
<1>8. FrameInv'
  <2>1. SUFFICES ASSUME NEW c \in Co PROVE FrameInv!(c)'
    BY DEF FrameInv
  <2>2. FrameInv!(c)
    BY DEF IInv, FrameInv
  <2>3. frame[c] = "active" => \E k \in InProgress' : Runs(k) /\ k.co = c
    BY <2>2, <1>7 DEF Runs
  <2>. QED BY <2>2, <2>3, <1>1, <1>6 DEF Alive
<1>9. \A c \in Co : ~TopIs("await_resume", c) /\ ~TopIs("resume", c)
  BY DEF TopIs
<1>10. AwaitInv'
  <2>1. \A c \in Co : Suspended(c)' = Suspended(c) /\ Alive(c)' = Alive(c)
    BY <1>1 DEF Suspended, Alive
  <2>. QED BY <1>1, <1>9, <2>1 DEF IInv, AwaitInv
<1>11. CallersInv'
  <2>1. \A c \in Co : Alive(c)' = Alive(c) /\ Finished(c)' = Finished(c)
    BY <1>1 DEF Alive, Finished
  <2>2. \A d \in Co : callers[d] # {} =>
       Alive(d)' /\ (Finished(d)' => \E k \in InProgress' : k.pc = "final" /\ k.co = d)
    BY <2>1, <1>7 DEF IInv, CallersInv
  <2>. QED BY <1>1, <2>2 DEF IInv, CallersInv
<1>12. Reg'
  <2>1. SUFFICES ASSUME NEW c \in Co, Suspended(c), attached[c]
        PROVE  \/ c \in callers[awaits[c]]
               \/ \E k \in InProgress' : k.pc = "wake" /\ k.co = awaits[c] /\ c \in k.todo
               \/ TopIs("resume", c)'
    BY <1>1 DEF Reg, Suspended
  <2>2. c \in callers[awaits[c]] \/ \E k \in InProgress : k.pc = "wake" /\ k.co = awaits[c] /\ c \in k.todo
    BY <2>1, <1>9 DEF IInv, Reg
  <2>3. CASE \E k \in InProgress : k.pc = "wake" /\ k.co = awaits[c] /\ c \in k.todo
    BY <2>1, <2>3 DEF WakesStay
  <2>. QED BY <2>2, <2>3
<1>. QED BY <1>3, <1>4, <1>5, <1>8, <1>10, <1>11, <1>12 DEF IInv

LEMMA CoverStays ==
  ASSUME IInv, UNCHANGED frameVars, StatusGrows, ~At("resume"),
         \A c \in Co : Suspended(c) /\ attached[c] /\ Exiting(c)' /\ ~Exiting(c) =>
           TopIs("resume", c)' \/ \E k \in InProgress' : k.pc = "drop" /\ k.co = c,
         \A k \in InProgress : k.pc = "drop" /\ Suspended(k.co) => k \in InProgress'
  PROVE  KillCover'
<1>1. frame' = frame /\ attached' = attached
  BY DEF frameVars
<1>2. SUFFICES ASSUME NEW c \in Co, Exiting(c)', Suspended(c), attached[c]
      PROVE  TopIs("resume", c)' \/ \E k \in InProgress' : k.pc = "drop" /\ k.co = c
  BY <1>1 DEF KillCover, Suspended
<1>3. CASE Exiting(c)
  BY <1>2, <1>3 DEF IInv, KillCover, TopIs
<1>. QED BY <1>2, <1>3

LEMMA HeldStays ==
  ASSUME IInv, \A d \in Co : Alive(d)' => Alive(d), \A d \in Co : Held(d) => Held(d)',
         \A d \in Co : Alive(d)' /\ futures[d] # {} /\ futures'[d] = {} => Held(d)'
  PROVE  HeldInv'
BY DEF IInv, HeldInv

LEMMA HeldCalls ==
  ASSUME \A k \in InProgress : k \in InProgress' \/ k.pc \notin {"forget", "drop", "release", "locals"}
                                \/ (k.pc = "forget" /\ k.todo = {})
  PROVE  \A d \in Co : Held(d) => Held(d)'
BY DEF Held

LEMMA TableStays ==
  ASSUME IInv, UNCHANGED <<timer, bound, alive>>,
         \A d \in Co : (Table \in futures'[d] <=> Table \in futures[d]) /\ (Finished(d)' => Finished(d)),
         \A k \in InProgress : k.pc = "unbind" => k \in InProgress'
  PROVE  TableInv' /\ Managed' = Managed
<1>1. Managed' = Managed
  BY DEF Managed
<1>2. \A d \in Managed : d \in Co
  BY DEF Managed
<1>. QED BY <1>1, <1>2 DEF IInv, TableInv

\* What reset() has taken out stays out.
LEMMA ResetsStay ==
  ASSUME IInv, StatusGrows, UNCHANGED bound, \A d \in Co : Table \in futures'[d] => Table \in futures[d]
  PROVE  \A k \in InProgress : k.pc = "reset" =>
            \A d \in k.todo : d \notin Managed' /\ (bound'[d] \/ Exiting(d)')
<1>1. SUFFICES ASSUME NEW k \in InProgress, k.pc = "reset", NEW d \in k.todo
      PROVE  d \notin Managed' /\ (bound'[d] \/ Exiting(d)')
  OBVIOUS
<1>2. d \in Co /\ d \notin Managed /\ (bound[d] \/ Exiting(d))
  BY <1>1, StackNow DEF CallOK, Call
<1>. QED BY <1>2, Grown DEF Managed

-----------------------------------------------------------------------------
(* Futures that go. *)

LEMMA QuietTypes ==
  ASSUME IInv, UNCHANGED frameVars, stack' \in Seq(Call), status' \in [Co -> CREATED..TIMEOUT],
         futures' \in [Co -> SUBSET (Co \cup {Main, Table})], locked' \in [Co -> BOOLEAN],
         bound' \in [Co -> BOOLEAN], awaited' \in [Co -> 0..MaxAwait], ops' \in 0..MaxOp,
         timer' \in [Co -> Nat], last_tick' \in Nat, ticking' \in BOOLEAN, alive' \in BOOLEAN
  PROVE  TypeOK'
BY DEF IInv, TypeOK, TaskTypeOK, PromiseTypeOK, GeneratorTypeOK, frameVars

LEMMA Types ==
  ASSUME IInv
  PROVE  /\ status \in [Co -> CREATED..TIMEOUT]
         /\ futures \in [Co -> SUBSET (Co \cup {Main, Table})] /\ locked \in [Co -> BOOLEAN]
         /\ bound \in [Co -> BOOLEAN] /\ awaited \in [Co -> 0..MaxAwait] /\ ops \in 0..MaxOp
         /\ timer \in [Co -> Nat] /\ last_tick \in Nat /\ ticking \in BOOLEAN /\ alive \in BOOLEAN
BY DEF IInv, TypeOK, TaskTypeOK, PromiseTypeOK

LEMMA OpFacts ==
  ASSUME IInv, Op
  PROVE  /\ ops' \in 0..MaxOp /\ awaited' = awaited
         /\ ~At("resume") /\ ~At("await_resume")
         /\ InMain => Client = Main /\ stack = <<>>
         /\ ~InMain => /\ stack # <<>> /\ Top.pc = "body" /\ Client = Top.co /\ Top.co \in Co
                       /\ Top \in InProgress /\ CallOK(Top)
<1>1. ops' \in 0..MaxOp
  BY Types, TaskFutureAssumption DEF Op
<1>2. InMain => stack = <<>> /\ Client = Main
  BY DEF InMain, Client
<1>3. ASSUME ~InMain
      PROVE  /\ stack # <<>> /\ Top.pc = "body" /\ Client = Top.co /\ Top.co \in Co
             /\ Top \in InProgress /\ CallOK(Top)
  <2>1. stack # <<>> /\ Top.pc = "body" /\ Client = Top.co
    BY <1>3 DEF Op, InClient, InMain, At, Client
  <2>. QED BY <2>1, StackNow DEF CallOK, OfTask
<1>. QED BY <1>1, <1>2, <1>3 DEF Op, At, InMain

LEMMA Reached ==
  ASSUME IInv, NEW d \in Co, futures[d] # {}
  PROVE  Alive(d)
BY DEF IInv, FrameInv

\* A step of a task that leaves its manager alone.
LEMMA QuietTask ==
  ASSUME IInv, UNCHANGED frameVars, UNCHANGED <<managerVars, bound>>,
         status' \in [Co -> CREATED..TIMEOUT],
         futures' \in [Co -> SUBSET (Co \cup {Main, Table})], locked' \in [Co -> BOOLEAN],
         awaited' \in [Co -> 0..MaxAwait], ops' \in 0..MaxOp,
         StatusGrows, ~At("resume"), ~At("await_resume"),
         NEW S \in {stack, Rest}, NEW L, "await_resume" \notin L, Adds(S, L),
         S = stack \/ Top.pc \notin {"body", "locals", "final", "unbind"},
         \A d \in Co : Table \in futures'[d] <=> Table \in futures[d],
         WakesStay, \A d \in Co : futures'[d] # {} => futures[d] # {},
         KillCover', HeldInv'
  PROVE  IInv'
<1>1. TypeOK'
  <2>1. stack' \in Seq(Call)
    BY DEF Adds
  <2>. QED BY <2>1, Types, QuietTypes DEF managerVars
<1>2. \A k \in InProgress : k.pc = "unbind" => k \in InProgress'
  <2>1. SUFFICES ASSUME NEW k \in InProgress, k.pc = "unbind" PROVE k \in CallsOf(S)
    BY DEF Adds
  <2>. QED BY <2>1, StackNow DEF InProgress, Below
<1>3. TableInv'
  <2>1. \A d \in Co : Finished(d)' => Finished(d)
    BY DEF Finished, frameVars
  <2>. QED BY <1>2, <2>1, TableStays DEF managerVars
<1>4. \A k \in CallsOf(S) : k.pc = "reset" =>
            \A d \in k.todo : d \notin Managed' /\ (bound'[d] \/ Exiting(d)')
  <2>1. CallsOf(S) \subseteq InProgress
    BY StackNow DEF InProgress, Below
  <2>. QED BY <2>1, ResetsStay
<1>. QED BY <1>1, <1>3, <1>4, Quiet

-----------------------------------------------------------------------------
(* Futures. *)

LEMMA CopyOK ==
  ASSUME IInv, UNCHANGED managerVars, NEW d \in Co, Copy(d)
  PROVE  IInv'
<1>1. /\ UNCHANGED frameVars /\ status' = status /\ stack' = stack /\ locked' = locked /\ bound' = bound
      /\ futures' = [futures EXCEPT ![d] = @ \cup {Client}] /\ ~InMain /\ Op /\ futures[d] # {}
  BY DEF Copy, frameVars, promiseVars
<1>2. Client \in Co /\ awaited' = awaited /\ ops' \in 0..MaxOp /\ ~At("resume") /\ ~At("await_resume")
  BY <1>1, OpFacts
<1>3. /\ futures' \in [Co -> SUBSET (Co \cup {Main, Table})]
      /\ futures'[d] = futures[d] \cup {Client} /\ \A c \in Co \ {d} : futures'[c] = futures[c]
  BY <1>1, <1>2, Types
<1>4. StatusGrows
  BY <1>1 DEF StatusGrows
<1>5. Adds(stack, {"resume"}) /\ InProgress' = InProgress
  <2>1. \A c \in Co : futures[c] \ {Table} \subseteq futures'[c]
    BY <1>3
  <2>2. stack \in Seq(Call) /\ Stacked(futures', flags', stack)
    <3>1. UNCHANGED flags
      BY <1>1 DEF frameVars
    <3>. QED BY <2>1, <3>1, BaseStays
  <2>. QED BY <2>2, <1>1, AddsNone DEF InProgress
<1>6. WakesStay
  BY <1>5 DEF WakesStay
<1>7. KillCover'
  BY <1>1, <1>2, <1>4, <1>5, CoverStays DEF Exiting
<1>8. HeldInv'
  <2>1. \A c \in Co : Alive(c)' => Alive(c)
    BY <1>1 DEF Alive, frameVars
  <2>2. \A c \in Co : Held(c) => Held(c)'
    BY <1>5, HeldCalls
  <2>3. \A c \in Co : futures[c] # {} => futures'[c] # {}
    BY <1>3
  <2>. QED BY <2>1, <2>2, <2>3, HeldStays
<1>9. \A c \in Co : /\ Table \in futures'[c] <=> Table \in futures[c]
                    /\ futures'[c] # {} => futures[c] # {}
  BY <1>1, <1>2, <1>3, Names
<1>10. "await_resume" \notin {"resume"}
  OBVIOUS
<1>. QED BY <1>1, <1>2, <1>3, <1>4, <1>5, <1>6, <1>7, <1>8, <1>9, <1>10, Types, QuietTask

LEMMA CountOne ==
  ASSUME NEW d, NEW c, futures[d] = {c}, FutureCount(d) - 1 # 0
  PROVE  \E k \in InProgress : k.pc = "forget" /\ d \in k.todo
<1>. DEFINE I == {i \in DOMAIN stack : stack[i].pc = "forget" /\ d \in stack[i].todo}
<1>1. Cardinality({c}) = 1
  BY FS_Singleton
<1>2. I # {}
  <2>1. SUFFICES ASSUME I = {} PROVE FALSE
    OBVIOUS
  <2>2. Cardinality(I) = 0
    BY <2>1, FS_EmptySet
  <2>. QED BY <1>1, <2>2 DEF FutureCount
<1>3. PICK i \in I : TRUE
  BY <1>2
<1>. QED BY <1>3 DEF InProgress, CallsOf

LEMMA CountTwo ==
  ASSUME IInv, NEW d, At("forget"), d \in Top.todo, futures[d] = {}, FutureCount(d) - 1 # 0
  PROVE  \E k \in Below : k.pc = "forget" /\ d \in k.todo
<1>. DEFINE I == {i \in DOMAIN stack : stack[i].pc = "forget" /\ d \in stack[i].todo}
<1>1. /\ stack \in Seq(Call) /\ stack # <<>> /\ stack = <<Top>> \o Rest /\ Top \in Call
      /\ Rest \in Seq(Call)
  BY StackNow DEF At
<1>2. Len(stack) = Len(Rest) + 1 /\ stack[1] = Top /\ \A i \in 1..Len(Rest) : stack[i + 1] = Rest[i]
  BY <1>1, Put
<1>3. 1 \in I
  BY <1>1, <1>2 DEF At
<1>4. I # {1}
  <2>1. SUFFICES ASSUME I = {1} PROVE FALSE
    OBVIOUS
  <2>2. Cardinality({1}) = 1
    BY FS_Singleton
  <2>3. Cardinality({}) = 0
    BY FS_EmptySet
  <2>. QED BY <2>1, <2>2, <2>3 DEF FutureCount
<1>5. PICK i \in I : i # 1
  BY <1>3, <1>4
<1>6. i - 1 \in 1..Len(Rest) /\ (i - 1) + 1 = i
  BY <1>1, <1>2, <1>5
<1>7. Rest[i - 1] = stack[i]
  BY <1>2, <1>6
<1>. QED BY <1>5, <1>6, <1>7 DEF Below, CallsOf

\* A coroutine lets go of a future of its own.
LEMMA OwnStays ==
  ASSUME IInv, UNCHANGED flags, stack # <<>>, Top.pc \in {"body", "locals"}, NEW d \in Co,
         futures' = [futures EXCEPT ![d] = @ \ {Top.co}]
  PROVE  Stacked(futures', flags', stack)
<1>1. /\ Rest \in Seq(Call) /\ Top \in Call /\ stack = <<Top>> \o Rest
      /\ Supported(futures, flags, Top, Below) /\ Stacked(futures, flags, Rest)
      /\ CallOK(Top) /\ Below \subseteq InProgress
  BY StackNow
<1>2. Top.co \in Co /\ futures \in [Co -> SUBSET (Co \cup {Main, Table})]
  BY <1>1, Types DEF CallOK, OfTask
<1>3. \A c \in Co : \A x \in futures[c] : x # Top.co => x \in futures'[c]
  BY <1>2
<1>4. ASSUME NEW m \in CallsOf(Rest), NEW c \in Co, m.pc = "body", m.co \in futures[c]
      PROVE  m.co \in futures'[c]
  <2>1. m.co # Top.co
    BY <1>1, <1>4 DEF Supported, Runs, Below
  <2>. QED BY <2>1, <1>3, <1>4
<1>5. \A m \in CallsOf(Rest) : m.pc \in OfTask => m.co \in Co
  BY <1>1, StackNow DEF CallOK, Below
<1>6. \A c \in Co : Main \in futures[c] => Main \in futures'[c]
  BY <1>2, <1>3, Names
<1>7. \A c \in Co : "returned" \in flags[c] => "returned" \in flags'[c]
  OBVIOUS
<1>8. Stacked(futures', flags', Rest)
  BY <1>1, <1>4, <1>5, <1>6, <1>7, StackedKept
<1>9. Supported(futures', flags', Top, CallsOf(Rest))
  BY <1>1 DEF Supported, Runs, Below
<1>. QED BY <1>1, <1>8, <1>9, StackedPut

\* A future of d goes that its holder names.
LEMMA LetsGo ==
  ASSUME Contract, IInv, UNCHANGED frameVars, UNCHANGED <<managerVars, bound, locked>>,
         awaited' \in [Co -> 0..MaxAwait], ops' \in 0..MaxOp,
         ~At("resume"), ~At("await_resume"), NEW d \in Co, NEW c \in Co \cup {Main},
         c \in futures[d], futures' = [futures EXCEPT ![d] = @ \ {c}],
         Stacked(futures', flags', stack), LetGo(d, FutureCount(d) - 1, stack)
  PROVE  IInv'
<1>1. /\ futures' \in [Co -> SUBSET (Co \cup {Main, Table})]
      /\ futures'[d] = futures[d] \ {c} /\ \A x \in Co \ {d} : futures'[x] = futures[x]
  BY Types
<1>2. stack \in Seq(Call) /\ CallsOf(stack) = InProgress
      /\ \A m \in InProgress : Runs(m) => frame[m.co] = "active"
  BY StackNow DEF InProgress, CallOK
<1>. DEFINE left == FutureCount(d) - 1
<1>3. /\ Adds(stack, {"drop"}) /\ StatusGrows /\ status' \in [Co -> CREATED..TIMEOUT]
      /\ left = 0 => \E k \in InProgress' : k.pc = "drop" /\ k.co = d
      /\ \A x \in Co : Exiting(x)' /\ ~Exiting(x) => left = 0 /\ x = d
  <2>. HIDE DEF left
  <2>1. LetGo(d, left, stack)
    BY DEF left
  <2>2. Alive(d)
    BY Reached
  <2>. QED BY <1>2, <2>1, <2>2, LettingGo
<1>4. InProgress \subseteq InProgress'
  BY <1>2, <1>3 DEF Adds
<1>5. WakesStay
  BY <1>4 DEF WakesStay
<1>6. KillCover'
  BY <1>3, <1>4, CoverStays
<1>7. HeldInv'
  <2>1. \A x \in Co : Alive(x)' => Alive(x)
    BY DEF Alive, frameVars
  <2>2. \A x \in Co : Held(x) => Held(x)'
    BY <1>4, HeldCalls
  <2>3. ASSUME NEW x \in Co, futures[x] # {}, futures'[x] = {} PROVE Held(x)'
    <3>1. x = d /\ futures[d] = {c}
      BY <2>3, <1>1
    <3>2. CASE left = 0
      BY <3>1, <3>2, <1>3 DEF Held
    <3>3. CASE left # 0
      <4>1. \E k \in InProgress : k.pc = "forget" /\ d \in k.todo
        BY <3>1, <3>3, CountOne
      <4>. QED BY <3>1, <4>1, <1>4 DEF Held
    <3>. QED BY <3>2, <3>3
  <2>. QED BY <2>1, <2>2, <2>3, HeldStays
<1>8. \A x \in Co : /\ Table \in futures'[x] <=> Table \in futures[x]
                    /\ futures'[x] # {} => futures[x] # {}
  BY <1>1, Names
<1>9. "await_resume" \notin {"drop"}
  OBVIOUS
<1>. QED BY <1>1, <1>3, <1>5, <1>6, <1>7, <1>8, <1>9, Types, QuietTask

LEMMA DropOK ==
  ASSUME Contract, IInv, UNCHANGED managerVars, NEW d \in Co, Drop(d)
  PROVE  IInv'
<1>1. /\ UNCHANGED frameVars /\ locked' = locked /\ bound' = bound
      /\ futures' = [futures EXCEPT ![d] = @ \ {Client}] /\ Op /\ Client \in futures[d]
      /\ LetGo(d, FutureCount(d) - 1, stack)
  BY DEF Drop, frameVars, promiseVars
<1>2. /\ Client \in Co \cup {Main} /\ ops' \in 0..MaxOp /\ awaited' \in [Co -> 0..MaxAwait]
      /\ ~At("resume") /\ ~At("await_resume")
  BY <1>1, OpFacts, Types
<1>3. Stacked(futures', flags', stack)
  <2>1. CASE InMain
    <3>1. stack = <<>>
      BY <2>1 DEF InMain
    <3>. QED BY <3>1 DEF Stacked
  <2>2. CASE ~InMain
    BY <1>1, <2>2, OpFacts, OwnStays DEF frameVars
  <2>. QED BY <2>1, <2>2
<1>. QED BY <1>1, <1>2, <1>3, LetsGo

LEMMA DropLocalOK ==
  ASSUME Contract, IInv, UNCHANGED managerVars, NEW c \in Co, DropLocal(c)
  PROVE  IInv'
<1>1. /\ UNCHANGED frameVars /\ locked' = locked /\ bound' = bound /\ awaited' = awaited /\ ops' = ops
      /\ At("locals") /\ Top.co = c
  BY DEF DropLocal, frameVars, boundVars
<1>2. PICK d \in Co : /\ c \in futures[d] /\ futures' = [futures EXCEPT ![d] = @ \ {c}]
                      /\ LetGo(d, FutureCount(d) - 1, stack)
  BY DEF DropLocal
<1>3. stack # <<>> /\ Top.pc = "locals" /\ ~At("resume") /\ ~At("await_resume")
  BY <1>1 DEF At
<1>4. Stacked(futures', flags', stack)
  BY <1>1, <1>2, <1>3, OwnStays DEF frameVars
<1>. QED BY <1>1, <1>2, <1>3, <1>4, Types, LetsGo

-----------------------------------------------------------------------------
(* What the new calls of a step need. *)

LEMMA OkForget ==
  ASSUME NEW k, k.pc = "forget", \A d \in k.todo : Alive(d)'
  PROVE  CallOK(k)'
<1>1. k.pc \notin OfTask
  BY DEF OfTask
<1>. QED BY <1>1 DEF CallOK, Runs

LEMMA OkWake ==
  ASSUME NEW k, k.pc = "wake", k.co \in Co \cup Event, k.co \in Co => Finished(k.co)',
         \A c \in k.todo : Alive(c)' /\ status'[c] # CREATED
  PROVE  CallOK(k)'
<1>1. k.pc \notin OfTask
  BY DEF OfTask
<1>. QED BY <1>1 DEF CallOK, Runs

LEMMA OkReset ==
  ASSUME NEW k, k.pc = "reset",
         \A d \in k.todo : frame'[d] # "none" /\ d \notin Managed' /\ (bound'[d] \/ Exiting(d)')
  PROVE  CallOK(k)'
<1>1. k.pc \notin OfTask
  BY DEF OfTask
<1>. QED BY <1>1 DEF CallOK, Runs

LEMMA OkPlain ==
  ASSUME NEW k, k.pc \in {"tick", "destroyed"}
  PROVE  CallOK(k)'
<1>1. k.pc \notin OfTask /\ ~Runs(k)
  BY DEF OfTask, Runs
<1>. QED BY <1>1 DEF CallOK

LEMMA OkResume ==
  ASSUME NEW k, k.pc = "resume", k.co \in Co, k.todo = {}, Suspended(k.co)', status'[k.co] # CREATED
  PROVE  CallOK(k)'
BY DEF CallOK, OfTask, Runs

LEMMA OkRelease ==
  ASSUME NEW k, k.pc = "release", k.co \in Co, k.todo = {}, "returned" \in flags'[k.co], Alive(k.co)'
  PROVE  CallOK(k)'
BY DEF CallOK, OfTask, Runs

LEMMA OkStarted ==
  ASSUME NEW k, k.pc \in {"unlock", "started"}, k.co \in Co, k.todo = {}, Alive(k.co)'
  PROVE  CallOK(k)'
<1>1. k.pc \in OfTask /\ ~Runs(k)
  BY DEF OfTask, Runs
<1>. QED BY <1>1 DEF CallOK

LEMMA OkEnds ==
  ASSUME NEW k, k.pc \in {"unbind", "final"}, k.co \in Co, k.todo = {}, Finished(k.co)'
  PROVE  CallOK(k)'
<1>1. k.pc \in OfTask /\ ~Runs(k)
  BY DEF OfTask, Runs
<1>. QED BY <1>1 DEF CallOK

LEMMA OkRuns ==
  ASSUME NEW k, Runs(k), k.co \in Co, k.todo = {}, frame'[k.co] = "active",
         k.pc = "locals" <=> "returned" \in flags'[k.co],
         k.pc # "await_resume" => awaits'[k.co] = Null /\ ~attached'[k.co]
  PROVE  CallOK(k)'
<1>1. k.pc \in OfTask
  BY DEF OfTask, Runs
<1>. QED BY <1>1 DEF CallOK, Runs

LEMMA NotTask == \A l \in {"wake", "forget", "tick", "reset", "destroyed"} : l \notin OfTask
BY DEF OfTask

-----------------------------------------------------------------------------
(* Calls that start, kill and resume. *)

\* Nothing that S stood for is lost.
LEMMA NothingLost ==
  ASSUME IInv, UNCHANGED frameVars, StatusGrows, ~At("resume"), NEW L, Adds(stack, L),
         \A c \in Co : Suspended(c) /\ attached[c] /\ Exiting(c)' /\ ~Exiting(c) => TopIs("resume", c)',
         \A d \in Co : futures[d] # {} => futures'[d] # {}
  PROVE  WakesStay /\ KillCover' /\ HeldInv'
<1>1. InProgress \subseteq InProgress'
  BY DEF Adds, InProgress
<1>2. WakesStay
  BY <1>1 DEF WakesStay
<1>3. KillCover'
  BY <1>1, CoverStays
<1>4. \A x \in Co : Alive(x)' => Alive(x)
  BY DEF Alive, frameVars
<1>5. \A x \in Co : Held(x) => Held(x)'
  BY <1>1, HeldCalls
<1>. QED BY <1>2, <1>3, <1>4, <1>5, HeldStays

LEMMA StartOK ==
  ASSUME IInv, UNCHANGED managerVars, NEW d \in Co, Start(d)
  PROVE  IInv'
<1>1. /\ UNCHANGED frameVars /\ locked' = locked /\ bound' = bound /\ futures' = futures
      /\ Op /\ futures[d] # {} /\ StartTask(d, stack)
  BY DEF Start, frameVars, refVars, Reaches
<1>2. ops' \in 0..MaxOp /\ awaited' \in [Co -> 0..MaxAwait] /\ ~At("resume") /\ ~At("await_resume")
  BY <1>1, OpFacts, Types
<1>3. stack \in Seq(Call) /\ Stacked(futures', flags', stack)
  BY <1>1, StackNow DEF frameVars
<1>4. /\ Adds(stack, {"resume"}) /\ StatusGrows /\ status' \in [Co -> CREATED..TIMEOUT]
      /\ \A c \in Co : Exiting(c)' => Exiting(c)
  BY <1>1, <1>3, Reached, Starting
<1>5. WakesStay /\ KillCover' /\ HeldInv'
  BY <1>1, <1>2, <1>4, NothingLost
<1>6. "await_resume" \notin {"resume"}
  OBVIOUS
<1>. QED BY <1>1, <1>2, <1>4, <1>5, <1>6, Types, QuietTask

LEMMA KillOK ==
  ASSUME IInv, UNCHANGED managerVars, NEW d \in Co, NEW force \in BOOLEAN, Kill(d, CANCLE, force)
  PROVE  IInv'
<1>1. /\ UNCHANGED frameVars /\ bound' = bound /\ futures' = futures /\ (force => Suspended(d))
      /\ Op /\ Reaches(d) /\ KillTask(d, CANCLE, force, stack)
  BY DEF Kill, frameVars, refVars
<1>2. ops' \in 0..MaxOp /\ awaited' \in [Co -> 0..MaxAwait] /\ ~At("resume") /\ ~At("await_resume")
  BY <1>1, OpFacts, Types
<1>3. stack \in Seq(Call) /\ Stacked(futures', flags', stack)
  BY <1>1, StackNow DEF frameVars
<1>4. \/ Main \in futures'[d]
      \/ \E m \in CallsOf(stack) : \/ m.pc = "forget" /\ d \in m.todo
                                   \/ m.pc = "body" /\ m.co \in futures'[d]
  <2>1. CASE InMain
    BY <1>1, <2>1, OpFacts DEF Reaches
  <2>2. CASE ~InMain
    BY <1>1, <2>2, OpFacts DEF Reaches, InProgress
  <2>. QED BY <2>1, <2>2
<1>5. Alive(d) /\ CANCLE \in CANCLE..TIMEOUT
  <2>1. futures[d] # {}
    BY <1>1 DEF Reaches
  <2>. QED BY <2>1, Reached DEF CANCLE, TIMEOUT
<1>6. /\ Adds(stack, {"resume", "unlock"}) /\ StatusGrows
      /\ status' \in [Co -> CREATED..TIMEOUT] /\ locked' \in [Co -> BOOLEAN]
      /\ \A c \in Co : Suspended(c) /\ attached[c] /\ Exiting(c)' /\ ~Exiting(c) => TopIs("resume", c)'
  BY <1>1, <1>2, <1>3, <1>4, <1>5, Killing
<1>7. WakesStay /\ KillCover' /\ HeldInv'
  BY <1>1, <1>2, <1>6, NothingLost
<1>8. "await_resume" \notin {"resume", "unlock"}
  OBVIOUS
<1>. QED BY <1>1, <1>2, <1>6, <1>7, <1>8, Types, QuietTask

\* What the innermost call is to resume, and is not running below it, is suspended.
LEMMA Resumable ==
  ASSUME IInv, stack # <<>>, ~Runs(Top), NEW d \in Co, Alive(d), ~Finished(d),
         \A m \in Below : Runs(m) => m.co # d
  PROVE  Suspended(d)
<1>1. frame[d] \in {"suspended", "active"}
  BY DEF IInv, TypeOK, TaskTypeOK, PromiseTypeOK, Frame, Alive, Finished
<1>2. frame[d] # "active"
  BY StackNow DEF IInv, FrameInv
<1>. QED BY <1>1, <1>2 DEF Suspended

LEMMA DropResumesOK ==
  ASSUME IInv, UNCHANGED managerVars, NEW d \in Co, DropResumes(d)
  PROVE  IInv'
<1>1. /\ UNCHANGED frameVars /\ status' = status /\ futures' = futures /\ locked' = locked /\ bound' = bound
      /\ awaited' = awaited /\ ops' = ops /\ At("drop") /\ Top.co = d
  BY DEF DropResumes, frameVars, promiseVars, refVars, boundVars
<1>2. /\ stack # <<>> /\ Top.pc = "drop" /\ ~At("resume") /\ ~At("await_resume") /\ ~Runs(Top)
      /\ Top \in Call /\ CallOK(Top) /\ Supported(futures, flags, Top, Below)
      /\ stack \in Seq(Call) /\ Rest \in Seq(Call)
      /\ Rest = Tail(stack) /\ InProgress = {Top} \cup Below
  BY <1>1, StackNow DEF At, Runs
<1>3. Alive(d) /\ Exiting(d)
  BY <1>1, <1>2 DEF CallOK
<1>4. StatusGrows
  BY <1>1 DEF StatusGrows
<1>5. Stacked(futures', flags', stack) /\ Stacked(futures', flags', Rest)
  BY <1>1, StackNow DEF frameVars
<1>6. CASE RunsOut(d)
  <2>. DEFINE r == NewCall("resume", d)
  <2>1. stack' = <<r>> \o stack
    BY <1>1, <1>6 DEF DropResumes, Push
  <2>2. r \in Call /\ r.pc = "resume" /\ r.co = d /\ r.todo = {}
    <3>1. "resume" \in Label /\ d \in Co \cup Event \cup {Null}
      BY DEF Label
    <3>. QED BY <3>1, Fresh
  <2>. HIDE DEF r
  <2>3. Suspended(d)
    <3>1. \A m \in Below : Runs(m) => m.co # d
      BY <1>1, <1>2, <1>6 DEF Supported, RunsOut
    <3>. QED BY <3>1, <1>2, <1>3, <1>6, Resumable DEF RunsOut
  <2>4. CallOK(r)'
    <3>1. status[d] # CREATED
      BY <1>3 DEF Exiting, CREATED, DONE
    <3>2. frame' = frame
      BY <1>1 DEF frameVars
    <3>. QED BY <3>1, <3>2, <2>2, <2>3, <1>1 DEF CallOK, OfTask, Runs, Suspended
  <2>5. Supported(futures', flags', r, CallsOf(stack))
    BY <2>2, Unsupported
  <2>6. Adds(stack, {"resume"})
    BY <1>2, <1>5, <2>1, <2>2, <2>4, <2>5, AddsOne
  <2>7. WakesStay /\ KillCover' /\ HeldInv'
    BY <1>1, <1>2, <1>4, <2>6, NothingLost DEF Exiting
  <2>8. "await_resume" \notin {"resume"}
    OBVIOUS
  <2>. QED BY <1>1, <1>2, <1>4, <2>6, <2>7, <2>8, Types, QuietTask
<1>7. CASE ~RunsOut(d)
  <2>12. PICK k : k = [Top EXCEPT !.pc = "release"]
    OBVIOUS
  <2>1. stack' = <<k>> \o Rest
    BY <2>12, <1>1, <1>2, <1>7 DEF DropResumes, Goto, Become
  <2>2. k \in Call /\ k.pc = "release" /\ k.co = d /\ k.todo = {}
    <3>1. "release" \in Label
      BY DEF Label
    <3>2. k \in Call /\ k.pc = "release" /\ k.co = Top.co /\ k.todo = Top.todo
      BY <2>12, <1>2, <3>1, Moved
    <3>3. Top.todo = {}
      BY <1>2 DEF CallOK, OfTask
    <3>. QED BY <3>2, <3>3, <1>1
  <2>3. "returned" \in flags[d]
    BY <1>7 DEF RunsOut, Finished, IInv, FrameInv
  <2>4. CallOK(k)'
    <3>1. frame' = frame /\ flags' = flags
      BY <1>1 DEF frameVars
    <3>2. Alive(d)' /\ "returned" \in flags'[d]
      BY <3>1, <2>3, <1>3 DEF Alive
    <3>. QED BY <3>2, <2>2, OkRelease
  <2>5. Supported(futures', flags', k, CallsOf(Rest))
    BY <2>2 DEF Supported, Runs
  <2>6. Adds(Rest, {"release"}) /\ k \in InProgress'
    BY <1>2, <1>5, <2>1, <2>2, <2>4, <2>5, AddsOne
  <2>7. Below \subseteq InProgress'
    BY <2>6 DEF Adds, Below
  <2>8. WakesStay
    BY <1>2, <2>7 DEF WakesStay
  <2>9. KillCover'
    <3>1. ~Suspended(d)
      BY <2>3 DEF Suspended, IInv, FrameInv
    <3>2. \A m \in InProgress : m.pc = "drop" /\ Suspended(m.co) => m \in InProgress'
      BY <3>1, <1>1, <1>2, <2>7
    <3>3. \A c \in Co : Exiting(c)' => Exiting(c)
      BY <1>1 DEF Exiting
    <3>. QED BY <3>2, <3>3, <1>1, <1>2, <1>4, CoverStays
  <2>10. HeldInv'
    <3>1. \A x \in Co : Alive(x)' => Alive(x)
      BY <1>1 DEF Alive, frameVars
    <3>2. \A x \in Co : Held(x) => Held(x)'
      BY <1>1, <1>2, <2>2, <2>6, <2>7 DEF Held
    <3>. QED BY <3>1, <3>2, <1>1, HeldStays
  <2>11. "await_resume" \notin {"release"} /\ Top.pc \notin {"body", "locals", "final", "unbind"}
    BY <1>2
  <2>. QED BY <1>1, <1>2, <1>4, <2>6, <2>8, <2>9, <2>10, <2>11, Types, QuietTask
<1>. QED BY <1>6, <1>7

LEMMA ForgetNextOK ==
  ASSUME Contract, IInv, UNCHANGED managerVars, ForgetNext
  PROVE  IInv'
<1>1. /\ UNCHANGED frameVars /\ futures' = futures /\ locked' = locked /\ bound' = bound
      /\ awaited' = awaited /\ ops' = ops /\ At("forget")
  BY DEF ForgetNext, frameVars, refVars, boundVars
<1>2. PICK d \in Top.todo :
        LetGo(d, FutureCount(d) - 1, <<[Top EXCEPT !.todo = @ \ {d}]>> \o Tail(stack))
  BY DEF ForgetNext
<1>3. /\ stack # <<>> /\ Top.pc = "forget" /\ ~At("resume") /\ ~At("await_resume")
      /\ Top \in Call /\ CallOK(Top)
      /\ stack \in Seq(Call) /\ Rest \in Seq(Call)
      /\ Rest = Tail(stack) /\ InProgress = {Top} \cup Below
  BY <1>1, StackNow DEF At
<1>4. d \in Co /\ Alive(d) /\ \A x \in Top.todo : Alive(x)
  BY <1>2, <1>3 DEF CallOK, Call
<1>19. PICK f : f = [Top EXCEPT !.todo = @ \ {d}]
  OBVIOUS
<1>. DEFINE left == FutureCount(d) - 1
            S == <<f>> \o Rest
<1>5. f \in Call /\ f.pc = "forget" /\ f.todo = Top.todo \ {d}
  BY <1>19, <1>3, Less
<1>6. LetGo(d, left, S)
  BY <1>2, <1>3, <1>19
<1>. HIDE DEF left
<1>7. S \in Seq(Call) /\ CallsOf(S) = {f} \cup Below
  BY <1>3, <1>5, Put DEF Below
<1>8. Stacked(futures', flags', Rest)
  BY <1>1, StackNow DEF frameVars
<1>9. Stacked(futures', flags', S)
  <2>1. Supported(futures', flags', f, CallsOf(Rest))
    BY <1>5, Unsupported
  <2>. QED BY <2>1, <1>3, <1>5, <1>8, StackedPut
<1>10. \A m \in CallsOf(S) : Runs(m) => frame[m.co] = "active"
  <2>1. \A m \in Below : Runs(m) => frame[m.co] = "active"
    BY StackNow DEF CallOK
  <2>. QED BY <2>1, <1>5, <1>7 DEF Runs
<1>11. /\ Adds(S, {"drop"}) /\ StatusGrows /\ status' \in [Co -> CREATED..TIMEOUT]
       /\ left = 0 => \E k \in InProgress' : k.pc = "drop" /\ k.co = d
       /\ \A x \in Co : Exiting(x)' /\ ~Exiting(x) => left = 0 /\ x = d
  <2>. HIDE DEF S
  <2>. QED BY <1>1, <1>4, <1>6, <1>7, <1>9, <1>10, LettingGo
<1>12. CallOK(f)'
  <2>1. \A x \in f.todo : Alive(x)'
    BY <1>1, <1>4, <1>5 DEF Alive, frameVars
  <2>. QED BY <2>1, <1>5, OkForget
<1>13. Adds(Rest, {"drop", "forget"}) /\ f \in InProgress'
  <2>1. Adds(S, {"drop", "forget"})
    BY <1>11, AddsWider
  <2>2. f.pc \in {"drop", "forget"} /\ f.pc # "resume"
    BY <1>5
  <2>3. S = <<f>> \o Rest
    OBVIOUS
  <2>. HIDE DEF S
  <2>. QED BY <2>1, <2>2, <2>3, <1>3, <1>5, <1>12, AddsMore
<1>14. Below \subseteq InProgress'
  BY <1>13 DEF Adds, Below
<1>15. WakesStay
  BY <1>3, <1>14 DEF WakesStay
<1>16. KillCover'
  <2>1. \A m \in InProgress : m.pc = "drop" => m \in InProgress'
    BY <1>3, <1>14
  <2>. QED BY <2>1, <1>1, <1>3, <1>11, CoverStays
<1>17. HeldInv'
  <2>1. SUFFICES ASSUME NEW x \in Co, Alive(x), futures[x] = {} PROVE Held(x)'
    BY <1>1 DEF HeldInv, Alive, frameVars
  <2>2. Held(x)
    BY <2>1 DEF IInv, HeldInv
  <2>3. CASE x \in f.todo
    BY <2>3, <1>5, <1>13 DEF Held
  <2>4. CASE x # d /\ x \notin f.todo
    BY <2>2, <2>4, <1>3, <1>5, <1>14 DEF Held
  <2>5. CASE x = d
    <3>1. CASE left = 0
      BY <2>5, <3>1, <1>11 DEF Held
    <3>2. CASE left # 0
      <4>1. \E k \in Below : k.pc = "forget" /\ d \in k.todo
        BY <2>1, <2>5, <3>2, <1>1, <1>2, CountTwo DEF left
      <4>. QED BY <4>1, <2>5, <1>14 DEF Held
    <3>. QED BY <3>1, <3>2
  <2>. QED BY <2>3, <2>4, <2>5
<1>18. "await_resume" \notin {"drop", "forget"} /\ Top.pc \notin {"body", "locals", "final", "unbind"}
  BY <1>3
<1>. QED BY <1>1, <1>3, <1>11, <1>13, <1>15, <1>16, <1>17, <1>18, Types, QuietTask

\* The innermost call returns and leaves nothing to do.
LEMMA Returns ==
  ASSUME IInv, UNCHANGED managerVars, UNCHANGED <<frameVars, status, futures, bound, boundVars>>,
         locked' \in [Co -> BOOLEAN], stack # <<>>, Pop,
         Top.pc \in {"unlock", "started", "forget", "wake", "reset"},
         Top.pc \in {"forget", "wake", "reset"} => Top.todo = {}
  PROVE  IInv'
<1>1. /\ UNCHANGED frameVars /\ futures' = futures /\ status' = status /\ bound' = bound
      /\ awaited' = awaited /\ ops' = ops
  BY DEF boundVars
<1>2. /\ ~At("resume") /\ ~At("await_resume") /\ Rest \in Seq(Call)
      /\ Rest = Tail(stack) /\ InProgress = {Top} \cup Below
  BY StackNow DEF At
<1>3. Stacked(futures', flags', Rest)
  BY <1>1, StackNow DEF frameVars
<1>4. StatusGrows
  BY <1>1 DEF StatusGrows
<1>5. stack' = Rest
  BY <1>2 DEF Pop
<1>6. Adds(Rest, {"forget"})
  BY <1>2, <1>3, <1>5, AddsNone
<1>7. Below \subseteq InProgress'
  BY <1>6 DEF Adds, Below
<1>8. WakesStay
  BY <1>2, <1>7 DEF WakesStay
<1>9. KillCover'
  <2>1. \A m \in InProgress : m.pc = "drop" => m \in InProgress'
    BY <1>2, <1>7
  <2>. QED BY <2>1, <1>1, <1>2, <1>4, CoverStays DEF Exiting
<1>10. HeldInv'
  <2>1. \A x \in Co : Alive(x)' => Alive(x)
    BY <1>1 DEF Alive, frameVars
  <2>2. \A x \in Co : Held(x) => Held(x)'
    BY <1>2, <1>7, HeldCalls
  <2>. QED BY <2>1, <2>2, <1>1, HeldStays
<1>11. "await_resume" \notin {"forget"} /\ Top.pc \notin {"body", "locals", "final", "unbind"}
  OBVIOUS
<1>. QED BY <1>1, <1>2, <1>4, <1>6, <1>8, <1>9, <1>10, <1>11, Types, QuietTask

LEMMA ForgetEndOK ==
  ASSUME IInv, UNCHANGED managerVars, ForgetEnd
  PROVE  IInv'
<1>1. /\ UNCHANGED <<frameVars, status, futures, bound, boundVars>> /\ locked' = locked
      /\ stack # <<>> /\ Pop /\ Top.pc = "forget" /\ Top.todo = {}
  BY DEF ForgetEnd, frameVars, promiseVars, refVars, boundVars, At
<1>. QED BY <1>1, Types, Returns

LEMMA UnlockOK ==
  ASSUME IInv, UNCHANGED managerVars, Unlock
  PROVE  IInv'
<1>1. /\ UNCHANGED <<frameVars, status, futures, bound, boundVars>>
      /\ locked' = [locked EXCEPT ![Top.co] = FALSE]
      /\ stack # <<>> /\ Pop /\ Top.pc = "unlock"
  BY DEF Unlock, frameVars, promiseVars, refVars, boundVars, At
<1>2. locked' \in [Co -> BOOLEAN]
  BY <1>1, Types
<1>. QED BY <1>1, <1>2, Returns

LEMMA WakeEndOK ==
  ASSUME IInv, UNCHANGED managerVars, WakeEnd, UNCHANGED <<value, refVars, locked, bound, boundVars>>
  PROVE  IInv'
<1>1. /\ UNCHANGED <<frameVars, status, futures, bound, boundVars>> /\ locked' = locked
      /\ stack # <<>> /\ Pop /\ Top.pc = "wake" /\ Top.todo = {}
  BY DEF WakeEnd, frameVars, promiseVars, refVars, boundVars, At
<1>. QED BY <1>1, Types, Returns

LEMMA WakeNextOK ==
  ASSUME IInv, UNCHANGED managerVars, WakeNext, UNCHANGED <<value, refVars, locked, bound, boundVars>>
  PROVE  IInv'
<1>1. /\ UNCHANGED frameVars /\ status' = status /\ futures' = futures /\ locked' = locked /\ bound' = bound
      /\ awaited' = awaited /\ ops' = ops /\ At("wake")
  BY DEF WakeNext, frameVars, promiseVars, refVars, boundVars
<1>2. PICK c \in Top.todo :
        stack' = IF Skipped(c) THEN <<[Top EXCEPT !.todo = @ \ {c}]>> \o Tail(stack)
                 ELSE <<NewCall("resume", c), [Top EXCEPT !.todo = @ \ {c}]>> \o Tail(stack)
  BY DEF WakeNext
<1>3. /\ stack # <<>> /\ Top.pc = "wake" /\ ~At("resume") /\ ~At("await_resume") /\ ~Runs(Top)
      /\ Top \in Call /\ CallOK(Top) /\ Supported(futures, flags, Top, Below)
      /\ stack \in Seq(Call) /\ Rest \in Seq(Call)
      /\ Rest = Tail(stack) /\ InProgress = {Top} \cup Below
  BY <1>1, StackNow DEF At, Runs
<1>4. c \in Co /\ Alive(c) /\ status[c] # CREATED
  BY <1>2, <1>3 DEF CallOK, Call
<1>17. PICK w : w = [Top EXCEPT !.todo = @ \ {c}]
  OBVIOUS
<1>. DEFINE r == NewCall("resume", c)
<1>5. w \in Call /\ w.pc = "wake" /\ w.co = Top.co /\ w.todo = Top.todo \ {c}
  BY <1>17, <1>3, Less
<1>6. r \in Call /\ r.pc = "resume" /\ r.co = c /\ r.todo = {}
  <2>1. "resume" \in Label /\ c \in Co \cup Event \cup {Null}
    BY <1>4 DEF Label
  <2>. QED BY <2>1, Fresh
<1>7. stack' = IF Skipped(c) THEN <<w>> \o Rest ELSE <<r, w>> \o Rest
  BY <1>2, <1>3, <1>17
<1>. HIDE DEF r
<1>8. StatusGrows
  BY <1>1 DEF StatusGrows
<1>9. Stacked(futures', flags', Rest) /\ Supported(futures', flags', w, CallsOf(Rest))
  <2>1. Supported(futures, flags, w, Below)
    BY <1>3, <1>5 DEF Supported, Runs
  <2>. QED BY <2>1, <1>1, StackNow DEF frameVars, Below
<1>10. CallOK(w)'
  <2>1. frame' = frame
    BY <1>1 DEF frameVars
  <2>2. /\ Top.co \in Co \cup Event /\ (Top.co \in Co => Finished(Top.co))
        /\ \A x \in Top.todo : Alive(x) /\ status[x] # CREATED
    BY <1>3 DEF CallOK
  <2>3. /\ w.co \in Co \cup Event /\ (w.co \in Co => Finished(w.co)')
        /\ \A x \in w.todo : Alive(x)' /\ status'[x] # CREATED
    BY <2>1, <2>2, <1>1, <1>5 DEF Alive, Finished
  <2>. QED BY <2>3, <1>5, OkWake
<1>11. /\ Adds(Rest, {"resume", "wake"}) /\ w \in InProgress'
       /\ ~Suspended(c) \/ TopIs("resume", c)'
  <2>1. CASE Skipped(c)
    <3>3. stack' = <<w>> \o Rest /\ w.pc \in {"resume", "wake"}
      BY <2>1, <1>5, <1>7
    <3>1. Adds(Rest, {"resume", "wake"}) /\ w \in InProgress'
      BY <3>3, <1>3, <1>5, <1>9, <1>10, AddsOne
    <3>2. ~Suspended(c)
      BY <2>1, <1>4 DEF Skipped, Finished, Suspended, IInv, FrameInv
    <3>. QED BY <3>1, <3>2
  <2>2. CASE ~Skipped(c)
    <3>1. stack' = <<r>> \o (<<w>> \o Rest)
      BY <2>2, <1>3, <1>5, <1>6, <1>7, TwoCalls
    <3>2. Suspended(c)
      <4>1. \A m \in Below : Runs(m) => m.co # c
        BY <1>2, <1>3 DEF Supported
      <4>. QED BY <4>1, <2>2, <1>3, <1>4, Resumable DEF Skipped
    <3>3. CallOK(r)'
      <4>1. frame' = frame
        BY <1>1 DEF frameVars
      <4>. QED BY <4>1, <3>2, <1>1, <1>4, <1>6 DEF CallOK, OfTask, Runs, Suspended
    <3>4. <<w>> \o Rest \in Seq(Call) /\ Stacked(futures', flags', <<w>> \o Rest)
      BY <1>3, <1>5, <1>9, Put, StackedPut
    <3>5. Supported(futures', flags', r, CallsOf(<<w>> \o Rest))
      BY <1>6, Unsupported
    <3>8. r.pc \in {"resume", "wake"} /\ w.pc \in {"resume", "wake"} /\ w.pc # "resume"
      BY <1>5, <1>6
    <3>6. Adds(<<w>> \o Rest, {"resume", "wake"}) /\ Top' = r /\ stack' # <<>>
      BY <3>1, <3>3, <3>4, <3>5, <3>8, <1>6, AddsOne
    <3>7. Adds(Rest, {"resume", "wake"}) /\ w \in InProgress'
      BY <3>6, <3>8, <1>3, <1>5, <1>10, AddsMore
    <3>. QED BY <3>6, <3>7, <1>6 DEF TopIs, At
  <2>. QED BY <2>1, <2>2
<1>12. Below \subseteq InProgress'
  BY <1>11 DEF Adds, Below
<1>13. WakesStay
  <2>1. SUFFICES ASSUME NEW x \in Co, NEW k \in InProgress, Suspended(x), k.pc = "wake", x \in k.todo
        PROVE TopIs("resume", x)' \/ \E m \in InProgress' : m.pc = "wake" /\ m.co = k.co /\ x \in m.todo
    BY DEF WakesStay
  <2>2. CASE k \in Below
    BY <2>1, <2>2, <1>12
  <2>3. CASE k = Top /\ x # c
    BY <2>1, <2>3, <1>5, <1>11
  <2>4. CASE k = Top /\ x = c
    BY <2>1, <2>4, <1>11
  <2>. QED BY <2>2, <2>3, <2>4, <1>3
<1>14. KillCover'
  <2>1. \A m \in InProgress : m.pc = "drop" => m \in InProgress'
    BY <1>3, <1>12
  <2>. QED BY <2>1, <1>1, <1>3, <1>8, CoverStays DEF Exiting
<1>15. HeldInv'
  <2>1. \A x \in Co : Alive(x)' => Alive(x)
    BY <1>1 DEF Alive, frameVars
  <2>2. \A x \in Co : Held(x) => Held(x)'
    BY <1>3, <1>12, HeldCalls
  <2>. QED BY <2>1, <2>2, <1>1, HeldStays
<1>16. "await_resume" \notin {"resume", "wake"} /\ Top.pc \notin {"body", "locals", "final", "unbind"}
  BY <1>3
<1>. QED BY <1>1, <1>3, <1>8, <1>11, <1>13, <1>14, <1>15, <1>16, Types, QuietTask

-----------------------------------------------------------------------------
(* The manager. *)

\* A step of the manager: what it lets go is held, what it kills is resumed.
LEMMA QuietTable ==
  ASSUME IInv, UNCHANGED frameVars, TypeOK', StatusGrows, ~At("resume"), ~At("await_resume"),
         NEW S \in {stack, Rest}, NEW L, "await_resume" \notin L, Adds(S, L),
         S = stack \/ Top.pc \in {"started", "unbind", "tick", "reset", "destroyed"},
         \A k \in CallsOf(S) : k.pc = "reset" =>
            \A d \in k.todo : d \notin Managed' /\ (bound'[d] \/ Exiting(d)'),
         \A c \in Co : Suspended(c) /\ attached[c] /\ Exiting(c)' /\ ~Exiting(c) => TopIs("resume", c)',
         \A d \in Co : futures'[d] # {} => futures[d] # {},
         \A d \in Co : futures[d] # {} /\ futures'[d] = {} => Held(d)',
         TableInv'
  PROVE  IInv'
<1>1. ASSUME NEW k \in InProgress, k.pc \in {"wake", "drop", "forget", "release", "locals"}
      PROVE  k \in InProgress'
  <2>1. k \in CallsOf(S)
    <3>1. CASE S = stack
      BY <3>1 DEF InProgress
    <3>2. CASE S # stack
      <4>1. S = Rest /\ Top.pc \notin {"wake", "drop", "forget", "release", "locals"}
        BY <3>2
      <4>2. k \in Below
        BY <1>1, <4>1, StackNow
      <4>. QED BY <4>1, <4>2 DEF Below
    <3>. QED BY <3>1, <3>2
  <2>. QED BY <2>1 DEF Adds
<1>2. WakesStay
  BY <1>1 DEF WakesStay
<1>3. KillCover'
  BY <1>1, CoverStays
<1>4. HeldInv'
  <2>1. \A x \in Co : Alive(x)' => Alive(x)
    BY DEF Alive, frameVars
  <2>2. \A x \in Co : Held(x) => Held(x)'
    BY <1>1, HeldCalls
  <2>. QED BY <2>1, <2>2, HeldStays
<1>5. S = stack \/ Top.pc \notin {"body", "locals", "final"}
  OBVIOUS
<1>. QED BY <1>2, <1>3, <1>4, <1>5, Quiet

\* Futures of the table go, and the calls of S are as they were.
LEMMA Erased ==
  ASSUME IInv, UNCHANGED frameVars, NEW who \in SUBSET Co, Erase(who), NEW S \in {stack, Rest}
  PROVE  /\ futures' \in [Co -> SUBSET (Co \cup {Main, Table})] /\ timer' \in [Co -> Nat]
         /\ \A d \in Co \ who : futures'[d] = futures[d] /\ timer'[d] = timer[d]
         /\ \A d \in who : futures'[d] = futures[d] \ {Table} /\ timer'[d] = 0
         /\ S \in Seq(Call) /\ Stacked(futures', flags', S) /\ CallsOf(S) \subseteq InProgress
         /\ Managed' = Managed \ who
<1>1. /\ futures' = [d \in Co |-> IF d \in who THEN futures[d] \ {Table} ELSE futures[d]]
      /\ timer' = [d \in Co |-> IF d \in who THEN 0 ELSE timer[d]]
  BY DEF Erase
<1>2. /\ \A d \in Co \ who : futures'[d] = futures[d] /\ timer'[d] = timer[d]
      /\ \A d \in who : futures'[d] = futures[d] \ {Table} /\ timer'[d] = 0
  BY <1>1
<1>3. futures' \in [Co -> SUBSET (Co \cup {Main, Table})] /\ timer' \in [Co -> Nat]
  BY <1>1, Types
<1>4. S \in Seq(Call) /\ Stacked(futures', flags', S) /\ CallsOf(S) \subseteq InProgress
  <2>1. UNCHANGED flags
    BY DEF frameVars
  <2>2. \A d \in Co : futures[d] \ {Table} \subseteq futures'[d]
    BY <1>2
  <2>. QED BY <2>1, <2>2, BaseStays
<1>5. Managed' = Managed \ who
  BY <1>2 DEF Managed
<1>. QED BY <1>2, <1>3, <1>4, <1>5

\* The future that the table had of d is on the stack.
LEMMA ForgetPut ==
  ASSUME IInv, UNCHANGED frameVars, NEW d \in Managed, Erase({d}), NEW S \in {stack, Rest}
  PROVE  /\ Forget({d}) \in Call /\ Forget({d}).pc = "forget" /\ Forget({d}).todo = {d}
         /\ CallOK(Forget({d}))' /\ S \in Seq(Call)
         /\ <<Forget({d})>> \o S \in Seq(Call) /\ Forget({d}) \in CallsOf(<<Forget({d})>> \o S)
         /\ Stacked(futures', flags', <<Forget({d})>> \o S)
<1>. DEFINE f == Forget({d})
<1>1. d \in Co /\ futures[d] # {} /\ Alive(d)
  BY Reached DEF Managed
<1>2. f \in Call /\ f.pc = "forget" /\ f.todo = {d}
  BY <1>1, FreshForget
<1>3. S \in Seq(Call) /\ Stacked(futures', flags', S)
  BY <1>1, Erased
<1>. HIDE DEF f
<1>4. CallOK(f)'
  <2>1. Alive(d)'
    BY <1>1 DEF Alive, frameVars
  <2>. QED BY <2>1, <1>2, OkForget DEF f
<1>5. <<f>> \o S \in Seq(Call) /\ f \in CallsOf(<<f>> \o S)
  BY <1>2, <1>3, Put
<1>6. Supported(futures', flags', f, CallsOf(S))
  BY <1>2, Unsupported
<1>7. Stacked(futures', flags', <<f>> \o S)
  BY <1>2, <1>3, <1>6, StackedPut
<1>. QED BY <1>2, <1>3, <1>4, <1>5, <1>7 DEF f

\* A task leaves the table.
LEMMA TakesOut ==
  ASSUME IInv, UNCHANGED <<frameVars, last_tick, ticking, alive>>,
         awaited' \in [Co -> 0..MaxAwait], ops' \in 0..MaxOp, ~At("resume"), ~At("await_resume"),
         NEW S \in {stack, Rest}, NEW d \in Managed, Erase({d}),
         S = stack \/ Top.pc = "started" \/ (Top.pc = "unbind" /\ Top.co = d),
         bound' = bound \/ Cleanup(d), status' \in [Co -> CREATED..TIMEOUT],
         locked' \in [Co -> BOOLEAN], StatusGrows,
         \A c \in Co : Suspended(c) /\ attached[c] /\ Exiting(c)' /\ ~Exiting(c) => TopIs("resume", c)',
         Adds(S, {"forget", "resume", "unlock"}), Forget({d}) \in InProgress'
  PROVE  IInv'
<1>1. d \in Co
  BY DEF Managed
<1>2. /\ futures' \in [Co -> SUBSET (Co \cup {Main, Table})] /\ timer' \in [Co -> Nat]
      /\ \A c \in Co \ {d} : futures'[c] = futures[c] /\ timer'[c] = timer[c]
      /\ futures'[d] = futures[d] \ {Table} /\ timer'[d] = 0
      /\ Managed' = Managed \ {d} /\ CallsOf(S) \subseteq InProgress
  <2>1. UNCHANGED frameVars
    OBVIOUS
  <2>. QED BY <1>1, <2>1, Erased
<1>3. bound' \in [Co -> BOOLEAN] /\ \A c \in Co \ {d} : bound'[c] = bound[c]
  <2>1. bound \in [Co -> BOOLEAN]
    BY Types
  <2>. QED BY <2>1, <1>1 DEF Cleanup
<1>4. TypeOK'
  <2>1. stack' \in Seq(Call) /\ last_tick' \in Nat /\ ticking' \in BOOLEAN /\ alive' \in BOOLEAN
    BY Types DEF Adds
  <2>. QED BY <2>1, <1>2, <1>3, QuietTypes
<1>5. \A k \in InProgress : k.pc = "unbind" /\ k.co # d => k \in InProgress'
  <2>1. SUFFICES ASSUME NEW k \in InProgress, k.pc = "unbind", k.co # d PROVE k \in CallsOf(S)
    BY DEF Adds
  <2>2. CASE S = stack
    BY <2>2 DEF InProgress
  <2>3. CASE S # stack
    BY <2>1, <2>3, StackNow DEF Below
  <2>. QED BY <2>2, <2>3
<1>6. TableInv'
  <2>1. \A c \in Managed' : c \in Managed /\ c \in Co \ {d}
    BY <1>2 DEF Managed
  <2>2. \A c \in Co : timer'[c] # 0 => c \in Managed'
    BY <1>2 DEF IInv, TableInv
  <2>3. \A c \in Managed' : bound'[c] /\ alive'
    BY <2>1, <1>3 DEF IInv, TableInv
  <2>4. \A c \in Co : Finished(c)' = Finished(c)
    BY DEF Finished, frameVars
  <2>5. \A c \in Managed' : Finished(c)' => \E k \in InProgress' : k.pc = "unbind" /\ k.co = c
    BY <2>1, <2>4, <1>5 DEF IInv, TableInv
  <2>. QED BY <2>2, <2>3, <2>5 DEF TableInv
<1>7. ASSUME NEW k \in CallsOf(S), k.pc = "reset", NEW c \in k.todo
      PROVE  c \notin Managed' /\ (bound'[c] \/ Exiting(c)')
  <2>1. c \in Co /\ c \notin Managed /\ (bound[c] \/ Exiting(c))
    BY <1>2, <1>7, StackNow DEF CallOK, Call
  <2>. QED BY <2>1, <1>2, <1>3, Grown
<1>8. \A c \in Co : futures'[c] # {} => futures[c] # {}
  BY <1>2
<1>9. \A c \in Co : futures[c] # {} /\ futures'[c] = {} => Held(c)'
  <2>1. Forget({d}).pc = "forget" /\ d \in Forget({d}).todo
    BY <1>1, FreshForget
  <2>2. Held(d)'
    <3>1. \E k \in InProgress' : k.pc = "forget" /\ d \in k.todo
      BY <2>1
    <3>. QED BY <3>1 DEF Held
  <2>. QED BY <2>2, <1>2
<1>10. "await_resume" \notin {"forget", "resume", "unlock"} /\ UNCHANGED frameVars
       /\ (S = stack \/ Top.pc \in {"started", "unbind", "tick", "reset", "destroyed"})
  OBVIOUS
<1>. QED BY <1>4, <1>6, <1>7, <1>8, <1>9, <1>10, QuietTable

LEMMA TakeOutOK ==
  ASSUME IInv, awaited' \in [Co -> 0..MaxAwait], ops' \in 0..MaxOp, ~At("resume"), ~At("await_resume"),
         NEW S \in {stack, Rest}, NEW d \in Managed, NEW target \in CANCLE..TIMEOUT,
         S = stack \/ Top.pc = "started" \/ (Top.pc = "unbind" /\ Top.co = d),
         TakeOut(d, target, S)
  PROVE  IInv'
<1>1. /\ UNCHANGED <<frameVars, last_tick, ticking, alive>> /\ UNCHANGED frameVars
      /\ Erase({d}) /\ Cleanup(d) /\ KillTask(d, target, FALSE, <<Forget({d})>> \o S)
  BY DEF TakeOut
<1>. DEFINE f == Forget({d})
            T == <<f>> \o S
<1>2. /\ f \in Call /\ f.pc = "forget" /\ f.todo = {d} /\ CallOK(f)' /\ S \in Seq(Call)
      /\ T \in Seq(Call) /\ f \in CallsOf(T) /\ Stacked(futures', flags', T)
  BY <1>1, ForgetPut
<1>3. d \in Co /\ Alive(d)
  BY Reached DEF Managed
<1>4. KillTask(d, target, FALSE, T)
  BY <1>1
<1>5. \E m \in CallsOf(T) : \/ m.pc = "forget" /\ d \in m.todo
                            \/ m.pc = "body" /\ m.co \in futures'[d]
  BY <1>2
<1>6. UNCHANGED frameVars /\ (FALSE => Suspended(d))
  BY <1>1
<1>7. T = <<f>> \o S
  OBVIOUS
<1>. HIDE DEF f, T
<1>8. /\ Adds(T, {"resume", "unlock"}) /\ StatusGrows
      /\ status' \in [Co -> CREATED..TIMEOUT] /\ locked' \in [Co -> BOOLEAN]
      /\ \A c \in Co : Suspended(c) /\ attached[c] /\ Exiting(c)' /\ ~Exiting(c) => TopIs("resume", c)'
  BY <1>2, <1>3, <1>4, <1>5, <1>6, Killing
<1>9. Adds(S, {"forget", "resume", "unlock"}) /\ f \in InProgress'
  <2>1. Adds(T, {"forget", "resume", "unlock"})
    BY <1>8, AddsWider
  <2>2. f.pc \in {"forget", "resume", "unlock"} /\ f.pc # "resume"
    BY <1>2
  <2>. QED BY <2>1, <2>2, <1>2, <1>7, AddsMore
<1>. QED BY <1>1, <1>8, <1>9, TakesOut DEF f

\* A task leaves the table and is not killed.
LEMMA ForgetOK ==
  ASSUME IInv, awaited' \in [Co -> 0..MaxAwait], ops' \in 0..MaxOp, ~At("resume"), ~At("await_resume"),
         NEW S \in {stack, Rest}, NEW d \in Managed,
         S = stack \/ Top.pc = "started" \/ (Top.pc = "unbind" /\ Top.co = d),
         Erase({d}), bound' = bound \/ Cleanup(d), stack' = <<Forget({d})>> \o S,
         UNCHANGED <<frameVars, status, locked, last_tick, ticking, alive>>
  PROVE  IInv'
<1>1. UNCHANGED <<frameVars, last_tick, ticking, alive>> /\ UNCHANGED frameVars
  OBVIOUS
<1>. DEFINE f == Forget({d})
            T == <<f>> \o S
<1>2. /\ f \in Call /\ f.pc = "forget" /\ f.todo = {d} /\ CallOK(f)' /\ S \in Seq(Call)
      /\ T \in Seq(Call) /\ Stacked(futures', flags', T)
  BY <1>1, ForgetPut
<1>3. T = <<f>> \o S /\ stack' = T
  OBVIOUS
<1>. HIDE DEF f, T
<1>4. Adds(S, {"forget", "resume", "unlock"}) /\ f \in InProgress'
  <2>1. Adds(T, {"forget", "resume", "unlock"})
    BY <1>2, <1>3, AddsNone
  <2>2. f.pc \in {"forget", "resume", "unlock"} /\ f.pc # "resume"
    BY <1>2
  <2>. QED BY <2>1, <2>2, <1>2, <1>3, AddsMore
<1>5. /\ status' \in [Co -> CREATED..TIMEOUT] /\ locked' \in [Co -> BOOLEAN] /\ StatusGrows
      /\ \A c \in Co : Exiting(c)' => Exiting(c)
  BY Types DEF StatusGrows, Exiting
<1>. QED BY <1>1, <1>4, <1>5, TakesOut DEF f

LEMMA RemoveTaskOK ==
  ASSUME IInv, awaited' \in [Co -> 0..MaxAwait], ops' \in 0..MaxOp, ~At("resume"), ~At("await_resume"),
         NEW S \in {stack, Rest}, NEW d \in Managed,
         S = stack \/ Top.pc = "started" \/ (Top.pc = "unbind" /\ Top.co = d),
         RemoveTask(d, S)
  PROVE  IInv'
<1>1. CASE status[d] = RUNNING
  <2>1. KILLED \in CANCLE..TIMEOUT
    BY DEF KILLED, CANCLE, TIMEOUT
  <2>. QED BY <1>1, <2>1, TakeOutOK DEF RemoveTask
<1>2. CASE status[d] # RUNNING
  BY <1>2, ForgetOK DEF RemoveTask
<1>. QED BY <1>1, <1>2

LEMMA AddTaskOK ==
  ASSUME IInv, NEW d \in Co, NEW timeout \in Timeout, AddTask(d, timeout)
  PROVE  IInv'
<1>1. /\ UNCHANGED frameVars /\ status' = status /\ stack' = stack /\ locked' = locked
      /\ last_tick' = last_tick /\ ticking' = ticking /\ alive' = alive
      /\ Op /\ alive /\ Reaches(d) /\ ~Exiting(d) /\ d \notin Managed /\ ~bound[d]
      /\ bound' = [bound EXCEPT ![d] = TRUE]
      /\ futures' = [futures EXCEPT ![d] = @ \cup {Table}]
      /\ timer' = [timer EXCEPT ![d] = ExpiredTime(timeout)]
  BY DEF AddTask, Calls, Setup
<1>2. ops' \in 0..MaxOp /\ awaited' \in [Co -> 0..MaxAwait] /\ ~At("resume") /\ ~At("await_resume")
  BY <1>1, OpFacts, Types
<1>3. /\ futures' \in [Co -> SUBSET (Co \cup {Main, Table})]
      /\ futures'[d] = futures[d] \cup {Table} /\ futures[d] # {}
      /\ \A c \in Co \ {d} : futures'[c] = futures[c]
  BY <1>1, Types DEF Reaches
<1>4. timer' \in [Co -> Nat] /\ \A c \in Co \ {d} : timer'[c] = timer[c]
  <2>1. ExpiredTime(timeout) \in Nat
    BY Types, ManagerAssumption DEF ExpiredTime
  <2>. QED BY <2>1, <1>1, Types
<1>5. bound' \in [Co -> BOOLEAN] /\ bound'[d] /\ \A c \in Co \ {d} : bound'[c] = bound[c]
  BY <1>1, Types
<1>6. Managed' = Managed \cup {d}
  BY <1>3 DEF Managed
<1>7. /\ stack \in Seq(Call) /\ CallsOf(stack) = InProgress /\ InProgress' = InProgress
      /\ Stacked(futures', flags', stack)
  <2>1. UNCHANGED flags
    BY <1>1 DEF frameVars
  <2>2. \A c \in Co : futures[c] \ {Table} \subseteq futures'[c]
    BY <1>3
  <2>. QED BY <2>1, <2>2, <1>1, BaseStays DEF InProgress
<1>8. Adds(stack, {"resume"})
  BY <1>1, <1>7, AddsNone
<1>9. StatusGrows /\ \A c \in Co : Exiting(c)' <=> Exiting(c)
  BY <1>1 DEF StatusGrows, Exiting
<1>10. TypeOK'
  <2>1. stack' \in Seq(Call) /\ status' \in [Co -> CREATED..TIMEOUT] /\ locked' \in [Co -> BOOLEAN]
        /\ last_tick' \in Nat /\ ticking' \in BOOLEAN /\ alive' \in BOOLEAN
    BY <1>1, <1>7, Types
  <2>. QED BY <2>1, <1>1, <1>2, <1>3, <1>4, <1>5, QuietTypes
<1>11. \A c \in Co : Finished(c)' = Finished(c)
  BY <1>1 DEF Finished, frameVars
<1>12. TableInv'
  <2>1. \A c \in Co : timer'[c] # 0 => c \in Managed'
    BY <1>4, <1>6 DEF IInv, TableInv
  <2>2. \A c \in Managed' : bound'[c] /\ alive'
    BY <1>1, <1>5, <1>6 DEF IInv, TableInv, Managed
  <2>3. ~Finished(d)
    BY <1>1 DEF IInv, FrameInv, Finished
  <2>4. \A c \in Managed' : Finished(c)' => \E k \in InProgress' : k.pc = "unbind" /\ k.co = c
    BY <2>3, <1>6, <1>7, <1>11 DEF IInv, TableInv, Managed
  <2>. QED BY <2>1, <2>2, <2>4 DEF TableInv
<1>13. ASSUME NEW k \in CallsOf(stack), k.pc = "reset", NEW c \in k.todo
       PROVE  c \notin Managed' /\ (bound'[c] \/ Exiting(c)')
  <2>1. c \in Co /\ c \notin Managed /\ (bound[c] \/ Exiting(c))
    BY <1>7, <1>13, StackNow DEF CallOK, Call
  <2>2. c # d
    BY <2>1, <1>1
  <2>. QED BY <2>1, <2>2, <1>5, <1>6, <1>9
<1>14. \A c \in Co : futures'[c] # {} <=> futures[c] # {}
  BY <1>3
<1>15. "await_resume" \notin {"resume"}
  OBVIOUS
<1>. QED BY <1>1, <1>2, <1>8, <1>9, <1>10, <1>12, <1>13, <1>14, <1>15, QuietTable

LEMMA RemoveOK ==
  ASSUME IInv, NEW d \in Co, Remove(d) \/ ManagerKill(d, CANCLE), UNCHANGED awaited
  PROVE  IInv'
<1>1. Op /\ d \in Managed
  BY DEF Remove, ManagerKill, Calls
<1>2. ops' \in 0..MaxOp /\ awaited' \in [Co -> 0..MaxAwait] /\ ~At("resume") /\ ~At("await_resume")
  BY <1>1, OpFacts, Types
<1>3. CANCLE \in CANCLE..TIMEOUT
  BY DEF CANCLE, TIMEOUT
<1>4. CASE Remove(d)
  <2>1. RemoveTask(d, stack)
    BY <1>4 DEF Remove
  <2>. QED BY <2>1, <1>1, <1>2, RemoveTaskOK
<1>5. CASE ManagerKill(d, CANCLE)
  <2>1. TakeOut(d, CANCLE, stack)
    BY <1>5 DEF ManagerKill
  <2>. QED BY <2>1, <1>1, <1>2, <1>3, TakeOutOK
<1>. QED BY <1>4, <1>5

LEMMA ManagerStartOK ==
  ASSUME IInv, NEW d \in Co, ManagerStart(d)
  PROVE  IInv'
<1>1. /\ UNCHANGED frameVars /\ futures' = futures /\ locked' = locked /\ bound' = bound
      /\ UNCHANGED managerVars /\ Op /\ d \in Managed
      /\ StartTask(d, <<NewCall("started", d), Forget({d})>> \o stack)
  BY DEF ManagerStart, Calls
<1>2. ops' \in 0..MaxOp /\ awaited' \in [Co -> 0..MaxAwait] /\ ~At("resume") /\ ~At("await_resume")
  BY <1>1, OpFacts, Types
<1>3. stack \in Seq(Call) /\ Stacked(futures', flags', stack)
  BY <1>1, StackNow DEF frameVars
<1>4. futures[d] # {} /\ Alive(d) /\ frame' = frame
  BY <1>1, Reached DEF Managed, frameVars
<1>. DEFINE f == Forget({d})
            s == NewCall("started", d)
            F == <<f>> \o stack
            T == <<s>> \o F
<1>5. /\ f \in Call /\ f.pc = "forget" /\ f.todo = {d}
      /\ s \in Call /\ s.pc = "started" /\ s.co = d /\ s.todo = {}
  <2>1. "started" \in Label /\ d \in Co \cup Event \cup {Null}
    BY DEF Label
  <2>. QED BY <2>1, Fresh, FreshForget
<1>6. StartTask(d, T)
  <2>1. <<s, f>> \o stack = T
    BY <1>3, <1>5, TwoCalls
  <2>. QED BY <2>1, <1>1
<1>7. f.pc = f.pc /\ F = <<f>> \o stack /\ T = <<s>> \o F
  OBVIOUS
<1>. HIDE DEF f, s
<1>8. CallOK(f)'
  BY <1>4, <1>5, OkForget DEF Alive
<1>9. CallOK(s)'
  BY <1>4, <1>5, OkStarted DEF Alive
<1>10. F \in Seq(Call) /\ Stacked(futures', flags', F) /\ CallsOf(F) = {f} \cup CallsOf(stack)
  <2>1. Supported(futures', flags', f, CallsOf(stack))
    BY <1>5, Unsupported
  <2>. QED BY <2>1, <1>3, <1>5, Put, StackedPut
<1>. HIDE DEF F
<1>11. T \in Seq(Call) /\ Stacked(futures', flags', T)
  <2>1. \E m \in CallsOf(F) : m.pc = "forget" /\ d \in m.todo
    BY <1>5, <1>10
  <2>2. Supported(futures', flags', s, CallsOf(F))
    BY <2>1, <1>5 DEF Supported, Runs
  <2>. QED BY <2>2, <1>5, <1>10, Put, StackedPut
<1>. HIDE DEF T
<1>12. /\ Adds(T, {"resume"}) /\ StatusGrows /\ status' \in [Co -> CREATED..TIMEOUT]
       /\ \A c \in Co : Exiting(c)' => Exiting(c)
  BY <1>1, <1>4, <1>6, <1>11, Starting
<1>13. Adds(stack, {"resume", "started", "forget"})
  <2>1. Adds(T, {"resume", "started", "forget"})
    BY <1>12, AddsWider
  <2>2. /\ s.pc \in {"resume", "started", "forget"} /\ s.pc # "resume"
        /\ f.pc \in {"resume", "started", "forget"} /\ f.pc # "resume"
    BY <1>5
  <2>3. Adds(F, {"resume", "started", "forget"})
    BY <2>1, <2>2, <1>5, <1>7, <1>9, <1>10, AddsMore
  <2>. QED BY <2>2, <2>3, <1>3, <1>5, <1>7, <1>8, AddsMore
<1>14. WakesStay /\ KillCover' /\ HeldInv'
  BY <1>1, <1>2, <1>12, <1>13, NothingLost
<1>15. "await_resume" \notin {"resume", "started", "forget"}
  OBVIOUS
<1>. QED BY <1>1, <1>2, <1>12, <1>13, <1>14, <1>15, Types, QuietTask

LEMMA StartedOK ==
  ASSUME IInv, NEW d \in Co, Started(d)
  PROVE  IInv'
<1>1. /\ stack # <<>> /\ Top.pc = "started" /\ Top.co = d /\ awaited' = awaited /\ ops' = ops
      /\ ~At("resume") /\ ~At("await_resume") /\ Rest = Tail(stack)
  BY StackNow DEF Started, At, boundVars
<1>2. awaited' \in [Co -> 0..MaxAwait] /\ ops' \in 0..MaxOp
  BY <1>1, Types
<1>3. CASE Exiting(d) /\ d \in Managed
  <2>1. RemoveTask(d, Rest)
    BY <1>1, <1>3 DEF Started
  <2>. QED BY <2>1, <1>1, <1>2, <1>3, RemoveTaskOK
<1>4. CASE ~(Exiting(d) /\ d \in Managed)
  <2>1. /\ UNCHANGED managerVars /\ UNCHANGED <<frameVars, status, futures, bound, boundVars>>
        /\ locked' = locked /\ Pop
    BY <1>4 DEF Started
  <2>. QED BY <2>1, <1>1, Types, Returns
<1>. QED BY <1>3, <1>4

\* A task that is over is not bound any more.
LEMMA UnbindOK ==
  ASSUME IInv, NEW d \in Co, Unbind(d)
  PROVE  IInv'
<1>1. /\ stack # <<>> /\ Top.pc = "unbind" /\ Top.co = d /\ awaited' = awaited /\ ops' = ops
      /\ ~At("resume") /\ ~At("await_resume") /\ Rest = Tail(stack) /\ Rest \in Seq(Call)
      /\ CallOK(Top) /\ InProgress = {Top} \cup Below /\ Stacked(futures, flags, Rest)
  BY StackNow DEF Unbind, At, boundVars
<1>2. awaited' \in [Co -> 0..MaxAwait] /\ ops' \in 0..MaxOp
  BY <1>1, Types
<1>3. CASE d \in Managed
  <2>1. bound[d]
    BY <1>3 DEF IInv, TableInv
  <2>2. RemoveTask(d, Rest)
    BY <2>1, <1>1, <1>3 DEF Unbind, CleanupCallback
  <2>. QED BY <2>2, <1>1, <1>2, <1>3, RemoveTaskOK
<1>4. CASE d \notin Managed
  <2>1. /\ UNCHANGED <<frameVars, futures, status, locked, managerVars>>
        /\ stack' = Rest /\ (Cleanup(d) \/ bound' = bound)
    <3>1. CASE bound[d]
      BY <3>1, <1>1, <1>4 DEF Unbind, CleanupCallback
    <3>2. CASE ~bound[d]
      BY <3>2, <1>1 DEF Unbind, Pop
    <3>. QED BY <3>1, <3>2
  <2>2. UNCHANGED frameVars /\ futures' = futures /\ status' = status /\ locked' = locked
        /\ timer' = timer /\ last_tick' = last_tick /\ ticking' = ticking /\ alive' = alive
    BY <2>1 DEF managerVars
  <2>3. bound' \in [Co -> BOOLEAN] /\ \A c \in Co \ {d} : bound'[c] = bound[c]
    <3>1. bound \in [Co -> BOOLEAN]
      BY Types
    <3>. QED BY <3>1, <2>1 DEF Cleanup
  <2>4. Adds(Rest, {"forget"})
    <3>1. Stacked(futures', flags', Rest)
      BY <2>2, <1>1 DEF frameVars
    <3>. QED BY <3>1, <2>1, <1>1, AddsNone
  <2>5. TypeOK'
    <3>1. stack' \in Seq(Call)
      BY <2>4 DEF Adds
    <3>. QED BY <3>1, <2>2, <2>3, <1>2, Types, QuietTypes
  <2>6. StatusGrows /\ \A c \in Co : Exiting(c)' <=> Exiting(c)
    BY <2>2 DEF StatusGrows, Exiting
  <2>7. Exiting(d)
    <3>1. frame[d] = "final"
      BY <1>1 DEF CallOK, Finished
    <3>. QED BY <3>1 DEF IInv, FrameInv
  <2>8. Managed' = Managed /\ \A c \in Co : Finished(c)' = Finished(c)
    BY <2>2 DEF Managed, Finished, frameVars
  <2>9. TableInv'
    <3>1. \A c \in Managed : c \in Co \ {d}
      BY <1>4 DEF Managed
    <3>2. \A c \in Co : timer'[c] # 0 => c \in Managed'
      BY <2>2, <2>8 DEF IInv, TableInv
    <3>3. \A c \in Managed' : bound'[c] /\ alive'
      BY <3>1, <2>2, <2>3, <2>8 DEF IInv, TableInv
    <3>4. ASSUME NEW c \in Managed, Finished(c) PROVE \E k \in InProgress' : k.pc = "unbind" /\ k.co = c
      <4>1. PICK k \in InProgress : k.pc = "unbind" /\ k.co = c
        BY <3>4 DEF IInv, TableInv
      <4>2. k \in Below
        BY <4>1, <3>1, <1>1
      <4>. QED BY <4>1, <4>2, <2>4 DEF Adds, Below
    <3>. QED BY <3>1, <3>2, <3>3, <3>4, <2>8 DEF TableInv
  <2>10. ASSUME NEW k \in CallsOf(Rest), k.pc = "reset", NEW c \in k.todo
         PROVE  c \notin Managed' /\ (bound'[c] \/ Exiting(c)')
    <3>1. c \in Co /\ c \notin Managed /\ (bound[c] \/ Exiting(c))
      BY <1>1, <2>10, StackNow DEF CallOK, Call, Below
    <3>. QED BY <3>1, <2>3, <2>6, <2>7, <2>8
  <2>11. "await_resume" \notin {"forget"}
    OBVIOUS
  <2>. QED BY <1>1, <2>2, <2>4, <2>5, <2>6, <2>9, <2>10, <2>11, QuietTable
<1>. QED BY <1>3, <1>4

\* The clock goes on and nothing leaves the table.
LEMMA TableSame ==
  ASSUME IInv, UNCHANGED <<frameVars, status, futures, locked, bound, alive>>,
         awaited' \in [Co -> 0..MaxAwait], ops' \in 0..MaxOp, timer' \in [Co -> Nat],
         \A c \in Co : timer'[c] # 0 => timer[c] # 0 \/ c \in Managed, last_tick' \in Nat, ticking' \in BOOLEAN,
         ~At("resume"), ~At("await_resume"),
         NEW S \in {stack, Rest}, S = stack \/ Top.pc = "tick", Adds(S, {"tick"})
  PROVE  IInv'
<1>1. /\ UNCHANGED frameVars /\ status' = status /\ futures' = futures /\ locked' = locked
      /\ bound' = bound /\ alive' = alive
  OBVIOUS
<1>2. TypeOK'
  <2>1. stack' \in Seq(Call)
    BY DEF Adds
  <2>. QED BY <2>1, <1>1, Types, QuietTypes
<1>3. StatusGrows /\ \A c \in Co : Exiting(c)' <=> Exiting(c)
  BY <1>1 DEF StatusGrows, Exiting
<1>4. Managed' = Managed /\ \A c \in Co : Finished(c)' = Finished(c)
  BY <1>1 DEF Managed, Finished, frameVars
<1>5. CallsOf(S) \subseteq InProgress
  BY StackNow DEF InProgress, Below
<1>6. ASSUME NEW k \in InProgress, k.pc = "unbind" PROVE k \in InProgress'
  <2>1. k \in CallsOf(S)
    <3>1. CASE S = stack
      BY <3>1 DEF InProgress
    <3>2. CASE S # stack
      BY <3>2, <1>6, StackNow DEF Below
    <3>. QED BY <3>1, <3>2
  <2>. QED BY <2>1 DEF Adds
<1>7. TableInv'
  <2>1. \A c \in Co : timer'[c] # 0 => c \in Managed'
    BY <1>4 DEF IInv, TableInv
  <2>2. \A c \in Managed' : bound'[c] /\ alive'
    BY <1>1, <1>4 DEF IInv, TableInv
  <2>3. \A c \in Managed' : Finished(c)' => \E k \in InProgress' : k.pc = "unbind" /\ k.co = c
    BY <1>4, <1>6 DEF IInv, TableInv, Managed
  <2>. QED BY <2>1, <2>2, <2>3 DEF TableInv
<1>8. ASSUME NEW k \in CallsOf(S), k.pc = "reset", NEW c \in k.todo
      PROVE  c \notin Managed' /\ (bound'[c] \/ Exiting(c)')
  <2>1. c \in Co /\ c \notin Managed /\ (bound[c] \/ Exiting(c))
    BY <1>5, <1>8, StackNow DEF CallOK, Call
  <2>. QED BY <2>1, <1>1, <1>3, <1>4
<1>9. "await_resume" \notin {"tick"}
      /\ (S = stack \/ Top.pc \in {"started", "unbind", "tick", "reset", "destroyed"})
  OBVIOUS
<1>. QED BY <1>1, <1>2, <1>3, <1>7, <1>8, <1>9, QuietTable

LEMMA SetTimeoutOK ==
  ASSUME IInv, NEW d \in Co, NEW timeout \in Timeout, SetTimeout(d, timeout)
  PROVE  IInv'
<1>1. /\ UNCHANGED <<frameVars, status, futures, locked, bound, alive>> /\ Op /\ stack' = stack
      /\ d \in Managed /\ timer' = [timer EXCEPT ![d] = ExpiredTime(timeout)]
      /\ last_tick' = last_tick /\ ticking' = ticking
  BY DEF SetTimeout, Calls, frameVars, promiseVars, refVars
<1>2. ops' \in 0..MaxOp /\ awaited' \in [Co -> 0..MaxAwait] /\ ~At("resume") /\ ~At("await_resume")
  BY <1>1, OpFacts, Types
<1>3. ExpiredTime(timeout) \in Nat
  BY Types, ManagerAssumption DEF ExpiredTime
<1>4. /\ timer' \in [Co -> Nat] /\ last_tick' \in Nat /\ ticking' \in BOOLEAN
      /\ \A c \in Co : timer'[c] # 0 => timer[c] # 0 \/ c \in Managed
  BY <1>1, <1>3, Types
<1>5. Adds(stack, {"tick"})
  <2>1. stack \in Seq(Call) /\ Stacked(futures', flags', stack)
    BY <1>1, StackNow DEF frameVars
  <2>. QED BY <2>1, <1>1, AddsNone
<1>. QED BY <1>1, <1>2, <1>4, <1>5, TableSame

LEMMA FirstTickOK ==
  ASSUME IInv, NEW now \in Clock, FirstTick(now)
  PROVE  IInv'
<1>1. /\ UNCHANGED <<frameVars, status, futures, locked, bound, alive>> /\ Op /\ stack' = stack
      /\ timer' = [d \in Co |-> IF timer[d] = 0 THEN 0 ELSE timer[d] + now]
      /\ last_tick' = now /\ ticking' = ticking
  BY DEF FirstTick, Calls, frameVars, promiseVars, refVars
<1>2. ops' \in 0..MaxOp /\ awaited' \in [Co -> 0..MaxAwait] /\ ~At("resume") /\ ~At("await_resume")
  BY <1>1, OpFacts, Types
<1>3. /\ timer' \in [Co -> Nat] /\ last_tick' \in Nat /\ ticking' \in BOOLEAN
      /\ \A c \in Co : timer'[c] # 0 => timer[c] # 0
  BY <1>1, Types, ManagerAssumption
<1>4. Adds(stack, {"tick"})
  <2>1. stack \in Seq(Call) /\ Stacked(futures', flags', stack)
    BY <1>1, StackNow DEF frameVars
  <2>. QED BY <2>1, <1>1, AddsNone
<1>. QED BY <1>1, <1>2, <1>3, <1>4, TableSame

LEMMA TickOK ==
  ASSUME IInv, NEW now \in Clock, Tick(now)
  PROVE  IInv'
<1>. DEFINE k == [NewCall("tick", Null) EXCEPT !.time = now]
<1>1. /\ UNCHANGED <<frameVars, status, futures, locked, bound, alive>> /\ Op /\ stack' = <<k>> \o stack
      /\ timer' = timer /\ last_tick' = last_tick /\ ticking' = TRUE
  BY DEF Tick, TakeFlag, Calls, frameVars, promiseVars, refVars, Push
<1>2. ops' \in 0..MaxOp /\ awaited' \in [Co -> 0..MaxAwait] /\ ~At("resume") /\ ~At("await_resume")
  BY <1>1, OpFacts, Types
<1>3. /\ timer' \in [Co -> Nat] /\ last_tick' \in Nat /\ ticking' \in BOOLEAN
      /\ \A c \in Co : timer'[c] # 0 => timer[c] # 0
  BY <1>1, Types
<1>4. k \in Call /\ k.pc = "tick"
  BY ManagerAssumption DEF NewCall, Call, Label
<1>. HIDE DEF k
<1>5. stack \in Seq(Call) /\ Stacked(futures', flags', stack)
  BY <1>1, StackNow DEF frameVars
<1>6. Supported(futures', flags', k, CallsOf(stack)) /\ CallOK(k)' /\ k.pc \in {"tick"}
  BY <1>4, Unsupported, OkPlain
<1>7. Adds(stack, {"tick"})
  BY <1>1, <1>4, <1>5, <1>6, AddsOne
<1>. QED BY <1>1, <1>2, <1>3, <1>7, TableSame

LEMMA TickTaskOK ==
  ASSUME IInv, TickTask
  PROVE  IInv'
<1>1. At("tick") /\ awaited' = awaited /\ ops' = ops
  BY DEF TickTask, boundVars
<1>2. PICK d \in Due(Top.time) :
         IF ~Exiting(d) THEN TakeOut(d, TIMEOUT, stack)
         ELSE /\ Erase({d})
              /\ stack' = <<Forget({d})>> \o stack
              /\ UNCHANGED <<frameVars, status, locked, bound, last_tick, ticking, alive>>
  BY DEF TickTask
<1>3. d \in Managed
  BY DEF Due, IInv, TableInv
<1>4. /\ awaited' \in [Co -> 0..MaxAwait] /\ ops' \in 0..MaxOp /\ ~At("resume") /\ ~At("await_resume")
      /\ TIMEOUT \in CANCLE..TIMEOUT
  BY <1>1, Types DEF At, CANCLE, TIMEOUT
<1>5. CASE ~Exiting(d)
  BY <1>2, <1>3, <1>4, <1>5, TakeOutOK
<1>6. CASE Exiting(d)
  BY <1>2, <1>3, <1>4, <1>6, ForgetOK
<1>. QED BY <1>5, <1>6

LEMMA TickEndOK ==
  ASSUME IInv, TickEnd
  PROVE  IInv'
<1>1. /\ UNCHANGED <<frameVars, status, futures, locked, bound, alive>> /\ At("tick")
      /\ timer' = timer /\ last_tick' = Top.time /\ ticking' = FALSE /\ Pop
      /\ awaited' = awaited /\ ops' = ops
  BY DEF TickEnd, frameVars, promiseVars, refVars, boundVars
<1>2. /\ stack # <<>> /\ Top.pc = "tick" /\ ~At("resume") /\ ~At("await_resume")
      /\ Top \in Call /\ Rest = Tail(stack) /\ Rest \in Seq(Call) /\ Stacked(futures, flags, Rest)
  BY <1>1, StackNow DEF At
<1>3. /\ timer' \in [Co -> Nat] /\ last_tick' \in Nat /\ ticking' \in BOOLEAN
      /\ awaited' \in [Co -> 0..MaxAwait] /\ ops' \in 0..MaxOp
      /\ \A c \in Co : timer'[c] # 0 => timer[c] # 0
  BY <1>1, <1>2, Types DEF Call
<1>4. Adds(Rest, {"tick"})
  <2>1. Stacked(futures', flags', Rest) /\ stack' = Rest
    BY <1>1, <1>2 DEF frameVars, Pop
  <2>. QED BY <2>1, <1>2, AddsNone
<1>. QED BY <1>1, <1>2, <1>3, <1>4, TableSame

-----------------------------------------------------------------------------
(* reset() *)

\* The table is emptied.
LEMMA Emptied ==
  ASSUME IInv, UNCHANGED <<frameVars, status, locked, bound>>, Erase(Managed),
         awaited' \in [Co -> 0..MaxAwait], ops' \in 0..MaxOp,
         last_tick' \in Nat, ticking' \in BOOLEAN, alive' \in BOOLEAN,
         ~At("resume"), ~At("await_resume"),
         NEW S \in {stack, Rest}, S = stack \/ Top.pc = "destroyed",
         Adds(S, {"reset", "forget", "destroyed"}),
         \E k \in InProgress' : k.pc = "forget" /\ k.todo = Managed
  PROVE  IInv'
<1>1. UNCHANGED frameVars /\ status' = status /\ locked' = locked /\ bound' = bound
      /\ Managed \in SUBSET Co
  BY DEF Managed
<1>2. /\ futures' \in [Co -> SUBSET (Co \cup {Main, Table})] /\ timer' \in [Co -> Nat]
      /\ \A d \in Co \ Managed : futures'[d] = futures[d] /\ timer'[d] = timer[d]
      /\ \A d \in Managed : futures'[d] = futures[d] \ {Table} /\ timer'[d] = 0
      /\ CallsOf(S) \subseteq InProgress /\ Managed' = {}
  BY <1>1, Erased
<1>3. TypeOK'
  <2>1. stack' \in Seq(Call)
    BY DEF Adds
  <2>. QED BY <2>1, <1>1, <1>2, Types, QuietTypes
<1>4. StatusGrows /\ \A c \in Co : Exiting(c)' <=> Exiting(c)
  BY <1>1 DEF StatusGrows, Exiting
<1>5. TableInv'
  <2>1. \A c \in Co : timer'[c] = 0
    BY <1>2 DEF IInv, TableInv
  <2>. QED BY <2>1, <1>2 DEF TableInv
<1>6. ASSUME NEW k \in CallsOf(S), k.pc = "reset", NEW c \in k.todo
      PROVE  c \notin Managed' /\ (bound'[c] \/ Exiting(c)')
  <2>1. c \in Co /\ (bound[c] \/ Exiting(c))
    BY <1>2, <1>6, StackNow DEF CallOK, Call
  <2>. QED BY <2>1, <1>1, <1>2, <1>4
<1>7. ASSUME NEW c \in Co, futures[c] # {}, futures'[c] = {} PROVE Held(c)'
  <2>1. c \in Managed
    BY <1>2, <1>7
  <2>. QED BY <2>1 DEF Held
<1>8. \A c \in Co : futures'[c] # {} => futures[c] # {}
  BY <1>2
<1>9. "await_resume" \notin {"reset", "forget", "destroyed"}
      /\ (S = stack \/ Top.pc \in {"started", "unbind", "tick", "reset", "destroyed"})
  OBVIOUS
<1>. QED BY <1>1, <1>3, <1>4, <1>5, <1>6, <1>7, <1>8, <1>9, QuietTable

LEMMA ForgetAll ==
  ASSUME IInv, UNCHANGED frameVars, Erase(Managed), NEW S \in Seq(Call), Stacked(futures', flags', S)
  PROVE  /\ Forget(Managed) \in Call /\ Forget(Managed).pc = "forget"
         /\ Forget(Managed).todo = Managed /\ \A d \in Managed : Alive(d)'
         /\ <<Forget(Managed)>> \o S \in Seq(Call)
         /\ CallsOf(<<Forget(Managed)>> \o S) = {Forget(Managed)} \cup CallsOf(S)
         /\ Stacked(futures', flags', <<Forget(Managed)>> \o S)
<1>1. Managed \in SUBSET Co /\ \A d \in Managed : Alive(d)'
  <2>1. \A d \in Managed : Alive(d)
    BY Reached DEF Managed
  <2>. QED BY <2>1 DEF Managed, Alive, frameVars
<1>2. PICK f : f = Forget(Managed)
  OBVIOUS
<1>3. f \in Call /\ f.pc = "forget" /\ f.todo = Managed
  BY <1>1, <1>2, FreshForget
<1>4. Supported(futures', flags', f, CallsOf(S))
  BY <1>3, Unsupported
<1>5. /\ <<f>> \o S \in Seq(Call) /\ CallsOf(<<f>> \o S) = {f} \cup CallsOf(S)
      /\ Stacked(futures', flags', <<f>> \o S)
  BY <1>3, <1>4, Put, StackedPut
<1>. QED BY <1>1, <1>2, <1>3, <1>5

LEMMA ResetsTo ==
  ASSUME IInv, NEW S \in Seq(Call), ResetTo(S), Stacked(futures', flags', S),
         \A m \in CallsOf(S) : m.pc = "reset" => m.todo \cap Managed = {}
  PROVE  /\ Adds(S, {"reset", "forget", "destroyed"})
         /\ \E k \in InProgress' : k.pc = "forget" /\ k.todo = Managed
<1>1. PICK w : w = Managed
  OBVIOUS
<1>2. w \in SUBSET Co
  BY <1>1 DEF Managed
<1>. DEFINE f == Forget(w)
            k == [NewCall("reset", Null) EXCEPT !.todo = w]
            T == <<f>> \o S
<1>3. /\ UNCHANGED frameVars /\ Erase(Managed) /\ stack' = <<k, f>> \o S
      /\ UNCHANGED <<status, bound>>
  BY <1>1 DEF ResetTo
<1>4. /\ f \in Call /\ f.pc = "forget" /\ f.todo = w /\ \A d \in w : Alive(d)'
      /\ T \in Seq(Call) /\ CallsOf(T) = {f} \cup CallsOf(S) /\ Stacked(futures', flags', T)
  BY <1>1, <1>3, ForgetAll
<1>5. k \in Call /\ k.pc = "reset" /\ k.todo = w
  <2>1. "reset" \in Label /\ Null \in Co \cup Event \cup {Null}
    BY DEF Label
  <2>. QED BY <2>1, <1>2 DEF NewCall, Call
<1>6. T = <<f>> \o S /\ stack' = <<k>> \o T
  BY <1>3, <1>4, <1>5, TwoCalls
<1>. HIDE DEF f, k, T
<1>7. CallOK(f)'
  BY <1>4, OkForget
<1>8. CallOK(k)'
  <2>1. Managed' = {}
    <3>1. Managed \in SUBSET Co /\ stack \in {stack, Rest}
      BY DEF Managed
    <3>2. Managed' = Managed \ Managed
      BY <1>3, <3>1, Erased
    <3>. QED BY <3>2
  <2>2. \A d \in w : bound'[d]
    BY <1>1, <1>3 DEF IInv, TableInv
  <2>3. \A d \in w : frame'[d] # "none"
    BY <1>4 DEF Alive
  <2>. QED BY <2>1, <2>2, <2>3, <1>5, OkReset
<1>9. Supported(futures', flags', k, CallsOf(T))
  <2>1. \A d \in k.todo : \E m \in CallsOf(T) : m.pc = "forget" /\ d \in m.todo
    BY <1>4, <1>5
  <2>2. \A m \in CallsOf(T) : m.pc = "reset" => m.todo \cap k.todo = {}
    BY <1>1, <1>4, <1>5
  <2>. QED BY <2>1, <2>2, <1>5 DEF Supported, Runs
<1>10. /\ k.pc \in {"reset", "forget", "destroyed"}
       /\ f.pc \in {"reset", "forget", "destroyed"} /\ f.pc # "resume"
  BY <1>4, <1>5
<1>11. Adds(T, {"reset", "forget", "destroyed"})
  BY <1>4, <1>5, <1>6, <1>8, <1>9, <1>10, AddsOne
<1>12. Adds(S, {"reset", "forget", "destroyed"}) /\ f \in InProgress'
  BY <1>4, <1>6, <1>7, <1>10, <1>11, AddsMore
<1>. QED BY <1>1, <1>4, <1>12

LEMMA ResetOK ==
  ASSUME IInv, Reset
  PROVE  IInv'
<1>1. Op /\ ResetTo(stack) /\ alive' = alive /\ UNCHANGED frameVars
  BY DEF Reset, Calls, ResetTo
<1>2. ops' \in 0..MaxOp /\ awaited' \in [Co -> 0..MaxAwait] /\ ~At("resume") /\ ~At("await_resume")
  BY <1>1, OpFacts, Types
<1>3. /\ UNCHANGED <<frameVars, status, locked, bound>> /\ Erase(Managed)
      /\ last_tick' \in Nat /\ ticking' \in BOOLEAN /\ alive' \in BOOLEAN
  BY <1>1, Types DEF ResetTo
<1>4. stack \in Seq(Call) /\ Stacked(futures', flags', stack) /\ CallsOf(stack) \subseteq InProgress
  <2>1. Managed \in SUBSET Co
    BY DEF Managed
  <2>. QED BY <2>1, <1>1, <1>3, Erased
<1>5. \A m \in CallsOf(stack) : m.pc = "reset" => m.todo \cap Managed = {}
  BY <1>4, StackNow DEF CallOK
<1>6. /\ Adds(stack, {"reset", "forget", "destroyed"})
      /\ \E k \in InProgress' : k.pc = "forget" /\ k.todo = Managed
  BY <1>1, <1>4, <1>5, ResetsTo
<1>. QED BY <1>2, <1>3, <1>6, Emptied

LEMMA DestroyOK ==
  ASSUME IInv, Destroy
  PROVE  IInv'
<1>. DEFINE k == NewCall("destroyed", Null)
            T == <<k>> \o stack
<1>1. Op /\ stack = <<>> /\ ResetTo(<<k>>) /\ alive' = alive
  BY DEF Destroy, Calls, InMain
<1>2. ops' \in 0..MaxOp /\ awaited' \in [Co -> 0..MaxAwait] /\ ~At("resume") /\ ~At("await_resume")
  BY <1>1, OpFacts, Types
<1>3. k \in Call /\ k.pc = "destroyed"
  <2>1. "destroyed" \in Label /\ Null \in Co \cup Event \cup {Null}
    BY DEF Label
  <2>. QED BY <2>1, Fresh
<1>4. ResetTo(T)
  <2>1. <<k>> \o stack = <<k>>
    BY <1>1, <1>3
  <2>. QED BY <2>1, <1>1
<1>5. T = <<k>> \o stack
  OBVIOUS
<1>. HIDE DEF k
<1>6. /\ UNCHANGED <<frameVars, status, locked, bound>> /\ UNCHANGED frameVars /\ Erase(Managed)
      /\ last_tick' \in Nat /\ ticking' \in BOOLEAN /\ alive' \in BOOLEAN
  <2>1. /\ UNCHANGED <<frameVars, status, locked, bound>> /\ Erase(Managed)
        /\ last_tick' = 0 /\ ticking' = FALSE
    BY <1>4 DEF ResetTo
  <2>2. last_tick' \in Nat /\ ticking' \in BOOLEAN
    BY <2>1
  <2>3. alive' \in BOOLEAN
    BY <1>1, Types
  <2>4. UNCHANGED frameVars
    BY <2>1
  <2>. QED BY <2>1, <2>2, <2>3, <2>4
<1>7. stack \in Seq(Call) /\ Stacked(futures', flags', stack) /\ CallsOf(stack) = {}
  <2>1. Managed \in SUBSET Co
    BY DEF Managed
  <2>2. CallsOf(stack) = {}
    BY <1>1, NoCalls
  <2>. QED BY <2>1, <2>2, <1>6, Erased
<1>8. T \in Seq(Call) /\ Stacked(futures', flags', T) /\ CallsOf(T) = {k}
  <2>1. Supported(futures', flags', k, CallsOf(stack))
    BY <1>3, Unsupported
  <2>. QED BY <2>1, <1>3, <1>7, Put, StackedPut
<1>. HIDE DEF T
<1>9. \A m \in CallsOf(T) : m.pc = "reset" => m.todo \cap Managed = {}
  BY <1>3, <1>8
<1>10. /\ Adds(T, {"reset", "forget", "destroyed"})
       /\ \E m \in InProgress' : m.pc = "forget" /\ m.todo = Managed
  BY <1>4, <1>8, <1>9, ResetsTo
<1>11. Adds(stack, {"reset", "forget", "destroyed"})
  <2>1. k.pc \in {"reset", "forget", "destroyed"} /\ k.pc # "resume" /\ CallOK(k)'
    BY <1>3, OkPlain
  <2>. QED BY <2>1, <1>3, <1>5, <1>7, <1>10, AddsMore
<1>. QED BY <1>2, <1>6, <1>10, <1>11, Emptied

LEMMA DestroyedOK ==
  ASSUME IInv, Destroyed
  PROVE  IInv'
<1>1. /\ UNCHANGED <<frameVars, status, locked, bound>> /\ UNCHANGED frameVars /\ Erase(Managed)
      /\ alive' = FALSE /\ last_tick' = last_tick /\ ticking' = ticking
      /\ awaited' = awaited /\ ops' = ops /\ At("destroyed") /\ Become(Forget(Managed))
  BY DEF Destroyed, boundVars
<1>2. /\ stack # <<>> /\ Top.pc = "destroyed" /\ ~At("resume") /\ ~At("await_resume")
      /\ Rest = Tail(stack)
  BY <1>1, StackNow DEF At
<1>3. Rest \in Seq(Call) /\ Stacked(futures', flags', Rest)
  <2>1. Managed \in SUBSET Co
    BY DEF Managed
  <2>. QED BY <2>1, <1>1, Erased
<1>4. PICK f : f = Forget(Managed)
  OBVIOUS
<1>5. /\ f \in Call /\ f.pc = "forget" /\ f.todo = Managed /\ \A d \in Managed : Alive(d)'
  BY <1>1, <1>3, <1>4, ForgetAll
<1>6. /\ stack' = <<f>> \o Rest /\ CallOK(f)' /\ f.pc \in {"reset", "forget", "destroyed"}
      /\ Supported(futures', flags', f, CallsOf(Rest))
  BY <1>1, <1>2, <1>4, <1>5, OkForget, Unsupported DEF Become
<1>7. Adds(Rest, {"reset", "forget", "destroyed"}) /\ f \in InProgress'
  BY <1>3, <1>5, <1>6, AddsOne
<1>. QED BY <1>1, <1>2, <1>5, <1>7, Types, Emptied

LEMMA ResetTaskOK ==
  ASSUME IInv, ResetTask
  PROVE  IInv'
<1>1. /\ UNCHANGED frameVars /\ futures' = futures /\ UNCHANGED managerVars
      /\ awaited' = awaited /\ ops' = ops /\ At("reset")
  BY DEF ResetTask, boundVars
<1>2. PICK d \in Top.todo :
        LET rest == <<[Top EXCEPT !.todo = @ \ {d}]>> \o Tail(stack)
        IN  IF ~Exiting(d) THEN Cleanup(d) /\ KillTask(d, KILLED, FALSE, rest)
            ELSE stack' = rest /\ UNCHANGED <<status, locked, bound>>
  BY DEF ResetTask
<1>3. /\ stack # <<>> /\ Top.pc = "reset" /\ ~At("resume") /\ ~At("await_resume") /\ ~Runs(Top)
      /\ Top \in Call /\ CallOK(Top) /\ Supported(futures, flags, Top, Below)
      /\ stack \in Seq(Call) /\ Rest \in Seq(Call) /\ Stacked(futures, flags, Rest)
      /\ Rest = Tail(stack) /\ InProgress = {Top} \cup Below /\ Below = CallsOf(Rest)
  BY <1>1, StackNow DEF At, Runs, Below
<1>4. PICK k : k = [Top EXCEPT !.todo = @ \ {d}]
  OBVIOUS
<1>5. k \in Call /\ k.pc = "reset" /\ k.todo = Top.todo \ {d}
  BY <1>3, <1>4, Less
<1>6. /\ d \in Co /\ Top.todo \subseteq Co
      /\ \A c \in Top.todo : frame[c] # "none" /\ c \notin Managed /\ (bound[c] \/ Exiting(c))
      /\ \A c \in Top.todo : \E m \in Below : m.pc = "forget" /\ c \in m.todo
      /\ \A m \in Below : m.pc = "reset" => m.todo \cap Top.todo = {}
  <2>1. Top.todo \subseteq Co
    BY <1>3 DEF Call
  <2>2. \A c \in Top.todo : frame[c] # "none" /\ c \notin Managed /\ (bound[c] \/ Exiting(c))
    BY <1>3 DEF CallOK
  <2>. QED BY <1>2, <1>3, <2>1, <2>2 DEF Supported
<1>7. Alive(d)
  <2>1. PICK m \in Below : m.pc = "forget" /\ d \in m.todo
    BY <1>6
  <2>. QED BY <2>1, StackNow DEF CallOK
<1>. DEFINE T == <<k>> \o Rest
<1>8. Stacked(futures', flags', Rest) /\ Supported(futures', flags', k, CallsOf(Rest))
  <2>1. Supported(futures, flags, k, Below)
    BY <1>5, <1>6 DEF Supported, Runs
  <2>. QED BY <2>1, <1>1, <1>3 DEF frameVars
<1>9. /\ T \in Seq(Call) /\ Stacked(futures', flags', T)
      /\ \E m \in CallsOf(T) : m.pc = "forget" /\ d \in m.todo
  <2>1. T \in Seq(Call) /\ Stacked(futures', flags', T) /\ CallsOf(T) = {k} \cup CallsOf(Rest)
    BY <1>3, <1>5, <1>8, Put, StackedPut
  <2>. QED BY <2>1, <1>3, <1>6
<1>10. T = <<k>> \o Rest /\ (IF ~Exiting(d) THEN Cleanup(d) /\ KillTask(d, KILLED, FALSE, T)
                             ELSE stack' = T /\ UNCHANGED <<status, locked, bound>>)
  BY <1>2, <1>3, <1>4
<1>. HIDE DEF T
<1>11. /\ Adds(T, {"resume", "unlock"}) /\ StatusGrows
       /\ status' \in [Co -> CREATED..TIMEOUT] /\ locked' \in [Co -> BOOLEAN]
       /\ \A c \in Co : Suspended(c) /\ attached[c] /\ Exiting(c)' /\ ~Exiting(c) => TopIs("resume", c)'
       /\ bound' \in [Co -> BOOLEAN] /\ \A c \in Co \ {d} : bound'[c] = bound[c]
       /\ bound'[d] = bound[d] \/ ~Exiting(d)
  <2>1. CASE ~Exiting(d)
    <3>1. Cleanup(d) /\ KillTask(d, KILLED, FALSE, T)
      BY <1>10, <2>1
    <3>2. KILLED \in CANCLE..TIMEOUT /\ (FALSE => Suspended(d))
      BY DEF KILLED, CANCLE, TIMEOUT
    <3>3. \E m \in CallsOf(T) : \/ m.pc = "forget" /\ d \in m.todo
                                \/ m.pc = "body" /\ m.co \in futures'[d]
      BY <1>9
    <3>4. /\ Adds(T, {"resume", "unlock"}) /\ StatusGrows
          /\ status' \in [Co -> CREATED..TIMEOUT] /\ locked' \in [Co -> BOOLEAN]
          /\ \A c \in Co : Suspended(c) /\ attached[c] /\ Exiting(c)' /\ ~Exiting(c) => TopIs("resume", c)'
      BY <1>1, <1>3, <1>6, <1>7, <1>9, <3>1, <3>2, <3>3, Killing
    <3>5. bound' \in [Co -> BOOLEAN] /\ \A c \in Co \ {d} : bound'[c] = bound[c]
      BY <3>1, Types DEF Cleanup
    <3>. QED BY <3>4, <3>5, <2>1
  <2>2. CASE Exiting(d)
    <3>1. stack' = T /\ status' = status /\ locked' = locked /\ bound' = bound
      BY <1>10, <2>2
    <3>2. Adds(T, {"resume", "unlock"})
      BY <3>1, <1>9, AddsNone
    <3>. QED BY <3>1, <3>2, Types DEF StatusGrows, Exiting
  <2>. QED BY <2>1, <2>2
<1>12. Managed' = Managed /\ \A c \in Co : Finished(c)' = Finished(c)
  BY <1>1 DEF Managed, Finished, frameVars
<1>13. CallOK(k)'
  <2>1. ASSUME NEW c \in k.todo
        PROVE  frame'[c] # "none" /\ c \notin Managed' /\ (bound'[c] \/ Exiting(c)')
    <3>1. c \in Co \ {d} /\ frame[c] # "none" /\ c \notin Managed /\ (bound[c] \/ Exiting(c))
      BY <2>1, <1>5, <1>6
    <3>2. frame' = frame
      BY <1>1 DEF frameVars
    <3>. QED BY <3>1, <3>2, <1>11, <1>12, Grown
  <2>. QED BY <2>1, <1>5, OkReset
<1>14. Adds(Rest, {"resume", "unlock", "reset"})
  <2>1. Adds(T, {"resume", "unlock", "reset"})
    BY <1>11, AddsWider
  <2>2. k.pc \in {"resume", "unlock", "reset"} /\ k.pc # "resume"
    BY <1>5
  <2>. QED BY <2>1, <2>2, <1>3, <1>5, <1>10, <1>13, AddsMore
<1>15. TypeOK'
  <2>1. stack' \in Seq(Call)
    BY <1>14 DEF Adds
  <2>. QED BY <2>1, <1>1, <1>11, Types, QuietTypes DEF managerVars
<1>16. TableInv'
  <2>1. \A c \in Managed : c \in Co \ {d}
    BY <1>2, <1>6 DEF Managed
  <2>2. timer' = timer /\ alive' = alive
    BY <1>1 DEF managerVars
  <2>3. \A c \in Co : timer'[c] # 0 => c \in Managed'
    BY <2>2, <1>12 DEF IInv, TableInv
  <2>4. \A c \in Managed' : bound'[c] /\ alive'
    BY <2>1, <2>2, <1>11, <1>12 DEF IInv, TableInv
  <2>5. ASSUME NEW c \in Managed, Finished(c) PROVE \E m \in InProgress' : m.pc = "unbind" /\ m.co = c
    <3>1. PICK m \in InProgress : m.pc = "unbind" /\ m.co = c
      BY <2>5 DEF IInv, TableInv
    <3>2. m \in Below
      BY <3>1, <1>3
    <3>. QED BY <3>1, <3>2, <1>3, <1>14 DEF Adds
  <2>. QED BY <2>1, <2>3, <2>4, <2>5, <1>12 DEF TableInv
<1>17. ASSUME NEW m \in CallsOf(Rest), m.pc = "reset", NEW c \in m.todo
       PROVE  c \notin Managed' /\ (bound'[c] \/ Exiting(c)')
  <2>1. c \in Co /\ c \notin Managed /\ (bound[c] \/ Exiting(c))
    BY <1>3, <1>17, StackNow DEF CallOK, Call
  <2>2. c # d
    BY <1>2, <1>3, <1>6, <1>17
  <2>. QED BY <2>1, <2>2, <1>11, <1>12, Grown
<1>18. \A c \in Co : (futures'[c] # {} <=> futures[c] # {})
  BY <1>1
<1>19. "await_resume" \notin {"resume", "unlock", "reset"} /\ Rest \in {stack, Rest}
       /\ Top.pc \in {"started", "unbind", "tick", "reset", "destroyed"}
  BY <1>3
<1>. QED BY <1>1, <1>3, <1>11, <1>14, <1>15, <1>16, <1>17, <1>18, <1>19, QuietTable

LEMMA ResetEndOK ==
  ASSUME IInv, ResetEnd
  PROVE  IInv'
<1>1. /\ UNCHANGED <<frameVars, status, futures, bound, boundVars>> /\ locked' = locked
      /\ UNCHANGED managerVars /\ stack # <<>> /\ Pop /\ Top.pc = "reset" /\ Top.todo = {}
  BY DEF ResetEnd, frameVars, promiseVars, refVars, At
<1>. QED BY <1>1, Types, Returns

-----------------------------------------------------------------------------
(* Steps that change the frame of a coroutine. *)

\* Only c changes, and what it has gone through it has gone through.
Others(c) == \A x \in Co \ {c} :
  /\ frame'[x] = frame[x] /\ flags'[x] = flags[x] /\ status'[x] = status[x]
  /\ awaits'[x] = awaits[x] /\ attached'[x] = attached[x] /\ kept'[x] = kept[x]
GoesOn(c) ==
  /\ frame[c] # "none" => frame'[c] # "none"
  /\ Alive(c) => Alive(c)'
  /\ Finished(c) => Finished(c)'
  /\ "returned" \in flags[c] => "returned" \in flags'[c]
  /\ Exiting(c) /\ frame[c] # "none" => Exiting(c)'
  /\ status[c] # CREATED => status'[c] # CREATED

LEMMA Others2 ==
  ASSUME NEW c \in Co, Others(c), GoesOn(c), NEW x \in Co
  PROVE  /\ frame[x] # "none" => frame'[x] # "none"
         /\ Alive(x) => Alive(x)'
         /\ Finished(x) => Finished(x)'
         /\ "returned" \in flags[x] => "returned" \in flags'[x]
         /\ Exiting(x) /\ frame[x] # "none" => Exiting(x)'
         /\ status[x] # CREATED => status'[x] # CREATED
         /\ x # c => /\ Suspended(x)' = Suspended(x) /\ Alive(x)' = Alive(x)
                     /\ Finished(x)' = Finished(x) /\ Exiting(x)' = Exiting(x)
<1>1. CASE x = c
  BY <1>1 DEF GoesOn
<1>2. CASE x # c
  BY <1>2 DEF Others, Alive, Finished, Exiting, Suspended
<1>. QED BY <1>1, <1>2

LEMMA CallKept ==
  ASSUME NEW c \in Co, Others(c), GoesOn(c), NEW k \in Call, CallOK(k),
         Runs(k) \/ k.pc = "resume" => k.co # c,
         UNCHANGED bound, Managed' = Managed
  PROVE  CallOK(k)'
<1>1. k.pc \in OfTask \cup {"wake", "forget", "tick", "reset", "destroyed"}
      /\ (k.pc \in OfTask => k.co \in Co /\ k.todo = {}) /\ k.todo \subseteq Co
  BY DEF CallOK, Call
<1>2. CASE k.pc \in OfTask
  <2>1. k.co \in Co /\ k.pc \notin {"wake", "forget", "tick", "reset", "destroyed"}
    BY <1>1, <1>2, NotTask
  <2>2. CASE Runs(k) \/ k.pc = "resume"
    <3>1. k.co \in Co \ {c}
      BY <2>1, <2>2
    <3>2. /\ frame'[k.co] = frame[k.co] /\ flags'[k.co] = flags[k.co] /\ status'[k.co] = status[k.co]
          /\ awaits'[k.co] = awaits[k.co] /\ attached'[k.co] = attached[k.co]
      BY <3>1 DEF Others
    <3>. QED BY <1>1, <1>2, <2>1, <2>2, <3>2 DEF CallOK, Runs, Suspended
  <2>3. CASE ~(Runs(k) \/ k.pc = "resume")
    <3>1. /\ Alive(k.co) => Alive(k.co)'
          /\ Finished(k.co) => Finished(k.co)'
          /\ "returned" \in flags[k.co] => "returned" \in flags'[k.co]
          /\ Exiting(k.co) /\ frame[k.co] # "none" => Exiting(k.co)'
      BY <2>1, Others2
    <3>2. Alive(k.co) => frame[k.co] # "none"
      BY DEF Alive
    <3>. QED BY <1>1, <1>2, <2>1, <2>3, <3>1, <3>2 DEF CallOK, Runs
  <2>. QED BY <2>2, <2>3
<1>3. CASE k.pc = "wake"
  <2>1. k.co \in Co => Finished(k.co)'
    BY <1>3, Others2 DEF CallOK
  <2>2. \A x \in k.todo : Alive(x)' /\ status'[x] # CREATED
    BY <1>1, <1>3, Others2 DEF CallOK
  <2>3. k.co \in Co \cup Event
    BY <1>3 DEF CallOK
  <2>. QED BY <2>1, <2>2, <2>3, <1>3, OkWake
<1>4. CASE k.pc = "forget"
  <2>1. \A x \in k.todo : Alive(x)'
    BY <1>1, <1>4, Others2 DEF CallOK
  <2>. QED BY <2>1, <1>4, OkForget
<1>5. CASE k.pc = "reset"
  <2>1. \A x \in k.todo : x \in Co /\ frame[x] # "none" /\ x \notin Managed /\ (bound[x] \/ Exiting(x))
    BY <1>1, <1>5 DEF CallOK
  <2>2. \A x \in k.todo : frame'[x] # "none" /\ x \notin Managed' /\ (bound'[x] \/ Exiting(x)')
    BY <2>1, Others2
  <2>. QED BY <2>2, <1>5, OkReset
<1>6. CASE k.pc \in {"tick", "destroyed"}
  BY <1>6, OkPlain
<1>. QED BY <1>1, <1>2, <1>3, <1>4, <1>5, <1>6

LEMMA RestKept ==
  ASSUME IInv, UNCHANGED futures, \A x \in Co : "returned" \in flags[x] => "returned" \in flags'[x],
         NEW S \in {stack, Rest}
  PROVE  S \in Seq(Call) /\ Stacked(futures', flags', S) /\ CallsOf(S) \subseteq InProgress
<1>1. S \in Seq(Call) /\ Stacked(futures, flags, S) /\ CallsOf(S) \subseteq InProgress
  BY StackNow DEF InProgress, Below
<1>2. \A m \in CallsOf(S) : m.pc \in OfTask => m.co \in Co
  BY <1>1, StackNow DEF CallOK
<1>3. /\ \A d \in Co : Main \in futures[d] => Main \in futures'[d]
      /\ \A m \in CallsOf(S) : \A d \in Co : m.pc = "body" /\ m.co \in futures[d] => m.co \in futures'[d]
  OBVIOUS
<1>4. Stacked(futures', flags', S)
  BY <1>1, <1>2, <1>3, StackedKept
<1>. QED BY <1>1, <1>4

\* The innermost call runs c, and goes on.
LEMMA CoStep ==
  ASSUME IInv, NEW c \in Co, stack # <<>>, Top.co = c,
         Top.pc \in {"resume", "await_resume", "body", "locals", "final"},
         TypeOK', Others(c), GoesOn(c), UNCHANGED <<futures, bound, managerVars, waiting>>,
         NEW L, Adds(Rest, L), BelowOK',
         \A k \in Below : Runs(k) => k.co # c,
         FrameInv!(c)', AwaitInv!(c)', Reg!(c)', KillCover!(c)', CallersInv',
         \A y \in Co \cup Event : \A x \in callers[y] : x # c =>
           \/ x \in callers'[y]
           \/ \E k \in InProgress' : k.pc = "wake" /\ k.co = y /\ x \in k.todo,
         Finished(c)' /\ ~Finished(c) => \E k \in InProgress' : k.pc = "unbind" /\ k.co = c,
         Top.pc = "locals" => \E k \in InProgress' : k.pc \in {"drop", "release", "locals"} /\ k.co = c
  PROVE  IInv'
<1>1. /\ Top \in Call /\ Top \in InProgress /\ InProgress = {Top} \cup Below
      /\ Below \subseteq Call /\ \A k \in InProgress : CallOK(k)
      /\ Below = CallsOf(Rest) /\ \A k \in Below : k.pc \notin {"resume", "await_resume"}
  BY StackNow DEF Below
<1>2. Below \subseteq InProgress' /\ StackOK'
  BY <1>1 DEF Adds
<1>3. /\ futures' = futures /\ bound' = bound /\ timer' = timer /\ alive' = alive /\ waiting' = waiting
      /\ Managed' = Managed
  BY DEF managerVars, Managed
<1>4. CallsOK'
  <2>1. SUFFICES ASSUME NEW k \in InProgress' PROVE CallOK(k)'
    BY DEF CallsOK
  <2>2. ASSUME k \in Below PROVE CallOK(k)'
    <3>1. k \in Call /\ CallOK(k) /\ (Runs(k) \/ k.pc = "resume" => k.co # c)
      BY <1>1, <2>2
    <3>. QED BY <3>1, <1>3, CallKept
  <2>. QED BY <2>1, <2>2, <1>1 DEF Adds
<1>5. ASSUME NEW x \in Co \ {c}
      PROVE  FrameInv!(x)' /\ AwaitInv!(x)' /\ Reg!(x)' /\ KillCover!(x)'
  <2>1. /\ frame'[x] = frame[x] /\ flags'[x] = flags[x] /\ status'[x] = status[x]
        /\ awaits'[x] = awaits[x] /\ attached'[x] = attached[x] /\ kept'[x] = kept[x]
        /\ Suspended(x)' = Suspended(x) /\ Alive(x)' = Alive(x) /\ Exiting(x)' = Exiting(x)
    BY <1>5, Others2 DEF Others
  <2>2. ~TopIs("resume", x) /\ ~TopIs("await_resume", x)
    BY <1>5 DEF TopIs
  <2>3. FrameInv!(x)'
    <3>1. FrameInv!(x)
      BY <1>5 DEF IInv, FrameInv
    <3>2. frame[x] = "active" => \E k \in InProgress' : Runs(k) /\ k.co = x
      BY <3>1, <1>1, <1>2, <1>5
    <3>. QED BY <3>1, <3>2, <2>1, <1>3
  <2>4. AwaitInv!(x)'
    <3>1. AwaitInv!(x)
      BY <1>5 DEF IInv, AwaitInv
    <3>2. PICK a : a = awaits[x]
      OBVIOUS
    <3>3. awaits'[x] = a /\ (a \in Co => Alive(a)')
      BY <3>1, <3>2, <2>1, Others2
    <3>4. awaits'[x] \in Co => Alive(awaits[x])'
      BY <3>3 DEF Alive
    <3>. QED BY <3>1, <3>4, <2>1, <2>2, <1>3
  <2>5. Reg!(x)'
    <3>1. SUFFICES ASSUME Suspended(x), attached[x]
          PROVE  \/ x \in callers'[awaits[x]]
                 \/ \E k \in InProgress' : k.pc = "wake" /\ k.co = awaits[x] /\ x \in k.todo
      BY <2>1
    <3>2. \/ x \in callers[awaits[x]]
          \/ \E k \in InProgress : k.pc = "wake" /\ k.co = awaits[x] /\ x \in k.todo
      BY <3>1, <2>2, <1>5 DEF IInv, Reg
    <3>3. awaits[x] \in Co \cup Event
      <4>1. awaits[x] # Null
        BY <3>1, <1>5 DEF IInv, AwaitInv
      <4>. QED BY <4>1, <1>5 DEF IInv, TypeOK, TaskTypeOK, PromiseTypeOK
    <3>. QED BY <3>2, <3>3, <1>1, <1>2, <1>5
  <2>6. KillCover!(x)'
    <3>1. SUFFICES ASSUME Exiting(x), Suspended(x), attached[x]
          PROVE  \E k \in InProgress' : k.pc = "drop" /\ k.co = x
      BY <2>1
    <3>2. \E k \in InProgress : k.pc = "drop" /\ k.co = x
      BY <3>1, <2>2, <1>5 DEF IInv, KillCover
    <3>. QED BY <3>2, <1>1, <1>2
  <2>. QED BY <2>3, <2>4, <2>5, <2>6
<1>6. FrameInv'
  BY <1>5 DEF FrameInv
<1>7. AwaitInv'
  BY <1>5 DEF AwaitInv
<1>8. Reg'
  BY <1>5 DEF Reg
<1>9. KillCover'
  BY <1>5 DEF KillCover
<1>10. HeldInv'
  <2>1. SUFFICES ASSUME NEW x \in Co, Alive(x)', futures[x] = {} PROVE Held(x)'
    BY <1>3 DEF HeldInv
  <2>2. CASE x = c
    <3>1. Alive(c)
      <4>1. CASE Top.pc = "resume"
        BY <4>1, <1>1 DEF CallOK, Suspended, Alive
      <4>2. CASE Runs(Top)
        BY <4>2, <1>1 DEF CallOK, Alive
      <4>3. CASE Top.pc = "final"
        BY <4>3, <1>1 DEF CallOK, Finished, Alive
      <4>. QED BY <4>1, <4>2, <4>3 DEF Runs
    <3>2. Held(c)
      BY <2>1, <2>2, <3>1 DEF IInv, HeldInv
    <3>3. PICK k \in InProgress : \/ k.pc = "forget" /\ c \in k.todo
                                  \/ k.pc \in {"drop", "release", "locals"} /\ k.co = c
      BY <3>2 DEF Held
    <3>4. CASE k \in Below
      BY <3>3, <3>4, <1>2, <2>2 DEF Held
    <3>5. CASE k = Top
      BY <3>3, <3>5, <2>2 DEF Held
    <3>. QED BY <3>4, <3>5, <1>1
  <2>3. CASE x # c
    <3>1. Held(x)
      BY <2>1, <2>3, Others2 DEF IInv, HeldInv
    <3>2. PICK k \in InProgress : \/ k.pc = "forget" /\ x \in k.todo
                                  \/ k.pc \in {"drop", "release", "locals"} /\ k.co = x
      BY <3>1 DEF Held
    <3>3. k \in Below
      BY <3>2, <2>3, <1>1
    <3>. QED BY <3>2, <3>3, <1>2 DEF Held
  <2>. QED BY <2>2, <2>3
<1>11. TableInv'
  <2>1. ASSUME NEW x \in Managed, Finished(x)' PROVE \E k \in InProgress' : k.pc = "unbind" /\ k.co = x
    <3>1. x \in Co
      BY DEF Managed
    <3>2. CASE ~Finished(x)
      BY <3>1, <3>2, <2>1, Others2
    <3>3. CASE Finished(x)
      <4>1. PICK k \in InProgress : k.pc = "unbind" /\ k.co = x
        BY <3>3 DEF IInv, TableInv
      <4>. QED BY <4>1, <1>1, <1>2
    <3>. QED BY <3>2, <3>3
  <2>. QED BY <2>1, <1>3 DEF IInv, TableInv
<1>. QED BY <1>2, <1>4, <1>6, <1>7, <1>8, <1>9, <1>10, <1>11 DEF IInv

-----------------------------------------------------------------------------
(* The coroutine. *)

LEMMA TopRuns ==
  ASSUME IInv, stack # <<>>, NEW c \in Co, Top.co = c,
         Top.pc \in {"resume", "await_resume", "body", "locals", "final"}
  PROVE  /\ Rest = Tail(stack) /\ Rest \in Seq(Call) /\ Below = CallsOf(Rest)
         /\ Top \in Call /\ CallOK(Top) /\ Top.todo = {} /\ Below \subseteq InProgress
         /\ InProgress = {Top} \cup Below
         /\ Supported(futures, flags, Top, Below)
         /\ \A k \in Below : k.pc \notin {"resume", "await_resume"}
         /\ \A k \in Below : Runs(k) => k.co # c
<1>1. /\ Rest = Tail(stack) /\ Rest \in Seq(Call) /\ Below = CallsOf(Rest)
      /\ Top \in Call /\ CallOK(Top) /\ Below \subseteq InProgress /\ InProgress = {Top} \cup Below
      /\ Supported(futures, flags, Top, Below) /\ \A k \in InProgress : CallOK(k)
      /\ \A k \in Below : k.pc \notin {"resume", "await_resume"}
  BY StackNow DEF Below
<1>2. Top.todo = {}
  <2>1. Top.pc \in OfTask
    BY DEF OfTask
  <2>. QED BY <1>1, <2>1 DEF CallOK
<1>3. ASSUME NEW k \in Below, Runs(k) PROVE k.co # c
  <2>1. CASE Runs(Top)
    BY <1>1, <1>3, <2>1 DEF Supported
  <2>2. CASE ~Runs(Top)
    <3>1. Top.pc \in {"resume", "final"}
      BY <2>2 DEF Runs
    <3>2. frame[c] # "active"
      BY <3>1, <1>1 DEF CallOK, Suspended, Finished
    <3>. QED BY <3>2, <1>1, <1>3 DEF CallOK
  <2>. QED BY <2>1, <2>2
<1>. QED BY <1>1, <1>2, <1>3

\* The innermost call goes on as k.
LEMMA GoesOnAs ==
  ASSUME IInv, stack # <<>>, UNCHANGED futures,
         \A x \in Co : "returned" \in flags[x] => "returned" \in flags'[x],
         NEW k \in Call, stack' = <<k>> \o Rest, Supported(futures', flags', k, Below), CallOK(k)'
  PROVE  /\ Adds(Rest, {k.pc}) /\ BelowOK' /\ k \in InProgress' /\ Top' = k /\ stack' # <<>>
         /\ stack' \in Seq(Call)
<1>1. /\ Rest \in Seq(Call) /\ Below = CallsOf(Rest)
      /\ \A m \in Below : m.pc \notin {"resume", "await_resume"}
  BY StackNow DEF Below
<1>2. Stacked(futures', flags', Rest)
  BY RestKept
<1>3. Adds(Rest, {k.pc}) /\ k \in InProgress' /\ Top' = k /\ stack' # <<>>
  BY <1>1, <1>2, AddsOne
<1>4. Below' = Below
  BY <1>1, StackPut
<1>. QED BY <1>1, <1>3, <1>4 DEF BelowOK, Adds

LEMMA FrameTypes ==
  ASSUME IInv, UNCHANGED <<waiting, self, locked, bound, managerVars, value>>,
         futures' \in [Co -> SUBSET (Co \cup {Main, Table})],
         frame' \in [Co -> Frame], status' \in [Co -> CREATED..TIMEOUT], flags' \in [Co -> SUBSET Flag],
         callers' \in [Co \cup Event -> SUBSET Co], awaits' \in [Co -> Co \cup Event \cup {Null}],
         attached' \in [Co -> BOOLEAN], stack' \in Seq(Call), kept' \in [Co -> BOOLEAN],
         awaited' \in [Co -> 0..MaxAwait], ops' \in 0..MaxOp
  PROVE  TypeOK'
BY DEF IInv, TypeOK, TaskTypeOK, PromiseTypeOK, GeneratorTypeOK, managerVars

LEMMA FrameTypesNow ==
  ASSUME IInv
  PROVE  /\ frame \in [Co -> Frame] /\ status \in [Co -> CREATED..TIMEOUT] /\ flags \in [Co -> SUBSET Flag]
         /\ callers \in [Co \cup Event -> SUBSET Co] /\ awaits \in [Co -> Co \cup Event \cup {Null}]
         /\ attached \in [Co -> BOOLEAN] /\ stack \in Seq(Call) /\ kept \in [Co -> BOOLEAN]
         /\ awaited \in [Co -> 0..MaxAwait] /\ ops \in 0..MaxOp
         /\ value \in [Event -> {"pending", "ready", "gone"}]
         /\ futures \in [Co -> SUBSET (Co \cup {Main, Table})] /\ self \in [Co -> Co \cup {Null}]
BY DEF IInv, TypeOK, TaskTypeOK, PromiseTypeOK, GeneratorTypeOK

LEMMA CallersSame ==
  ASSUME IInv, UNCHANGED <<callers, value>>, NEW c \in Co, Others(c), GoesOn(c),
         \A y \in Co \cup Event : c \in callers[y] => attached'[c] /\ awaits'[c] = y,
         Finished(c)' /\ ~Finished(c) => \E k \in InProgress' : k.pc = "final" /\ k.co = c,
         \A k \in InProgress : k.pc = "final" => k \in InProgress'
  PROVE  CallersInv'
<1>1. callers \in [Co \cup Event -> SUBSET Co]
  BY FrameTypesNow
<1>2. \A y \in Co \cup Event : \A x \in callers[y] : attached'[x] /\ awaits'[x] = y
  <2>1. SUFFICES ASSUME NEW y \in Co \cup Event, NEW x \in callers[y] PROVE attached'[x] /\ awaits'[x] = y
    OBVIOUS
  <2>2. x \in Co /\ attached[x] /\ awaits[x] = y
    BY <1>1 DEF IInv, CallersInv
  <2>. QED BY <2>2 DEF Others
<1>3. ASSUME NEW d \in Co, callers[d] # {}
      PROVE  Alive(d)' /\ (Finished(d)' => \E k \in InProgress' : k.pc = "final" /\ k.co = d)
  <2>1. Alive(d) /\ (Finished(d) => \E k \in InProgress : k.pc = "final" /\ k.co = d)
    BY <1>3 DEF IInv, CallersInv
  <2>2. Alive(d)' /\ (Finished(d)' /\ ~Finished(d) => d = c)
    BY <2>1, Others2
  <2>. QED BY <2>1, <2>2
<1>4. \A e \in Event : callers[e] # {} => value[e] = "pending"
  BY DEF IInv, CallersInv
<1>. QED BY <1>2, <1>3, <1>4 DEF CallersInv

LEMMA ResumeOK ==
  ASSUME IInv, UNCHANGED managerVars, Resume, UNCHANGED <<value, refVars, locked, bound, boundVars>>
  PROVE  IInv'
<1>1. PICK c : c = Top.co
  OBVIOUS
<1>2. /\ stack # <<>> /\ Top.pc = "resume" /\ Suspended(c) /\ frame' = [frame EXCEPT ![c] = "active"]
      /\ status' = status /\ flags' = flags /\ waiting' = waiting /\ callers' = callers
      /\ awaits' = awaits /\ attached' = attached /\ value' = value /\ futures' = futures
      /\ self' = self /\ kept' = kept /\ locked' = locked /\ bound' = bound /\ awaited' = awaited /\ ops' = ops
  BY <1>1 DEF Resume, At, refVars, boundVars
<1>3. c \in Co /\ status[c] # CREATED
  <2>1. CallOK(Top)
    BY <1>2, StackNow
  <2>. QED BY <2>1, <1>1, <1>2 DEF CallOK, OfTask
<1>4. /\ Rest = Tail(stack) /\ Below = CallsOf(Rest) /\ Top \in Call /\ Top.todo = {}
      /\ InProgress = {Top} \cup Below /\ \A m \in Below : Runs(m) => m.co # c
  BY <1>1, <1>2, <1>3, TopRuns
<1>5. PICK k : k = [Top EXCEPT !.pc = "await_resume"]
  OBVIOUS
<1>6. k \in Call /\ k.pc = "await_resume" /\ k.co = c /\ k.todo = {} /\ Runs(k)
  <2>1. "await_resume" \in Label
    BY DEF Label
  <2>. QED BY <2>1, <1>1, <1>4, <1>5, Moved DEF Runs
<1>7. stack' = <<k>> \o Rest
  BY <1>4, <1>5 DEF Resume, Goto, Become
<1>8. frame' \in [Co -> Frame] /\ frame'[c] = "active" /\ \A x \in Co \ {c} : frame'[x] = frame[x]
  BY <1>2, <1>3, FrameTypesNow DEF Frame
<1>9. Others(c) /\ GoesOn(c)
  BY <1>2, <1>3, <1>8 DEF Others, GoesOn, Alive, Finished, Suspended, Exiting
<1>10. "returned" \notin flags[c] /\ "destroying" \notin flags[c] /\ kept[c]
  BY <1>2, <1>3 DEF IInv, FrameInv, Suspended
<1>11. CallOK(k)'
  <2>1. "returned" \notin flags'[c]
    BY <1>2, <1>10
  <2>. QED BY <2>1, <1>3, <1>6, <1>8, OkRuns
<1>12. Supported(futures', flags', k, Below)
  BY <1>4, <1>6 DEF Supported, Runs
<1>13. /\ Adds(Rest, {k.pc}) /\ BelowOK' /\ k \in InProgress' /\ Top' = k /\ stack' # <<>>
       /\ stack' \in Seq(Call)
  BY <1>2, <1>6, <1>7, <1>11, <1>12, GoesOnAs
<1>14. TypeOK'
  BY <1>2, <1>8, <1>13, FrameTypesNow, FrameTypes
<1>15. FrameInv!(c)'
  <2>1. futures'[c] # {} => Alive(c)'
    BY <1>8 DEF Alive
  <2>. QED BY <2>1, <1>2, <1>3, <1>6, <1>8, <1>10, <1>13
<1>16. AwaitInv!(c)'
  <2>1. TopIs("await_resume", c)'
    BY <1>6, <1>13 DEF TopIs, At
  <2>2. AwaitInv!(c)
    BY <1>3 DEF IInv, AwaitInv
  <2>3. PICK a : a = awaits[c]
    OBVIOUS
  <2>4. awaits'[c] = a /\ (a \in Co => Alive(a)')
    BY <2>2, <2>3, <1>2, <1>3, <1>9, Others2
  <2>5. awaits'[c] \in Co => Alive(awaits[c])'
    BY <2>4 DEF Alive
  <2>. QED BY <2>1, <2>2, <2>5, <1>2
<1>17. Reg!(c)' /\ KillCover!(c)' /\ ~Finished(c)'
  BY <1>8 DEF Suspended, Finished
<1>18. CallersInv'
  <2>1. \A m \in InProgress : m.pc = "final" => m \in InProgress'
    BY <1>2, <1>4, <1>13 DEF Adds
  <2>2. \A y \in Co \cup Event : c \in callers[y] => attached'[c] /\ awaits'[c] = y
    BY <1>2 DEF IInv, CallersInv
  <2>. QED BY <2>1, <2>2, <1>2, <1>3, <1>9, <1>17, CallersSame
<1>19. Top.pc \in {"resume", "await_resume", "body", "locals", "final"} /\ Top.pc # "locals" /\ Top.co = c
  BY <1>1, <1>2
<1>. QED BY <1>2, <1>3, <1>4, <1>9, <1>13, <1>14, <1>15, <1>16, <1>17, <1>18, <1>19, CoStep

\* A running coroutine stays the innermost call and runs on as k.
LEMMA RunsOn ==
  ASSUME IInv, UNCHANGED <<managerVars, frame, waiting, value, futures, self, locked, bound, kept>>,
         NEW c \in Co, stack # <<>>, Top.co = c, Runs(Top), NEW l \in {"await_resume", "body", "locals"},
         stack' = <<[Top EXCEPT !.pc = l]>> \o Rest,
         Others(c), GoesOn(c), awaited' \in [Co -> 0..MaxAwait], ops' \in 0..MaxOp,
         status' \in [Co -> CREATED..TIMEOUT], flags' \in [Co -> SUBSET Flag],
         callers' \in [Co \cup Event -> SUBSET Co], awaits' \in [Co -> Co \cup Event \cup {Null}],
         attached' \in [Co -> BOOLEAN],
         l = "locals" <=> "returned" \in flags'[c], "returned" \in flags'[c] => Exiting(c)',
         "destroying" \notin flags'[c], status'[c] # CREATED,
         attached'[c] <=> "internal_waiting" \in flags'[c],
         attached'[c] => awaits'[c] # Null, awaits'[c] # Null => l = "await_resume",
         awaits'[c] \in Co => Alive(awaits'[c]),
         Top.pc = "locals" => l = "locals",
         \A y \in Co \cup Event : callers'[y] \subseteq callers[y] /\ callers[y] \ {c} \subseteq callers'[y],
         \A y \in Co \cup Event : c \in callers'[y] => attached'[c] /\ awaits'[c] = y
  PROVE  IInv'
<1>1. /\ Rest = Tail(stack) /\ Below = CallsOf(Rest) /\ Top \in Call /\ Top.todo = {} /\ CallOK(Top)
      /\ InProgress = {Top} \cup Below /\ \A m \in Below : Runs(m) => m.co # c
      /\ Top.pc \in {"resume", "await_resume", "body", "locals", "final"}
  <2>1. Top.pc \in {"resume", "await_resume", "body", "locals", "final"}
    BY DEF Runs
  <2>. QED BY <2>1, TopRuns
<1>2. frame[c] = "active" /\ kept[c]
  BY <1>1 DEF CallOK, IInv, FrameInv
<1>3. PICK k : k = [Top EXCEPT !.pc = l]
  OBVIOUS
<1>4. k \in Call /\ k.pc = l /\ k.co = c /\ k.todo = {} /\ Runs(k)
  <2>1. l \in Label
    BY DEF Label
  <2>. QED BY <2>1, <1>1, <1>3, Moved DEF Runs
<1>5. CallOK(k)'
  BY <1>2, <1>4, OkRuns
<1>6. Supported(futures', flags', k, Below)
  BY <1>1, <1>4 DEF Supported, Runs
<1>7. \A x \in Co : "returned" \in flags[x] => "returned" \in flags'[x]
  BY Others2
<1>8. /\ Adds(Rest, {k.pc}) /\ BelowOK' /\ k \in InProgress' /\ Top' = k /\ stack' # <<>>
      /\ stack' \in Seq(Call)
  <2>1. stack' = <<k>> \o Rest
    BY <1>3
  <2>. QED BY <2>1, <1>4, <1>5, <1>6, <1>7, GoesOnAs
<1>9. TypeOK'
  BY <1>8, FrameTypesNow, FrameTypes
<1>10. FrameInv!(c)'
  <2>1. Alive(c)'
    BY <1>2 DEF Alive
  <2>. QED BY <2>1, <1>2, <1>4, <1>8
<1>11. AwaitInv!(c)'
  <2>1. awaits'[c] # Null => TopIs("await_resume", c)'
    BY <1>4, <1>8 DEF TopIs, At
  <2>2. waiting'[c] = Null
    BY DEF IInv, AwaitInv
  <2>3. awaits'[c] \in Co => Alive(awaits[c])'
    BY DEF Alive
  <2>. QED BY <2>1, <2>2, <2>3
<1>12. Reg!(c)' /\ KillCover!(c)' /\ ~Finished(c)'
  BY <1>2 DEF Suspended, Finished
<1>13. CallersInv'
  <2>1. callers \in [Co \cup Event -> SUBSET Co]
    BY FrameTypesNow
  <2>2. ASSUME NEW y \in Co \cup Event, NEW x \in callers'[y] PROVE attached'[x] /\ awaits'[x] = y
    <3>1. x \in Co /\ attached[x] /\ awaits[x] = y
      BY <2>1, <2>2 DEF IInv, CallersInv
    <3>. QED BY <2>2, <3>1 DEF Others
  <2>3. ASSUME NEW d \in Co, callers'[d] # {}
        PROVE  Alive(d)' /\ (Finished(d)' => \E m \in InProgress' : m.pc = "final" /\ m.co = d)
    <3>1. callers[d] # {}
      BY <2>3
    <3>2. Alive(d) /\ (Finished(d) => \E m \in InProgress : m.pc = "final" /\ m.co = d)
      BY <3>1 DEF IInv, CallersInv
    <3>3. Alive(d)' /\ Finished(d)' = Finished(d)
      BY <3>2 DEF Alive, Finished
    <3>4. \A m \in InProgress : m.pc = "final" => m \in InProgress'
      BY <1>1, <1>8 DEF Adds, Runs
    <3>. QED BY <3>2, <3>3, <3>4
  <2>4. ASSUME NEW e \in Event, callers'[e] # {} PROVE value'[e] = "pending"
    <3>1. callers[e] # {}
      BY <2>4
    <3>. QED BY <3>1 DEF IInv, CallersInv
  <2>. QED BY <2>2, <2>3, <2>4 DEF CallersInv
<1>14. \A y \in Co \cup Event : \A x \in callers[y] : x # c => x \in callers'[y]
  OBVIOUS
<1>15. Top.pc = "locals" => \E m \in InProgress' : m.pc \in {"drop", "release", "locals"} /\ m.co = c
  BY <1>4, <1>8
<1>16. Rest \in {stack, Rest}
  OBVIOUS
<1>. QED BY <1>1, <1>8, <1>9, <1>10, <1>11, <1>12, <1>13, <1>14, <1>15, CoStep

LEMMA BeginOK ==
  ASSUME IInv, UNCHANGED managerVars, NEW c \in Co, Begin(c)
  PROVE  IInv'
<1>1. /\ stack # <<>> /\ Top.pc = "await_resume" /\ Top.co = c /\ awaits[c] = Null
      /\ status' = [status EXCEPT ![c] = IF @ = CREATED THEN RUNNING ELSE @] /\ Goto("body")
      /\ UNCHANGED <<frame, flags, waiting, callers, awaits, attached, value, futures, self, kept, locked,
                     bound, awaited, ops>>
  BY DEF Begin, At, refVars, boundVars
<1>2. /\ Rest = Tail(stack) /\ CallOK(Top) /\ Runs(Top)
  BY <1>1, TopRuns DEF Runs
<1>3. frame[c] = "active" /\ "returned" \notin flags[c] /\ "destroying" \notin flags[c] /\ status[c] # CREATED
  BY <1>1, <1>2 DEF CallOK, IInv, FrameInv
<1>4. status' = status
  <2>1. status \in [Co -> CREATED..TIMEOUT]
    BY FrameTypesNow
  <2>. QED BY <2>1, <1>1, <1>3
<1>5. (attached[c] <=> "internal_waiting" \in flags[c]) /\ ~attached[c]
  BY <1>1 DEF IInv, AwaitInv
<1>6. \A y \in Co \cup Event : c \notin callers[y]
  BY <1>5 DEF IInv, CallersInv
<1>7. Others(c) /\ GoesOn(c)
  BY <1>1, <1>4 DEF Others, GoesOn, Alive, Finished, Exiting
<1>8. stack' = <<[Top EXCEPT !.pc = "body"]>> \o Rest /\ "body" \in {"await_resume", "body", "locals"}
  BY <1>1, <1>2 DEF Goto, Become
<1>9. Null \notin Co /\ "body" # "locals"
  BY Names
<1>. QED BY <1>1, <1>2, <1>3, <1>4, <1>5, <1>6, <1>7, <1>8, <1>9, FrameTypesNow, RunsOn

LEMMA GoOnOK ==
  ASSUME IInv, UNCHANGED <<managerVars, status, value, refVars, locked, bound, ops>>,
         awaited' \in [Co -> 0..MaxAwait], NEW c \in Co, Body(c), NEW x \in Co \cup Event,
         x \in Co => Alive(x), GoOn(c, x)
  PROVE  IInv'
<1>1. /\ stack # <<>> /\ Top.pc = "body" /\ Top.co = c
      /\ awaits' = [awaits EXCEPT ![c] = x] /\ Goto("await_resume")
      /\ UNCHANGED <<frame, flags, waiting, callers, attached, futures, self, kept>>
  BY DEF GoOn, Body, At, refVars
<1>2. /\ Rest = Tail(stack) /\ CallOK(Top) /\ Runs(Top)
  BY <1>1, TopRuns DEF Runs
<1>3. /\ frame[c] = "active" /\ "returned" \notin flags[c] /\ "destroying" \notin flags[c] /\ status[c] # CREATED
      /\ ~attached[c]
  BY <1>1, <1>2 DEF CallOK, IInv, FrameInv
<1>4. ("internal_waiting" \notin flags[c])
  BY <1>3 DEF IInv, AwaitInv
<1>5. \A y \in Co \cup Event : c \notin callers[y]
  BY <1>3 DEF IInv, CallersInv
<1>6. /\ awaits' \in [Co -> Co \cup Event \cup {Null}] /\ awaits'[c] = x
      /\ \A y \in Co \ {c} : awaits'[y] = awaits[y]
  BY <1>1, FrameTypesNow
<1>7. Others(c) /\ GoesOn(c)
  BY <1>1, <1>6 DEF Others, GoesOn, Alive, Finished, Exiting
<1>8. /\ stack' = <<[Top EXCEPT !.pc = "await_resume"]>> \o Rest
      /\ "await_resume" \in {"await_resume", "body", "locals"} /\ "await_resume" # "locals"
  BY <1>1, <1>2 DEF Goto, Become
<1>9. awaits'[c] \in Co => Alive(awaits'[c])
  BY <1>6
<1>. QED BY <1>1, <1>2, <1>3, <1>4, <1>5, <1>6, <1>7, <1>8, <1>9, FrameTypesNow, RunsOn

LEMMA DetachedOK ==
  ASSUME IInv, UNCHANGED <<managerVars, frame, status, waiting, value, refVars, locked, bound, boundVars>>,
         NEW c \in Co, At("await_resume"), Top.co = c, NEW y \in Co \cup Event, awaits[c] = y,
         Detached(c), IF attached[c] THEN RemoveCaller(y, c) ELSE UNCHANGED callers,
         awaits' = [awaits EXCEPT ![c] = Null], Goto("body")
  PROVE  IInv'
<1>1. /\ stack # <<>> /\ Top.pc = "await_resume"
      /\ UNCHANGED <<frame, status, waiting, value, futures, self, kept, locked, bound, awaited, ops>>
  BY DEF At, refVars, boundVars
<1>2. /\ Rest = Tail(stack) /\ CallOK(Top) /\ Runs(Top)
  BY <1>1, TopRuns DEF Runs
<1>3. /\ frame[c] = "active" /\ "returned" \notin flags[c] /\ "destroying" \notin flags[c] /\ status[c] # CREATED
  BY <1>1, <1>2 DEF CallOK, IInv, FrameInv
<1>4. /\ flags' \in [Co -> SUBSET Flag] /\ \A x \in Co \ {c} : flags'[x] = flags[x]
      /\ flags'[c] \subseteq flags[c] /\ "internal_waiting" \notin flags'[c]
      /\ attached' \in [Co -> BOOLEAN] /\ ~attached'[c] /\ \A x \in Co \ {c} : attached'[x] = attached[x]
  <2>1. attached[c] <=> "internal_waiting" \in flags[c]
    BY DEF IInv, AwaitInv
  <2>2. /\ flags' = [flags EXCEPT ![c] = IF attached[c] THEN @ \ {"internal_waiting"} ELSE @]
        /\ attached' = [attached EXCEPT ![c] = FALSE]
    BY DEF Detached
  <2>. QED BY <2>1, <2>2, FrameTypesNow
<1>5. /\ awaits' \in [Co -> Co \cup Event \cup {Null}] /\ awaits'[c] = Null
      /\ \A x \in Co \ {c} : awaits'[x] = awaits[x]
  BY FrameTypesNow
<1>6. /\ callers' \in [Co \cup Event -> SUBSET Co]
      /\ \A x \in Co \cup Event : callers'[x] \subseteq callers[x] /\ callers[x] \ {c} \subseteq callers'[x]
                                  /\ c \notin callers'[x]
  <2>1. callers \in [Co \cup Event -> SUBSET Co]
    BY FrameTypesNow
  <2>2. \A x \in Co \cup Event : c \in callers[x] => attached[c] /\ x = y
    BY DEF IInv, CallersInv
  <2>3. CASE attached[c]
    BY <2>1, <2>2, <2>3 DEF RemoveCaller
  <2>4. CASE ~attached[c]
    BY <2>1, <2>2, <2>4
  <2>. QED BY <2>3, <2>4
<1>7. Others(c) /\ GoesOn(c)
  BY <1>1, <1>3, <1>4, <1>5 DEF Others, GoesOn, Alive, Finished, Exiting
<1>8. /\ stack' = <<[Top EXCEPT !.pc = "body"]>> \o Rest
      /\ "body" \in {"await_resume", "body", "locals"} /\ "body" # "locals"
  BY <1>1, <1>2 DEF Goto, Become
<1>9. Null \notin Co /\ "returned" \notin flags'[c] /\ "destroying" \notin flags'[c] /\ status'[c] # CREATED
  BY <1>1, <1>3, <1>4, Names
<1>. QED BY <1>1, <1>2, <1>4, <1>5, <1>6, <1>7, <1>8, <1>9, FrameTypesNow, RunsOn

LEMMA ReturnOK ==
  ASSUME IInv, UNCHANGED managerVars, NEW c \in Co, Return(c)
  PROVE  IInv'
<1>1. /\ stack # <<>> /\ Top.pc = "body" /\ Top.co = c
      /\ flags' = [flags EXCEPT ![c] = @ \cup {"returned"}]
      /\ status' = [status EXCEPT ![c] = IF Exiting(c) THEN @ ELSE DONE] /\ Goto("locals")
      /\ UNCHANGED <<frame, waiting, callers, awaits, attached, value, futures, self, kept, locked, bound,
                     awaited, ops>>
  BY DEF Return, Body, At, refVars, boundVars
<1>2. /\ Rest = Tail(stack) /\ CallOK(Top) /\ Runs(Top)
  BY <1>1, TopRuns DEF Runs
<1>3. /\ frame[c] = "active" /\ "destroying" \notin flags[c] /\ awaits[c] = Null /\ ~attached[c]
  BY <1>1, <1>2 DEF CallOK, IInv, FrameInv
<1>4. /\ flags' \in [Co -> SUBSET Flag] /\ flags'[c] = flags[c] \cup {"returned"}
      /\ \A x \in Co \ {c} : flags'[x] = flags[x]
  BY <1>1, FrameTypesNow DEF Flag
<1>5. /\ status' \in [Co -> CREATED..TIMEOUT] /\ \A x \in Co \ {c} : status'[x] = status[x]
      /\ Exiting(c)' /\ status'[c] # CREATED
  <2>1. DONE \in CREATED..TIMEOUT /\ DONE # CREATED /\ DONE >= DONE
    BY DEF DONE, CREATED, TIMEOUT
  <2>2. status[c] >= DONE => status[c] # CREATED
    BY DEF DONE, CREATED
  <2>3. status \in [Co -> CREATED..TIMEOUT]
    BY FrameTypesNow
  <2>. QED BY <2>1, <2>2, <2>3, <1>1 DEF Exiting
<1>6. ("internal_waiting" \notin flags'[c]) /\ "destroying" \notin flags'[c]
  BY <1>3, <1>4 DEF IInv, AwaitInv
<1>7. \A y \in Co \cup Event : c \notin callers[y]
  BY <1>3 DEF IInv, CallersInv
<1>8. Others(c) /\ GoesOn(c)
  BY <1>1, <1>4, <1>5 DEF Others, GoesOn, Alive, Finished
<1>9. /\ stack' = <<[Top EXCEPT !.pc = "locals"]>> \o Rest /\ "locals" \in {"await_resume", "body", "locals"}
  BY <1>1, <1>2 DEF Goto, Become
<1>10. Null \notin Co /\ Top.pc # "locals"
  BY <1>1, Names
<1>. QED BY <1>1, <1>2, <1>3, <1>4, <1>5, <1>6, <1>7, <1>8, <1>9, <1>10, FrameTypesNow, RunsOn

LEMMA SuspendOK ==
  ASSUME IInv, UNCHANGED <<managerVars, status, waiting, value, refVars, locked, bound, ops>>,
         awaited' \in [Co -> 0..MaxAwait], NEW c \in Co, Body(c), MaySuspend(c), NEW y \in Co \cup Event,
         y \in Co => Alive(y) /\ ~Finished(y), y \in Event => value[y] = "pending",
         Suspend(c, y, <<>>), AddCaller(y, c)
  PROVE  IInv'
<1>1. /\ stack # <<>> /\ Top.pc = "body" /\ Top.co = c
      /\ frame' = [frame EXCEPT ![c] = "suspended"]
      /\ flags' = [flags EXCEPT ![c] = @ \cup {"internal_waiting"}]
      /\ awaits' = [awaits EXCEPT ![c] = y] /\ attached' = [attached EXCEPT ![c] = TRUE]
      /\ callers' = [callers EXCEPT ![y] = @ \cup {c}]
      /\ status' = status /\ waiting' = waiting /\ value' = value /\ futures' = futures
      /\ self' = self /\ kept' = kept
      /\ locked' = locked /\ bound' = bound /\ ops' = ops
  BY DEF Suspend, AddCaller, Body, At, refVars
<1>2. /\ Rest = Tail(stack) /\ Rest \in Seq(Call) /\ CallOK(Top) /\ Runs(Top) /\ Below = CallsOf(Rest)
      /\ InProgress = {Top} \cup Below /\ \A m \in Below : Runs(m) => m.co # c
      /\ \A m \in Below : m.pc \notin {"resume", "await_resume"}
  BY <1>1, TopRuns DEF Runs
<1>3. stack' = Rest
  <2>1. <<>> \o Rest = Rest
    BY <1>2
  <2>. QED BY <2>1, <1>2 DEF Suspend
<1>4. /\ frame[c] = "active" /\ kept[c] /\ "returned" \notin flags[c] /\ "destroying" \notin flags[c]
      /\ status[c] # CREATED /\ ~Exiting(c)
  BY <1>1, <1>2 DEF CallOK, IInv, FrameInv, MaySuspend
<1>5. /\ frame' \in [Co -> Frame] /\ frame'[c] = "suspended" /\ \A x \in Co \ {c} : frame'[x] = frame[x]
  BY <1>1, FrameTypesNow DEF Frame
<1>6. /\ flags' \in [Co -> SUBSET Flag] /\ flags'[c] = flags[c] \cup {"internal_waiting"}
      /\ \A x \in Co \ {c} : flags'[x] = flags[x]
  BY <1>1, FrameTypesNow DEF Flag
<1>7. /\ awaits' \in [Co -> Co \cup Event \cup {Null}] /\ awaits'[c] = y
      /\ \A x \in Co \ {c} : awaits'[x] = awaits[x]
      /\ attached' \in [Co -> BOOLEAN] /\ attached'[c] /\ \A x \in Co \ {c} : attached'[x] = attached[x]
  BY <1>1, FrameTypesNow
<1>8. /\ callers' \in [Co \cup Event -> SUBSET Co] /\ callers'[y] = callers[y] \cup {c}
      /\ \A x \in (Co \cup Event) \ {y} : callers'[x] = callers[x]
  BY <1>1, FrameTypesNow
<1>9. Others(c) /\ GoesOn(c)
  BY <1>1, <1>4, <1>5, <1>6, <1>7 DEF Others, GoesOn, Alive, Finished, Exiting
<1>10. Adds(Rest, {"body"}) /\ BelowOK'
  <2>1. \A x \in Co : "returned" \in flags[x] => "returned" \in flags'[x]
    BY <1>9, Others2
  <2>2. Stacked(futures', flags', Rest)
    BY <2>1, <1>1, RestKept
  <2>3. Below' \subseteq Below
    BY <1>2, <1>3, StackIs
  <2>. QED BY <2>2, <2>3, <1>2, <1>3, AddsNone DEF BelowOK
<1>11. TypeOK'
  <2>1. stack' \in Seq(Call)
    BY <1>10 DEF Adds
  <2>. QED BY <2>1, <1>1, <1>5, <1>6, <1>7, <1>8, FrameTypesNow, FrameTypes
<1>12. FrameInv!(c)'
  <2>1. Alive(c)'
    BY <1>5 DEF Alive
  <2>. QED BY <2>1, <1>1, <1>4, <1>5, <1>6
<1>13. AwaitInv!(c)'
  <2>1. Suspended(c)' /\ awaits'[c] # Null
    BY <1>5, <1>7, Names DEF Suspended
  <2>2. waiting'[c] = Null
    BY <1>1 DEF IInv, AwaitInv
  <2>3. y \in Co => Alive(y)'
    BY <1>9, Others2
  <2>4. awaits'[c] \in Co => Alive(awaits[c])'
    BY <2>3, <1>7 DEF Alive
  <2>. QED BY <2>1, <2>2, <2>4, <1>6, <1>7
<1>14. Reg!(c)' /\ KillCover!(c)' /\ ~Finished(c)'
  BY <1>1, <1>4, <1>5, <1>7, <1>8 DEF Finished, Exiting
<1>15. CallersInv'
  <2>1. callers \in [Co \cup Event -> SUBSET Co] /\ \A z \in Co \cup Event : c \notin callers[z]
    BY <1>1, <1>2, FrameTypesNow DEF CallOK, IInv, CallersInv
  <2>2. ASSUME NEW z \in Co \cup Event, NEW x \in callers'[z] PROVE attached'[x] /\ awaits'[x] = z
    <3>1. CASE x = c
      <4>1. z = y
        BY <3>1, <2>1, <2>2, <1>8
      <4>. QED BY <3>1, <4>1, <1>7
    <3>2. CASE x # c
      <4>1. x \in callers[z]
        BY <3>2, <2>2, <1>8
      <4>2. x \in Co /\ attached[x] /\ awaits[x] = z
        BY <4>1, <2>1 DEF IInv, CallersInv
      <4>. QED BY <3>2, <4>2, <1>7
    <3>. QED BY <3>1, <3>2
  <2>3. ASSUME NEW d \in Co, callers'[d] # {}
        PROVE  Alive(d)' /\ (Finished(d)' => \E m \in InProgress' : m.pc = "final" /\ m.co = d)
    <3>1. CASE d = y
      <4>1. Alive(d)' /\ ~Finished(d)'
        BY <3>1, <1>5 DEF Alive, Finished
      <4>. QED BY <4>1
    <3>2. CASE d # y
      <4>1. callers[d] # {}
        BY <3>2, <2>3, <1>8
      <4>2. Alive(d) /\ (Finished(d) => \E m \in InProgress : m.pc = "final" /\ m.co = d)
        BY <4>1 DEF IInv, CallersInv
      <4>3. Alive(d)' /\ (Finished(d)' => Finished(d))
        BY <4>2, <1>5 DEF Alive, Finished
      <4>4. \A m \in InProgress : m.pc = "final" => m \in InProgress'
        BY <1>1, <1>2, <1>10 DEF Adds
      <4>. QED BY <4>2, <4>3, <4>4
    <3>. QED BY <3>1, <3>2
  <2>4. ASSUME NEW e \in Event, callers'[e] # {} PROVE value'[e] = "pending"
    <3>1. CASE e = y
      BY <3>1, <1>1
    <3>2. CASE e # y
      <4>1. callers[e] # {}
        BY <3>2, <2>4, <1>8
      <4>. QED BY <4>1, <1>1 DEF IInv, CallersInv
    <3>. QED BY <3>1, <3>2
  <2>. QED BY <2>2, <2>3, <2>4 DEF CallersInv
<1>16. \A z \in Co \cup Event : \A x \in callers[z] : x # c => x \in callers'[z]
  BY <1>8
<1>17. Top.pc \in {"resume", "await_resume", "body", "locals", "final"} /\ Top.pc # "locals"
  BY <1>1
<1>. QED BY <1>1, <1>2, <1>9, <1>10, <1>11, <1>12, <1>13, <1>14, <1>15, <1>16, <1>17, CoStep

LEMMA ThreeCalls ==
  ASSUME NEW S \in Seq(Call), NEW k \in Call, NEW m \in Call, NEW n \in Call
  PROVE  <<k, m, n>> \o S = <<k>> \o (<<m>> \o (<<n>> \o S))
<1>. DEFINE a == <<k>>
            bc == <<m, n>>
            abc == <<k, m, n>>
<1>1. a \in Seq(Call) /\ bc \in Seq(Call) /\ abc \in Seq(Call)
  OBVIOUS
<1>2. /\ a \o bc \in Seq(Call) /\ Len(a \o bc) = 3
      /\ (a \o bc)[1] = k /\ (a \o bc)[2] = m /\ (a \o bc)[3] = n
  BY <1>1
<1>3. Len(abc) = 3 /\ abc[1] = k /\ abc[2] = m /\ abc[3] = n
  OBVIOUS
<1>4. bc \o S = <<m>> \o (<<n>> \o S)
  BY TwoCalls
<1>. HIDE DEF a, bc, abc
<1>5. \A i \in 1..Len(a \o bc) : (a \o bc)[i] = abc[i]
  <2>1. \A i \in 1..3 : i = 1 \/ i = 2 \/ i = 3
    OBVIOUS
  <2>. QED BY <1>2, <1>3, <2>1
<1>6. a \o bc = abc
  BY <1>1, <1>2, <1>3, <1>5, SeqEqual
<1>7. (a \o bc) \o S = a \o (bc \o S)
  BY <1>1, ConcatAssociative
<1>. QED BY <1>4, <1>6, <1>7 DEF a, abc

LEMMA EndOK ==
  ASSUME IInv, UNCHANGED managerVars, NEW c \in Co, End(c)
  PROVE  IInv'
<1>1. /\ stack # <<>> /\ Top.pc = "locals" /\ Top.co = c
      /\ frame' = [frame EXCEPT ![c] = "final"] /\ kept' = [kept EXCEPT ![c] = FALSE]
      /\ status' = status /\ flags' = flags /\ waiting' = waiting /\ callers' = callers
      /\ awaits' = awaits /\ attached' = attached /\ value' = value /\ futures' = futures
      /\ self' = self /\ locked' = locked /\ bound' = bound /\ awaited' = awaited /\ ops' = ops
  BY DEF End, At, boundVars
<1>2. /\ Rest = Tail(stack) /\ Rest \in Seq(Call) /\ CallOK(Top) /\ Runs(Top) /\ Below = CallsOf(Rest)
      /\ InProgress = {Top} \cup Below /\ \A m \in Below : Runs(m) => m.co # c
      /\ \A m \in Below : m.pc \notin {"resume", "await_resume"}
  BY <1>1, TopRuns DEF Runs
<1>3. /\ frame[c] = "active" /\ "returned" \in flags[c] /\ "destroying" \notin flags[c]
      /\ status[c] # CREATED /\ Exiting(c) /\ awaits[c] = Null /\ ~attached[c]
  BY <1>1, <1>2 DEF CallOK, IInv, FrameInv
<1>4. /\ frame' \in [Co -> Frame] /\ frame'[c] = "final" /\ \A x \in Co \ {c} : frame'[x] = frame[x]
  BY <1>1, FrameTypesNow DEF Frame
<1>5. /\ kept' \in [Co -> BOOLEAN] /\ ~kept'[c] /\ \A x \in Co \ {c} : kept'[x] = kept[x]
  BY <1>1, FrameTypesNow
<1>6. Others(c) /\ GoesOn(c)
  BY <1>1, <1>3, <1>4, <1>5 DEF Others, GoesOn, Alive, Finished, Exiting
<1>. DEFINE u == NewCall("unbind", c)
            f == NewCall("final", c)
            r == NewCall("release", c)
            R == <<r>> \o Rest
            F == <<f>> \o R
<1>7. /\ u \in Call /\ u.pc = "unbind" /\ u.co = c /\ u.todo = {}
      /\ f \in Call /\ f.pc = "final" /\ f.co = c /\ f.todo = {}
      /\ r \in Call /\ r.pc = "release" /\ r.co = c /\ r.todo = {}
  <2>1. "unbind" \in Label /\ "final" \in Label /\ "release" \in Label /\ c \in Co \cup Event \cup {Null}
    BY DEF Label
  <2>. QED BY <2>1, Fresh
<1>8. stack' = <<u, f, r>> \o Rest
  BY <1>2 DEF End, EndCalls
<1>9. R = <<r>> \o Rest /\ F = <<f>> \o R
  OBVIOUS
<1>. HIDE DEF u, f, r
<1>10. stack' = <<u>> \o F
  <2>1. <<u, f, r>> \o Rest = <<u>> \o (<<f>> \o (<<r>> \o Rest))
    <3>1. u \in Call /\ f \in Call /\ r \in Call /\ Rest \in Seq(Call)
      BY <1>2, <1>7
    <3>. QED BY <3>1, ThreeCalls
  <2>. QED BY <2>1, <1>8
<1>. HIDE DEF F, R
<1>11. CallOK(u)' /\ CallOK(f)' /\ CallOK(r)'
  <2>1. Finished(c)' /\ Alive(c)' /\ "returned" \in flags'[c]
    BY <1>1, <1>3, <1>4 DEF Finished, Alive
  <2>. QED BY <2>1, <1>7, OkEnds, OkRelease
<1>12. Stacked(futures', flags', Rest)
  BY <1>1, RestKept
<1>13. R \in Seq(Call) /\ CallsOf(R) = {r} \cup Below /\ Stacked(futures', flags', R)
  <2>1. Supported(futures', flags', r, CallsOf(Rest))
    BY <1>7 DEF Supported, Runs
  <2>2. Stacked(futures', flags', R)
    BY <2>1, <1>2, <1>7, <1>9, <1>12, StackedPut
  <2>3. R \in Seq(Call) /\ CallsOf(R) = {r} \cup CallsOf(Rest)
    BY <1>2, <1>7, <1>9, Put
  <2>. QED BY <2>2, <2>3, <1>2
<1>14. F \in Seq(Call) /\ CallsOf(F) = {f, r} \cup Below /\ Stacked(futures', flags', F)
  <2>1. Supported(futures', flags', f, CallsOf(R))
    BY <1>7, <1>13 DEF Supported, Runs
  <2>2. Stacked(futures', flags', F)
    BY <2>1, <1>7, <1>9, <1>13, StackedPut
  <2>3. F \in Seq(Call) /\ CallsOf(F) = {f} \cup CallsOf(R)
    BY <1>7, <1>9, <1>13, Put
  <2>. QED BY <2>2, <2>3, <1>13
<1>15. Supported(futures', flags', u, CallsOf(F))
  BY <1>7, <1>14 DEF Supported, Runs
<1>16. /\ stack' \in Seq(Call) /\ InProgress' = {u, f, r} \cup Below /\ Below' = {f, r} \cup Below
       /\ StackOK'
  BY <1>7, <1>10, <1>14, <1>15, StackPut
<1>17. Adds(Rest, {"unbind", "final", "release"}) /\ BelowOK'
  BY <1>2, <1>7, <1>11, <1>16 DEF Adds, BelowOK
<1>18. TypeOK'
  BY <1>1, <1>4, <1>5, <1>16, FrameTypesNow, FrameTypes
<1>19. FrameInv!(c)'
  <2>1. Alive(c)' /\ Exiting(c)'
    BY <1>1, <1>3, <1>4 DEF Alive, Exiting
  <2>. QED BY <2>1, <1>1, <1>3, <1>4, <1>5
<1>20. AwaitInv!(c)'
  <2>1. waiting[c] = Null /\ "internal_waiting" \notin flags[c]
    BY <1>3 DEF IInv, AwaitInv
  <2>. QED BY <2>1, <1>1, <1>3, Names
<1>21. Reg!(c)' /\ KillCover!(c)'
  BY <1>4 DEF Suspended
<1>22. /\ \E k \in InProgress' : k.pc = "unbind" /\ k.co = c
       /\ \E k \in InProgress' : k.pc = "final" /\ k.co = c
       /\ \E k \in InProgress' : k.pc \in {"drop", "release", "locals"} /\ k.co = c
  BY <1>7, <1>16
<1>23. CallersInv'
  <2>1. \A m \in InProgress : m.pc = "final" => m \in InProgress'
    BY <1>1, <1>2, <1>16
  <2>2. \A y \in Co \cup Event : c \notin callers[y]
    BY <1>3 DEF IInv, CallersInv
  <2>. QED BY <2>1, <2>2, <1>1, <1>6, <1>22, CallersSame
<1>24. \A z \in Co \cup Event : \A x \in callers[z] : x # c => x \in callers'[z]
  BY <1>1
<1>25. Top.pc \in {"resume", "await_resume", "body", "locals", "final"}
  BY <1>1
<1>. QED BY <1>1, <1>2, <1>6, <1>17, <1>18, <1>19, <1>20, <1>21, <1>22, <1>23, <1>24, <1>25, CoStep

LEMMA NotifyCallersOK ==
  ASSUME IInv, UNCHANGED managerVars, NEW c \in Co, NotifyCallers(c)
  PROVE  IInv'
<1>1. /\ stack # <<>> /\ Top.pc = "final" /\ Top.co = c
      /\ frame' = [frame EXCEPT ![c] = "final"] /\ flags' = [flags EXCEPT ![c] = @ \cup {"final_suspend"}]
      /\ callers' = [callers EXCEPT ![c] = {}] /\ Become(WakeCall(c, callers[c]))
      /\ status' = status /\ waiting' = waiting
      /\ awaits' = awaits /\ attached' = attached /\ value' = value /\ futures' = futures
      /\ self' = self /\ kept' = kept
      /\ locked' = locked /\ bound' = bound /\ awaited' = awaited /\ ops' = ops
  BY DEF NotifyCallers, FinalSuspend, Took, At, boundVars, refVars
<1>2. /\ Rest = Tail(stack) /\ Rest \in Seq(Call) /\ CallOK(Top) /\ Below = CallsOf(Rest)
      /\ InProgress = {Top} \cup Below /\ \A m \in Below : Runs(m) => m.co # c
      /\ \A m \in Below : m.pc \notin {"resume", "await_resume"}
      /\ Supported(futures, flags, Top, Below) /\ Below \subseteq InProgress
  BY <1>1, TopRuns
<1>3. /\ frame[c] = "final" /\ "returned" \in flags[c] /\ "destroying" \notin flags[c] /\ Exiting(c)
      /\ status[c] # CREATED /\ ~kept[c]
  <2>1. frame[c] = "final"
    BY <1>1, <1>2 DEF CallOK, Finished
  <2>. QED BY <2>1 DEF IInv, FrameInv
<1>4. frame' = frame
  BY <1>1, <1>3, FrameTypesNow
<1>5. /\ flags' \in [Co -> SUBSET Flag] /\ flags'[c] = flags[c] \cup {"final_suspend"}
      /\ \A x \in Co \ {c} : flags'[x] = flags[x]
  BY <1>1, FrameTypesNow DEF Flag
<1>6. /\ callers' \in [Co \cup Event -> SUBSET Co] /\ callers'[c] = {}
      /\ \A x \in (Co \cup Event) \ {c} : callers'[x] = callers[x]
  BY <1>1, FrameTypesNow
<1>7. Others(c) /\ GoesOn(c)
  BY <1>1, <1>4, <1>5 DEF Others, GoesOn, Alive, Finished, Exiting
<1>8. PICK who : who = callers[c]
  OBVIOUS
<1>9. who \in SUBSET Co /\ \A x \in who : Suspended(x) /\ attached[x] /\ status[x] # CREATED
  <2>1. who \in SUBSET Co
    BY <1>8, FrameTypesNow
  <2>2. ASSUME NEW x \in who PROVE Suspended(x) /\ attached[x] /\ status[x] # CREATED
    <3>1. x \in Co /\ attached[x]
      BY <2>1, <2>2, <1>8 DEF IInv, CallersInv
    <3>2. ~TopIs("await_resume", x)
      BY <1>1 DEF TopIs, At
    <3>3. Suspended(x)
      BY <3>1, <3>2 DEF IInv, AwaitInv
    <3>. QED BY <3>1, <3>3 DEF IInv, FrameInv
  <2>. QED BY <2>1, <2>2
<1>10. PICK k : k = WakeCall(c, callers[c])
  OBVIOUS
<1>11. k \in Call /\ k.pc = "wake" /\ k.co = c /\ k.todo = who
  <2>1. "wake" \in Label /\ c \in Co \cup Event \cup {Null}
    BY DEF Label
  <2>. QED BY <2>1, <1>8, <1>9, <1>10, FreshTodo DEF WakeCall
<1>12. stack' = <<k>> \o Rest
  BY <1>1, <1>2, <1>10 DEF Become
<1>13. CallOK(k)'
  <2>1. Finished(c)'
    BY <1>3, <1>4 DEF Finished
  <2>2. \A x \in k.todo : Alive(x)' /\ status'[x] # CREATED
    BY <1>1, <1>4, <1>9, <1>11 DEF Alive, Suspended
  <2>. QED BY <2>1, <2>2, <1>11, OkWake
<1>14. Supported(futures', flags', k, Below)
  <2>1. \A m \in Below : Runs(m) => m.co \notin k.todo
    <3>1. \A m \in Below : Runs(m) => frame[m.co] = "active"
      BY <1>2, StackNow DEF CallOK
    <3>. QED BY <3>1, <1>9, <1>11 DEF Suspended
  <2>2. \E m \in Below : m.pc = "release" /\ m.co = c
    BY <1>1, <1>2 DEF Supported
  <2>. QED BY <2>1, <2>2, <1>11 DEF Supported, Runs
<1>15. \A x \in Co : "returned" \in flags[x] => "returned" \in flags'[x]
  BY <1>7, Others2
<1>16. /\ Adds(Rest, {k.pc}) /\ BelowOK' /\ k \in InProgress' /\ stack' \in Seq(Call)
  BY <1>1, <1>11, <1>12, <1>13, <1>14, <1>15, GoesOnAs
<1>17. TypeOK'
  BY <1>1, <1>4, <1>5, <1>6, <1>16, FrameTypesNow, FrameTypes
<1>18. FrameInv!(c)'
  <2>1. Alive(c)' /\ Exiting(c)'
    BY <1>1, <1>3, <1>4 DEF Alive, Exiting
  <2>. QED BY <2>1, <1>1, <1>3, <1>4, <1>5
<1>19. AwaitInv!(c)'
  <2>1. ~TopIs("await_resume", c) /\ ~Suspended(c)
    BY <1>1, <1>3 DEF TopIs, At, Suspended
  <2>2. waiting[c] = Null /\ "internal_waiting" \notin flags[c] /\ awaits[c] = Null /\ ~attached[c]
    BY <2>1 DEF IInv, AwaitInv
  <2>. QED BY <2>2, <1>1, <1>5, Names
<1>20. Reg!(c)' /\ KillCover!(c)'
  BY <1>3, <1>4 DEF Suspended
<1>21. CallersInv'
  <2>1. ASSUME NEW z \in Co \cup Event, NEW x \in callers'[z] PROVE attached'[x] /\ awaits'[x] = z
    <3>1. x \in callers[z]
      BY <2>1, <1>6
    <3>. QED BY <3>1, <1>1 DEF IInv, CallersInv
  <2>2. ASSUME NEW d \in Co, callers'[d] # {}
        PROVE  Alive(d)' /\ (Finished(d)' => \E m \in InProgress' : m.pc = "final" /\ m.co = d)
    <3>1. d # c /\ callers[d] # {}
      BY <2>2, <1>6
    <3>2. Alive(d) /\ (Finished(d) => \E m \in InProgress : m.pc = "final" /\ m.co = d)
      BY <3>1 DEF IInv, CallersInv
    <3>3. Alive(d)' /\ (Finished(d)' => Finished(d))
      BY <3>2, <1>4 DEF Alive, Finished
    <3>4. \A m \in InProgress : m.pc = "final" /\ m.co = d => m \in InProgress'
      BY <3>1, <1>1, <1>2, <1>16 DEF Adds
    <3>. QED BY <3>2, <3>3, <3>4
  <2>3. ASSUME NEW e \in Event, callers'[e] # {} PROVE value'[e] = "pending"
    <3>1. callers[e] # {}
      BY <2>3, <1>6
    <3>. QED BY <3>1, <1>1 DEF IInv, CallersInv
  <2>. QED BY <2>1, <2>2, <2>3 DEF CallersInv
<1>22. \A z \in Co \cup Event : \A x \in callers[z] : x # c =>
         \/ x \in callers'[z]
         \/ \E m \in InProgress' : m.pc = "wake" /\ m.co = z /\ x \in m.todo
  BY <1>6, <1>8, <1>11, <1>16
<1>23. Top.pc \in {"resume", "await_resume", "body", "locals", "final"} /\ Top.pc # "locals" /\ Finished(c)
  BY <1>1, <1>3 DEF Finished
<1>. QED BY <1>1, <1>2, <1>7, <1>16, <1>17, <1>18, <1>19, <1>20, <1>21, <1>22, <1>23, CoStep

-----------------------------------------------------------------------------
(* What the coroutine and its client do. *)

\* A coroutine that has ended returned.
LEMMA Unfinished ==
  ASSUME IInv, NEW d \in Co, ~AwaitReady(d)
  PROVE  ~Finished(d)
BY DEF IInv, FrameInv, AwaitReady, IsReady, Finished

LEMMA AwaitsFacts ==
  ASSUME IInv, NEW c \in Co, Awaits(c)
  PROVE  /\ Body(c) /\ awaited' \in [Co -> 0..MaxAwait]
         /\ UNCHANGED <<refVars, locked, bound, ops>> /\ UNCHANGED <<self, kept, futures, locked, bound, ops>>
<1>1. Body(c) /\ awaited[c] < MaxAwait /\ awaited' = [awaited EXCEPT ![c] = @ + 1]
      /\ UNCHANGED <<refVars, locked, bound, ops>>
  BY DEF Awaits
<1>2. awaited \in [Co -> 0..MaxAwait] /\ MaxAwait \in Nat
  BY Types, TaskFutureAssumption
<1>3. awaited[c] + 1 \in 0..MaxAwait
  BY <1>1, <1>2
<1>. QED BY <1>1, <1>2, <1>3 DEF refVars

LEMMA AwaitReadyTaskOK ==
  ASSUME IInv, UNCHANGED managerVars, NEW c \in Co, NEW d \in Co, AwaitReadyTask(c, d)
  PROVE  IInv'
<1>1. Awaits(c) /\ Reaches(d) /\ GoOn(c, d) /\ UNCHANGED <<status, value>>
  BY DEF AwaitReadyTask
<1>2. Alive(d)
  BY <1>1, Reached DEF Reaches
<1>. QED BY <1>1, <1>2, AwaitsFacts, GoOnOK

LEMMA AwaitTaskOK ==
  ASSUME IInv, UNCHANGED managerVars, NEW c \in Co, NEW d \in Co, AwaitTask(c, d)
  PROVE  IInv'
<1>1. /\ Awaits(c) /\ Reaches(d) /\ ~AwaitReady(d) /\ MaySuspend(c) /\ Suspend(c, d, <<>>)
      /\ AddCaller(d, c) /\ UNCHANGED <<status, waiting, value>>
  BY DEF AwaitTask
<1>2. Alive(d) /\ ~Finished(d) /\ d \notin Event
  BY <1>1, Reached, Unfinished, Names DEF Reaches
<1>. QED BY <1>1, <1>2, AwaitsFacts, SuspendOK

LEMMA AwaitGeneratorOK ==
  ASSUME IInv, UNCHANGED managerVars, NEW c \in Co, NEW e \in Event, AwaitGenerator(c, e)
  PROVE  IInv'
<1>1. Awaits(c) /\ e \notin Co
  BY Names DEF AwaitGenerator
<1>2. CASE AwaitReadyGenerator(c, e)
  BY <1>1, <1>2, AwaitsFacts, GoOnOK DEF AwaitReadyGenerator
<1>3. CASE WaitForGenerator(c, e)
  BY <1>1, <1>3, AwaitsFacts, SuspendOK DEF WaitForGenerator
<1>. QED BY <1>2, <1>3 DEF AwaitGenerator

LEMMA DetachOK ==
  ASSUME IInv, UNCHANGED managerVars, NEW c \in Co, Detach(c)
  PROVE  IInv'
<1>1. ASSUME NEW d \in Co, DetachTask(c, d) PROVE IInv'
  BY <1>1, DetachedOK DEF DetachTask, refVars, boundVars
<1>2. ASSUME NEW e \in Event, DetachGenerator(c, e), UNCHANGED <<refVars, locked, bound, boundVars>>
      PROVE  IInv'
  BY <1>2, DetachedOK DEF DetachGenerator
<1>. QED BY <1>1, <1>2 DEF Detach

\* The client makes a coroutine.
LEMMA FreshOK ==
  ASSUME IInv, Op, UNCHANGED <<managerVars, flags, waiting, callers, awaits, attached, value, locked, bound>>,
         NEW c \in Co, frame[c] = "none", frame' = [frame EXCEPT ![c] = "suspended"],
         kept' = [kept EXCEPT ![c] = TRUE], self' \in [Co -> Co \cup {Null}],
         futures' \in [Co -> SUBSET (Co \cup {Main, Table})], futures'[c] # {},
         \A x \in Co : futures[x] \subseteq futures'[x],
         \A x \in Co : x # c /\ futures'[x] # {} => futures[x] # {},
         \A x \in Co : Table \in futures'[x] => Table \in futures[x],
         status' \in [Co -> CREATED..TIMEOUT], \A x \in Co : x # c => status'[x] = status[x],
         status'[c] = status[c] \/ status'[c] = RUNNING, Adds(stack, {"resume"})
  PROVE  IInv'
<1>1. /\ ops' \in 0..MaxOp /\ awaited' = awaited /\ ~At("resume") /\ ~At("await_resume")
      /\ awaited \in [Co -> 0..MaxAwait]
  BY OpFacts, Types
<1>2. /\ InProgress \subseteq InProgress' /\ InProgress \subseteq Call /\ \A k \in InProgress : CallOK(k)
      /\ \A k \in InProgress : k.pc # "resume" /\ k.pc # "await_resume"
  <2>1. \A k \in InProgress : (k = Top /\ stack # <<>>) \/ k \in Below
    BY StackNow
  <2>2. \A k \in InProgress : k.pc # "resume" /\ k.pc # "await_resume"
    BY <2>1, <1>1, StackNow DEF At
  <2>. QED BY <2>2, StackNow DEF Adds, InProgress
<1>3. /\ frame' \in [Co -> Frame] /\ frame'[c] = "suspended" /\ \A x \in Co \ {c} : frame'[x] = frame[x]
      /\ kept' \in [Co -> BOOLEAN] /\ kept'[c] /\ \A x \in Co \ {c} : kept'[x] = kept[x]
  BY FrameTypesNow DEF Frame
<1>4. "returned" \notin flags[c] /\ "destroying" \notin flags[c]
  BY DEF IInv, FrameInv
<1>5. ~attached[c] /\ awaits[c] = Null
  BY <1>1 DEF IInv, AwaitInv, TopIs, Suspended
<1>6. /\ flags' = flags /\ waiting' = waiting /\ callers' = callers /\ awaits' = awaits
      /\ attached' = attached /\ value' = value /\ locked' = locked /\ bound' = bound
      /\ timer' = timer /\ last_tick' = last_tick /\ ticking' = ticking /\ alive' = alive
  BY DEF managerVars
<1>7. Others(c) /\ GoesOn(c)
  <2>1. RUNNING # CREATED
    BY DEF RUNNING, CREATED
  <2>2. Others(c)
    BY <1>3, <1>6 DEF Others
  <2>. QED BY <2>1, <2>2, <1>3, <1>4, <1>6 DEF GoesOn, Alive, Finished
<1>8. Managed' = Managed
  BY DEF Managed
<1>9. TypeOK'
  <2>1. stack' \in Seq(Call)
    BY DEF Adds
  <2>2. PromiseTypeOK'
    BY <2>1, <1>3, <1>6 DEF IInv, TypeOK, TaskTypeOK, PromiseTypeOK
  <2>. QED BY <2>2, <1>1, <1>3, <1>6 DEF IInv, TypeOK, TaskTypeOK, GeneratorTypeOK
<1>10. CallsOK' /\ BelowOK' /\ StackOK'
  <2>1. ASSUME NEW k \in InProgress PROVE CallOK(k)'
    <3>1. k \in Call /\ CallOK(k) /\ k.pc # "resume"
      BY <2>1, <1>2
    <3>2. Runs(k) => k.co # c
      BY <3>1 DEF CallOK
    <3>. QED BY <3>1, <3>2, <1>6, <1>7, <1>8, CallKept
  <2>2. CallsOK'
    BY <2>1 DEF CallsOK, Adds, InProgress
  <2>3. \A k \in Below' : k \in InProgress
    BY DEF Adds, InProgress
  <2>4. BelowOK'
    BY <2>3, <1>2 DEF BelowOK
  <2>. QED BY <2>2, <2>4 DEF Adds
<1>11. FrameInv'
  <2>1. SUFFICES ASSUME NEW x \in Co PROVE FrameInv!(x)'
    BY DEF FrameInv
  <2>2. CASE x = c
    <3>1. Alive(c)'
      BY <1>3 DEF Alive
    <3>. QED BY <2>2, <3>1, <1>3, <1>4, <1>5, <1>6
  <2>3. CASE x # c
    <3>1. FrameInv!(x)
      BY DEF IInv, FrameInv
    <3>2. /\ frame'[x] = frame[x] /\ kept'[x] = kept[x] /\ flags'[x] = flags[x] /\ status'[x] = status[x]
          /\ attached'[x] = attached[x]
      BY <2>3, <1>3, <1>6
    <3>3. Alive(x)' = Alive(x) /\ Exiting(x)' = Exiting(x)
      BY <2>3, <1>7, Others2
    <3>. QED BY <2>3, <3>1, <3>2, <3>3, <1>2
  <2>. QED BY <2>2, <2>3
<1>12. AwaitInv'
  <2>1. SUFFICES ASSUME NEW x \in Co PROVE AwaitInv!(x)'
    BY DEF AwaitInv
  <2>2. AwaitInv!(x) /\ ~TopIs("await_resume", x)
    BY <1>1 DEF IInv, AwaitInv, TopIs
  <2>3. Suspended(x) => Suspended(x)'
    BY <1>3 DEF Suspended
  <2>4. PICK a : a = awaits[x]
    OBVIOUS
  <2>5. awaits'[x] = a /\ (a \in Co => Alive(a)')
    BY <2>2, <2>4, <1>6, <1>7, Others2
  <2>6. awaits'[x] \in Co => Alive(awaits[x])'
    BY <2>5 DEF Alive
  <2>. QED BY <2>2, <2>3, <2>6, <1>6
<1>13. CallersInv'
  <2>1. \A d \in Co : callers[d] # {} =>
          Alive(d)' /\ (Finished(d)' => \E k \in InProgress' : k.pc = "final" /\ k.co = d)
    <3>1. SUFFICES ASSUME NEW d \in Co, callers[d] # {}
          PROVE  Alive(d)' /\ (Finished(d)' => \E k \in InProgress' : k.pc = "final" /\ k.co = d)
      OBVIOUS
    <3>2. Alive(d) /\ (Finished(d) => \E k \in InProgress : k.pc = "final" /\ k.co = d)
      BY <3>1 DEF IInv, CallersInv
    <3>3. d # c
      BY <3>2 DEF Alive
    <3>. QED BY <3>2, <3>3, <1>2, <1>7, Others2
  <2>2. /\ \A x \in Co \cup Event : \A y \in callers'[x] : attached'[y] /\ awaits'[y] = x
        /\ \A e \in Event : callers'[e] # {} => value'[e] = "pending"
    BY <1>6 DEF IInv, CallersInv
  <2>. QED BY <2>1, <2>2, <1>6 DEF CallersInv
<1>14. Reg'
  <2>1. SUFFICES ASSUME NEW x \in Co, Suspended(x)', attached'[x]
        PROVE  \/ x \in callers'[awaits'[x]]
               \/ \E k \in InProgress' : k.pc = "wake" /\ k.co = awaits'[x] /\ x \in k.todo
    BY DEF Reg
  <2>2. Suspended(x) /\ attached[x] /\ ~TopIs("resume", x)
    BY <2>1, <1>1, <1>3, <1>5, <1>6 DEF Suspended, TopIs
  <2>. QED BY <2>2, <1>2, <1>6 DEF IInv, Reg
<1>15. KillCover'
  <2>1. SUFFICES ASSUME NEW x \in Co, Exiting(x)', Suspended(x)', attached'[x]
        PROVE  \E k \in InProgress' : k.pc = "drop" /\ k.co = x
    BY DEF KillCover
  <2>2. x # c
    BY <2>1, <1>5, <1>6
  <2>3. Exiting(x) /\ Suspended(x) /\ attached[x] /\ ~TopIs("resume", x)
    BY <2>1, <2>2, <1>1, <1>6, <1>7, Others2 DEF TopIs
  <2>. QED BY <2>3, <1>2 DEF IInv, KillCover
<1>16. HeldInv'
  <2>1. SUFFICES ASSUME NEW x \in Co, Alive(x)', futures'[x] = {} PROVE Held(x)'
    BY DEF HeldInv
  <2>2. x # c /\ futures[x] = {}
    BY <2>1
  <2>3. Held(x)
    BY <2>1, <2>2, <1>7, Others2 DEF IInv, HeldInv
  <2>. QED BY <2>3, <1>2 DEF Held
<1>17. TableInv'
  <2>1. \A d \in Managed : Finished(d)' => \E k \in InProgress' : k.pc = "unbind" /\ k.co = d
    <3>1. SUFFICES ASSUME NEW d \in Managed, Finished(d)' PROVE Finished(d)
      BY <1>2 DEF IInv, TableInv
    <3>2. d \in Co
      BY DEF Managed
    <3>. QED BY <3>1, <3>2, <1>3 DEF Finished
  <2>. QED BY <2>1, <1>6, <1>8 DEF IInv, TableInv
<1>. QED BY <1>9, <1>10, <1>11, <1>12, <1>13, <1>14, <1>15, <1>16, <1>17 DEF IInv

LEMMA CreateOK ==
  ASSUME IInv, UNCHANGED managerVars, NEW d \in Co, Create(d)
  PROVE  IInv'
<1>1. /\ Op /\ frame[d] = "none" /\ frame' = [frame EXCEPT ![d] = "suspended"]
      /\ futures' = [futures EXCEPT ![d] = {Client}] /\ kept' = [kept EXCEPT ![d] = TRUE]
      /\ UNCHANGED <<status, flags, waiting, callers, awaits, attached, stack, value, self,
                     locked, bound>>
  BY DEF Create
<1>2. Client \in Co \cup {Main}
  BY <1>1, OpFacts
<1>3. futures[d] = {}
  BY <1>1, Reached DEF Alive
<1>4. Table \notin Co \cup {Main}
  BY Names
<1>5. /\ futures' \in [Co -> SUBSET (Co \cup {Main, Table})] /\ futures'[d] = {Client}
      /\ \A x \in Co \ {d} : futures'[x] = futures[x]
  BY <1>1, <1>2, Types
<1>6. /\ futures'[d] # {} /\ \A x \in Co : futures[x] \subseteq futures'[x]
      /\ \A x \in Co : x # d /\ futures'[x] # {} => futures[x] # {}
      /\ \A x \in Co : Table \in futures'[x] => Table \in futures[x]
  BY <1>2, <1>3, <1>4, <1>5
<1>7. Adds(stack, {"resume"})
  <2>1. stack \in Seq(Call) /\ Stacked(futures', flags', stack)
    BY <1>1, <1>6, BaseStays
  <2>. QED BY <2>1, <1>1, AddsNone
<1>8. /\ status' \in [Co -> CREATED..TIMEOUT] /\ status' = status
      /\ self' \in [Co -> Co \cup {Null}]
  BY <1>1, Types, FrameTypesNow
<1>. QED BY <1>1, <1>5, <1>6, <1>7, <1>8, FreshOK

LEMMA ThenOK ==
  ASSUME IInv, UNCHANGED managerVars, NEW d \in Co, NEW n \in Co, Then(d, n)
  PROVE  IInv'
<1>1. /\ Op /\ frame[n] = "none" /\ d # n /\ Client \in futures[d]
      /\ frame' = [frame EXCEPT ![n] = "suspended"]
      /\ futures' = [futures EXCEPT ![n] = {Client}, ![d] = @ \cup {n}]
      /\ kept' = [kept EXCEPT ![n] = TRUE] /\ self' = [self EXCEPT ![n] = d]
      /\ status' = [status EXCEPT ![n] = RUNNING]
      /\ UNCHANGED <<flags, waiting, callers, awaits, attached, value, locked, bound>>
      /\ Push(NewCall("resume", n))
  BY DEF Then, Thenable
<1>2. Client \in Co \cup {Main}
  BY <1>1, OpFacts
<1>3. futures[n] = {}
  BY <1>1, Reached DEF Alive
<1>4. Table \notin Co \cup {Main}
  BY Names
<1>5. /\ futures' \in [Co -> SUBSET (Co \cup {Main, Table})] /\ futures'[n] = {Client}
      /\ futures'[d] = futures[d] \cup {n} /\ \A x \in Co \ {n, d} : futures'[x] = futures[x]
  BY <1>1, <1>2, Types
<1>6. /\ futures'[n] # {} /\ \A x \in Co : futures[x] \subseteq futures'[x]
      /\ \A x \in Co : x # n /\ futures'[x] # {} => futures[x] # {}
      /\ \A x \in Co : Table \in futures'[x] => Table \in futures[x]
  BY <1>1, <1>2, <1>3, <1>4, <1>5
<1>7. /\ status' \in [Co -> CREATED..TIMEOUT] /\ status'[n] = RUNNING
      /\ \A x \in Co : x # n => status'[x] = status[x]
      /\ self' \in [Co -> Co \cup {Null}]
  <2>1. RUNNING \in CREATED..TIMEOUT
    BY DEF RUNNING, CREATED, TIMEOUT
  <2>. QED BY <2>1, <1>1, Types, FrameTypesNow
<1>8. Adds(stack, {"resume"})
  <2>1. stack \in Seq(Call) /\ Stacked(futures', flags', stack)
    BY <1>1, <1>6, BaseStays
  <2>. DEFINE k == NewCall("resume", n)
  <2>2. k \in Call /\ k.pc = "resume" /\ k.co = n /\ k.todo = {}
    <3>1. "resume" \in Label /\ n \in Co \cup Event \cup {Null}
      BY DEF Label
    <3>. QED BY <3>1, Fresh
  <2>3. stack' = <<k>> \o stack
    BY <1>1 DEF Push
  <2>. HIDE DEF k
  <2>4. CallOK(k)'
    <3>1. Suspended(n)'
      BY <1>1, FrameTypesNow DEF Suspended
    <3>2. status'[n] # CREATED
      BY <1>7 DEF RUNNING, CREATED
    <3>. QED BY <2>2, <3>1, <3>2, OkResume
  <2>5. Supported(futures', flags', k, CallsOf(stack))
    BY <2>2, Unsupported
  <2>. QED BY <2>1, <2>2, <2>3, <2>4, <2>5, AddsOne
<1>. QED BY <1>1, <1>5, <1>6, <1>7, <1>8, FreshOK

\* The event loop sets the value of a generator.
LEMMA SetValueOK ==
  ASSUME IInv, UNCHANGED managerVars, NEW e \in Event, SetValue(e, "ready")
  PROVE  IInv'
<1>1. /\ stack = <<>> /\ Op /\ value' = [value EXCEPT ![e] = "ready"]
      /\ callers' = [callers EXCEPT ![e] = {}] /\ stack' = <<WakeCall(e, callers[e])>> \o stack
      /\ frame' = frame /\ status' = status /\ flags' = flags /\ waiting' = waiting /\ awaits' = awaits
      /\ attached' = attached /\ futures' = futures /\ self' = self /\ kept' = kept /\ locked' = locked
      /\ bound' = bound
  BY DEF SetValue, InMain, SetGenerator, Took, Push, refVars
<1>2. timer' = timer /\ last_tick' = last_tick /\ ticking' = ticking /\ alive' = alive
  BY DEF managerVars
<1>3. /\ ops' \in 0..MaxOp /\ awaited' = awaited /\ awaited \in [Co -> 0..MaxAwait]
  BY <1>1, OpFacts, Types
<1>4. InProgress = {} /\ stack \in Seq(Call) /\ CallsOf(stack) = {} /\ Stacked(futures, flags, stack)
  BY <1>1, StackNow DEF InProgress
<1>5. \A l, c : ~TopIs(l, c)
  BY <1>1 DEF TopIs, At
<1>6. PICK who : who = callers[e]
  OBVIOUS
<1>7. who \in SUBSET Co /\ \A x \in who : Suspended(x) /\ attached[x] /\ status[x] # CREATED
  <2>1. who \in SUBSET Co
    BY <1>6, FrameTypesNow
  <2>2. ASSUME NEW x \in who PROVE Suspended(x) /\ attached[x] /\ status[x] # CREATED
    <3>1. x \in Co /\ attached[x]
      BY <2>1, <2>2, <1>6 DEF IInv, CallersInv
    <3>2. Suspended(x)
      BY <3>1, <1>5 DEF IInv, AwaitInv
    <3>. QED BY <3>1, <3>2 DEF IInv, FrameInv
  <2>. QED BY <2>1, <2>2
<1>8. PICK k : k = WakeCall(e, callers[e])
  OBVIOUS
<1>9. k \in Call /\ k.pc = "wake" /\ k.co = e /\ k.todo = who
  <2>1. "wake" \in Label /\ e \in Co \cup Event \cup {Null}
    BY DEF Label
  <2>. QED BY <2>1, <1>6, <1>7, <1>8, FreshTodo DEF WakeCall
<1>10. /\ stack' \in Seq(Call) /\ InProgress' = {k} /\ Below' = {} /\ Top' = k
       /\ StackOK' <=> Stacked(futures', flags', stack) /\ Supported(futures', flags', k, {})
  <2>1. stack' = <<k>> \o stack
    BY <1>1, <1>8
  <2>2. k \in Call /\ stack \in Seq(Call)
    BY <1>4, <1>9
  <2>3. /\ stack' \in Seq(Call) /\ Top' = k
        /\ InProgress' = {k} \cup CallsOf(stack) /\ Below' = CallsOf(stack)
        /\ StackOK' <=> Stacked(futures', flags', stack) /\ Supported(futures', flags', k, CallsOf(stack))
    BY <2>1, <2>2, StackPut
  <2>. QED BY <2>3, <1>4
<1>11. StackOK' /\ BelowOK'
  <2>1. Supported(futures', flags', k, {})
    BY <1>9, Names DEF Supported, Runs
  <2>. QED BY <2>1, <1>1, <1>4, <1>10 DEF BelowOK
<1>12. CallsOK'
  <2>1. k.co \in Co \cup Event /\ (k.co \in Co => Finished(k.co)')
    BY <1>9, Names
  <2>2. \A x \in k.todo : Alive(x)' /\ status'[x] # CREATED
    BY <1>1, <1>7, <1>9 DEF Alive, Suspended
  <2>3. CallOK(k)'
    BY <2>1, <2>2, <1>9, OkWake
  <2>. QED BY <2>3, <1>10 DEF CallsOK
<1>13. value' \in [Event -> {"pending", "ready", "gone"}] /\ \A x \in Event \ {e} : value'[x] = value[x]
  BY <1>1, FrameTypesNow
<1>14. /\ callers' \in [Co \cup Event -> SUBSET Co] /\ callers'[e] = {}
       /\ \A x \in (Co \cup Event) \ {e} : callers'[x] = callers[x]
  BY <1>1, FrameTypesNow
<1>15. TypeOK'
  BY <1>1, <1>2, <1>3, <1>10, <1>13, <1>14
     DEF IInv, TypeOK, TaskTypeOK, PromiseTypeOK, GeneratorTypeOK
<1>16. \A x \in Co : Alive(x)' = Alive(x) /\ Exiting(x)' = Exiting(x) /\ Finished(x)' = Finished(x)
                     /\ Suspended(x)' = Suspended(x)
  BY <1>1 DEF Alive, Exiting, Finished, Suspended
<1>17. FrameInv'
  <2>1. SUFFICES ASSUME NEW x \in Co PROVE FrameInv!(x)'
    BY DEF FrameInv
  <2>2. FrameInv!(x)
    BY DEF IInv, FrameInv
  <2>. QED BY <2>2, <1>1, <1>4, <1>16
<1>18. AwaitInv'
  <2>1. SUFFICES ASSUME NEW x \in Co PROVE AwaitInv!(x)'
    BY DEF AwaitInv
  <2>2. AwaitInv!(x)
    BY DEF IInv, AwaitInv
  <2>3. awaits'[x] \in Co => Alive(awaits[x])'
    BY <2>2, <1>1 DEF Alive
  <2>. QED BY <2>2, <2>3, <1>1, <1>5, <1>16
<1>19. CallersInv'
  <2>1. \A x \in Co \cup Event : \A y \in callers'[x] : attached'[y] /\ awaits'[y] = x
    BY <1>1, <1>14 DEF IInv, CallersInv
  <2>2. \A d \in Co : callers'[d] # {} =>
          Alive(d)' /\ (Finished(d)' => \E m \in InProgress' : m.pc = "final" /\ m.co = d)
    BY <1>4, <1>14, <1>16 DEF IInv, CallersInv
  <2>3. \A x \in Event : callers'[x] # {} => value'[x] = "pending"
    BY <1>13, <1>14 DEF IInv, CallersInv
  <2>. QED BY <2>1, <2>2, <2>3 DEF CallersInv
<1>20. Reg'
  <2>1. SUFFICES ASSUME NEW x \in Co, Suspended(x), attached[x]
        PROVE  \/ x \in callers'[awaits[x]]
               \/ \E m \in InProgress' : m.pc = "wake" /\ m.co = awaits[x] /\ x \in m.todo
    BY <1>1, <1>16 DEF Reg
  <2>2. x \in callers[awaits[x]]
    BY <2>1, <1>4, <1>5 DEF IInv, Reg
  <2>3. awaits[x] \in Co \cup Event
    <3>1. awaits[x] # Null
      BY <2>1 DEF IInv, AwaitInv
    <3>. QED BY <3>1, FrameTypesNow
  <2>. QED BY <2>2, <2>3, <1>6, <1>9, <1>10, <1>14
<1>21. KillCover'
  BY <1>1, <1>4, <1>5, <1>16 DEF IInv, KillCover
<1>22. HeldInv'
  BY <1>1, <1>4, <1>16 DEF IInv, HeldInv, Held
<1>23. TableInv'
  <2>1. Managed' = Managed
    BY <1>1 DEF Managed
  <2>2. \A d \in Managed : ~Finished(d)'
    <3>1. \A d \in Managed : d \in Co
      BY DEF Managed
    <3>. QED BY <3>1, <1>4, <1>16 DEF IInv, TableInv
  <2>. QED BY <2>1, <2>2, <1>1, <1>2 DEF IInv, TableInv
<1>. QED BY <1>11, <1>12, <1>15, <1>17, <1>18, <1>19, <1>20, <1>21, <1>22, <1>23 DEF IInv

-----------------------------------------------------------------------------
(* References that go. *)

LEMMA BelowSupported ==
  ASSUME IInv, NEW k \in Below
  PROVE  \E D \in SUBSET Below : Supported(futures, flags, k, D)
<1>1. Rest \in Seq(Call) /\ Stacked(futures, flags, Rest)
  BY StackNow
<1>2. PICK i \in 1..Len(Rest) : k = Rest[i]
  BY DEF Below, CallsOf
<1>3. Deeper(Rest, i) \subseteq Below /\ Supported(futures, flags, Rest[i], Deeper(Rest, i))
  BY <1>1, CallsIn DEF Stacked, Below
<1>. QED BY <1>2, <1>3

\* A reference goes, and there is another one.
LEMMA StillReferred ==
  ASSUME IInv, UNCHANGED managerVars, NEW d \in Co, Release(d), Referred(d)
  PROVE  IInv'
<1>1. /\ stack # <<>> /\ Top.pc = "release" /\ Top.co = d /\ stack' = Tail(stack)
      /\ UNCHANGED <<frame, flags>>
      /\ UNCHANGED <<status, waiting, callers, awaits, attached, value, futures, self, kept, locked, bound,
                     awaited, ops>>
  BY DEF Release, At, Pop, refVars, boundVars
<1>2. /\ Rest = Tail(stack) /\ Rest \in Seq(Call) /\ Below = CallsOf(Rest) /\ CallOK(Top)
      /\ InProgress = {Top} \cup Below /\ \A k \in InProgress : CallOK(k)
  BY <1>1, StackNow DEF Below
<1>3. UNCHANGED frameVars /\ UNCHANGED <<managerVars, bound>> /\ StatusGrows
  BY <1>1 DEF frameVars, StatusGrows
<1>4. Adds(Rest, {})
  <2>1. Stacked(futures', flags', Rest)
    BY <1>1, RestKept
  <2>. QED BY <2>1, <1>1, <1>2, AddsNone
<1>5. \A k \in InProgress : k.pc # "release" => k \in InProgress'
  BY <1>1, <1>2, <1>4 DEF Adds
<1>6. ~At("resume") /\ ~At("await_resume")
  BY <1>1 DEF At
<1>7. WakesStay
  BY <1>5 DEF WakesStay
<1>8. KillCover'
  <2>1. \A c \in Co : Exiting(c)' = Exiting(c)
    BY <1>1 DEF Exiting
  <2>. QED BY <2>1, <1>3, <1>5, <1>6, CoverStays
<1>9. HeldInv'
  <2>1. SUFFICES ASSUME NEW x \in Co, Alive(x), futures[x] = {} PROVE Held(x)'
    BY <1>1 DEF HeldInv, Alive
  <2>2. CASE x # d
    <3>1. Held(x)
      BY <2>1 DEF IInv, HeldInv
    <3>2. PICK k \in InProgress : \/ k.pc = "forget" /\ x \in k.todo
                                  \/ k.pc \in {"drop", "release", "locals"} /\ k.co = x
      BY <3>1 DEF Held
    <3>3. k \in Below
      BY <3>2, <2>2, <1>1, <1>2
    <3>. QED BY <3>2, <3>3, <1>2, <1>4 DEF Adds, Held
  <2>3. CASE x = d
    <3>1. CASE kept[d]
      <4>1. frame[d] = "active"
        <5>1. "returned" \in flags[d]
          BY <1>1, <1>2 DEF CallOK
        <5>. QED BY <5>1, <3>1 DEF IInv, FrameInv
      <4>2. PICK k \in InProgress : Runs(k) /\ k.co = d
        BY <4>1 DEF IInv, FrameInv
      <4>3. k \in Below
        BY <4>2, <1>1, <1>2 DEF Runs
      <4>4. k.pc = "locals"
        BY <4>2, <1>1, <1>2 DEF CallOK, Runs
      <4>. QED BY <4>2, <4>3, <4>4, <2>3, <1>2, <1>4 DEF Adds, Held
    <3>2. CASE ~kept[d]
      <4>1. PICK i \in DOMAIN Tail(stack) :
              LET call == Tail(stack)[i]
              IN  IF call.pc = "forget" THEN d \in call.todo
                  ELSE call.co = d /\ call.pc \in {"drop", "release"}
        BY <3>2, <2>1, <2>3 DEF Referred
      <4>2. i \in 1..Len(Rest)
        BY <4>1, <1>2
      <4>3. Rest[i] \in Below
        BY <4>2, <1>2 DEF CallsOf
      <4>4. Rest[i] \in InProgress'
        BY <4>3, <1>2, <1>4 DEF Adds
      <4>. QED BY <4>1, <4>4, <2>3, <1>2 DEF Held
    <3>. QED BY <3>1, <3>2
  <2>. QED BY <2>2, <2>3
<1>10. "await_resume" \notin {} /\ Rest \in {stack, Rest}
       /\ Top.pc \notin {"body", "locals", "final", "unbind"}
  BY <1>1
<1>11. /\ status' \in [Co -> CREATED..TIMEOUT] /\ futures' \in [Co -> SUBSET (Co \cup {Main, Table})]
       /\ locked' \in [Co -> BOOLEAN] /\ awaited' \in [Co -> 0..MaxAwait] /\ ops' \in 0..MaxOp
  BY <1>1, Types
<1>. QED BY <1>1, <1>3, <1>4, <1>6, <1>7, <1>8, <1>9, <1>10, <1>11, QuietTask

\* The last reference to a task goes.
LEMMA Unreferred ==
  ASSUME Contract, IInv, NEW d \in Co, Release(d), ~Referred(d)
  PROVE  /\ Finished(d) /\ futures[d] = {} /\ ~kept[d] /\ status[d] # CREATED
         /\ \A k \in Below : k.pc \in OfTask => k.co \in Co \ {d}
         /\ \A k \in Below : k.pc = "wake" => k.co # d /\ d \notin k.todo
         /\ \A k \in Below : k.pc = "forget" => d \notin k.todo
         /\ callers[d] = {} /\ \A x \in Co : awaits[x] # d
<1>1. /\ stack # <<>> /\ Top.pc = "release" /\ Top.co = d
      /\ (\E i \in DOMAIN stack : stack[i].pc = "wake" /\ d \in stack[i].todo) => DropsWoken
  BY DEF Release, DestroyFrame, At
<1>2. /\ Rest = Tail(stack) /\ Rest \in Seq(Call) /\ Below = CallsOf(Rest) /\ CallOK(Top)
      /\ InProgress = {Top} \cup Below /\ \A k \in InProgress : CallOK(k)
      /\ stack \in Seq(Call)
  BY <1>1, StackNow DEF Below
<1>3. ~kept[d] /\ futures[d] = {}
  BY DEF Referred
<1>4. ASSUME NEW k \in Below
      PROVE  /\ k.pc = "forget" => d \notin k.todo
             /\ k.pc \in {"drop", "release"} => k.co # d
  <2>1. PICK i \in 1..Len(Rest) : k = Rest[i]
    BY <1>2 DEF CallsOf
  <2>2. i \in DOMAIN Tail(stack)
    BY <1>2
  <2>3. k = Tail(stack)[i]
    BY <2>1, <1>2
  <2>. QED BY <2>2, <2>3 DEF Referred
<1>5. frame[d] = "final" /\ status[d] # CREATED
  <2>1. "returned" \in flags[d] /\ Alive(d)
    BY <1>1, <1>2 DEF CallOK
  <2>. QED BY <2>1, <1>3 DEF IInv, FrameInv, Alive
<1>6. ASSUME NEW k \in Below, k.pc \in {"unbind", "final", "wake"}, k.co = d PROVE FALSE
  <2>1. PICK D \in SUBSET Below : Supported(futures, flags, k, D)
    BY BelowSupported
  <2>2. \E m \in D : m.pc = "release" /\ m.co = d
    BY <1>6, <2>1 DEF Supported
  <2>. QED BY <2>2, <1>4
<1>7. ASSUME NEW k \in Below, k.pc \in {"unlock", "started"}, k.co = d PROVE FALSE
  <2>1. PICK D \in SUBSET Below : Supported(futures, flags, k, D)
    BY BelowSupported
  <2>2. \/ Main \in futures[d]
        \/ \E m \in D : \/ m.pc = "forget" /\ d \in m.todo
                        \/ m.pc = "body" /\ m.co \in futures[d]
    BY <1>7, <2>1 DEF Supported
  <2>. QED BY <2>2, <1>3, <1>4
<1>8. ASSUME NEW k \in Below, k.pc \in OfTask PROVE k.co \in Co \ {d}
  <2>1. CallOK(k) /\ k.co \in Co
    BY <1>8, <1>2 DEF CallOK
  <2>2. Runs(k) \/ k.pc = "resume" => k.co # d
    BY <2>1, <1>5 DEF CallOK, Suspended
  <2>3. Runs(k) \/ k.pc \in {"resume", "drop", "release", "final", "unbind", "unlock", "started"}
    BY <1>8 DEF OfTask, Runs
  <2>. QED BY <2>1, <2>2, <2>3, <1>4, <1>6, <1>7
<1>9. ASSUME NEW k \in Below, k.pc = "wake" PROVE k.co # d /\ d \notin k.todo
  <2>1. k.co # d
    BY <1>6, <1>9
  <2>2. PICK i \in 1..Len(stack) : k = stack[i]
    BY <1>2 DEF InProgress, CallsOf
  <2>3. i \in DOMAIN stack
    BY <1>2
  <2>4. d \notin k.todo
    BY <1>9, <2>2, <2>3, <1>1 DEF Contract
  <2>. QED BY <2>1, <2>4
<1>10. callers[d] = {}
  <2>1. SUFFICES ASSUME callers[d] # {} PROVE FALSE
    OBVIOUS
  <2>2. PICK k \in InProgress : k.pc = "final" /\ k.co = d
    BY <2>1, <1>5 DEF IInv, CallersInv, Finished
  <2>3. k \in Below
    BY <2>2, <1>1, <1>2
  <2>. QED BY <2>2, <2>3, <1>6
<1>11. ASSUME NEW x \in Co, awaits[x] = d PROVE FALSE
  <2>1. ~TopIs("await_resume", x) /\ ~TopIs("resume", x)
    BY <1>1 DEF TopIs, At
  <2>2. Suspended(x) /\ attached[x]
    BY <1>11, <2>1, Names DEF IInv, AwaitInv
  <2>3. PICK k \in InProgress : k.pc = "wake" /\ k.co = d /\ x \in k.todo
    BY <1>10, <1>11, <2>1, <2>2 DEF IInv, Reg
  <2>4. k \in Below
    BY <2>3, <1>1, <1>2
  <2>. QED BY <2>3, <2>4, <1>6
<1>. QED BY <1>3, <1>4, <1>5, <1>8, <1>9, <1>10, <1>11 DEF Finished

LEMMA DestroyedCalls ==
  ASSUME Contract, IInv, NEW d \in Co, Release(d), ~Referred(d),
         frame' = [frame EXCEPT ![d] = "destroyed"], UNCHANGED <<status, awaits, attached, bound>>,
         \A x \in Co : Table \in futures'[x] <=> Table \in futures[x],
         \A x \in Co \ {d} : flags'[x] = flags[x], NEW k \in Below
  PROVE  CallOK(k)'
<1>1. CallOK(k) /\ k \in Call /\ k.todo \subseteq Co
  BY StackNow DEF Call
<1>2. /\ k.pc \in OfTask => k.co \in Co \ {d}
      /\ k.pc = "wake" => k.co # d /\ d \notin k.todo
      /\ k.pc = "forget" => d \notin k.todo
  BY Unreferred
<1>3. \A x \in Co \ {d} : frame'[x] = frame[x] /\ flags'[x] = flags[x]
  BY FrameTypesNow
<1>4. \A x \in Co \ {d} : /\ Alive(x)' = Alive(x) /\ Finished(x)' = Finished(x)
                          /\ Suspended(x)' = Suspended(x)
  BY <1>3 DEF Alive, Finished, Suspended
<1>5. \A x \in Co : Exiting(x)' = Exiting(x)
  BY DEF Exiting
<1>6. CASE k.pc \in OfTask
  <2>1. k.co \in Co \ {d} /\ k.pc \notin {"wake", "forget", "tick", "reset", "destroyed"}
    BY <1>2, <1>6, NotTask
  <2>2. /\ frame'[k.co] = frame[k.co] /\ flags'[k.co] = flags[k.co] /\ Alive(k.co)' = Alive(k.co)
        /\ Finished(k.co)' = Finished(k.co) /\ Suspended(k.co)' = Suspended(k.co)
        /\ Exiting(k.co)' = Exiting(k.co)
    BY <2>1, <1>3, <1>4, <1>5
  <2>. QED BY <1>1, <1>6, <2>1, <2>2 DEF CallOK
<1>7. CASE k.pc = "wake"
  <2>1. k.co \in Co \cup Event /\ (k.co \in Co => Finished(k.co)')
    BY <1>1, <1>2, <1>4, <1>7 DEF CallOK
  <2>2. \A x \in k.todo : Alive(x)' /\ status'[x] # CREATED
    BY <1>1, <1>2, <1>4, <1>7 DEF CallOK
  <2>. QED BY <2>1, <2>2, <1>7, OkWake
<1>8. CASE k.pc = "forget"
  <2>1. \A x \in k.todo : Alive(x)'
    BY <1>1, <1>2, <1>4, <1>8 DEF CallOK
  <2>. QED BY <2>1, <1>8, OkForget
<1>9. CASE k.pc = "reset"
  <2>1. \A x \in k.todo : x \in Co /\ frame[x] # "none" /\ x \notin Managed /\ (bound[x] \/ Exiting(x))
    BY <1>1, <1>9 DEF CallOK
  <2>2. \A x \in Co : frame[x] # "none" => frame'[x] # "none"
    BY FrameTypesNow
  <2>3. Managed' = Managed
    BY DEF Managed
  <2>4. \A x \in k.todo : frame'[x] # "none" /\ x \notin Managed' /\ (bound'[x] \/ Exiting(x)')
    BY <2>1, <2>2, <2>3, <1>5
  <2>. QED BY <2>4, <1>9, OkReset
<1>10. CASE k.pc \in {"tick", "destroyed"}
  BY <1>10, OkPlain
<1>. QED BY <1>1, <1>6, <1>7, <1>8, <1>9, <1>10 DEF CallOK

\* What it held goes with its frame.
LEMMA FrameGoes ==
  ASSUME Contract, IInv, NEW d \in Co, Release(d), ~Referred(d), NEW w, w = HeldBy(d)
  PROVE  /\ futures' \in [Co -> SUBSET (Co \cup {Main, Table})] /\ futures'[d] = {} /\ w \subseteq Co \ {d}
         /\ \A x \in Co : /\ x \notin w => futures'[x] = futures[x]
                         /\ futures'[x] \subseteq futures[x] /\ futures[x] \ {d} \subseteq futures'[x]
         /\ \A x \in w : Alive(x)
         /\ \A x \in Co : Table \in futures'[x] <=> Table \in futures[x]
         /\ Stacked(futures', flags', Rest)
<1>1. /\ futures' = [x \in Co |-> IF x \in w THEN futures[x] \ {d} ELSE futures[x]]
      /\ flags' = [flags EXCEPT ![d] = @ \cup {"destroying"}]
  BY DEF Release, DestroyFrame
<1>2. futures \in [Co -> SUBSET (Co \cup {Main, Table})] /\ flags \in [Co -> SUBSET Flag] /\ futures[d] = {}
  BY FrameTypesNow, Unreferred
<1>3. w \subseteq Co \ {d} /\ \A x \in w : futures[x] # {}
  BY <1>2 DEF HeldBy
<1>4. \A x \in w : Alive(x)
  BY <1>3, Reached
<1>5. \A x \in Co : /\ x \notin w => futures'[x] = futures[x]
                   /\ futures'[x] \subseteq futures[x] /\ futures[x] \ {d} \subseteq futures'[x]
  BY <1>1
<1>6. futures' \in [Co -> SUBSET (Co \cup {Main, Table})]
  BY <1>1, <1>2
<1>7. /\ \A x \in Co : Table \in futures'[x] <=> Table \in futures[x]
      /\ \A x \in Co : Main \in futures[x] => Main \in futures'[x]
  BY <1>5, Names
<1>8. Stacked(futures', flags', Rest)
  <2>1. /\ Rest \in Seq(Call) /\ Stacked(futures, flags, Rest) /\ Below = CallsOf(Rest)
        /\ \A m \in Below : m.pc \in OfTask => m.co \in Co \ {d}
    BY StackNow, Unreferred DEF Below
  <2>2. \A c \in Co : "returned" \in flags[c] => "returned" \in flags'[c]
    BY <1>1, <1>2
  <2>3. \A m \in Below : \A x \in Co : m.pc = "body" /\ m.co \in futures[x] => m.co \in futures'[x]
    BY <2>1, <1>5 DEF OfTask
  <2>4. \A x \in Co : Main \in futures[x] => Main \in futures'[x]
    BY <1>7
  <2>5. /\ \A m \in CallsOf(Rest) : \A x \in Co : m.pc = "body" /\ m.co \in futures[x] => m.co \in futures'[x]
        /\ \A m \in CallsOf(Rest) : m.pc \in OfTask => m.co \in Co
    BY <2>1, <2>3
  <2>. QED BY <2>1, <2>2, <2>4, <2>5, StackedKept
<1>9. futures'[d] = {}
  <2>1. futures'[d] \subseteq futures[d]
    BY <1>5
  <2>. QED BY <2>1, <1>2
<1>. QED BY <1>3, <1>4, <1>5, <1>6, <1>7, <1>8, <1>9

LEMMA LastReference ==
  ASSUME Contract, IInv, UNCHANGED managerVars, NEW d \in Co, Release(d), ~Referred(d)
  PROVE  IInv'
<1>. PICK w : w = HeldBy(d)
  OBVIOUS
<1>0. PICK f : f = Forget(w)
  OBVIOUS
<1>1. /\ stack # <<>> /\ Top.pc = "release" /\ Top.co = d /\ stack' = <<f>> \o Tail(stack)
      /\ frame' = [frame EXCEPT ![d] = "destroyed"]
      /\ flags' = [flags EXCEPT ![d] = @ \cup {"destroying"}]
      /\ status' = status /\ waiting' = waiting /\ callers' = callers /\ awaits' = awaits
      /\ attached' = attached /\ value' = value /\ self' = self /\ kept' = kept
      /\ locked' = locked /\ bound' = bound /\ awaited' = awaited /\ ops' = ops
  BY <1>0 DEF Release, DestroyFrame, At, Become, boundVars
<1>2. timer' = timer /\ last_tick' = last_tick /\ ticking' = ticking /\ alive' = alive
  BY DEF managerVars
<1>3. /\ Rest = Tail(stack) /\ Rest \in Seq(Call) /\ Below = CallsOf(Rest)
      /\ InProgress = {Top} \cup Below /\ \A k \in Below : k.pc \notin {"resume", "await_resume"}
  BY <1>1, StackNow DEF Below
<1>4. /\ Finished(d) /\ futures[d] = {} /\ ~kept[d] /\ status[d] # CREATED
      /\ callers[d] = {} /\ \A x \in Co : awaits[x] # d
  BY Unreferred
<1>21. /\ futures' \in [Co -> SUBSET (Co \cup {Main, Table})] /\ futures'[d] = {} /\ w \subseteq Co \ {d}
       /\ \A x \in Co : /\ x \notin w => futures'[x] = futures[x]
                       /\ futures'[x] \subseteq futures[x]
       /\ \A x \in w : Alive(x)
       /\ \A x \in Co : Table \in futures'[x] <=> Table \in futures[x]
       /\ Stacked(futures', flags', Rest)
  BY FrameGoes
<1>22. f \in Call /\ f.pc = "forget" /\ f.todo = w
  <2>1. w \in SUBSET Co
    BY <1>21
  <2>. QED BY <2>1, <1>0, FreshForget
<1>5. /\ frame' \in [Co -> Frame] /\ frame'[d] = "destroyed" /\ \A x \in Co \ {d} : frame'[x] = frame[x]
  BY <1>1, FrameTypesNow DEF Frame
<1>6. /\ flags' \in [Co -> SUBSET Flag] /\ flags'[d] = flags[d] \cup {"destroying"}
      /\ \A x \in Co \ {d} : flags'[x] = flags[x]
  BY <1>1, FrameTypesNow DEF Flag
<1>7. \A x \in Co : Exiting(x)' = Exiting(x)
  BY <1>1 DEF Exiting
<1>8. \A x \in Co \ {d} : /\ Alive(x)' = Alive(x) /\ Finished(x)' = Finished(x)
                          /\ Suspended(x)' = Suspended(x)
  BY <1>5 DEF Alive, Finished, Suspended
<1>9. ~Suspended(d)' /\ ~Finished(d)' /\ ~Alive(d)'
  BY <1>5 DEF Suspended, Finished, Alive
<1>10. /\ Adds(Rest, {"forget"}) /\ BelowOK' /\ InProgress' = {f} \cup Below /\ stack' # <<>>
       /\ Top' = f
  <2>1. CallOK(f)'
    BY <1>8, <1>21, <1>22, OkForget
  <2>2. Supported(futures', flags', f, CallsOf(Rest))
    BY <1>22, Unsupported
  <2>3. stack' = <<f>> \o Rest
    BY <1>1, <1>3
  <2>4. Adds(Rest, {"forget"})
    BY <2>1, <2>2, <2>3, <1>3, <1>21, <1>22, AddsOne
  <2>5. InProgress' = {f} \cup Below /\ Below' = Below /\ stack' # <<>> /\ Top' = f
    BY <2>3, <1>3, <1>22, StackPut
  <2>. QED BY <2>4, <2>5, <1>3 DEF BelowOK
<1>11. TypeOK'
  <2>1. stack' \in Seq(Call)
    BY <1>10 DEF Adds
  <2>. QED BY <2>1, <1>1, <1>2, <1>5, <1>6, <1>21, FrameTypesNow, FrameTypes DEF managerVars
<1>12. CallsOK' /\ StackOK'
  <2>1. \A k \in Below : CallOK(k)'
    BY <1>1, <1>6, <1>21, DestroyedCalls
  <2>2. CallOK(f)'
    BY <1>8, <1>21, <1>22, OkForget
  <2>. QED BY <2>1, <2>2, <1>10 DEF CallsOK, Adds
<1>13. \A x \in Co : ~TopIs("await_resume", x) /\ ~TopIs("resume", x)
  BY <1>1 DEF TopIs, At
<1>14. FrameInv'
  <2>1. SUFFICES ASSUME NEW x \in Co PROVE FrameInv!(x)'
    BY DEF FrameInv
  <2>2. FrameInv!(x)
    BY DEF IInv, FrameInv
  <2>3. CASE x = d
    <3>1. ~attached[d]
      BY <1>4, <1>13 DEF IInv, AwaitInv, Suspended, Finished
    <3>. QED BY <2>2, <2>3, <1>1, <1>4, <1>5, <1>6, <1>7, <1>21
  <2>4. CASE x # d
    <3>1. frame[x] = "active" => \E k \in Below : Runs(k) /\ k.co = x
      BY <2>2, <2>4, <1>1, <1>3
    <3>2. futures'[x] # {} => Alive(x)'
      BY <2>2, <2>4, <1>8, <1>21
    <3>. QED BY <2>2, <2>4, <3>1, <3>2, <1>1, <1>5, <1>6, <1>7, <1>8, <1>10
  <2>. QED BY <2>3, <2>4
<1>15. AwaitInv'
  <2>1. SUFFICES ASSUME NEW x \in Co PROVE AwaitInv!(x)'
    BY DEF AwaitInv
  <2>2. AwaitInv!(x)
    BY DEF IInv, AwaitInv
  <2>3. PICK a : a = awaits[x]
    OBVIOUS
  <2>4. awaits'[x] = a /\ (a \in Co => Alive(a)')
    BY <2>2, <2>3, <1>1, <1>4, <1>8
  <2>5. awaits'[x] \in Co => Alive(awaits[x])'
    BY <2>4 DEF Alive
  <2>6. Suspended(x) => Suspended(x)'
    BY <1>4, <1>8 DEF Suspended, Finished
  <2>7. "internal_waiting" \in flags'[x] <=> "internal_waiting" \in flags[x]
    BY <1>6
  <2>. QED BY <2>2, <2>5, <2>6, <2>7, <1>1, <1>13
<1>16. CallersInv'
  <2>1. \A c \in Co : callers[c] # {} =>
          Alive(c)' /\ (Finished(c)' => \E k \in InProgress' : k.pc = "final" /\ k.co = c)
    <3>1. SUFFICES ASSUME NEW c \in Co, callers[c] # {}
          PROVE  Alive(c)' /\ (Finished(c)' => \E k \in InProgress' : k.pc = "final" /\ k.co = c)
      OBVIOUS
    <3>2. c # d
      BY <3>1, <1>4
    <3>3. Alive(c) /\ (Finished(c) => \E k \in InProgress : k.pc = "final" /\ k.co = c)
      BY <3>1 DEF IInv, CallersInv
    <3>. QED BY <3>2, <3>3, <1>1, <1>3, <1>8, <1>10
  <2>2. /\ \A x \in Co \cup Event : \A c \in callers[x] : attached[c] /\ awaits[c] = x
        /\ \A e \in Event : callers[e] # {} => value[e] = "pending"
    BY DEF IInv, CallersInv
  <2>. QED BY <2>1, <2>2, <1>1 DEF CallersInv
<1>17. Reg'
  <2>1. SUFFICES ASSUME NEW x \in Co, Suspended(x)', attached[x]
        PROVE  \/ x \in callers[awaits[x]]
               \/ \E k \in InProgress' : k.pc = "wake" /\ k.co = awaits[x] /\ x \in k.todo
    BY <1>1 DEF Reg
  <2>2. Suspended(x)
    BY <2>1, <1>8, <1>9
  <2>3. \/ x \in callers[awaits[x]]
        \/ \E k \in InProgress : k.pc = "wake" /\ k.co = awaits[x] /\ x \in k.todo
    BY <2>1, <2>2, <1>13 DEF IInv, Reg
  <2>. QED BY <2>3, <1>1, <1>3, <1>10
<1>18. KillCover'
  <2>1. SUFFICES ASSUME NEW x \in Co, Exiting(x)', Suspended(x)', attached'[x]
        PROVE  \E k \in InProgress' : k.pc = "drop" /\ k.co = x
    BY DEF KillCover
  <2>2. Exiting(x) /\ Suspended(x) /\ attached[x]
    BY <2>1, <1>1, <1>7, <1>8, <1>9
  <2>3. \E k \in InProgress : k.pc = "drop" /\ k.co = x
    BY <2>2, <1>13 DEF IInv, KillCover
  <2>. QED BY <2>3, <1>1, <1>3, <1>10
<1>19. HeldInv'
  <2>1. SUFFICES ASSUME NEW x \in Co, Alive(x)', futures'[x] = {} PROVE Held(x)'
    BY DEF HeldInv
  <2>2. x # d
    BY <2>1, <1>9
  <2>3. CASE x \in w
    BY <2>3, <1>10, <1>22 DEF Held
  <2>4. CASE x \notin w
    <3>1. Held(x)
      BY <2>1, <2>2, <2>4, <1>8, <1>21 DEF IInv, HeldInv
    <3>2. PICK k \in InProgress : \/ k.pc = "forget" /\ x \in k.todo
                                  \/ k.pc \in {"drop", "release", "locals"} /\ k.co = x
      BY <3>1 DEF Held
    <3>3. k \in Below
      BY <2>2, <3>2, <1>1, <1>3
    <3>. QED BY <3>2, <3>3, <1>10 DEF Held
  <2>. QED BY <2>3, <2>4
<1>20. TableInv'
  <2>1. Managed' = Managed
    BY <1>21 DEF Managed
  <2>2. \A x \in Managed : Finished(x)' => \E k \in InProgress' : k.pc = "unbind" /\ k.co = x
    <3>1. SUFFICES ASSUME NEW x \in Managed, Finished(x)'
          PROVE  \E k \in InProgress' : k.pc = "unbind" /\ k.co = x
      OBVIOUS
    <3>2. x \in Co /\ x # d
      BY <3>1, <1>9 DEF Managed
    <3>3. \E k \in InProgress : k.pc = "unbind" /\ k.co = x
      BY <3>1, <3>2, <1>8 DEF IInv, TableInv
    <3>. QED BY <3>3, <1>1, <1>3, <1>10
  <2>. QED BY <2>1, <2>2, <1>1, <1>2 DEF IInv, TableInv
<1>. QED BY <1>10, <1>11, <1>12, <1>14, <1>15, <1>16, <1>17, <1>18, <1>19, <1>20 DEF IInv

LEMMA ReleaseOK ==
  ASSUME Contract, IInv, UNCHANGED managerVars, NEW d \in Co, Release(d)
  PROVE  IInv'
BY StillReferred, LastReference

-----------------------------------------------------------------------------
(* The invariant. *)

LEMMA InitInv ==
  ASSUME Init
  PROVE  IInv
<1>1. /\ stack = <<>> /\ frame = [c \in Co |-> "none"] /\ status = [c \in Co |-> CREATED]
      /\ flags = [c \in Co |-> {}] /\ waiting = [c \in Co |-> Null]
      /\ callers = [x \in Co \cup Event |-> {}] /\ awaits = [c \in Co |-> Null]
      /\ attached = [c \in Co |-> FALSE] /\ value = [e \in Event |-> "pending"]
      /\ futures = [c \in Co |-> {}] /\ self = [c \in Co |-> Null] /\ kept = [c \in Co |-> FALSE]
      /\ locked = [c \in Co |-> FALSE]
      /\ bound = [c \in Co |-> FALSE] /\ awaited = [c \in Co |-> 0] /\ ops = 0
      /\ timer = [c \in Co |-> 0] /\ last_tick = 0 /\ ticking = FALSE /\ alive = TRUE
  BY DEF Init, TaskInit, PromiseInit, GeneratorInit
<1>2. TypeOK
  <2>1. PromiseTypeOK
    BY <1>1 DEF PromiseTypeOK, Frame, CREATED, TIMEOUT
  <2>2. GeneratorTypeOK
    BY <1>1 DEF GeneratorTypeOK
  <2>3. 0 \in 0..MaxAwait /\ 0 \in 0..MaxOp
    BY TaskFutureAssumption
  <2>4. /\ futures \in [Co -> SUBSET (Co \cup {Main, Table})] /\ self \in [Co -> Co \cup {Null}]
        /\ kept \in [Co -> BOOLEAN]
        /\ locked \in [Co -> BOOLEAN] /\ bound \in [Co -> BOOLEAN]
    BY <1>1
  <2>5. awaited \in [Co -> 0..MaxAwait] /\ ops \in 0..MaxOp
    BY <1>1, <2>3
  <2>6. timer \in [Co -> Nat] /\ last_tick \in Nat /\ ticking \in BOOLEAN /\ alive \in BOOLEAN
    BY <1>1
  <2>. QED BY <2>1, <2>2, <2>4, <2>5, <2>6 DEF TypeOK, TaskTypeOK
<1>3. InProgress = {} /\ Below = {} /\ Len(stack) = 0
  BY <1>1, NoCalls DEF InProgress, Below, Rest
<1>4. CallsOK /\ BelowOK /\ StackOK
  BY <1>3 DEF CallsOK, BelowOK, StackOK, Stacked
<1>5. FrameInv
  BY <1>1 DEF FrameInv
<1>6. AwaitInv
  BY <1>1, Names DEF AwaitInv
<1>7. CallersInv
  BY <1>1 DEF CallersInv
<1>8. Reg /\ KillCover
  BY <1>1 DEF Reg, KillCover
<1>9. HeldInv
  BY <1>1 DEF HeldInv, Alive
<1>10. TableInv
  BY <1>1 DEF TableInv, Managed
<1>. QED BY <1>2, <1>4, <1>5, <1>6, <1>7, <1>8, <1>9, <1>10 DEF IInv

\* A step of a task.
LEMMA TaskInv ==
  ASSUME Contract, IInv, TaskStep, UNCHANGED managerVars
  PROVE  IInv'
<1>1. ASSUME NEW d \in Co, Create(d) \/ Copy(d) \/ Drop(d) \/ Start(d) PROVE IInv'
  BY <1>1, CreateOK, CopyOK, DropOK, StartOK
<1>2. ASSUME NEW d \in Co, NEW n \in Co, Then(d, n) PROVE IInv'
  BY <1>2, ThenOK
<1>3. ASSUME NEW d \in Co, NEW force \in BOOLEAN, Kill(d, CANCLE, force) PROVE IInv'
  BY <1>3, KillOK
<1>4. ASSUME NEW c \in Co, NEW d \in Co, AwaitReadyTask(c, d) \/ AwaitTask(c, d) PROVE IInv'
  BY <1>4, AwaitReadyTaskOK, AwaitTaskOK
<1>5. ASSUME NEW c \in Co, NEW e \in Event, AwaitGenerator(c, e) PROVE IInv'
  BY <1>5, AwaitGeneratorOK
<1>6. ASSUME NEW c \in Co, Begin(c) \/ Detach(c) \/ Return(c) \/ DropLocal(c) PROVE IInv'
  BY <1>6, BeginOK, DetachOK, ReturnOK, DropLocalOK
<1>7. ASSUME NEW c \in Co, End(c) \/ NotifyCallers(c) \/ DropResumes(c) \/ Release(c) PROVE IInv'
  BY <1>7, EndOK, NotifyCallersOK, DropResumesOK, ReleaseOK
<1>8. ASSUME NEW e \in Event, SetValue(e, "ready") PROVE IInv'
  BY <1>8, SetValueOK
<1>9. CASE ForgetNext \/ ForgetEnd \/ Unlock
  BY <1>9, ForgetNextOK, ForgetEndOK, UnlockOK
<1>10. CASE (WakeNext \/ WakeEnd \/ Resume) /\ UNCHANGED <<value, refVars, locked, bound, boundVars>>
  BY <1>10, WakeNextOK, WakeEndOK, ResumeOK
<1>. QED BY <1>1, <1>2, <1>3, <1>4, <1>5, <1>6, <1>7, <1>8, <1>9, <1>10 DEF TaskStep

\* A step of the manager.
LEMMA ManagerInv ==
  ASSUME IInv, ManagerStep
  PROVE  IInv'
<1>1. ASSUME NEW d \in Co, NEW timeout \in Timeout, AddTask(d, timeout) \/ SetTimeout(d, timeout)
      PROVE  IInv'
  BY <1>1, AddTaskOK, SetTimeoutOK
<1>2. ASSUME NEW d \in Co, Remove(d) \/ ManagerKill(d, CANCLE) PROVE IInv'
  <2>1. UNCHANGED awaited
    BY <1>2 DEF Remove, ManagerKill, Calls, Op
  <2>. QED BY <1>2, <2>1, RemoveOK
<1>3. ASSUME NEW d \in Co, ManagerStart(d) \/ Started(d) \/ Unbind(d) PROVE IInv'
  BY <1>3, ManagerStartOK, StartedOK, UnbindOK
<1>4. ASSUME NEW now \in Clock, FirstTick(now) \/ Tick(now) PROVE IInv'
  BY <1>4, FirstTickOK, TickOK
<1>5. CASE TickTask \/ TickEnd
  BY <1>5, TickTaskOK, TickEndOK
<1>6. CASE Reset \/ ResetTask \/ ResetEnd
  BY <1>6, ResetOK, ResetTaskOK, ResetEndOK
<1>7. CASE Destroy \/ Destroyed
  BY <1>7, DestroyOK, DestroyedOK
<1>. QED BY <1>1, <1>2, <1>3, <1>4, <1>5, <1>6, <1>7 DEF ManagerStep

LEMMA IdleInv ==
  ASSUME IInv, UNCHANGED vars
  PROVE  IInv'
<1>1. /\ frame' = frame /\ status' = status /\ flags' = flags /\ waiting' = waiting /\ callers' = callers
      /\ awaits' = awaits /\ attached' = attached /\ stack' = stack /\ value' = value
      /\ futures' = futures /\ self' = self /\ kept' = kept /\ locked' = locked /\ bound' = bound
      /\ awaited' = awaited /\ ops' = ops /\ timer' = timer /\ last_tick' = last_tick
      /\ ticking' = ticking /\ alive' = alive
  BY DEF vars, taskVars, promiseVars, refVars, boundVars, managerVars
<1>2. InProgress' = InProgress /\ Below' = Below /\ Managed' = Managed
  BY <1>1 DEF InProgress, Below, Rest, Managed
<1>3. \A l, c : TopIs(l, c)' = TopIs(l, c)
  BY <1>1 DEF TopIs, At, Top
<1>4. \A c : /\ Alive(c)' = Alive(c) /\ Exiting(c)' = Exiting(c) /\ Finished(c)' = Finished(c)
             /\ Suspended(c)' = Suspended(c)
  BY <1>1 DEF Alive, Exiting, Finished, Suspended
<1>5. TypeOK'
  BY <1>1 DEF IInv, TypeOK, TaskTypeOK, PromiseTypeOK, GeneratorTypeOK
<1>6. BelowOK' /\ StackOK'
  BY <1>1, <1>2 DEF IInv, BelowOK, StackOK
<1>7. CallsOK'
  BY <1>1, <1>2 DEF IInv, CallsOK, CallOK, Alive, Exiting, Finished, Suspended
<1>8. FrameInv'
  BY <1>1, <1>2, <1>4 DEF IInv, FrameInv
<1>9. AwaitInv'
  BY <1>1, <1>3 DEF IInv, AwaitInv, Alive, Suspended
<1>10. CallersInv'
  BY <1>1, <1>2, <1>4 DEF IInv, CallersInv
<1>11. Reg' /\ KillCover'
  BY <1>1, <1>2, <1>3, <1>4 DEF IInv, Reg, KillCover
<1>12. HeldInv'
  BY <1>1, <1>2, <1>4 DEF IInv, HeldInv, Held
<1>13. TableInv'
  BY <1>1, <1>2, <1>4 DEF IInv, TableInv
<1>. QED BY <1>5, <1>6, <1>7, <1>8, <1>9, <1>10, <1>11, <1>12, <1>13 DEF IInv

LEMMA ManagerInvariant ==
  ASSUME Contract
  PROVE  Spec => []IInv
<1>1. ASSUME IInv, [Next]_vars PROVE IInv'
  BY <1>1, TaskInv, ManagerInv, IdleInv DEF Next
<1>. QED BY <1>1, InitInv, PTL DEF Spec

-----------------------------------------------------------------------------
(* Who holds futures lives: what a frame held went with it. *)

HolderInv == \A d, c \in Co : c \in futures[d] => Alive(c)

\* A step in which nobody who holds a future goes, and only who lives gets one.
LEMMA HoldersStay ==
  ASSUME HolderInv, \A c \in Co : Alive(c) => Alive(c)',
         \A d, c \in Co : c \in futures'[d] => c \in futures[d] \/ Alive(c)'
  PROVE  HolderInv'
BY DEF HolderInv

LEMMA ClientLives ==
  ASSUME IInv, Op, Client \in Co
  PROVE  Alive(Client)
<1>1. ~InMain
  BY OpFacts, Names
<1>. QED BY <1>1, OpFacts DEF CallOK, Runs, Alive

\* Futures stay where they are, and frames too or they go on.
LEMMA FramesGoOn ==
  ASSUME IInv, HolderInv, UNCHANGED futures, NEW c \in Co,
         frame' = frame \/ \E to \in {"suspended", "active", "final"} : frame' = [frame EXCEPT ![c] = to]
  PROVE  HolderInv'
<1>1. frame \in [Co -> Frame]
  BY FrameTypesNow
<1>2. \A x \in Co : Alive(x) => Alive(x)'
  BY <1>1 DEF Alive
<1>. QED BY <1>2, HoldersStay

\* Frames stay, and futures go or are given to who lives.
LEMMA FuturesMove ==
  ASSUME HolderInv, UNCHANGED frame,
         \A d, c \in Co : c \in futures'[d] => c \in futures[d] \/ Alive(c)
  PROVE  HolderInv'
BY DEF HolderInv, Alive

LEMMA TaskHolders ==
  ASSUME Contract, IInv, HolderInv, TaskStep, UNCHANGED managerVars
  PROVE  HolderInv'
<1>0. futures \in [Co -> SUBSET (Co \cup {Main, Table})] /\ frame \in [Co -> Frame]
  BY FrameTypesNow
<1>1. ASSUME NEW d \in Co, Create(d) PROVE HolderInv'
  <2>1. /\ Op /\ frame' = [frame EXCEPT ![d] = "suspended"] /\ futures' = [futures EXCEPT ![d] = {Client}]
    BY <1>1 DEF Create
  <2>2. \A c \in Co : Alive(c) => Alive(c)'
    BY <2>1, <1>0 DEF Alive
  <2>3. \A x, c \in Co : c \in futures'[x] => c \in futures[x] \/ c = Client
    BY <2>1, <1>0
  <2>. QED BY <2>1, <2>2, <2>3, ClientLives, HoldersStay
<1>2. ASSUME NEW d \in Co, Copy(d) PROVE HolderInv'
  <2>1. Op /\ UNCHANGED frame /\ futures' = [futures EXCEPT ![d] = @ \cup {Client}]
    BY <1>2 DEF Copy, promiseVars
  <2>2. \A x, c \in Co : c \in futures'[x] => c \in futures[x] \/ c = Client
    BY <2>1, <1>0
  <2>. QED BY <2>1, <2>2, ClientLives, FuturesMove
<1>3. ASSUME NEW d \in Co, Drop(d) PROVE HolderInv'
  <2>1. UNCHANGED frame /\ futures' = [futures EXCEPT ![d] = @ \ {Client}]
    BY <1>3 DEF Drop
  <2>2. \A x, c \in Co : c \in futures'[x] => c \in futures[x]
    BY <2>1, <1>0
  <2>. QED BY <2>1, <2>2, FuturesMove
<1>4. ASSUME NEW d \in Co, NEW n \in Co, Then(d, n) PROVE HolderInv'
  <2>1. /\ Op /\ frame' = [frame EXCEPT ![n] = "suspended"]
        /\ futures' = [futures EXCEPT ![n] = {Client}, ![d] = @ \cup {n}]
    BY <1>4 DEF Then, Thenable
  <2>2. \A c \in Co : (Alive(c) => Alive(c)') /\ Alive(n)'
    BY <2>1, <1>0 DEF Alive
  <2>3. \A x, c \in Co : c \in futures'[x] => c \in futures[x] \/ c = Client \/ c = n
    BY <2>1, <1>0
  <2>. QED BY <2>1, <2>2, <2>3, ClientLives, HoldersStay
<1>5. ASSUME NEW c \in Co, DropLocal(c) PROVE HolderInv'
  <2>1. PICK d \in Co : futures' = [futures EXCEPT ![d] = @ \ {c}]
    BY <1>5 DEF DropLocal
  <2>2. UNCHANGED frame /\ \A x, y \in Co : y \in futures'[x] => y \in futures[x]
    BY <2>1, <1>0, <1>5 DEF DropLocal
  <2>. QED BY <2>2, FuturesMove
<1>6. ASSUME NEW d \in Co, Release(d) PROVE HolderInv'
  <2>1. CASE Referred(d)
    <3>1. UNCHANGED <<frame, futures>>
      BY <1>6, <2>1 DEF Release
    <3>. QED BY <3>1, FuturesMove
  <2>2. CASE ~Referred(d)
    <3>1. /\ futures' = [x \in Co |-> IF x \in HeldBy(d) THEN futures[x] \ {d} ELSE futures[x]]
          /\ frame' = [frame EXCEPT ![d] = "destroyed"]
      BY <1>6, <2>2 DEF Release, DestroyFrame
    <3>2. \A x \in Co : d \notin futures'[x] /\ futures'[x] \subseteq futures[x]
      BY <3>1 DEF HeldBy
    <3>3. \A c \in Co \ {d} : Alive(c) => Alive(c)'
      BY <3>1, <1>0 DEF Alive
    <3>. QED BY <3>2, <3>3 DEF HolderInv
  <2>. QED BY <2>1, <2>2
<1>7. ASSUME NEW d \in Co, Start(d) \/ (\E force \in BOOLEAN : Kill(d, CANCLE, force)) PROVE HolderInv'
  BY <1>7, FramesGoOn DEF Start, Kill, refVars
<1>8. ASSUME NEW c \in Co, Begin(c) \/ Return(c) \/ DropResumes(c) PROVE HolderInv'
  BY <1>8, FramesGoOn DEF Begin, Return, DropResumes, promiseVars, refVars
<1>9. ASSUME NEW c \in Co, End(c) \/ NotifyCallers(c) PROVE HolderInv'
  BY <1>9, FramesGoOn DEF End, NotifyCallers, FinalSuspend, refVars
<1>10. ASSUME NEW c \in Co, NEW d \in Co, AwaitReadyTask(c, d) \/ AwaitTask(c, d) PROVE HolderInv'
  BY <1>10, FramesGoOn DEF AwaitReadyTask, AwaitTask, Awaits, GoOn, Suspend, refVars
<1>11. ASSUME NEW c \in Co, NEW e \in Event, AwaitGenerator(c, e) PROVE HolderInv'
  BY <1>11, FramesGoOn DEF AwaitGenerator, AwaitReadyGenerator, WaitForGenerator, Awaits, GoOn, Suspend, refVars
<1>12. ASSUME NEW c \in Co, Detach(c) PROVE HolderInv'
  BY <1>12, FramesGoOn DEF Detach, DetachTask, DetachGenerator, refVars
<1>13. ASSUME NEW e \in Event, SetValue(e, "ready") PROVE HolderInv'
  BY <1>13, FuturesMove DEF SetValue, SetGenerator, refVars
<1>14. CASE ForgetNext \/ ForgetEnd \/ Unlock
  BY <1>14, FuturesMove DEF ForgetNext, ForgetEnd, Unlock, promiseVars, refVars
<1>15. ASSUME WakeNext \/ WakeEnd \/ Resume, UNCHANGED <<value, refVars, locked, bound, boundVars>>
       PROVE  HolderInv'
  <2>1. CASE Resume
    <3>1. Top.co \in Co
      BY <2>1, StackNow DEF Resume, At, CallOK, OfTask
    <3>. QED BY <2>1, <3>1, <1>15, FramesGoOn DEF Resume, refVars
  <2>2. CASE WakeNext \/ WakeEnd
    BY <2>2, <1>15, FuturesMove DEF WakeNext, WakeEnd, promiseVars, refVars
  <2>. QED BY <2>1, <2>2, <1>15
<1>. QED BY <1>1, <1>2, <1>3, <1>4, <1>5, <1>6, <1>7, <1>8, <1>9, <1>10, <1>11, <1>12, <1>13, <1>14, <1>15
         DEF TaskStep

LEMMA ManagerHolders ==
  ASSUME IInv, HolderInv, ManagerStep
  PROVE  HolderInv'
<1>1. UNCHANGED frame
  BY DEF ManagerStep, AddTask, SetTimeout, Remove, RemoveTask, TakeOut, ManagerKill, ManagerStart, Started, Unbind,
         CleanupCallback, FirstTick, Tick, TickTask, TickEnd, Reset, ResetTo, ResetTask, ResetEnd, Destroy,
         Destroyed, frameVars, promiseVars
<1>2. ASSUME NEW x \in Co PROVE futures'[x] \subseteq futures[x] \cup {Table}
  <2>1. ASSUME NEW who, Erase(who) PROVE futures'[x] \subseteq futures[x]
    BY <2>1 DEF Erase
  <2>2. ASSUME NEW d, NEW below, RemoveTask(d, below) PROVE futures'[x] \subseteq futures[x]
    BY <2>1, <2>2 DEF RemoveTask, TakeOut
  <2>3. ASSUME NEW d \in Co, NEW timeout, AddTask(d, timeout) PROVE futures'[x] \subseteq futures[x] \cup {Table}
    <3>1. futures' = [futures EXCEPT ![d] = @ \cup {Table}] /\ futures \in [Co -> SUBSET (Co \cup {Main, Table})]
      BY <2>3, Types DEF AddTask
    <3>. QED BY <3>1
  <2>4. ASSUME NEW d \in Co, Remove(d) \/ ManagerKill(d, CANCLE) \/ ManagerStart(d) \/ Started(d) \/ Unbind(d)
        PROVE  futures'[x] \subseteq futures[x]
    BY <2>1, <2>2, <2>4 DEF Remove, ManagerKill, TakeOut, ManagerStart, Started, Unbind, CleanupCallback
  <2>5. CASE Reset \/ Destroy \/ Destroyed \/ TickTask
    BY <2>1, <2>5 DEF Reset, ResetTo, Destroy, Destroyed, TickTask, TakeOut
  <2>6. CASE \/ \E d \in Co, timeout \in Timeout : SetTimeout(d, timeout)
             \/ \E now \in Clock : FirstTick(now) \/ Tick(now)
             \/ TickEnd \/ ResetTask \/ ResetEnd
    BY <2>6 DEF SetTimeout, FirstTick, Tick, TickEnd, ResetTask, ResetEnd, refVars
  <2>. QED BY <2>3, <2>4, <2>5, <2>6 DEF ManagerStep
<1>3. \A d, c \in Co : c \in futures'[d] => c \in futures[d]
  BY <1>2, Names
<1>. QED BY <1>1, <1>3, FuturesMove

LEMMA ManagerHolderInvariant ==
  ASSUME Contract
  PROVE  Spec => []HolderInv
<1>1. Init => HolderInv
  BY DEF Init, TaskInit, HolderInv
<1>2. ASSUME IInv, HolderInv, [Next]_vars PROVE HolderInv'
  <2>1. CASE UNCHANGED vars
    BY <1>2, <2>1, FuturesMove DEF vars, taskVars, promiseVars, refVars
  <2>. QED BY <1>2, <2>1, TaskHolders, ManagerHolders DEF Next
<1>. QED BY <1>1, <1>2, ManagerInvariant, PTL DEF Spec

-----------------------------------------------------------------------------
(* The properties. *)

\* When the event loop runs there is no call in progress.
LEMMA MainFacts ==
  ASSUME IInv, InMain
  PROVE  /\ InProgress = {} /\ \A l, c : ~TopIs(l, c)
         /\ \A c \in Co : frame[c] # "active"
         /\ \A c \in Co : Exiting(c) /\ Suspended(c) => awaits[c] = Null
<1>1. InProgress = {} /\ \A l, c : ~TopIs(l, c)
  BY StackNow DEF InMain, TopIs, At
<1>2. \A c \in Co : frame[c] # "active"
  BY <1>1 DEF IInv, FrameInv
<1>3. ASSUME NEW c \in Co, Exiting(c), Suspended(c) PROVE awaits[c] = Null
  <2>1. ~attached[c]
    BY <1>1, <1>3 DEF IInv, KillCover
  <2>. QED BY <2>1, <1>1 DEF IInv, AwaitInv
<1>. QED BY <1>1, <1>2, <1>3

\* Everything is of its type, for any number of tasks, futures and calls.
THEOREM ManagerTypeCorrect ==
  ASSUME Contract
  PROVE  Spec => []TypeOK
<1>1. IInv => TypeOK
  BY DEF IInv
<1>. QED BY <1>1, ManagerInvariant, PTL

\* Nobody touches a frame or a context that is gone, although calls and awaitables hold
\* plain pointers to them (task_promise.h:645, the lock_holder of kill() at 981, the caller
\* sets): what a call goes on with is kept by a call below it until it returns.
THEOREM ManagerHandlesLive ==
  ASSUME Contract
  PROVE  Spec => []HandlesLive
<1>1. ASSUME IInv PROVE HandlesLive
  <2>1. stack \in Seq(Call) /\ AwaitInv
    BY <1>1, StackNow DEF IInv
  <2>2. ASSUME NEW i \in DOMAIN stack
        PROVE  /\ stack[i].pc \in {"body", "await_resume", "locals"} => frame[stack[i].co] = "active"
               /\ stack[i].pc \in {"unbind", "final", "drop", "release", "unlock", "started"}
                    => frame[stack[i].co] # "destroyed"
               /\ stack[i].pc = "wake" => \A c \in stack[i].todo : frame[c] # "destroyed"
    <3>1. PICK k : k = stack[i]
      OBVIOUS
    <3>2. i \in 1..Len(stack)
      BY <2>1
    <3>3. k \in InProgress
      BY <3>1, <3>2 DEF InProgress, CallsOf
    <3>4. CallOK(k) /\ (k.pc = "drop" => Alive(k.co))
      BY <1>1, <3>3 DEF IInv, CallsOK, CallOK
    <3>. QED BY <3>1, <3>4 DEF CallOK, Runs, Alive, Finished
  <2>3. At("resume") => Suspended(Top.co)
    BY <1>1, StackNow DEF At, CallOK
  <2>4. \A c \in Co : awaits[c] \in Co => Alive(awaits[c])
    BY <2>1 DEF AwaitInv
  <2>. QED BY <2>2, <2>3, <2>4 DEF HandlesLive
<1>. QED BY <1>1, ManagerInvariant, PTL

\* The caller managers name nobody but those that wait there, and whoever waits when the
\* event loop runs is registered at something that is yet to come: no wake-up is lost
\* (std_coroutine_common.cpp:32-93, task_promise.h:642-668).
THEOREM ManagerCallersWait ==
  ASSUME Contract
  PROVE  Spec => []CallersWait
<1>1. ASSUME IInv PROVE CallersWait
  <2>1. AwaitInv /\ CallersInv /\ FrameInv /\ Reg
    BY <1>1 DEF IInv
  <2>2. callers \in [Co \cup Event -> SUBSET Co] /\ awaits \in [Co -> Co \cup Event \cup {Null}]
        /\ frame \in [Co -> Frame]
    BY <1>1, FrameTypesNow
  <2>3. ASSUME NEW x \in Co \cup Event, NEW c \in callers[x]
        PROVE  Alive(c) /\ awaits[c] = x /\ attached[c]
    <3>1. c \in Co /\ awaits[c] = x /\ attached[c]
      BY <2>1, <2>2, <2>3 DEF CallersInv
    <3>2. CASE Suspended(c)
      BY <3>1, <3>2 DEF Suspended, Alive
    <3>3. CASE TopIs("await_resume", c)
      <4>1. CallOK(Top) /\ Top.co = c /\ Top.pc = "await_resume"
        BY <1>1, <3>3, StackNow DEF TopIs, At
      <4>. QED BY <3>1, <4>1 DEF CallOK, Runs, Alive
    <3>. QED BY <2>1, <3>1, <3>2, <3>3 DEF AwaitInv
  <2>4. ASSUME InMain, NEW c \in Co, Suspended(c), awaits[c] # Null
        PROVE  /\ c \in callers[awaits[c]]
               /\ IF awaits[c] \in Event THEN value[awaits[c]] = "pending"
                  ELSE Suspended(awaits[c]) /\ (Exiting(awaits[c]) => awaits[awaits[c]] = Null)
    <3>1. /\ InProgress = {} /\ (\A l, d : ~TopIs(l, d)) /\ (\A d \in Co : frame[d] # "active")
          /\ \A d \in Co : Exiting(d) /\ Suspended(d) => awaits[d] = Null
      BY <1>1, <2>4, MainFacts
    <3>2. PICK x : x = awaits[c]
      OBVIOUS
    <3>3. x \in Co \cup Event /\ c \in callers[x]
      BY <2>1, <2>2, <2>4, <3>1, <3>2 DEF AwaitInv, Reg
    <3>4. CASE x \in Event
      BY <2>1, <3>2, <3>3, <3>4 DEF CallersInv
    <3>5. CASE x \notin Event
      <4>1. x \in Co /\ Alive(x) /\ ~Finished(x)
        BY <2>1, <3>1, <3>3, <3>5 DEF CallersInv
      <4>2. Suspended(x)
        BY <2>2, <3>1, <4>1 DEF Alive, Finished, Suspended, Frame
      <4>. QED BY <3>1, <3>2, <3>3, <3>5, <4>1, <4>2
    <3>. QED BY <3>4, <3>5
  <2>. QED BY <2>3, <2>4 DEF CallersWait
<1>. QED BY <1>1, ManagerInvariant, PTL

\* When the event loop runs again no task that was killed, cancelled or timed out is
\* left waiting (task_promise.h:972-1047).
THEOREM ManagerKillUnwinds ==
  ASSUME Contract
  PROVE  Spec => []KillUnwinds
<1>1. IInv => KillUnwinds
  BY MainFacts DEF KillUnwinds
<1>. QED BY <1>1, ManagerInvariant, PTL

\* Nothing leaks: a task whose last future is gone, with the frame that held it or
\* otherwise, has run to its end and its frame has been destroyed by the time the event
\* loop runs again (task_promise.h:826, 182, 196).
THEOREM ManagerLastFutureEnds ==
  ASSUME Contract
  PROVE  Spec => []LastFutureEnds
<1>1. ASSUME IInv, HolderInv PROVE LastFutureEnds
  <2>1. SUFFICES ASSUME InMain, NEW d \in Co, ~HasHolder(d), Alive(d) PROVE FALSE
    BY DEF LastFutureEnds
  <2>2. InProgress = {}
    BY <1>1, <2>1, MainFacts
  <2>3. futures[d] = {}
    BY <1>1, <2>1 DEF HasHolder, HolderInv
  <2>. QED BY <1>1, <2>1, <2>2, <2>3 DEF IInv, HeldInv, Held
<1>. QED BY <1>1, ManagerInvariant, ManagerHolderInvariant, PTL

\* The table holds tasks that are not over and that can call back, and timers belong to
\* tasks of the table, whatever calls the tasks make while the manager ticks, resets or
\* is destroyed (task_manager.h:921-1378).
THEOREM ManagerTableExact ==
  ASSUME Contract
  PROVE  Spec => []TableExact
<1>1. ASSUME IInv PROVE TableExact
  <2>1. TableInv
    BY <1>1 DEF IInv
  <2>2. InMain => \A d \in Managed : ~Finished(d)
    BY <1>1, <2>1, MainFacts DEF TableInv
  <2>. QED BY <2>1, <2>2 DEF TableInv, TableExact
<1>. QED BY <1>1, ManagerInvariant, PTL

=============================================================================
