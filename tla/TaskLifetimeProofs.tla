-------------------------- MODULE TaskLifetimeProofs --------------------------
(***************************************************************************)
(* Proofs about TaskLifetime, for any number of tasks, C++20 coroutines    *)
(* and nested calls: no call runs on in a stack that was given back, every *)
(* coroutine has ended before its memory goes, nothing leaks, and whoever  *)
(* awaits is answered.                                                     *)
(*                                                                         *)
(* A pointer may go in the middle of any call, and with it a task, all     *)
(* that only the task held, and the tasks that these held.  What keeps     *)
(* that away from the calls further down is said by Kept: a call on a task *)
(* was made through a pointer, and that pointer is not among those that    *)
(* can go before the call returns.                                         *)
(***************************************************************************)
EXTENDS TaskLifetime, FiniteSetTheorems, SequenceTheorems, TLAPS

\* The calls in progress, and those below the innermost one.
CallsOf(S) == {S[i] : i \in 1..Len(S)}
Deeper(S, i) == {S[j] : j \in (i+1)..Len(S)}
Calls == CallsOf(stack)
Rest == IF stack = <<>> THEN <<>> ELSE Tail(stack)
Below == CallsOf(Rest)

Elements(list) == {list[i] : i \in 1..Len(list)}
Drives(m, k) == m.pc \in {"started", "notify"} /\ m.task = k
Destroys(m, k) == m.pc \in Releasing /\ m.task = k

\* k has a pointer that leads to it.
Referenced(k) ==
  \/ k \in handle
  \/ \E j \in Task : k \in captured[j] \/ waits[j] = k \/ k \in Elements(next_list[j])
  \/ \E m \in Calls : k \in Elements(m.held)

\* What keeps a call on a task from the end of the task: a pointer that outlives the
\* call, or the release of the task, which waits for it.
Kept(h, ca, m, D) ==
  \/ m.task \in h
  \/ \E e \in D : e.pc = "action" /\ m.task \in ca[e.task]
  \/ \E e \in D : e.pc = "activate" /\ m.task \in Elements(e.held)
  \/ \E e \in D : e.pc = "members" /\ e.task = m.task

\* What a call may rely on of those below it.
Supported(h, ca, m, D) ==
  /\ m.pc \in Releasing => \A e \in D : e.task # m.task
  /\ m.pc \notin Releasing /\ m.task # Null => Kept(h, ca, m, D)
  /\ m.pc \in {"started", "notify"} => \A e \in D : ~Drives(e, m.task)
Stacked(h, ca, S) == \A i \in 1..Len(S) : Supported(h, ca, S[i], Deeper(S, i))
StackOK == Stacked(handle, captured, stack)

\* The action of a task runs right above the call that resumed its coroutine.
Joined(S) ==
  \A i \in 1..Len(S) :
    /\ S[i].pc = "action" => i < Len(S) /\ Drives(S[i + 1], S[i].task)
    /\ i > 1 /\ S[i].pc \in {"started", "notify"} =>
         S[i - 1].pc = "action" /\ S[i - 1].task = S[i].task

\* What a call needs when it goes on.
CallOK(m) ==
  /\ m.pc # "body" <=> m.task # Null
  /\ m.pc \in Releasing =>
       /\ mapped[m.task] /\ ~Referenced(m.task)
       /\ object[m.task] = IF m.pc = "recycle" THEN "dead" ELSE "alive"
       /\ m.pc # "release" => m.coro
       /\ m.pc \notin {"release", "captures"} => captured[m.task] = {}
       /\ m.pc \in {"members", "base", "recycle"} =>
            /\ status[m.task] \notin {RUNNING, WAITING}
            /\ next_list[m.task] # <<>> => \E e \in Calls : e.pc = "notify" /\ e.task = m.task
            /\ callers[m.task] # {} =>
                 \E e \in Calls : e.pc \in {"notify", "activate"} /\ e.task = m.task
  /\ m.pc = "notify" => Exiting(m.task)
  /\ m.pc \notin {"activate", "wake"} => m.held = <<>>
  /\ m.pc = "activate" => Elements(m.todo) \subseteq Elements(m.held)
CallsOK == \A m \in Calls : CallOK(m)

\* A task that pointers lead to is there; without one it is being destroyed, or gone.
ReferenceAt(k) ==
  /\ Referenced(k) => object[k] = "alive" /\ mapped[k]
  /\ mapped[k] /\ ~Referenced(k) => \E m \in Calls : Destroys(m, k)
  /\ mapped[k] => object[k] # "none"
  /\ object[k] = "none" => status[k] = CREATED /\ captured[k] = {} /\ callers[k] = {}
  /\ object[k] = "alive" => mapped[k]
  /\ object[k] = "dead" =>
       /\ status[k] = CREATED \/ (Exiting(k) /\ Completed(k))
       /\ captured[k] = {} /\ callers[k] = {}

ReferenceInv == \A k \in Task : ReferenceAt(k)

\* Where the coroutine of a task is, and who is to tell the end of the task.
StatusAt(k) ==
  /\ status[k] = CREATED => co[k] = "FRESH"
  /\ status[k] = RUNNING => \E m \in Calls : m.pc = "started" /\ m.task = k
  /\ status[k] \in {CREATED, WAITING} => \A m \in Calls : ~Drives(m, k)
  /\ Exiting(k) /\ ~Completed(k) => \E m \in Calls : Drives(m, k)
  /\ Completed(k) => Exiting(k) \/ \E m \in Calls : m.pc = "started" /\ m.task = k
  /\ co[k] = "RUNNING" <=> \E m \in Calls : m.pc = "action" /\ m.task = k
  /\ Exiting(k) /\ next_list[k] # <<>> => \E m \in Calls : Drives(m, k)
  /\ Exiting(k) /\ callers[k] # {} =>
       \E m \in Calls : m.pc \in {"started", "notify", "activate"} /\ m.task = k

StatusInv == \A k \in Task : StatusAt(k)

\* Who waits for a task is in its list until it is over, and is to be resumed then.
WaitAt(k) ==
  waits[k] # Null =>
    /\ co[k] \in {"READY", "RUNNING"}
    /\ \/ k \in Elements(next_list[waits[k]])
       \/ Completed(waits[k]) /\
            \/ co[k] = "RUNNING"
            \/ \E m \in Calls : m.pc = "activate" /\ k \in Elements(m.todo)
WaitInv == \A k \in Task : WaitAt(k)

AwaiterAt(a) ==
  awaiting[a] # Null =>
    \/ a \in callers[awaiting[a]]
    \/ \E m \in Calls : m.pc = "wake" /\ m.task = awaiting[a] /\ a \in m.who
AwaiterInv == \A a \in Awaiter : AwaiterAt(a)

IInv == TypeOK /\ StackOK /\ Joined(stack) /\ CallsOK /\ ReferenceInv /\ StatusInv /\ WaitInv
        /\ AwaiterInv

-----------------------------------------------------------------------------
(* Sequences of calls. *)

LEMMA Put ==
  ASSUME NEW S \in Seq(Call), NEW k \in Call
  PROVE  /\ <<k>> \o S \in Seq(Call) /\ <<k>> \o S # <<>>
         /\ Head(<<k>> \o S) = k /\ Tail(<<k>> \o S) = S
         /\ Len(<<k>> \o S) = Len(S) + 1 /\ (<<k>> \o S)[1] = k
         /\ \A i \in 1..Len(S) : (<<k>> \o S)[i + 1] = S[i]
         /\ CallsOf(<<k>> \o S) = {k} \cup CallsOf(S)
<1>. DEFINE T == <<k>> \o S
<1>1. T \in Seq(Call) /\ Len(T) = Len(S) + 1 /\ T[1] = k /\ \A i \in 1..Len(S) : T[i + 1] = S[i]
  OBVIOUS
<1>2. T # <<>> /\ Head(T) = k
  BY <1>1
<1>3. Tail(T) = S
  OBVIOUS
<1>4. ASSUME NEW x \in CallsOf(T) PROVE x \in {k} \cup CallsOf(S)
  <2>. HIDE DEF T
  <2>1. PICK i \in 1..Len(T) : x = T[i]
    BY DEF CallsOf
  <2>2. CASE i = 1
    BY <2>1, <2>2, <1>1
  <2>3. CASE i # 1
    <3>1. i - 1 \in 1..Len(S) /\ T[(i - 1) + 1] = S[i - 1] /\ (i - 1) + 1 = i
      BY <2>1, <2>3, <1>1
    <3>. QED BY <3>1, <2>1 DEF CallsOf
  <2>. QED BY <2>2, <2>3
<1>5. ASSUME NEW x \in {k} \cup CallsOf(S) PROVE x \in CallsOf(T)
  <2>. HIDE DEF T
  <2>1. CASE x = k
    <3>1. 1 \in 1..Len(T)
      BY <1>1
    <3>. QED BY <3>1, <2>1, <1>1 DEF CallsOf
  <2>2. CASE x \in CallsOf(S)
    <3>1. PICK i \in 1..Len(S) : x = S[i]
      BY <2>2 DEF CallsOf
    <3>2. i + 1 \in 1..Len(T) /\ T[i + 1] = x
      BY <3>1, <1>1
    <3>. QED BY <3>2 DEF CallsOf
  <2>. QED BY <2>1, <2>2
<1>. QED BY <1>1, <1>2, <1>3, <1>4, <1>5

LEMMA TakeApart ==
  ASSUME NEW S \in Seq(Call), S # <<>>
  PROVE  /\ Tail(S) \in Seq(Call) /\ Head(S) \in Call
         /\ S = <<Head(S)>> \o Tail(S)
         /\ CallsOf(S) = {Head(S)} \cup CallsOf(Tail(S))
<1>1. Tail(S) \in Seq(Call) /\ Head(S) \in Call
  OBVIOUS
<1>2. S = <<Head(S)>> \o Tail(S)
  OBVIOUS
<1>. DEFINE h == Head(S)
            R == Tail(S)
<1>. HIDE DEF h, R
<1>3. CallsOf(<<h>> \o R) = {h} \cup CallsOf(R)
  BY <1>1, Put DEF h, R
<1>. QED BY <1>1, <1>2, <1>3 DEF h, R

LEMMA CallsIn ==
  ASSUME NEW S \in Seq(Call)
  PROVE  CallsOf(S) \subseteq Call /\ \A i \in 1..Len(S) : Deeper(S, i) \subseteq CallsOf(S)
<1>1. \A i \in 1..Len(S) : \A j \in (i + 1)..Len(S) : j \in 1..Len(S)
  OBVIOUS
<1>. QED BY <1>1 DEF CallsOf, Deeper

LEMMA NoCalls == CallsOf(<<>>) = {}
BY DEF CallsOf

\* What the calls of S have below them when k is put on top.
LEMMA PutDeeper ==
  ASSUME NEW S \in Seq(Call), NEW k \in Call
  PROVE  /\ Deeper(<<k>> \o S, 1) = CallsOf(S)
         /\ \A i \in 1..Len(S) : Deeper(<<k>> \o S, i + 1) = Deeper(S, i)
<1>. DEFINE T == <<k>> \o S
<1>1. Len(T) = Len(S) + 1 /\ \A i \in 1..Len(S) : T[i + 1] = S[i]
  BY Put
<1>2. Len(S) \in Nat
  OBVIOUS
<1>. HIDE DEF T
<1>3. ASSUME NEW i \in 0..Len(S), NEW x \in Deeper(T, i + 1)
      PROVE  \E j \in (i + 1)..Len(S) : x = S[j]
  <2>1. PICK j \in ((i + 1) + 1)..Len(T) : x = T[j]
    BY <1>3 DEF Deeper
  <2>2. j - 1 \in (i + 1)..Len(S) /\ j - 1 \in 1..Len(S) /\ (j - 1) + 1 = j
    BY <2>1, <1>1, <1>2
  <2>3. x = S[j - 1]
    BY <2>1, <2>2, <1>1
  <2>. QED BY <2>2, <2>3
<1>4. ASSUME NEW i \in 0..Len(S), NEW j \in (i + 1)..Len(S)
      PROVE  S[j] \in Deeper(T, i + 1)
  <2>1. j \in 1..Len(S) /\ j + 1 \in ((i + 1) + 1)..Len(T)
    BY <1>1, <1>2
  <2>2. T[j + 1] = S[j]
    BY <2>1, <1>1
  <2>. QED BY <2>1, <2>2 DEF Deeper
<1>5. Deeper(T, 1) = CallsOf(S)
  <2>1. 0 \in 0..Len(S) /\ 0 + 1 = 1
    BY <1>2
  <2>2. ASSUME NEW x \in Deeper(T, 1) PROVE x \in CallsOf(S)
    BY <2>1, <2>2, <1>3 DEF CallsOf
  <2>3. ASSUME NEW x \in CallsOf(S) PROVE x \in Deeper(T, 1)
    BY <2>1, <2>3, <1>4 DEF CallsOf
  <2>. QED BY <2>2, <2>3
<1>6. ASSUME NEW i \in 1..Len(S) PROVE Deeper(T, i + 1) = Deeper(S, i)
  <2>1. i \in 0..Len(S)
    BY <1>2
  <2>2. ASSUME NEW x \in Deeper(T, i + 1) PROVE x \in Deeper(S, i)
    BY <2>1, <2>2, <1>3 DEF Deeper
  <2>3. ASSUME NEW x \in Deeper(S, i) PROVE x \in Deeper(T, i + 1)
    BY <2>1, <2>3, <1>4 DEF Deeper
  <2>. QED BY <2>2, <2>3
<1>. QED BY <1>5, <1>6 DEF T

LEMMA StackedPut ==
  ASSUME NEW h, NEW ca, NEW S \in Seq(Call), NEW k \in Call
  PROVE  Stacked(h, ca, <<k>> \o S) <=> Stacked(h, ca, S) /\ Supported(h, ca, k, CallsOf(S))
<1>. DEFINE T == <<k>> \o S
<1>1. /\ Len(T) = Len(S) + 1 /\ T[1] = k /\ \A i \in 1..Len(S) : T[i + 1] = S[i]
      /\ Deeper(T, 1) = CallsOf(S) /\ \A i \in 1..Len(S) : Deeper(T, i + 1) = Deeper(S, i)
  BY Put, PutDeeper
<1>2. Len(S) \in Nat
  OBVIOUS
<1>. HIDE DEF T
<1>3. ASSUME Stacked(h, ca, S), Supported(h, ca, k, CallsOf(S))
      PROVE  Stacked(h, ca, T)
  <2>1. SUFFICES ASSUME NEW i \in 1..Len(T) PROVE Supported(h, ca, T[i], Deeper(T, i))
    BY DEF Stacked
  <2>2. CASE i = 1
    BY <2>2, <1>1, <1>3
  <2>3. CASE i # 1
    <3>1. i - 1 \in 1..Len(S) /\ (i - 1) + 1 = i
      BY <2>3, <1>1, <1>2
    <3>2. T[i] = S[i - 1] /\ Deeper(T, i) = Deeper(S, i - 1)
      BY <3>1, <1>1
    <3>. QED BY <3>1, <3>2, <1>3 DEF Stacked
  <2>. QED BY <2>2, <2>3
<1>4. ASSUME Stacked(h, ca, T)
      PROVE  Stacked(h, ca, S) /\ Supported(h, ca, k, CallsOf(S))
  <2>1. ASSUME NEW i \in 1..Len(S) PROVE Supported(h, ca, S[i], Deeper(S, i))
    <3>1. i + 1 \in 1..Len(T)
      BY <1>1, <1>2
    <3>2. Supported(h, ca, T[i + 1], Deeper(T, i + 1))
      BY <3>1, <1>4 DEF Stacked
    <3>. QED BY <3>2, <1>1
  <2>2. 1 \in 1..Len(T)
    BY <1>1, <1>2
  <2>3. Supported(h, ca, T[1], Deeper(T, 1))
    BY <2>2, <1>4 DEF Stacked
  <2>. QED BY <2>1, <2>3, <1>1 DEF Stacked
<1>. QED BY <1>3, <1>4 DEF T

LEMMA StackedKept ==
  ASSUME NEW h, NEW ca, NEW h2, NEW ca2, NEW S \in Seq(Call), Stacked(h, ca, S),
         \A m \in CallsOf(S) : m.task \in h => m.task \in h2,
         \A m \in CallsOf(S) : m.pc = "action" => ca[m.task] \subseteq ca2[m.task]
  PROVE  Stacked(h2, ca2, S)
<1>1. SUFFICES ASSUME NEW i \in 1..Len(S) PROVE Supported(h2, ca2, S[i], Deeper(S, i))
  BY DEF Stacked
<1>. DEFINE m == S[i]
            D == Deeper(S, i)
<1>2. Supported(h, ca, m, D)
  BY DEF Stacked
<1>3. D \subseteq CallsOf(S) /\ m \in CallsOf(S)
  BY CallsIn DEF CallsOf
<1>. HIDE DEF m, D
<1>4. Kept(h, ca, m, D) => Kept(h2, ca2, m, D)
  BY <1>3 DEF Kept
<1>5. Supported(h2, ca2, m, D)
  BY <1>2, <1>4 DEF Supported
<1>. QED BY <1>5 DEF m, D

LEMMA JoinedPut ==
  ASSUME NEW S \in Seq(Call), NEW k \in Call
  PROVE  Joined(<<k>> \o S) <=>
           /\ Joined(S)
           /\ k.pc = "action" => S # <<>> /\ Drives(Head(S), k.task)
           /\ S # <<>> /\ Head(S).pc \in {"started", "notify"} =>
                k.pc = "action" /\ k.task = Head(S).task
<1>. DEFINE T == <<k>> \o S
            J(i) == /\ T[i].pc = "action" => i < Len(T) /\ Drives(T[i + 1], T[i].task)
                    /\ i > 1 /\ T[i].pc \in {"started", "notify"} =>
                         T[i - 1].pc = "action" /\ T[i - 1].task = T[i].task
            JS(i) == /\ S[i].pc = "action" => i < Len(S) /\ Drives(S[i + 1], S[i].task)
                     /\ i > 1 /\ S[i].pc \in {"started", "notify"} =>
                         S[i - 1].pc = "action" /\ S[i - 1].task = S[i].task
<1>1. Len(T) = Len(S) + 1 /\ T[1] = k /\ (\A i \in 1..Len(S) : T[i + 1] = S[i]) /\ Len(S) \in Nat
  BY Put
<1>2. Joined(T) <=> \A i \in 1..Len(T) : J(i)
  BY DEF Joined
<1>3. Joined(S) <=> \A i \in 1..Len(S) : JS(i)
  BY DEF Joined
<1>4. S # <<>> <=> Len(S) >= 1
  OBVIOUS
<1>5. S # <<>> => Head(S) = S[1]
  OBVIOUS
<1>. HIDE DEF T
<1>6. ASSUME S = <<>> PROVE Joined(T) <=> k.pc # "action"
  <2>1. Len(T) = 1
    BY <1>1, <1>4, <1>6
  <2>2. J(1) <=> k.pc # "action"
    BY <2>1, <1>1
  <2>3. 1..Len(T) = {1}
    BY <2>1
  <2>. HIDE DEF J
  <2>. QED BY <2>2, <2>3, <1>2
<1>7. ASSUME S # <<>>
      PROVE  /\ J(1) <=> (k.pc = "action" => Drives(S[1], k.task))
             /\ J(2) <=> JS(1) /\ (S[1].pc \in {"started", "notify"} => k.pc = "action" /\ k.task = S[1].task)
  <2>1. Len(S) >= 1 /\ T[2] = S[1] /\ 1 < Len(T) /\ (Len(S) > 1 => T[3] = S[2])
    <3>1. Len(S) >= 1 /\ 1 \in 1..Len(S) /\ (Len(S) > 1 => 2 \in 1..Len(S))
      BY <1>4, <1>7, <1>1
    <3>. QED BY <3>1, <1>1
  <2>2. J(1) <=> (k.pc = "action" => Drives(S[1], k.task))
    BY <2>1, <1>1
  <2>3. J(2) <=> JS(1) /\ (S[1].pc \in {"started", "notify"} => k.pc = "action" /\ k.task = S[1].task)
    BY <2>1, <1>1
  <2>. QED BY <2>2, <2>3
<1>8. ASSUME NEW i \in 2..Len(S) PROVE J(i + 1) <=> JS(i)
  <2>1. i \in 1..Len(S) /\ i - 1 \in 1..Len(S) /\ (i - 1) + 1 = i /\ (i + 1) - 1 = i
        /\ (i < Len(S) => i + 1 \in 1..Len(S)) /\ (i + 1 < Len(T) <=> i < Len(S))
    BY <1>1
  <2>2. T[i + 1] = S[i] /\ T[i] = S[i - 1] /\ (i < Len(S) => T[(i + 1) + 1] = S[i + 1])
    BY <2>1, <1>1
  <2>3. T[(i + 1) - 1] = S[i - 1]
    BY <2>1, <2>2
  <2>. QED BY <2>1, <2>2, <2>3
<1>9. ASSUME S # <<>>
      PROVE  Joined(T) <=> Joined(S) /\ (k.pc = "action" => Drives(S[1], k.task))
               /\ (S[1].pc \in {"started", "notify"} => k.pc = "action" /\ k.task = S[1].task)
  <2>1. Len(S) >= 1
    BY <1>4, <1>9
  <2>. HIDE DEF J, JS
  <2>2. (\A i \in 1..Len(T) : J(i)) <=> J(1) /\ J(2) /\ \A i \in 2..Len(S) : J(i + 1)
    <3>1. 1 \in 1..Len(T) /\ 2 \in 1..Len(T) /\ \A i \in 2..Len(S) : i + 1 \in 1..Len(T)
      BY <2>1, <1>1
    <3>2. \A i \in 1..Len(T) : i = 1 \/ i = 2 \/ (i - 1 \in 2..Len(S) /\ (i - 1) + 1 = i)
      BY <2>1, <1>1
    <3>. QED BY <3>1, <3>2
  <2>3. (\A i \in 1..Len(S) : JS(i)) <=> JS(1) /\ \A i \in 2..Len(S) : JS(i)
    <3>1. 1..Len(S) = {1} \cup 2..Len(S)
      BY <2>1, <1>1
    <3>. QED BY <3>1
  <2>. QED BY <2>2, <2>3, <1>2, <1>3, <1>7, <1>8, <1>9
<1>10. CASE S = <<>>
  <2>1. Joined(S)
    BY <1>10 DEF Joined
  <2>. QED BY <2>1, <1>6, <1>10 DEF T
<1>11. CASE S # <<>>
  BY <1>9, <1>11, <1>5 DEF T
<1>. QED BY <1>10, <1>11

-----------------------------------------------------------------------------
(* Pointers. *)

LEMMA Kinds ==
  ASSUME TypeOK, NEW k \in Task
  PROVE  /\ <<"handle", k>> \in References(k) <=> k \in handle
         /\ \A j \in Task : <<"captured", j>> \in References(k) <=> k \in captured[j]
         /\ \A j \in Task : <<"waits", j>> \in References(k) <=> waits[j] = k
         /\ \A j \in Task : \A i \in Nat : <<"next", <<j, i>>>> \in References(k) <=>
                                    i \in 1..Len(next_list[j]) /\ next_list[j][i] = k
         /\ \A d, i \in Nat : <<"held", <<d, i>>>> \in References(k) <=>
               d \in 1..Len(stack) /\ i \in 1..Len(stack[d].held) /\ stack[d].held[i] = k
         /\ \A r \in References(k) :
               \/ r = <<"handle", k>>
               \/ \E j \in Task : r = <<"captured", j>> \/ r = <<"waits", j>>
               \/ \E j \in Task : \E i \in 1..Len(next_list[j]) : r = <<"next", <<j, i>>>>
               \/ \E d \in 1..Len(stack) : \E i \in 1..Len(stack[d].held) : r = <<"held", <<d, i>>>>
<1>1. stack \in Seq(Call) /\ next_list \in [Task -> Seq(Task)]
  BY DEF TypeOK
<1>2. \A d \in 1..Len(stack) : stack[d] \in Call /\ stack[d].held \in Seq(Task)
  <2>1. \A m \in Call : m.held \in Seq(Task)
    BY DEF Call
  <2>2. \A d \in 1..Len(stack) : stack[d] \in Call
    BY <1>1
  <2>. QED BY <2>1, <2>2
<1>. DEFINE L == [d \in DOMAIN stack |-> stack[d].held]
            NextPlaces == UNION {{j} \X {i \in DOMAIN next_list[j] : next_list[j][i] = k} : j \in DOMAIN next_list}
            HeldPlaces == UNION {{j} \X {i \in DOMAIN L[j] : L[j][i] = k} : j \in DOMAIN L}
<1>3. \A p : p \in NextPlaces <=>
        \E j \in Task : \E i \in 1..Len(next_list[j]) : next_list[j][i] = k /\ p = <<j, i>>
  <2>1. DOMAIN next_list = Task /\ \A j \in Task : DOMAIN next_list[j] = 1..Len(next_list[j])
    BY <1>1
  <2>. QED BY <2>1
<1>4. \A p : p \in HeldPlaces <=>
        \E d \in 1..Len(stack) : \E i \in 1..Len(stack[d].held) : stack[d].held[i] = k /\ p = <<d, i>>
  <2>1. DOMAIN stack = 1..Len(stack) /\ DOMAIN L = 1..Len(stack)
        /\ \A d \in 1..Len(stack) : L[d] = stack[d].held /\ DOMAIN stack[d].held = 1..Len(stack[d].held)
    BY <1>1, <1>2
  <2>. HIDE DEF L
  <2>. QED BY <2>1
<1>5. References(k) =
        ({"handle"} \X (handle \cap {k}))
        \cup ({"captured"} \X {j \in Task : k \in captured[j]})
        \cup ({"waits"} \X {j \in Task : waits[j] = k})
        \cup ({"next"} \X NextPlaces) \cup ({"held"} \X HeldPlaces)
  BY DEF References
<1>. HIDE DEF NextPlaces, HeldPlaces, L
<1>6. \A r : r \in References(k) <=>
         \/ r = <<"handle", k>> /\ k \in handle
         \/ \E j \in Task : r = <<"captured", j>> /\ k \in captured[j]
         \/ \E j \in Task : r = <<"waits", j>> /\ waits[j] = k
         \/ \E p \in NextPlaces : r = <<"next", p>>
         \/ \E p \in HeldPlaces : r = <<"held", p>>
  BY <1>5
<1>7. /\ <<"handle", k>> \in References(k) <=> k \in handle
      /\ \A j \in Task : <<"captured", j>> \in References(k) <=> k \in captured[j]
      /\ \A j \in Task : <<"waits", j>> \in References(k) <=> waits[j] = k
  BY <1>6
<1>8. /\ \A p : <<"next", p>> \in References(k) <=> p \in NextPlaces
      /\ \A p : <<"held", p>> \in References(k) <=> p \in HeldPlaces
  BY <1>6
<1>9. \A j \in Task : \A i \in Nat : <<j, i>> \in NextPlaces <=>
           i \in 1..Len(next_list[j]) /\ next_list[j][i] = k
  BY <1>3
<1>10. \A d, i \in Nat : <<d, i>> \in HeldPlaces <=>
           d \in 1..Len(stack) /\ i \in 1..Len(stack[d].held) /\ stack[d].held[i] = k
  BY <1>4
<1>11. ASSUME NEW r \in References(k)
       PROVE   \/ r = <<"handle", k>>
               \/ \E j \in Task : r = <<"captured", j>> \/ r = <<"waits", j>>
               \/ \E j \in Task : \E i \in 1..Len(next_list[j]) : r = <<"next", <<j, i>>>>
               \/ \E d \in 1..Len(stack) : \E i \in 1..Len(stack[d].held) : r = <<"held", <<d, i>>>>
  <2>1. CASE \E p \in NextPlaces : r = <<"next", p>>
    <3>1. PICK p \in NextPlaces : r = <<"next", p>>
      BY <2>1
    <3>2. \E j \in Task : \E i \in 1..Len(next_list[j]) : p = <<j, i>>
      BY <3>1, <1>3
    <3>. QED BY <3>1, <3>2
  <2>2. CASE \E p \in HeldPlaces : r = <<"held", p>>
    <3>1. PICK p \in HeldPlaces : r = <<"held", p>>
      BY <2>2
    <3>2. \E d \in 1..Len(stack) : \E i \in 1..Len(stack[d].held) : p = <<d, i>>
      BY <3>1, <1>4
    <3>3. PICK d \in 1..Len(stack) : \E i \in 1..Len(stack[d].held) : p = <<d, i>>
      BY <3>2
    <3>4. PICK i \in 1..Len(stack[d].held) : p = <<d, i>>
      BY <3>3
    <3>5. r = <<"held", <<d, i>>>>
      BY <3>1, <3>4
    <3>. QED BY <3>5
  <2>. QED BY <2>1, <2>2, <1>11, <1>6
<1>. QED BY <1>7, <1>8, <1>9, <1>10, <1>11

\* Where k is in a family of lists.
Places(lists, k) ==
  UNION {{j} \X {i \in DOMAIN lists[j] : lists[j][i] = k} : j \in DOMAIN lists}

LEMMA PlacesFinite ==
  ASSUME NEW lists, IsFiniteSet(DOMAIN lists), NEW k, \A j \in DOMAIN lists : lists[j] \in Seq(Task)
  PROVE  IsFiniteSet(Places(lists, k))
<1>. DEFINE D == DOMAIN lists
            P(j) == {j} \X {i \in DOMAIN lists[j] : lists[j][i] = k}
            f == [j \in D |-> P(j)]
            Im == {P(j) : j \in D}
<1>1. ASSUME NEW j \in D PROVE IsFiniteSet(P(j))
  <2>1. DOMAIN lists[j] = 1..Len(lists[j]) /\ Len(lists[j]) \in Nat
    BY <1>1
  <2>2. IsFiniteSet(1..Len(lists[j]))
    BY <2>1, FS_Interval
  <2>3. IsFiniteSet({i \in DOMAIN lists[j] : lists[j][i] = k})
    <3>1. {i \in DOMAIN lists[j] : lists[j][i] = k} \in SUBSET (1..Len(lists[j]))
      BY <2>1
    <3>. QED BY <3>1, <2>2, FS_Subset
  <2>4. IsFiniteSet({j})
    BY FS_Singleton
  <2>. QED BY <2>3, <2>4, FS_Product
<1>2. f \in Surjection(D, Im)
  BY DEF Surjection
<1>3. IsFiniteSet(Im)
  BY <1>2, FS_Surjection
<1>4. \A X \in Im : IsFiniteSet(X)
  BY <1>1
<1>5. IsFiniteSet(UNION Im)
  <2>. HIDE DEF P, f, Im
  <2>. QED BY <1>3, <1>4, FS_UNION
<1>. QED BY <1>5 DEF Places

LEMMA ReferencesFinite ==
  ASSUME TypeOK, NEW k \in Task
  PROVE  IsFiniteSet(References(k))
<1>1. stack \in Seq(Call) /\ next_list \in [Task -> Seq(Task)] /\ IsFiniteSet(Task)
  BY LifetimeAssumption DEF TypeOK
<1>. DEFINE L == [d \in DOMAIN stack |-> stack[d].held]
            NextPlaces == Places(next_list, k)
            HeldPlaces == Places(L, k)
<1>2. IsFiniteSet(NextPlaces)
  <2>1. DOMAIN next_list = Task /\ \A j \in Task : next_list[j] \in Seq(Task)
    BY <1>1
  <2>2. IsFiniteSet(DOMAIN next_list) /\ \A j \in DOMAIN next_list : next_list[j] \in Seq(Task)
    BY <2>1, <1>1
  <2>. QED BY <2>2, PlacesFinite
<1>3. IsFiniteSet(HeldPlaces)
  <2>1. DOMAIN L = 1..Len(stack) /\ Len(stack) \in Nat
    BY <1>1
  <2>2. \A d \in DOMAIN L : L[d] \in Seq(Task)
    <3>1. \A m \in Call : m.held \in Seq(Task)
      BY DEF Call
    <3>. QED BY <3>1, <1>1
  <2>3. IsFiniteSet(DOMAIN L)
    BY <2>1, FS_Interval
  <2>. HIDE DEF L
  <2>. QED BY <2>2, <2>3, PlacesFinite
<1>4. References(k) =
        ({"handle"} \X (handle \cap {k}))
        \cup ({"captured"} \X {j \in Task : k \in captured[j]})
        \cup ({"waits"} \X {j \in Task : waits[j] = k})
        \cup ({"next"} \X NextPlaces) \cup ({"held"} \X HeldPlaces)
  BY DEF References, Places
<1>. HIDE DEF NextPlaces, HeldPlaces
<1>5. \A x : IsFiniteSet({x})
  BY FS_Singleton
<1>6. IsFiniteSet(handle \cap {k})
  <2>1. handle \cap {k} \in SUBSET {k}
    OBVIOUS
  <2>. QED BY <2>1, <1>5, FS_Subset
<1>7. IsFiniteSet({j \in Task : k \in captured[j]}) /\ IsFiniteSet({j \in Task : waits[j] = k})
  <2>1. {j \in Task : k \in captured[j]} \in SUBSET Task /\ {j \in Task : waits[j] = k} \in SUBSET Task
    OBVIOUS
  <2>. QED BY <2>1, <1>1, FS_Subset
<1>8. \A x, S : IsFiniteSet(S) => IsFiniteSet({x} \X S)
  BY <1>5, FS_Product
<1>9. \A S, T : IsFiniteSet(S) /\ IsFiniteSet(T) => IsFiniteSet(S \cup T)
  BY FS_Union
<1>. QED
  <2>. DEFINE A == {"handle"} \X (handle \cap {k})
              B == {"captured"} \X {j \in Task : k \in captured[j]}
              C == {"waits"} \X {j \in Task : waits[j] = k}
              E == {"next"} \X NextPlaces
              F == {"held"} \X HeldPlaces
  <2>1. IsFiniteSet(A) /\ IsFiniteSet(B) /\ IsFiniteSet(C) /\ IsFiniteSet(E) /\ IsFiniteSet(F)
    BY <1>2, <1>3, <1>6, <1>7, <1>8
  <2>2. References(k) = A \cup B \cup C \cup E \cup F
    BY <1>4
  <2>. HIDE DEF A, B, C, E, F
  <2>. QED BY <2>1, <2>2, <1>9

\* The count is 1 when the last pointer goes.
LEMMA LastPointer ==
  ASSUME TypeOK, NEW k \in Task, NEW r \in References(k)
  PROVE  Cardinality(References(k)) = 1 <=> \A q \in References(k) : q = r
<1>1. IsFiniteSet(References(k))
  BY ReferencesFinite
<1>2. Cardinality(References(k)) = 1 <=> \E x : References(k) = {x}
  BY <1>1, FS_Singleton
<1>. QED BY <1>2

LEMMA ReferencedMeans ==
  ASSUME TypeOK, NEW k \in Task
  PROVE  Referenced(k) <=> References(k) # {}
<1>a. /\ <<"handle", k>> \in References(k) <=> k \in handle
      /\ \A j \in Task : <<"captured", j>> \in References(k) <=> k \in captured[j]
      /\ \A j \in Task : <<"waits", j>> \in References(k) <=> waits[j] = k
  BY Kinds
<1>b. \A j \in Task : \A i \in Nat : <<"next", <<j, i>>>> \in References(k) <=>
                                    i \in 1..Len(next_list[j]) /\ next_list[j][i] = k
  BY Kinds
<1>c. \A d, i \in Nat : <<"held", <<d, i>>>> \in References(k) <=>
               d \in 1..Len(stack) /\ i \in 1..Len(stack[d].held) /\ stack[d].held[i] = k
  BY Kinds
<1>d. \A r \in References(k) :
               \/ r = <<"handle", k>>
               \/ \E j \in Task : r = <<"captured", j>> \/ r = <<"waits", j>>
               \/ \E j \in Task : \E i \in 1..Len(next_list[j]) : r = <<"next", <<j, i>>>>
               \/ \E d \in 1..Len(stack) : \E i \in 1..Len(stack[d].held) : r = <<"held", <<d, i>>>>
  BY Kinds
<1>1. /\ stack \in Seq(Call) /\ Len(stack) \in Nat
      /\ \A j \in Task : Len(next_list[j]) \in Nat
      /\ \A d \in 1..Len(stack) : Len(stack[d].held) \in Nat
  <2>1. \A m \in Call : Len(m.held) \in Nat
    BY DEF Call
  <2>. QED BY <2>1 DEF TypeOK
<1>2. ASSUME Referenced(k) PROVE References(k) # {}
  <2>1. CASE k \in handle
    BY <2>1, <1>a
  <2>2. ASSUME NEW j \in Task, k \in captured[j] \/ waits[j] = k PROVE References(k) # {}
    BY <2>2, <1>a
  <2>3. ASSUME NEW j \in Task, k \in Elements(next_list[j]) PROVE References(k) # {}
    <3>1. PICK i \in 1..Len(next_list[j]) : next_list[j][i] = k
      BY <2>3 DEF Elements
    <3>2. <<"next", <<j, i>>>> \in References(k)
      BY <3>1, <1>1, <1>b
    <3>. QED BY <3>2
  <2>4. ASSUME NEW m \in Calls, k \in Elements(m.held) PROVE References(k) # {}
    <3>1. PICK d \in 1..Len(stack) : m = stack[d]
      BY <2>4 DEF Calls, CallsOf
    <3>2. PICK i \in 1..Len(stack[d].held) : stack[d].held[i] = k
      BY <2>4, <3>1 DEF Elements
    <3>3. <<"held", <<d, i>>>> \in References(k)
      BY <3>1, <3>2, <1>1, <1>c
    <3>. QED BY <3>3
  <2>. QED BY <2>1, <2>2, <2>3, <2>4, <1>2 DEF Referenced
<1>3. ASSUME NEW r \in References(k) PROVE Referenced(k)
  <2>1. CASE r = <<"handle", k>>
    BY <2>1, <1>3, <1>a DEF Referenced
  <2>2. ASSUME NEW j \in Task, r = <<"captured", j>> \/ r = <<"waits", j>> PROVE Referenced(k)
    BY <2>2, <1>3, <1>a DEF Referenced
  <2>3. ASSUME NEW j \in Task, NEW i \in 1..Len(next_list[j]), r = <<"next", <<j, i>>>> PROVE Referenced(k)
    <3>1. next_list[j][i] = k
      BY <2>3, <1>3, <1>1, <1>b
    <3>. QED BY <3>1 DEF Referenced, Elements
  <2>4. ASSUME NEW d \in 1..Len(stack), NEW i \in 1..Len(stack[d].held), r = <<"held", <<d, i>>>>
        PROVE  Referenced(k)
    <3>1. stack[d].held[i] = k /\ stack[d] \in Calls
      BY <2>4, <1>3, <1>1, <1>c DEF Calls, CallsOf
    <3>. QED BY <3>1 DEF Referenced, Elements
  <2>. QED BY <2>1, <2>2, <2>3, <2>4, <1>d
<1>. QED BY <1>2, <1>3

\* k is in no next list and not among what a call took out of one.
Unlisted(k) ==
  /\ \A j \in Task : k \notin Elements(next_list[j])
  /\ \A m \in Calls : k \notin Elements(m.held)

LEMMA ListPointers ==
  ASSUME TypeOK, NEW k \in Task
  PROVE  Unlisted(k) <=> \A r \in References(k) :
           r = <<"handle", k>> \/ \E j \in Task : r = <<"captured", j>> \/ r = <<"waits", j>>
<1>a. /\ <<"handle", k>> \in References(k) <=> k \in handle
      /\ \A j \in Task : <<"captured", j>> \in References(k) <=> k \in captured[j]
      /\ \A j \in Task : <<"waits", j>> \in References(k) <=> waits[j] = k
  BY Kinds
<1>b. \A j \in Task : \A i \in Nat : <<"next", <<j, i>>>> \in References(k) <=>
                                    i \in 1..Len(next_list[j]) /\ next_list[j][i] = k
  BY Kinds
<1>c. \A d, i \in Nat : <<"held", <<d, i>>>> \in References(k) <=>
               d \in 1..Len(stack) /\ i \in 1..Len(stack[d].held) /\ stack[d].held[i] = k
  BY Kinds
<1>d. \A r \in References(k) :
               \/ r = <<"handle", k>>
               \/ \E j \in Task : r = <<"captured", j>> \/ r = <<"waits", j>>
               \/ \E j \in Task : \E i \in 1..Len(next_list[j]) : r = <<"next", <<j, i>>>>
               \/ \E d \in 1..Len(stack) : \E i \in 1..Len(stack[d].held) : r = <<"held", <<d, i>>>>
  BY Kinds
<1>1. /\ stack \in Seq(Call) /\ Len(stack) \in Nat
      /\ \A j \in Task : Len(next_list[j]) \in Nat
      /\ \A d \in 1..Len(stack) : Len(stack[d].held) \in Nat
  <2>1. \A m \in Call : Len(m.held) \in Nat
    BY DEF Call
  <2>. QED BY <2>1 DEF TypeOK
<1>2. ASSUME Unlisted(k), NEW r \in References(k)
      PROVE  r = <<"handle", k>> \/ \E j \in Task : r = <<"captured", j>> \/ r = <<"waits", j>>
  <2>1. ASSUME NEW j \in Task, NEW i \in 1..Len(next_list[j]), r = <<"next", <<j, i>>>> PROVE FALSE
    <3>1. next_list[j][i] = k
      BY <2>1, <1>2, <1>1, <1>b
    <3>. QED BY <3>1, <1>2 DEF Unlisted, Elements
  <2>2. ASSUME NEW d \in 1..Len(stack), NEW i \in 1..Len(stack[d].held), r = <<"held", <<d, i>>>>
        PROVE  FALSE
    <3>1. stack[d].held[i] = k /\ stack[d] \in Calls
      BY <2>2, <1>2, <1>1, <1>c DEF Calls, CallsOf
    <3>. QED BY <3>1, <1>2 DEF Unlisted, Elements
  <2>. QED BY <2>1, <2>2, <1>2, <1>d
<1>3. ASSUME \A r \in References(k) :
               r = <<"handle", k>> \/ \E j \in Task : r = <<"captured", j>> \/ r = <<"waits", j>>
      PROVE  Unlisted(k)
  <2>1. ASSUME NEW j \in Task, k \in Elements(next_list[j]) PROVE FALSE
    <3>1. PICK i \in 1..Len(next_list[j]) : next_list[j][i] = k
      BY <2>1 DEF Elements
    <3>2. <<"next", <<j, i>>>> \in References(k)
      BY <3>1, <1>1, <1>b
    <3>. QED BY <3>2, <1>3
  <2>2. ASSUME NEW m \in Calls, k \in Elements(m.held) PROVE FALSE
    <3>1. PICK d \in 1..Len(stack) : m = stack[d]
      BY DEF Calls, CallsOf
    <3>2. PICK i \in 1..Len(stack[d].held) : stack[d].held[i] = k
      BY <2>2, <3>1 DEF Elements
    <3>3. <<"held", <<d, i>>>> \in References(k)
      BY <3>1, <3>2, <1>1, <1>c
    <3>. QED BY <3>3, <1>3
  <2>. QED BY <2>1, <2>2 DEF Unlisted
<1>. QED BY <1>2, <1>3

\* Which other pointers there are, if one is not the last.
LEMMA LastHandle ==
  ASSUME TypeOK, NEW k \in Task, k \in handle
  PROVE  Cardinality(References(k)) = 1 <=>
           Unlisted(k) /\ \A j \in Task : k \notin captured[j] /\ waits[j] # k
<1>1. /\ <<"handle", k>> \in References(k)
      /\ \A j \in Task : <<"captured", j>> \in References(k) <=> k \in captured[j]
      /\ \A j \in Task : <<"waits", j>> \in References(k) <=> waits[j] = k
  BY Kinds
<1>2. Cardinality(References(k)) = 1 <=> \A q \in References(k) : q = <<"handle", k>>
  BY <1>1, LastPointer
<1>. QED BY <1>1, <1>2, ListPointers

LEMMA LastCaptured ==
  ASSUME TypeOK, NEW k \in Task, NEW i \in Task, k \in captured[i]
  PROVE  Cardinality(References(k)) = 1 <=>
           /\ Unlisted(k) /\ k \notin handle
           /\ \A j \in Task : (k \in captured[j] => j = i) /\ waits[j] # k
<1>1. /\ <<"handle", k>> \in References(k) <=> k \in handle
      /\ \A j \in Task : <<"captured", j>> \in References(k) <=> k \in captured[j]
      /\ \A j \in Task : <<"waits", j>> \in References(k) <=> waits[j] = k
  BY Kinds
<1>2. Cardinality(References(k)) = 1 <=> \A q \in References(k) : q = <<"captured", i>>
  BY <1>1, LastPointer
<1>3. Unlisted(k) <=> \A r \in References(k) :
           r = <<"handle", k>> \/ \E j \in Task : r = <<"captured", j>> \/ r = <<"waits", j>>
  BY ListPointers
<1>4. ASSUME \A q \in References(k) : q = <<"captured", i>>
      PROVE  /\ Unlisted(k) /\ k \notin handle
             /\ \A j \in Task : (k \in captured[j] => j = i) /\ waits[j] # k
  <2>1. k \notin handle /\ \A j \in Task : (k \in captured[j] => j = i) /\ waits[j] # k
    BY <1>1, <1>4
  <2>2. Unlisted(k)
    BY <1>3, <1>4
  <2>. QED BY <2>1, <2>2
<1>5. ASSUME Unlisted(k), k \notin handle, \A j \in Task : (k \in captured[j] => j = i) /\ waits[j] # k,
             NEW q \in References(k)
      PROVE  q = <<"captured", i>>
  BY <1>5, <1>1, <1>3
<1>. QED BY <1>2, <1>4, <1>5

LEMMA LastWaits ==
  ASSUME TypeOK, NEW k \in Task, NEW i \in Task, waits[i] = k
  PROVE  Cardinality(References(k)) = 1 <=>
           /\ Unlisted(k) /\ k \notin handle
           /\ \A j \in Task : k \notin captured[j] /\ (waits[j] = k => j = i)
<1>1. /\ <<"handle", k>> \in References(k) <=> k \in handle
      /\ \A j \in Task : <<"captured", j>> \in References(k) <=> k \in captured[j]
      /\ \A j \in Task : <<"waits", j>> \in References(k) <=> waits[j] = k
  BY Kinds
<1>2. Cardinality(References(k)) = 1 <=> \A q \in References(k) : q = <<"waits", i>>
  BY <1>1, LastPointer
<1>3. Unlisted(k) <=> \A r \in References(k) :
           r = <<"handle", k>> \/ \E j \in Task : r = <<"captured", j>> \/ r = <<"waits", j>>
  BY ListPointers
<1>4. ASSUME \A q \in References(k) : q = <<"waits", i>>
      PROVE  /\ Unlisted(k) /\ k \notin handle
             /\ \A j \in Task : k \notin captured[j] /\ (waits[j] = k => j = i)
  <2>1. k \notin handle /\ \A j \in Task : k \notin captured[j] /\ (waits[j] = k => j = i)
    BY <1>1, <1>4
  <2>2. Unlisted(k)
    BY <1>3, <1>4
  <2>. QED BY <2>1, <2>2
<1>5. ASSUME Unlisted(k), k \notin handle, \A j \in Task : k \notin captured[j] /\ (waits[j] = k => j = i),
             NEW q \in References(k)
      PROVE  q = <<"waits", i>>
  BY <1>5, <1>1, <1>3
<1>. QED BY <1>2, <1>4, <1>5

LEMMA LastHeld ==
  ASSUME TypeOK, stack # <<>>, Top.held # <<>>, NEW k \in Task, k = Head(Top.held)
  PROVE  Cardinality(References(k)) = 1 <=>
           /\ k \notin handle
           /\ \A j \in Task : k \notin captured[j] /\ waits[j] # k /\ k \notin Elements(next_list[j])
           /\ k \notin Elements(Tail(Top.held)) /\ \A m \in Below : k \notin Elements(m.held)
<1>a. /\ <<"handle", k>> \in References(k) <=> k \in handle
      /\ \A j \in Task : <<"captured", j>> \in References(k) <=> k \in captured[j]
      /\ \A j \in Task : <<"waits", j>> \in References(k) <=> waits[j] = k
  BY Kinds
<1>b. \A j \in Task : \A i \in Nat : <<"next", <<j, i>>>> \in References(k) <=>
                                    i \in 1..Len(next_list[j]) /\ next_list[j][i] = k
  BY Kinds
<1>c. \A d, i \in Nat : <<"held", <<d, i>>>> \in References(k) <=>
               d \in 1..Len(stack) /\ i \in 1..Len(stack[d].held) /\ stack[d].held[i] = k
  BY Kinds
<1>d. \A r \in References(k) :
               \/ r = <<"handle", k>>
               \/ \E j \in Task : r = <<"captured", j>> \/ r = <<"waits", j>>
               \/ \E j \in Task : \E i \in 1..Len(next_list[j]) : r = <<"next", <<j, i>>>>
               \/ \E d \in 1..Len(stack) : \E i \in 1..Len(stack[d].held) : r = <<"held", <<d, i>>>>
  BY Kinds
<1>1. /\ stack \in Seq(Call) /\ Len(stack) \in Nat
      /\ \A j \in Task : Len(next_list[j]) \in Nat
      /\ \A d \in 1..Len(stack) : Len(stack[d].held) \in Nat
  <2>1. \A m \in Call : Len(m.held) \in Nat
    BY DEF Call
  <2>. QED BY <2>1 DEF TypeOK
<1>2. /\ 1 \in 1..Len(stack) /\ Top = stack[1] /\ Rest \in Seq(Call)
      /\ Len(stack) = Len(Rest) + 1 /\ Len(Rest) \in Nat /\ \A d \in 1..Len(Rest) : Rest[d] = stack[d + 1]
  BY <1>1 DEF Top, Rest
<1>. DEFINE list == Top.held
            tail == Tail(list)
<1>3. /\ list \in Seq(Task) /\ 1 \in 1..Len(list) /\ list[1] = k /\ Len(list) = Len(tail) + 1
      /\ Len(tail) \in Nat /\ \A i \in 1..Len(tail) : tail[i] = list[i + 1]
  <2>1. \A m \in Call : m.held \in Seq(Task)
    BY DEF Call
  <2>2. list \in Seq(Task)
    BY <2>1, <1>1, <1>2
  <2>. HIDE DEF list
  <2>3. list # <<>> /\ k = Head(list)
    BY DEF list
  <2>. QED BY <2>2, <2>3
<1>4. \A d \in 1..Len(stack) : d # 1 => d - 1 \in 1..Len(Rest) /\ (d - 1) + 1 = d
  BY <1>2, <1>1
<1>5. <<"held", <<1, 1>>>> \in References(k)
  BY <1>1, <1>2, <1>3, <1>c
<1>6. Cardinality(References(k)) = 1 <=> \A q \in References(k) : q = <<"held", <<1, 1>>>>
  BY <1>5, LastPointer
<1>7. ASSUME \A q \in References(k) : q = <<"held", <<1, 1>>>>
      PROVE  /\ k \notin handle
             /\ \A j \in Task : k \notin captured[j] /\ waits[j] # k /\ k \notin Elements(next_list[j])
             /\ k \notin Elements(Tail(Top.held)) /\ \A m \in Below : k \notin Elements(m.held)
  <2>1. k \notin handle /\ \A j \in Task : k \notin captured[j] /\ waits[j] # k
    BY <1>7, <1>a
  <2>2. ASSUME NEW j \in Task, k \in Elements(next_list[j]) PROVE FALSE
    <3>1. PICK i \in 1..Len(next_list[j]) : next_list[j][i] = k
      BY <2>2 DEF Elements
    <3>2. <<"next", <<j, i>>>> \in References(k)
      BY <3>1, <1>1, <1>b
    <3>. QED BY <3>2, <1>7
  <2>3. ASSUME k \in Elements(Tail(Top.held)) PROVE FALSE
    <3>1. PICK i \in 1..Len(tail) : tail[i] = k
      BY <2>3 DEF Elements
    <3>2. i + 1 \in Nat /\ i + 1 \in 1..Len(list) /\ list[i + 1] = k /\ i + 1 # 1
      BY <3>1, <1>3
    <3>3. <<"held", <<1, i + 1>>>> \in References(k)
      BY <3>2, <1>c, <1>2
    <3>. QED BY <3>2, <3>3, <1>7
  <2>4. ASSUME NEW m \in Below, k \in Elements(m.held) PROVE FALSE
    <3>1. PICK d \in 1..Len(Rest) : m = Rest[d]
      BY DEF Below, CallsOf
    <3>2. PICK i \in 1..Len(m.held) : m.held[i] = k
      BY <2>4 DEF Elements
    <3>3. d + 1 \in Nat /\ d + 1 \in 1..Len(stack) /\ stack[d + 1] = m /\ d + 1 # 1
      BY <3>1, <1>2
    <3>4. i \in Nat
      BY <3>2, <3>3, <1>1
    <3>5. <<"held", <<d + 1, i>>>> \in References(k)
      BY <3>2, <3>3, <3>4, <1>c
    <3>. QED BY <3>3, <3>5, <1>7
  <2>. QED BY <2>1, <2>2, <2>3, <2>4
<1>8. ASSUME k \notin handle, k \notin Elements(Tail(Top.held)), \A m \in Below : k \notin Elements(m.held),
             \A j \in Task : k \notin captured[j] /\ waits[j] # k /\ k \notin Elements(next_list[j]),
             NEW q \in References(k)
      PROVE  q = <<"held", <<1, 1>>>>
  <2>1. ASSUME NEW j \in Task, NEW i \in 1..Len(next_list[j]), q = <<"next", <<j, i>>>> PROVE FALSE
    <3>1. next_list[j][i] = k
      BY <2>1, <1>8, <1>1, <1>b
    <3>. QED BY <3>1, <1>8 DEF Elements
  <2>2. ASSUME NEW d \in 1..Len(stack), NEW i \in 1..Len(stack[d].held), q = <<"held", <<d, i>>>>
        PROVE  d = 1 /\ i = 1
    <3>1. stack[d].held[i] = k /\ i \in Nat
      BY <2>2, <1>8, <1>1, <1>c
    <3>2. CASE d = 1
      <4>1. SUFFICES ASSUME i # 1 PROVE FALSE
        BY <3>2
      <4>2. i - 1 \in 1..Len(tail) /\ (i - 1) + 1 = i
        BY <4>1, <3>1, <3>2, <1>2, <1>3
      <4>3. tail[i - 1] = k
        BY <4>2, <3>1, <3>2, <1>2, <1>3
      <4>. QED BY <4>2, <4>3, <1>8 DEF Elements
    <3>3. CASE d # 1
      <4>1. d - 1 \in 1..Len(Rest) /\ Rest[d - 1] = stack[d]
        BY <3>3, <1>2, <1>4
      <4>2. stack[d] \in Below
        BY <4>1 DEF Below, CallsOf
      <4>. QED BY <4>2, <3>1, <1>8 DEF Elements
    <3>. QED BY <3>2, <3>3
  <2>. QED BY <2>1, <2>2, <1>8, <1>a, <1>d
<1>. QED BY <1>6, <1>7, <1>8

-----------------------------------------------------------------------------
(* The stack before and after a step. *)

LEMMA StackNow ==
  ASSUME IInv
  PROVE  /\ stack \in Seq(Call) /\ Rest \in Seq(Call)
         /\ Calls \subseteq Call /\ Below \subseteq Calls
         /\ stack = <<>> => Rest = <<>> /\ Calls = {} /\ Below = {}
         /\ stack # <<>> => /\ stack = <<Top>> \o Rest /\ Rest = Tail(stack)
                            /\ Top \in Call /\ Top \in Calls
                            /\ Calls = {Top} \cup Below
                            /\ Supported(handle, captured, Top, Below)
         /\ Stacked(handle, captured, Rest) /\ Stacked(handle, captured, stack)
         /\ Joined(Rest) /\ Joined(stack)
<1>1. stack \in Seq(Call) /\ Stacked(handle, captured, stack) /\ Joined(stack)
  BY DEF IInv, TypeOK, StackOK
<1>2. CASE stack = <<>>
  BY <1>1, <1>2, NoCalls DEF Rest, Below, Calls
<1>3. CASE stack # <<>>
  <2>1. Rest = Tail(stack) /\ Top = Head(stack)
    BY <1>3 DEF Rest, Top
  <2>2. /\ Rest \in Seq(Call) /\ Top \in Call /\ stack = <<Top>> \o Rest
        /\ CallsOf(stack) = {Top} \cup CallsOf(Rest)
    BY <2>1, <1>1, <1>3, TakeApart
  <2>3. Stacked(handle, captured, Rest) /\ Supported(handle, captured, Top, CallsOf(Rest))
    BY <2>2, <1>1, StackedPut
  <2>4. Joined(Rest)
    BY <2>2, <1>1, JoinedPut
  <2>5. CallsOf(stack) \subseteq Call
    BY <1>1, CallsIn
  <2>. QED BY <2>1, <2>2, <2>3, <2>4, <2>5, <1>1, <1>3 DEF Calls, Below
<1>. QED BY <1>2, <1>3

\* A call above which another one runs: that is an action, or not one that resumes.
LEMMA SupportedNow ==
  ASSUME IInv, NEW m \in Calls
  PROVE  \E i \in 1..Len(stack) : /\ m = stack[i] /\ Deeper(stack, i) \subseteq Calls
                                  /\ Supported(handle, captured, m, Deeper(stack, i))
                                  /\ m \in Below \/ m = Top
<1>1. PICK i \in 1..Len(stack) : m = stack[i]
  BY DEF Calls, CallsOf
<1>2. Supported(handle, captured, m, Deeper(stack, i))
  BY <1>1, StackNow DEF Stacked
<1>3. Deeper(stack, i) \subseteq Calls
  BY StackNow, CallsIn DEF Calls
<1>4. stack # <<>>
  BY <1>1
<1>5. m \in Below \/ m = Top
  BY <1>4, StackNow
<1>. QED BY <1>1, <1>2, <1>3, <1>5

LEMMA TaskOf ==
  ASSUME IInv, NEW m \in Calls
  PROVE  /\ m \in Call /\ m.pc \in Label /\ (m.pc # "body" <=> m.task # Null)
         /\ m.pc # "body" => m.task \in Task
         /\ CallOK(m) /\ m.who \subseteq Awaiter /\ m.held \in Seq(Task) /\ m.todo \in Seq(Task)
<1>1. m \in Call /\ CallOK(m)
  BY StackNow DEF IInv, CallsOK
<1>. QED BY <1>1 DEF Call, CallOK

\* Whoever has resumed a coroutine waits for its action, which runs.
LEMMA DriverBelow ==
  ASSUME IInv, NEW m \in Below, m.pc \in {"started", "notify"}
  PROVE  co[m.task] = "RUNNING"
<1>1. stack # <<>> /\ m \in Calls
  BY StackNow
<1>2. PICK i \in 1..Len(Rest) : m = Rest[i]
  BY DEF Below, CallsOf
<1>3. i + 1 \in 1..Len(stack) /\ stack[i + 1] = m /\ i + 1 > 1 /\ (i + 1) - 1 = i /\ i \in 1..Len(stack)
  <2>1. Len(stack) = Len(Rest) + 1 /\ Rest[i] = stack[i + 1]
    BY <1>1, <1>2, StackNow, Put
  <2>. QED BY <2>1, <1>2
<1>4. stack[i].pc = "action" /\ stack[i].task = m.task
  <2>. DEFINE j == i + 1
  <2>1. j \in 1..Len(stack) /\ j > 1 /\ stack[j] = m /\ j - 1 = i
    BY <1>3
  <2>. HIDE DEF j
  <2>2. stack[j - 1].pc = "action" /\ stack[j - 1].task = stack[j].task
    BY <2>1, StackNow DEF Joined
  <2>. QED BY <2>1, <2>2
<1>5. stack[i] \in Calls
  BY <1>3 DEF Calls, CallsOf
<1>6. m.task \in Task
  BY <1>1, TaskOf
<1>. QED BY <1>4, <1>5, <1>6 DEF IInv, StatusInv, StatusAt

LEMMA ActionNow ==
  ASSUME IInv, NEW m \in Calls, m.pc = "action"
  PROVE  /\ m.task \in Task /\ co[m.task] = "RUNNING"
         /\ status[m.task] \notin {CREATED, WAITING}
         /\ \E e \in Below : Drives(e, m.task)
<1>1. PICK i \in 1..Len(stack) : m = stack[i]
  BY DEF Calls, CallsOf
<1>2. i < Len(stack) /\ Drives(stack[i + 1], m.task)
  BY <1>1, StackNow DEF Joined
<1>3. stack # <<>> /\ Len(stack) = Len(Rest) + 1 /\ i \in 1..Len(Rest) /\ Rest[i] = stack[i + 1]
  <2>1. stack # <<>>
    BY <1>1
  <2>2. Len(stack) = Len(Rest) + 1 /\ \A j \in 1..Len(Rest) : stack[j + 1] = Rest[j]
    BY <2>1, StackNow, Put
  <2>. QED BY <2>1, <2>2, <1>1, <1>2
<1>4. stack[i + 1] \in Below
  BY <1>3 DEF Below, CallsOf
<1>5. stack[i + 1] \in Calls
  BY <1>4, StackNow
<1>6. m.task \in Task
  BY TaskOf
<1>. QED BY <1>2, <1>4, <1>5, <1>6 DEF IInv, StatusInv, StatusAt

\* The action that runs has the one call right below it that resumed it.
LEMMA TopAction ==
  ASSUME IInv, At("action")
  PROVE  /\ Rest # <<>> /\ Head(Rest) \in Below /\ Drives(Head(Rest), Top.task)
         /\ \A e \in Below : Drives(e, Top.task) => e = Head(Rest)
         /\ \A e \in Below : ~(e.pc = "action" /\ e.task = Top.task)
<1>1. stack # <<>> /\ Top.pc = "action" /\ stack = <<Top>> \o Rest /\ Rest \in Seq(Call) /\ Top \in Call
      /\ Top \in Calls
  BY StackNow DEF At
<1>2. Rest # <<>> /\ Drives(Head(Rest), Top.task)
  <2>1. Joined(<<Top>> \o Rest)
    BY <1>1, StackNow
  <2>. QED BY <2>1, <1>1, JoinedPut
<1>3. Rest = <<Head(Rest)>> \o Tail(Rest) /\ Tail(Rest) \in Seq(Call) /\ Head(Rest) \in Call
      /\ Below = {Head(Rest)} \cup CallsOf(Tail(Rest))
  BY <1>1, <1>2, TakeApart DEF Below
<1>4. Supported(handle, captured, Head(Rest), CallsOf(Tail(Rest)))
  BY <1>3, StackNow, StackedPut
<1>5. \A e \in CallsOf(Tail(Rest)) : ~Drives(e, Top.task)
  BY <1>2, <1>4 DEF Supported, Drives
<1>6. ASSUME NEW e \in Below, e.pc = "action", e.task = Top.task PROVE FALSE
  <2>1. e \in CallsOf(Tail(Rest))
    BY <1>2, <1>3, <1>6 DEF Drives
  <2>2. PICK i \in 1..Len(Tail(Rest)) : e = Tail(Rest)[i]
    BY <2>1 DEF CallsOf
  <2>3. Joined(Tail(Rest))
    <3>1. Joined(<<Head(Rest)>> \o Tail(Rest))
      BY <1>3, StackNow
    <3>. QED BY <3>1, <1>3, JoinedPut
  <2>4. i < Len(Tail(Rest)) /\ Drives(Tail(Rest)[i + 1], Top.task)
    BY <2>2, <2>3, <1>6 DEF Joined
  <2>5. i + 1 \in 1..Len(Tail(Rest))
    BY <2>4, <2>2, <1>3
  <2>. QED BY <2>4, <2>5, <1>5 DEF CallsOf
<1>. QED BY <1>2, <1>3, <1>5, <1>6

\* A task that a pointer leads to is there, and is not being destroyed.
LEMMA ReferencedNow ==
  ASSUME IInv, NEW k \in Task, Referenced(k)
  PROVE  object[k] = "alive" /\ mapped[k] /\ \A m \in Calls : ~Destroys(m, k)
<1>1. object[k] = "alive" /\ mapped[k]
  BY DEF IInv, ReferenceInv, ReferenceAt
<1>2. \A m \in Calls : ~Destroys(m, k)
  BY DEF IInv, CallsOK, CallOK, Destroys
<1>. QED BY <1>1, <1>2

LEMMA KeptMeans ==
  ASSUME IInv, NEW m \in Calls, NEW D, D \subseteq Calls, m.task \in Task, Kept(handle, captured, m, D)
  PROVE  Referenced(m.task) \/ \E e \in D : e.pc = "members" /\ e.task = m.task
<1>1. ASSUME NEW e \in D, e.pc = "action", m.task \in captured[e.task] PROVE Referenced(m.task)
  BY <1>1, TaskOf DEF Referenced
<1>. QED BY <1>1 DEF Kept, Referenced

\* A call on a task is in its stack, and the task is still there.
LEMMA InStack ==
  ASSUME IInv, NEW m \in Calls, m.pc # "body"
  PROVE  /\ m.task \in Task /\ mapped[m.task]
         /\ object[m.task] = IF m.pc = "recycle" THEN "dead" ELSE "alive"
         /\ m.pc \notin Releasing =>
              Referenced(m.task) \/ \E e \in Calls : e.pc = "members" /\ e.task = m.task
<1>1. m.task \in Task /\ m.task # Null /\ CallOK(m)
  BY TaskOf, LifetimeAssumption
<1>2. CASE m.pc \in Releasing
  BY <1>1, <1>2 DEF CallOK
<1>3. CASE m.pc \notin Releasing
  <2>1. PICK D : D \subseteq Calls /\ Supported(handle, captured, m, D)
    BY SupportedNow
  <2>2. Referenced(m.task) \/ \E e \in Calls : e.pc = "members" /\ e.task = m.task
    BY <2>1, <1>1, <1>3, KeptMeans DEF Supported
  <2>3. mapped[m.task] /\ object[m.task] = "alive"
    <3>1. CASE Referenced(m.task)
      BY <3>1, <1>1, ReferencedNow
    <3>2. ASSUME NEW e \in Calls, e.pc = "members", e.task = m.task
          PROVE  mapped[m.task] /\ object[m.task] = "alive"
      <4>1. CallOK(e)
        BY TaskOf
      <4>. QED BY <4>1, <3>2 DEF CallOK, Releasing
    <3>. QED BY <2>2, <3>1, <3>2
  <2>4. m.pc # "recycle"
    BY <1>3 DEF Releasing
  <2>. QED BY <2>2, <2>3, <2>4, <1>1
<1>. QED BY <1>2, <1>3

\* The task that is being destroyed has no other call below.
LEMMA AtRest ==
  ASSUME IInv, stack # <<>>, Top.pc \in Releasing
  PROVE  /\ \A e \in Below : e.task # Top.task
         /\ Top.task \in Task /\ ~Referenced(Top.task) /\ CallOK(Top)
<1>1. Top \in Calls /\ Supported(handle, captured, Top, Below)
  BY StackNow
<1>2. Top.pc # "body"
  BY DEF Releasing
<1>. QED BY <1>1, <1>2, TaskOf DEF Supported, CallOK

\* Client code only uses pointers that it has, and they are kept while it does.
LEMMA ReachableNow ==
  ASSUME IInv, Client, NEW k \in Task, k \in Reachable
  PROVE  /\ Referenced(k) /\ \A m : m.task = k => Kept(handle, captured, m, Calls)
<1>1. CASE k \in handle
  BY <1>1 DEF Referenced, Kept
<1>2. CASE k \notin handle
  <2>1. At("action") /\ k \in captured[Top.task]
    BY <1>2 DEF Reachable
  <2>2. Top \in Calls /\ Top.pc = "action" /\ Top.task \in Task
    BY <2>1, StackNow, TaskOf DEF At
  <2>. QED BY <2>1, <2>2 DEF Referenced, Kept
<1>. QED BY <1>1, <1>2

\* A task that may be started is in nobody's hands.
LEMMA StartableNow ==
  ASSUME IInv, NEW k \in Task, Startable(k)
  PROVE  /\ \A m \in Calls : ~Drives(m, k) /\ ~(m.pc = "action" /\ m.task = k)
         /\ ~Completed(k) /\ ~Exiting(k) /\ co[k] # "RUNNING"
<1>1. StatusAt(k) /\ status[k] \in {CREATED, WAITING}
  BY DEF IInv, StatusInv, Startable
<1>2. \A m \in Calls : ~Drives(m, k)
  BY <1>1 DEF StatusAt
<1>3. \A m \in Calls : ~(m.pc = "action" /\ m.task = k)
  BY <1>2, ActionNow, StackNow
<1>4. ~Exiting(k)
  BY <1>1 DEF Exiting, CREATED, WAITING, DONE
<1>5. ~Completed(k)
  BY <1>1, <1>2, <1>4 DEF StatusAt, Drives
<1>. QED BY <1>1, <1>2, <1>3, <1>4, <1>5 DEF StatusAt

-----------------------------------------------------------------------------
(* Types. *)

LEMMA CallRecords ==
  /\ \A m \in Call : /\ m.pc \in Label /\ m.task \in Task \cup {Null} /\ m.held \in Seq(Task)
                     /\ m.todo \in Seq(Task) /\ m.who \in SUBSET Awaiter /\ m.coro \in BOOLEAN
  /\ \A l \in Label, k \in Task \cup {Null} : NewCall(l, k) \in Call
  /\ \A m \in Call, l \in Label : [m EXCEPT !.pc = l] \in Call
  /\ \A m \in Call, l \in Label, b \in BOOLEAN : [m EXCEPT !.pc = l, !.coro = b] \in Call
  /\ \A m \in Call, l \in Label, w \in SUBSET Awaiter : [m EXCEPT !.pc = l, !.who = w] \in Call
  /\ \A m \in Call, w \in SUBSET Awaiter : [m EXCEPT !.who = w] \in Call
  /\ \A m \in Call, h \in Seq(Task) : [m EXCEPT !.held = h] \in Call
  /\ \A m \in Call, t \in Seq(Task), h \in Seq(Task) : [m EXCEPT !.todo = t, !.held = h] \in Call
  /\ \A a \in Awaiter : Body(a) \in Call
<1>1. <<>> \in Seq(Task)
  OBVIOUS
<1>. QED BY <1>1 DEF Call, NewCall, Body, Label

LEMMA TopCall ==
  ASSUME stack \in Seq(Call), stack # <<>>
  PROVE  Top \in Call /\ Tail(stack) \in Seq(Call)
BY DEF Top

LEMMA PutTwo ==
  ASSUME NEW S \in Seq(Call), NEW k \in Call
  PROVE  <<k>> \o S \in Seq(Call)
BY Put

LEMMA DroppedType ==
  ASSUME NEW S \in Seq(Call), NEW k \in Task
  PROVE  Dropped(k, S) \in Seq(Call)
<1>1. NewCall("release", k) \in Call
  BY CallRecords DEF Label
<1>. QED BY <1>1, PutTwo DEF Dropped

LEMMA TypesKept ==
  ASSUME IInv, [Next]_vars
  PROVE  TypeOK'
<1>t. TypeOK
  BY DEF IInv
<1>. USE <1>t DEF TypeOK
<1>0. /\ stack # <<>> => Top \in Call /\ Tail(stack) \in Seq(Call) /\ \A l \in Label : Goto(l) \in Seq(Call)
      /\ \A k \in Call, S \in Seq(Call) : <<k>> \o S \in Seq(Call)
      /\ \A k \in Task, S \in Seq(Call) : Dropped(k, S) \in Seq(Call)
      /\ \A l \in Label, k \in Task \cup {Null} : NewCall(l, k) \in Call
  <2>1. \A k \in Call, S \in Seq(Call) : <<k>> \o S \in Seq(Call)
    BY PutTwo
  <2>2. stack # <<>> => Top \in Call /\ Tail(stack) \in Seq(Call)
    BY TopCall
  <2>3. \A l \in Label, k \in Task \cup {Null} : NewCall(l, k) \in Call
    BY CallRecords
  <2>. QED BY <2>1, <2>2, <2>3, CallRecords, DroppedType DEF Goto
<1>a. {"action", "body", "started", "notify", "activate", "wake", "unhold",
       "release", "captures", "destroy_task", "members", "base", "recycle"} = Label
  BY DEF Label
<1>b. /\ CREATED \in CREATED..TIMEOUT /\ RUNNING \in CREATED..TIMEOUT /\ WAITING \in CREATED..TIMEOUT
      /\ DONE \in CREATED..TIMEOUT /\ KILLED \in CREATED..TIMEOUT /\ TIMEOUT \in CREATED..TIMEOUT
  BY DEF CREATED, RUNNING, WAITING, DONE, KILLED, TIMEOUT
<1>c. \A k \in Task, S \in Seq(Call) : Run(k, S) =>
        co' \in [Task -> {"FRESH", "READY", "RUNNING", "FINISHED"}] /\ stack' \in Seq(Call)
  <2>1. SUFFICES ASSUME NEW k \in Task, NEW S \in Seq(Call), Run(k, S)
                 PROVE  co' \in [Task -> {"FRESH", "READY", "RUNNING", "FINISHED"}] /\ stack' \in Seq(Call)
    OBVIOUS
  <2>2. stack' = <<NewCall("action", k)>> \o S
    BY <2>1 DEF Run, Entered
  <2>3. NewCall("action", k) \in Call
    BY CallRecords DEF Label
  <2>4. stack' \in Seq(Call)
    BY <2>2, <2>3, PutTwo
  <2>5. co' = [co EXCEPT ![k] = "RUNNING"]
    BY <2>1 DEF Run
  <2>. QED BY <2>4, <2>5
<1>d. \A k \in Task, S \in Seq(Call) : TakeNext(k, S) =>
        next_list' \in [Task -> Seq(Task)] /\ stack' \in Seq(Call)
  <2>1. SUFFICES ASSUME NEW k \in Task, NEW S \in Seq(Call), TakeNext(k, S)
                 PROVE  next_list' \in [Task -> Seq(Task)] /\ stack' \in Seq(Call)
    OBVIOUS
  <2>2. Activation(k) \in Call
    <3>1. NewCall("activate", k) \in Call
      BY CallRecords DEF Label
    <3>2. next_list[k] \in Seq(Task)
      OBVIOUS
    <3>. QED BY <3>1, <3>2 DEF Activation, Call
  <2>3. <<>> \in Seq(Task)
    OBVIOUS
  <2>. QED BY <2>1, <2>2, <2>3, <1>0 DEF TakeNext
<1>e. \A k \in Task : <<NewCall("started", k)>> \o stack \in Seq(Call)
        /\ <<NewCall("notify", k)>> \o stack \in Seq(Call)
  BY <1>0, <1>a
<1>1. ASSUME NEW k \in Task, NEW S \in SUBSET Task, Create(k, S) PROVE TypeOK'
  BY <1>1 DEF Create, CreateStack
<1>2. ASSUME NEW k \in Task, DropHandle(k) PROVE TypeOK'
  BY <1>2, <1>0 DEF DropHandle
<1>3. ASSUME NEW k \in Task, Start(k) PROVE TypeOK'
  <2>1. co' \in [Task -> {"FRESH", "READY", "RUNNING", "FINISHED"}] /\ stack' \in Seq(Call)
    BY <1>3, <1>c, <1>e DEF Start
  <2>. QED BY <1>3, <2>1, <1>b DEF Start
<1>4. ASSUME Settle PROVE TypeOK'
  <2>1. stack' \in Seq(Call)
    BY <1>4, <1>0, <1>a DEF Settle, At
  <2>2. status' \in [Task -> CREATED..TIMEOUT]
    BY <1>4, <1>b DEF Settle
  <2>. QED BY <1>4, <2>1, <2>2 DEF Settle
<1>5. ASSUME NEW k \in Task, Kill(k) PROVE TypeOK'
  <2>1. stack' \in Seq(Call)
    BY <1>5, <1>e DEF Kill
  <2>2. calls' \in 0..MaxCall
    BY <1>5, LifetimeAssumption DEF Kill
  <2>3. status' \in [Task -> CREATED..TIMEOUT]
    BY <1>5, <1>b DEF Kill
  <2>. QED BY <1>5, <2>1, <2>2, <2>3 DEF Kill
<1>6. ASSUME NotifyResume PROVE TypeOK'
  <2>1. Top.task \in Task \cup {Null} /\ stack # <<>>
    BY <1>6, <1>0, CallRecords DEF NotifyResume, At
  <2>2. stack' = <<NewCall("action", Top.task)>> \o stack /\ co' = [co EXCEPT ![Top.task] = "RUNNING"]
    BY <1>6 DEF NotifyResume, Run, Entered
  <2>. QED BY <1>6, <2>1, <2>2, <1>0, <1>a DEF NotifyResume
<1>7. ASSUME NotifyNext, Top.task \in Task PROVE TypeOK'
  BY <1>7, <1>0, <1>d DEF NotifyNext, At
<1>8. ASSUME Activate PROVE TypeOK'
  <2>. DEFINE n == Head(Top.todo)
              rest == <<[Top EXCEPT !.todo = Tail(@), !.held = StillHeld(Top)]>> \o Tail(stack)
  <2>1. stack # <<>> /\ Top \in Call /\ Top.todo # <<>> /\ Top.todo \in Seq(Task) /\ Top.held \in Seq(Task)
    BY <1>8, <1>0, CallRecords DEF Activate, At
  <2>2. n \in Task /\ Tail(Top.todo) \in Seq(Task)
    BY <2>1
  <2>3. rest \in Seq(Call)
    <3>1. [Top EXCEPT !.todo = Tail(@), !.held = StillHeld(Top)] \in Call
      BY <2>1, <2>2 DEF StillHeld, Call
    <3>. QED BY <3>1, <2>1, <1>0
  <2>4. CASE Activated(n)
    <3>1. status' = [status EXCEPT ![n] = RUNNING] /\ Run(n, <<NewCall("started", n)>> \o rest)
      BY <1>8, <2>4 DEF Activate
    <3>2. <<NewCall("started", n)>> \o rest \in Seq(Call)
      BY <2>2, <2>3, <1>0, <1>a
    <3>. HIDE DEF n, rest
    <3>3. co' \in [Task -> {"FRESH", "READY", "RUNNING", "FINISHED"}] /\ stack' \in Seq(Call)
      BY <3>1, <3>2, <2>2, <1>c
    <3>. QED BY <1>8, <3>1, <3>3, <1>b DEF Activate
  <2>5. CASE ~Activated(n)
    <3>1. stack' = rest /\ UNCHANGED <<status, co>>
      BY <1>8, <2>5 DEF Activate
    <3>. QED BY <1>8, <3>1, <2>3 DEF Activate
  <2>. QED BY <2>4, <2>5
<1>9. ASSUME TakeCallers, Top.task \in Task PROVE TypeOK'
  <2>1. stack # <<>> /\ [Top EXCEPT !.pc = "wake", !.who = callers[Top.task]] \in Call
    BY <1>9, <1>0, <1>a, CallRecords DEF TakeCallers, At
  <2>. QED BY <1>9, <2>1, <1>0 DEF TakeCallers
<1>10. ASSUME NEW a \in Awaiter, Wake(a) PROVE TypeOK'
  <2>1. stack # <<>> /\ [Top EXCEPT !.who = @ \ {a}] \in Call /\ Body(a) \in Call
    BY <1>10, <1>0, CallRecords DEF Wake, At
  <2>2. <<[Top EXCEPT !.who = @ \ {a}]>> \o Tail(stack) \in Seq(Call)
    BY <2>1, <1>0
  <2>3. <<Body(a)>> \o (<<[Top EXCEPT !.who = @ \ {a}]>> \o Tail(stack)) \in Seq(Call)
    BY <2>1, <2>2, <1>0
  <2>4. stack' \in Seq(Call) /\ awaiting' \in [Awaiter -> Task \cup {Null}]
    BY <1>10, <2>2, <2>3 DEF Wake
  <2>. QED BY <1>10, <2>4 DEF Wake
<1>11. ASSUME Unhold PROVE TypeOK'
  <2>1. stack # <<>> /\ Top \in Call /\ Top.held \in Seq(Task)
    BY <1>11, <1>0, CallRecords DEF Unhold, At
  <2>2. CASE Top.held = <<>>
    BY <1>11, <2>1, <2>2, <1>0 DEF Unhold
  <2>3. CASE Top.held # <<>>
    <3>1. Tail(Top.held) \in Seq(Task) /\ Head(Top.held) \in Task
      BY <2>1, <2>3
    <3>2. [Top EXCEPT !.held = Tail(Top.held)] \in Call
      BY <2>1, <3>1, CallRecords
    <3>3. stack' = Dropped(Head(Top.held), <<[Top EXCEPT !.held = Tail(Top.held)]>> \o Tail(stack))
      BY <1>11, <2>3 DEF Unhold
    <3>4. <<[Top EXCEPT !.held = Tail(Top.held)]>> \o Tail(stack) \in Seq(Call)
      BY <2>1, <3>2, <1>0
    <3>5. stack' \in Seq(Call)
      BY <3>1, <3>3, <3>4, DroppedType
    <3>. QED BY <1>11, <3>5 DEF Unhold
  <2>. QED BY <2>2, <2>3
<1>12. ASSUME NEW k \in Task, NEW n \in Task, Next_(k, n) PROVE TypeOK'
  <2>1. calls' \in 0..MaxCall
    BY <1>12, LifetimeAssumption DEF Next_
  <2>2. CASE next_list' = [next_list EXCEPT ![k] = Append(@, n)] /\ UNCHANGED <<status, co, stack>>
    BY <1>12, <2>1, <2>2 DEF Next_
  <2>3. CASE status' = [status EXCEPT ![n] = RUNNING] /\ UNCHANGED next_list
             /\ Run(n, <<NewCall("started", n)>> \o stack)
    <3>1. co' \in [Task -> {"FRESH", "READY", "RUNNING", "FINISHED"}] /\ stack' \in Seq(Call)
      BY <2>3, <1>c, <1>e
    <3>. QED BY <1>12, <2>1, <2>3, <3>1, <1>b DEF Next_
  <2>. QED BY <1>12, <2>2, <2>3 DEF Next_
<1>13. ASSUME NEW k \in Task, NEW j \in Task, Await(k, j) PROVE TypeOK'
  BY <1>13, <1>0, LifetimeAssumption DEF Await, InAction, At
<1>14. ASSUME NEW k \in Task, AwaitLoop(k) PROVE TypeOK'
  <2>0. stack # <<>> /\ waits[k] \in Task
    BY <1>14 DEF AwaitLoop, At
  <2>a. stack' = Dropped(waits[k], stack) \/ stack' = Tail(stack)
    BY <1>14 DEF AwaitLoop
  <2>1. stack' \in Seq(Call)
    BY <2>a, <2>0, <1>0
  <2>2. co' \in [Task -> {"FRESH", "READY", "RUNNING", "FINISHED"}] /\ waits' \in [Task -> Task \cup {Null}]
    BY <1>14 DEF AwaitLoop
  <2>. QED BY <1>14, <2>1, <2>2 DEF AwaitLoop
<1>15. ASSUME NEW a \in Awaiter, CallAwaiter(a) PROVE TypeOK'
  <2>1. Body(a) \in Call
    BY CallRecords
  <2>2. stack' \in Seq(Call)
    BY <1>15, <2>1, <1>0 DEF CallAwaiter
  <2>3. calls' \in 0..MaxCall
    BY <1>15, LifetimeAssumption DEF CallAwaiter
  <2>. QED BY <1>15, <2>2, <2>3 DEF CallAwaiter
<1>16. ASSUME NEW k \in Task, CoAwait(k) PROVE TypeOK'
  <2>1. stack # <<>> /\ Top.who \in SUBSET Awaiter
    BY <1>16, <1>0, CallRecords DEF CoAwait, At
  <2>. QED BY <1>16, <2>1, <1>0 DEF CoAwait
<1>17. ASSUME EndBody PROVE TypeOK'
  BY <1>17, <1>0 DEF EndBody, At
<1>18. ASSUME NEW a \in Awaiter, KillAwaiter(a) PROVE TypeOK'
  BY <1>18 DEF KillAwaiter
<1>19. ASSUME NEW k \in Task, Yield(k) PROVE TypeOK'
  BY <1>19, <1>0, LifetimeAssumption DEF Yield, InAction, At
<1>20. ASSUME NEW k \in Task, Finish(k) PROVE TypeOK'
  BY <1>20, <1>0 DEF Finish, InAction, At
<1>21. ASSUME DestroyAction PROVE TypeOK'
  <2>1. stack # <<>> /\ [Top EXCEPT !.pc = "captures", !.coro = Saved] \in Call
    BY <1>21, <1>0, <1>a, CallRecords DEF DestroyAction, At, Saved
  <2>. QED BY <1>21, <2>1, <1>0 DEF DestroyAction
<1>22. ASSUME DropCaptures, Top.task \in Task PROVE TypeOK'
  <2>1. stack # <<>>
    BY <1>22 DEF DropCaptures, At
  <2>2. CASE captured[Top.task] = {}
    BY <1>22, <2>1, <2>2, <1>0, <1>a DEF DropCaptures
  <2>3. CASE captured[Top.task] # {}
    <3>1. PICK j \in captured[Top.task] :
             captured' = [captured EXCEPT ![Top.task] = @ \ {j}] /\ stack' = Dropped(j, stack)
      BY <1>22, <2>3 DEF DropCaptures
    <3>2. j \in Task
      BY <1>22
    <3>3. stack' \in Seq(Call) /\ captured' \in [Task -> SUBSET Task]
      BY <3>1, <3>2, <1>0
    <3>. QED BY <1>22, <3>3 DEF DropCaptures
  <2>. QED BY <2>2, <2>3
<1>23. ASSUME DestroyTask, Top.task \in Task PROVE TypeOK'
  <2>. DEFINE rest == Goto("members")
  <2>1. stack # <<>> /\ rest \in Seq(Call) /\ <<NewCall("notify", Top.task)>> \o rest \in Seq(Call)
    BY <1>23, <1>0, <1>a DEF DestroyTask, At
  <2>2. stack' \in Seq(Call) /\ status' \in [Task -> CREATED..TIMEOUT] /\ next_list' \in [Task -> Seq(Task)]
    <3>. HIDE DEF rest
    <3>1. CASE KilledByDestructor(Top.task)
      <4>1. /\ stack' = IF status[Top.task] = RUNNING THEN rest ELSE <<NewCall("notify", Top.task)>> \o rest
            /\ status' = [status EXCEPT ![Top.task] = TIMEOUT] /\ UNCHANGED next_list
        <5>1. ~ActivatedByDestructor(Top.task)
          BY <3>1 DEF KilledByDestructor, ActivatedByDestructor, CREATED, RUNNING, WAITING
        <5>. QED BY <1>23, <3>1, <5>1 DEF DestroyTask, rest
      <4>2. stack' \in Seq(Call)
        BY <4>1, <2>1
      <4>. QED BY <4>1, <4>2, <1>b
    <3>2. CASE ~KilledByDestructor(Top.task) /\ ActivatedByDestructor(Top.task)
      BY <1>23, <3>2, <2>1, <1>d DEF DestroyTask, rest, KilledByDestructor, ActivatedByDestructor
    <3>3. CASE ~KilledByDestructor(Top.task) /\ ~ActivatedByDestructor(Top.task)
      BY <1>23, <3>3, <2>1 DEF DestroyTask, rest
    <3>. QED BY <3>1, <3>2, <3>3
  <2>. QED BY <1>23, <2>2 DEF DestroyTask
<1>24. ASSUME DestroyMembers, Top.task \in Task PROVE TypeOK'
  <2>1. stack # <<>> /\ Top.coro \in BOOLEAN
    BY <1>24, <1>0, CallRecords DEF DestroyMembers, At
  <2>2. CASE next_list[Top.task] = <<>>
    BY <1>24, <2>1, <2>2, <1>0, <1>a DEF DestroyMembers
  <2>3. CASE next_list[Top.task] # <<>>
    <3>1. Head(next_list[Top.task]) \in Task /\ Tail(next_list[Top.task]) \in Seq(Task)
      BY <1>24, <2>3
    <3>2. /\ next_list' = [next_list EXCEPT ![Top.task] = Tail(@)] /\ UNCHANGED mapped
          /\ stack' = Dropped(Head(next_list[Top.task]), stack)
      BY <1>24, <2>3 DEF DestroyMembers
    <3>3. stack' \in Seq(Call) /\ next_list' \in [Task -> Seq(Task)]
      BY <3>1, <3>2, <1>0
    <3>. QED BY <1>24, <3>2, <3>3 DEF DestroyMembers
  <2>. QED BY <2>2, <2>3
<1>25. ASSUME DestroyBase PROVE TypeOK'
  BY <1>25, <1>0, <1>a DEF DestroyBase, At
<1>26. ASSUME Recycle PROVE TypeOK'
  BY <1>26, <1>0 DEF Recycle, At
<1>27. ASSUME UNCHANGED vars PROVE TypeOK'
  BY <1>27 DEF vars
<1>. QED
  <2>1. (At("notify") \/ At("activate") \/ At("destroy_task") \/ At("members") \/ At("captures"))
          => Top.task \in Task
    <3>1. stack # <<>> /\ Top.pc # "body" => Top.task \in Task
      BY StackNow, TaskOf
    <3>. QED BY <3>1 DEF At
  <2>. QED BY <2>1, <1>1, <1>2, <1>3, <1>4, <1>5, <1>6, <1>7, <1>8, <1>9, <1>10, <1>11, <1>12, <1>13,
       <1>14, <1>15, <1>16, <1>17, <1>18, <1>19, <1>20, <1>21, <1>22, <1>23, <1>24, <1>25, <1>26, <1>27
       DEF Next, Proceed, ClientStep, Stopped, NotifyNext, TakeCallers, DestroyTask, DestroyMembers, DropCaptures

-----------------------------------------------------------------------------
(* What a step leaves as it was. *)

\* No call on k begins, ends or goes on.
Untouched(k) == \A m : m.task = k => (m \in Calls' <=> m \in Calls)

LEMMA Pushed ==
  ASSUME NEW S \in Seq(Call), NEW k \in Call, stack' = <<k>> \o S
  PROVE  /\ stack' \in Seq(Call) /\ Calls' = {k} \cup CallsOf(S)
         /\ Stacked(handle', captured', stack') <=>
              Stacked(handle', captured', S) /\ Supported(handle', captured', k, CallsOf(S))
         /\ Joined(stack') <=>
              /\ Joined(S)
              /\ k.pc = "action" => S # <<>> /\ Drives(Head(S), k.task)
              /\ S # <<>> /\ Head(S).pc \in {"started", "notify"} =>
                   k.pc = "action" /\ k.task = Head(S).task
BY Put, StackedPut, JoinedPut DEF Calls

LEMMA StatusKept ==
  ASSUME NEW k \in Task, StatusAt(k), Untouched(k), status'[k] = status[k], co'[k] = co[k],
         Exiting(k) /\ next_list'[k] # <<>> => next_list[k] # <<>>,
         Exiting(k) /\ callers'[k] # {} => callers[k] # {}
  PROVE  StatusAt(k)'
<1>1. /\ (\E m \in Calls : m.pc = "started" /\ m.task = k) => \E m \in Calls' : m.pc = "started" /\ m.task = k
      /\ (\E m \in Calls : m.pc = "action" /\ m.task = k) <=> \E m \in Calls' : m.pc = "action" /\ m.task = k
      /\ (\E m \in Calls : Drives(m, k)) <=> \E m \in Calls' : Drives(m, k)
      /\ (\E m \in Calls : m.pc \in {"started", "notify", "activate"} /\ m.task = k) =>
           \E m \in Calls' : m.pc \in {"started", "notify", "activate"} /\ m.task = k
  BY DEF Untouched, Drives
<1>2. Exiting(k)' <=> Exiting(k)
  BY DEF Exiting
<1>3. Completed(k)' <=> Completed(k)
  BY DEF Completed
<1>. QED BY <1>1, <1>2, <1>3 DEF StatusAt

LEMMA WaitKept ==
  ASSUME NEW k \in Task, WaitAt(k), waits[k] \in Task \cup {Null}, waits'[k] = waits[k],
         co[k] \in {"READY", "RUNNING"} => co'[k] \in {"READY", "RUNNING"},
         co[k] = "RUNNING" => co'[k] = "RUNNING",
         \A j \in Task : k \in Elements(next_list[j]) => k \in Elements(next_list'[j]),
         \A j \in Task : Completed(j) => Completed(j)',
         (\E m \in Calls : m.pc = "activate" /\ k \in Elements(m.todo)) =>
           co'[k] = "RUNNING" \/ \E m \in Calls' : m.pc = "activate" /\ k \in Elements(m.todo)
  PROVE  WaitAt(k)'
<1>1. CASE waits[k] = Null
  BY <1>1 DEF WaitAt
<1>2. CASE waits[k] # Null
  <2>1. waits[k] \in Task
    BY <1>2
  <2>. QED BY <1>2, <2>1 DEF WaitAt
<1>. QED BY <1>1, <1>2

LEMMA AwaiterKept ==
  ASSUME NEW a \in Awaiter, AwaiterAt(a), awaiting'[a] = awaiting[a], awaiting[a] \in Task \cup {Null},
         \A k \in Task : a \in callers[k] =>
           a \in callers'[k] \/ \E m \in Calls' : m.pc = "wake" /\ m.task = k /\ a \in m.who,
         \A m \in Calls : m.pc = "wake" /\ a \in m.who =>
           \E n \in Calls' : n.pc = "wake" /\ n.task = m.task /\ a \in n.who
  PROVE  AwaiterAt(a)'
<1>1. CASE awaiting[a] = Null
  BY <1>1 DEF AwaiterAt
<1>2. CASE awaiting[a] # Null
  <2>1. awaiting[a] \in Task
    BY <1>2
  <2>2. CASE a \in callers[awaiting[a]]
    BY <2>1, <2>2 DEF AwaiterAt
  <2>3. CASE a \notin callers[awaiting[a]]
    BY <2>1, <2>3, <1>2 DEF AwaiterAt
  <2>. QED BY <2>2, <2>3
<1>. QED BY <1>1, <1>2

LEMMA ReferenceKept ==
  ASSUME NEW k \in Task, ReferenceAt(k), Referenced(k)' <=> Referenced(k),
         object'[k] = object[k], mapped'[k] = mapped[k], captured'[k] \subseteq captured[k],
         (\E m \in Calls : Destroys(m, k)) => \E m \in Calls' : Destroys(m, k),
         object[k] # "alive" => status'[k] = status[k] /\ co'[k] = co[k] /\ callers'[k] \subseteq callers[k]
  PROVE  ReferenceAt(k)'
BY DEF ReferenceAt, Exiting, Completed

\* The pointers stay where they are, and only calls without any come and go.
LEMMA SameReferences ==
  ASSUME UNCHANGED <<handle, captured, waits, next_list>>,
         \A m \in Calls : m.held # <<>> => \E n \in Calls' : n.held = m.held,
         \A n \in Calls' : n.held # <<>> => \E m \in Calls : m.held = n.held
  PROVE  \A k \in Task : Referenced(k)' <=> Referenced(k)
<1>1. Elements(<<>>) = {}
  BY DEF Elements
<1>2. ASSUME NEW k \in Task
      PROVE  (\E m \in Calls : k \in Elements(m.held)) <=> \E m \in Calls' : k \in Elements(m.held)
  BY <1>1
<1>. QED BY <1>2 DEF Referenced

LEMMA CallsOn ==
  ASSUME IInv, \A m \in Calls' : m \in Calls \/ CallOK(m)',
         \A m \in Calls : m \in Calls' /\ m.pc \in Releasing =>
           object'[m.task] = object[m.task] /\ mapped'[m.task] = mapped[m.task],
         \A k \in Task : ~Referenced(k) =>
           /\ ~Referenced(k)' /\ captured'[k] \subseteq captured[k] /\ callers'[k] \subseteq callers[k]
           /\ status[k] \notin {RUNNING, WAITING} => status'[k] \notin {RUNNING, WAITING}
           /\ next_list'[k] # <<>> => next_list[k] # <<>>,
         \A k \in Task : Exiting(k) => Exiting(k)',
         \A m \in Calls : m.pc = "notify" =>
            \/ \E n \in Calls' : n.pc = "notify" /\ n.task = m.task
            \/ next_list'[m.task] = <<>> /\ \E n \in Calls' : n.pc = "activate" /\ n.task = m.task,
         \A m \in Calls : m.pc = "activate" =>
            \/ \E n \in Calls' : n.pc = "activate" /\ n.task = m.task
            \/ callers'[m.task] = {}
  PROVE  CallsOK'
<1>1. SUFFICES ASSUME NEW m \in Calls', m \in Calls PROVE CallOK(m)'
  BY DEF CallsOK
<1>2. CallOK(m) /\ (m.pc # "body" => m.task \in Task)
  BY <1>1, TaskOf
<1>3. ASSUME m.pc \in Releasing
      PROVE  /\ mapped'[m.task] /\ ~Referenced(m.task)'
             /\ object'[m.task] = IF m.pc = "recycle" THEN "dead" ELSE "alive"
             /\ m.pc # "release" => m.coro
             /\ m.pc \notin {"release", "captures"} => captured'[m.task] = {}
  <2>1. m.task \in Task /\ ~Referenced(m.task)
    BY <1>2, <1>3 DEF CallOK, Releasing
  <2>2. object'[m.task] = object[m.task] /\ mapped'[m.task] = mapped[m.task]
    BY <1>1, <1>3
  <2>. QED BY <2>1, <2>2, <1>2, <1>3 DEF CallOK
<1>4. ASSUME m.pc \in {"members", "base", "recycle"}
      PROVE  /\ status'[m.task] \notin {RUNNING, WAITING}
             /\ next_list'[m.task] # <<>> => \E e \in Calls' : e.pc = "notify" /\ e.task = m.task
             /\ callers'[m.task] # {} =>
                  \E e \in Calls' : e.pc \in {"notify", "activate"} /\ e.task = m.task
  <2>1. m.task \in Task /\ ~Referenced(m.task)
    BY <1>2, <1>4 DEF CallOK, Releasing
  <2>2. status[m.task] \notin {RUNNING, WAITING}
        /\ (next_list[m.task] # <<>> => \E e \in Calls : e.pc = "notify" /\ e.task = m.task)
        /\ (callers[m.task] # {} => \E e \in Calls : e.pc \in {"notify", "activate"} /\ e.task = m.task)
    BY <1>2, <1>4 DEF CallOK, Releasing
  <2>3. next_list'[m.task] # <<>> => \E e \in Calls' : e.pc = "notify" /\ e.task = m.task
    BY <2>1, <2>2
  <2>4. callers'[m.task] # {} => \E e \in Calls' : e.pc \in {"notify", "activate"} /\ e.task = m.task
    BY <2>1, <2>2
  <2>. QED BY <2>1, <2>2, <2>3, <2>4
<1>5. m.pc = "notify" => Exiting(m.task)'
  BY <1>2 DEF CallOK
<1>. QED BY <1>2, <1>3, <1>4, <1>5 DEF CallOK

LEMMA CallsKept ==
  ASSUME IInv, \A m \in Calls' : m \in Calls \/ CallOK(m)',
         UNCHANGED <<object, mapped>>,
         \A k \in Task : ~Referenced(k) =>
           /\ ~Referenced(k)' /\ captured'[k] \subseteq captured[k] /\ callers'[k] \subseteq callers[k]
           /\ status[k] \notin {RUNNING, WAITING} => status'[k] \notin {RUNNING, WAITING}
           /\ next_list'[k] # <<>> => next_list[k] # <<>>,
         \A k \in Task : Exiting(k) => Exiting(k)',
         \A m \in Calls : m.pc = "notify" =>
            \/ \E n \in Calls' : n.pc = "notify" /\ n.task = m.task
            \/ next_list'[m.task] = <<>> /\ \E n \in Calls' : n.pc = "activate" /\ n.task = m.task,
         \A m \in Calls : m.pc = "activate" =>
            \/ \E n \in Calls' : n.pc = "activate" /\ n.task = m.task
            \/ callers'[m.task] = {}
  PROVE  CallsOK'
BY CallsOn

\* What is left to show of a step that changes neither tasks nor their calls ...
LEMMA QuietStep ==
  ASSUME IInv, TypeOK', Stacked(handle', captured', stack'), Joined(stack'),
         UNCHANGED <<object, mapped, handle, captured, status, co, next_list, waits>>,
         \A m \in Calls : m.held # <<>> => \E n \in Calls' : n.held = m.held,
         \A n \in Calls' : n.held # <<>> => \E m \in Calls : m.held = n.held,
         \A m \in Calls : m.pc \in {"started", "notify", "activate", "action"} => m \in Calls',
         \A m \in Calls' : m.pc \in {"started", "notify", "activate", "action"} => m \in Calls,
         \A m \in Calls : m.pc \in Releasing => \E n \in Calls' : Destroys(n, m.task),
         \A m \in Calls' : m \in Calls \/ CallOK(m)',
         \A k \in Task : ~Referenced(k) \/ Exiting(k) => callers'[k] \subseteq callers[k],
         AwaiterInv'
  PROVE  IInv'
<1>1. \A k \in Task : Referenced(k)' <=> Referenced(k)
  BY SameReferences
<1>2. CallsOK'
  <2>1. \A k \in Task : Exiting(k) => Exiting(k)'
    BY DEF Exiting
  <2>. QED BY <1>1, <2>1, CallsKept
<1>3. ASSUME NEW k \in Task PROVE ReferenceAt(k)'
  <2>1. (\E m \in Calls : Destroys(m, k)) => \E m \in Calls' : Destroys(m, k)
    BY DEF Destroys
  <2>2. ReferenceAt(k)
    BY DEF IInv, ReferenceInv
  <2>3. object[k] # "alive" => callers'[k] \subseteq callers[k]
    BY <2>2 DEF ReferenceAt
  <2>. QED BY <2>1, <2>2, <2>3, <1>1, ReferenceKept
<1>4. ASSUME NEW k \in Task PROVE StatusAt(k)'
  <2>1. StatusAt(k)
    BY DEF IInv, StatusInv
  <2>2. Exiting(k)' <=> Exiting(k)
    BY DEF Exiting
  <2>3. Completed(k)' <=> Completed(k)
    BY DEF Completed
  <2>4. Exiting(k) => callers'[k] \subseteq callers[k]
    OBVIOUS
  <2>. QED BY <2>1, <2>2, <2>3, <2>4 DEF StatusAt, Drives
<1>5. ASSUME NEW k \in Task PROVE WaitAt(k)'
  <2>1. WaitAt(k) /\ waits[k] \in Task \cup {Null}
    BY DEF IInv, WaitInv, TypeOK
  <2>2. \A j \in Task : Completed(j) => Completed(j)'
    BY DEF Completed
  <2>. QED BY <2>1, <2>2, WaitKept
<1>. QED BY <1>2, <1>3, <1>4, <1>5 DEF IInv, StackOK, ReferenceInv, StatusInv, WaitInv

-----------------------------------------------------------------------------
(* Steps of C++20 coroutines, and those that only go on. *)

LEMMA SupportedBody ==
  ASSUME NEW h, NEW ca, NEW m, NEW D, m.pc = "body", m.task = Null
  PROVE  Supported(h, ca, m, D)
BY DEF Supported, Releasing

\* A call that goes on to pc needs nothing new.
LEMMA SupportedOn ==
  ASSUME NEW h, NEW ca, NEW m, NEW n, NEW D, Supported(h, ca, m, D), n.task = m.task,
         n.pc \in Releasing <=> m.pc \in Releasing,
         n.pc \in {"started", "notify"} => m.pc \in {"started", "notify"}
  PROVE  Supported(h, ca, n, D)
<1>1. Kept(h, ca, m, D) => Kept(h, ca, n, D)
  BY DEF Kept
<1>. QED BY <1>1 DEF Supported

LEMMA BodyIs ==
  ASSUME NEW a \in Awaiter
  PROVE  /\ Body(a) \in Call /\ Body(a).pc = "body" /\ Body(a).task = Null /\ Body(a).held = <<>>
         /\ Body(a).who = {a}
BY CallRecords DEF Body, NewCall

LEMMA BodyOK ==
  ASSUME NEW m, m.pc = "body", m.task = Null, m.held = <<>>
  PROVE  CallOK(m)'
BY DEF CallOK, Releasing

LEMMA WakeOK ==
  ASSUME NEW m, m.pc = "wake", m.task # Null
  PROVE  CallOK(m)'
BY DEF CallOK, Releasing

LEMMA CallAwaiterOK ==
  ASSUME IInv, TypeOK', NEW a \in Awaiter, CallAwaiter(a)
  PROVE  IInv'
<1>1. stack' = <<Body(a)>> \o stack /\ stack \in Seq(Call) /\ Client
  BY StackNow DEF CallAwaiter
<1>2. UNCHANGED <<object, mapped, handle, captured, status, co, next_list, waits, callers, awaiting>>
  BY DEF CallAwaiter
<1>3. Stacked(handle', captured', stack') /\ Joined(stack') /\ Calls' = {Body(a)} \cup Calls
  <2>1. Supported(handle', captured', Body(a), CallsOf(stack))
    BY BodyIs, SupportedBody
  <2>2. stack # <<>> => Head(stack).pc \notin {"started", "notify"}
    BY <1>1 DEF Client, Top
  <2>. QED BY <1>1, <1>2, <2>1, <2>2, BodyIs, Pushed, StackNow DEF Calls
<1>4. ASSUME NEW b \in Awaiter PROVE AwaiterAt(b)'
  BY <1>2, <1>3, AwaiterKept DEF IInv, AwaiterInv, TypeOK
<1>5. \A m \in Calls' : m \in Calls \/ CallOK(m)'
  BY <1>3, BodyIs, BodyOK
<1>6. /\ Calls \subseteq Calls'
      /\ \A m \in Calls' : m \in Calls \/ (m.pc = "body" /\ m.held = <<>>)
      /\ \A m \in Calls : m.pc \in Releasing => \E n \in Calls' : Destroys(n, m.task)
  BY <1>3, BodyIs DEF Destroys
<1>. QED BY <1>2, <1>3, <1>4, <1>5, <1>6, QuietStep DEF AwaiterInv

LEMMA KillAwaiterOK ==
  ASSUME IInv, TypeOK', NEW a \in Awaiter, KillAwaiter(a)
  PROVE  IInv'
<1>1. /\ UNCHANGED <<object, mapped, handle, captured, status, co, next_list, waits, stack>>
      /\ callers' = [callers EXCEPT ![awaiting[a]] = @ \ {a}]
      /\ awaiting' = [awaiting EXCEPT ![a] = Null] /\ awaiting[a] \in Task
  BY DEF KillAwaiter, IInv, TypeOK
<1>2. callers \in [Task -> SUBSET Awaiter] /\ awaiting \in [Awaiter -> Task \cup {Null}]
  BY DEF IInv, TypeOK
<1>3. Calls' = Calls /\ Stacked(handle', captured', stack') /\ Joined(stack')
  BY <1>1, StackNow DEF Calls
<1>4. ASSUME NEW b \in Awaiter PROVE AwaiterAt(b)'
  <2>1. CASE b = a
    BY <1>1, <1>2, <2>1 DEF AwaiterAt
  <2>2. CASE b # a
    <3>1. AwaiterAt(b) /\ awaiting'[b] = awaiting[b] /\ awaiting[b] \in Task \cup {Null}
      BY <1>1, <1>2, <2>2 DEF IInv, AwaiterInv
    <3>2. \A k \in Task : b \in callers[k] => b \in callers'[k]
      BY <1>1, <1>2, <2>2
    <3>. QED BY <3>1, <3>2, <1>3, AwaiterKept
  <2>. QED BY <2>1, <2>2
<1>5. \A k \in Task : callers'[k] \subseteq callers[k]
  BY <1>1, <1>2
<1>6. \A m \in Calls : m.pc \in Releasing => \E n \in Calls' : Destroys(n, m.task)
  BY <1>3 DEF Destroys
<1>. QED BY <1>1, <1>3, <1>4, <1>5, <1>6, QuietStep DEF AwaiterInv

\* The body of a C++20 coroutine is left.
LEMMA BodyLeft ==
  ASSUME IInv, At("body"), stack' = Tail(stack), UNCHANGED <<handle, captured>>
  PROVE  /\ Calls' = Below /\ Stacked(handle', captured', stack') /\ Joined(stack')
         /\ \A m \in Calls : m \in Calls' \/ (m = Top /\ m.pc = "body" /\ m.held = <<>>)
         /\ \A m \in Calls : m.pc \in Releasing => \E n \in Calls' : Destroys(n, m.task)
<1>1. stack # <<>> /\ Top.pc = "body" /\ stack' = Rest
  BY StackNow DEF At
<1>2. Top.held = <<>>
  BY <1>1, StackNow, TaskOf DEF CallOK
<1>3. Calls = {Top} \cup Below /\ Calls' = Below
  BY <1>1, StackNow DEF Below, Calls
<1>4. \A m \in Calls : m.pc \in Releasing => m # Top
  BY <1>1 DEF Releasing
<1>. QED BY <1>1, <1>2, <1>3, <1>4, StackNow DEF Destroys

LEMMA EndBodyOK ==
  ASSUME IInv, TypeOK', EndBody
  PROVE  IInv'
<1>1. At("body") /\ stack' = Tail(stack)
      /\ UNCHANGED <<object, mapped, handle, captured, status, co, next_list, waits, callers, awaiting>>
  BY DEF EndBody
<1>2. /\ Calls' \subseteq Calls /\ Stacked(handle', captured', stack') /\ Joined(stack')
      /\ \A m \in Calls : m \in Calls' \/ (m.pc = "body" /\ m.held = <<>>)
      /\ \A m \in Calls : m.pc \in Releasing => \E n \in Calls' : Destroys(n, m.task)
  BY <1>1, BodyLeft, StackNow
<1>3. ASSUME NEW b \in Awaiter PROVE AwaiterAt(b)'
  <2>1. AwaiterAt(b) /\ awaiting[b] \in Task \cup {Null}
    BY DEF IInv, AwaiterInv, TypeOK
  <2>. QED BY <2>1, <1>1, <1>2, AwaiterKept
<1>. QED BY <1>1, <1>2, <1>3, QuietStep DEF AwaiterInv

LEMMA CoAwaitOK ==
  ASSUME IInv, TypeOK', NEW k \in Task, CoAwait(k)
  PROVE  IInv'
<1>1. At("body") /\ stack' = Tail(stack) /\ k \in handle /\ ~Exiting(k)
      /\ UNCHANGED <<object, mapped, handle, captured, status, co, next_list, waits>>
      /\ callers' = [callers EXCEPT ![k] = @ \cup Top.who]
      /\ awaiting' = [a \in Awaiter |-> IF a \in Top.who THEN k ELSE awaiting[a]]
  BY DEF CoAwait
<1>2. /\ Calls' \subseteq Calls /\ Stacked(handle', captured', stack') /\ Joined(stack')
      /\ \A m \in Calls : m \in Calls' \/ (m.pc = "body" /\ m.held = <<>>)
      /\ \A m \in Calls : m.pc \in Releasing => \E n \in Calls' : Destroys(n, m.task)
  BY <1>1, BodyLeft, StackNow
<1>3. callers \in [Task -> SUBSET Awaiter] /\ awaiting \in [Awaiter -> Task \cup {Null}]
  BY DEF IInv, TypeOK
<1>4. ASSUME NEW b \in Awaiter PROVE AwaiterAt(b)'
  <2>1. CASE b \in Top.who
    BY <1>1, <1>3, <2>1 DEF AwaiterAt
  <2>2. CASE b \notin Top.who
    <3>1. AwaiterAt(b) /\ awaiting'[b] = awaiting[b] /\ awaiting[b] \in Task \cup {Null}
      BY <1>1, <1>3, <2>2 DEF IInv, AwaiterInv
    <3>2. \A j \in Task : b \in callers[j] => b \in callers'[j]
      BY <1>1, <1>3
    <3>. QED BY <3>1, <3>2, <1>2, AwaiterKept
  <2>. QED BY <2>1, <2>2
<1>5. \A j \in Task : ~Referenced(j) \/ Exiting(j) => callers'[j] \subseteq callers[j]
  BY <1>1, <1>3 DEF Referenced
<1>. QED BY <1>1, <1>2, <1>4, <1>5, QuietStep DEF AwaiterInv

LEMMA WakeStepOK ==
  ASSUME IInv, TypeOK', NEW a \in Awaiter, Wake(a)
  PROVE  IInv'
<1>. DEFINE w == [Top EXCEPT !.who = @ \ {a}]
            rest == <<w>> \o Rest
<1>1. /\ stack # <<>> /\ Top.pc = "wake" /\ a \in Top.who /\ Rest = Tail(stack)
      /\ UNCHANGED <<object, mapped, handle, captured, status, co, next_list, waits, callers>>
  BY StackNow DEF Wake, At
<1>2. /\ Rest \in Seq(Call) /\ Top \in Call /\ Calls = {Top} \cup Below /\ Top \in Calls
      /\ Supported(handle, captured, Top, Below) /\ Stacked(handle, captured, Rest)
  BY <1>1, StackNow
<1>3. /\ w \in Call /\ w.pc = "wake" /\ w.task = Top.task /\ w.held = Top.held /\ w.who = Top.who \ {a}
  BY <1>1, <1>2, CallRecords DEF Call
<1>4. Top.task \in Task /\ Top.task # Null
  BY <1>1, <1>2, TaskOf
<1>. HIDE DEF w
<1>5. /\ rest \in Seq(Call) /\ CallsOf(rest) = {w} \cup Below /\ rest # <<>> /\ Head(rest) = w
      /\ Stacked(handle, captured, rest) /\ Joined(rest)
  <2>1. Supported(handle, captured, w, Below)
    BY <1>1, <1>2, <1>3, SupportedOn DEF Releasing
  <2>2. Joined(<<Top>> \o Rest)
    BY <1>1, StackNow
  <2>3. Joined(rest)
    BY <2>2, <1>1, <1>2, <1>3, JoinedPut
  <2>. QED BY <2>1, <2>3, <1>2, <1>3, Put, StackedPut DEF Below
<1>6. CASE awaiting[a] = Top.task
  <2>1. awaiting' = [awaiting EXCEPT ![a] = Null] /\ stack' = <<Body(a)>> \o rest
    BY <1>1, <1>6 DEF Wake, w
  <2>. HIDE DEF rest
  <2>2. Stacked(handle', captured', stack') /\ Joined(stack') /\ Calls' = {Body(a)} \cup ({w} \cup Below)
    <3>1. Supported(handle', captured', Body(a), CallsOf(rest))
      BY BodyIs, SupportedBody
    <3>. QED BY <2>1, <3>1, <1>1, <1>3, <1>5, BodyIs, Pushed
  <2>3. ASSUME NEW b \in Awaiter PROVE AwaiterAt(b)'
    <3>0. awaiting \in [Awaiter -> Task \cup {Null}]
      BY DEF IInv, TypeOK
    <3>1. CASE b = a
      BY <2>1, <3>0, <3>1 DEF AwaiterAt
    <3>2. CASE b # a
      <4>1. AwaiterAt(b) /\ awaiting'[b] = awaiting[b] /\ awaiting[b] \in Task \cup {Null}
        BY <2>1, <3>0, <3>2 DEF IInv, AwaiterInv
      <4>2. \A m \in Calls : m.pc = "wake" /\ b \in m.who =>
              \E n \in Calls' : n.pc = "wake" /\ n.task = m.task /\ b \in n.who
        BY <3>2, <1>2, <1>3, <2>2
      <4>. QED BY <4>1, <4>2, <1>1, AwaiterKept
    <3>. QED BY <3>1, <3>2
  <2>4. \A m \in Calls' : m \in Calls \/ CallOK(m)'
    BY <2>2, <1>2, <1>3, <1>4, BodyIs, BodyOK, WakeOK
  <2>5. /\ \A m \in Calls : m.held # <<>> => \E n \in Calls' : n.held = m.held
        /\ \A n \in Calls' : n.held # <<>> => \E m \in Calls : m.held = n.held
    BY <2>2, <1>2, <1>3, BodyIs
  <2>6. /\ \A m \in Calls : m.pc = "wake" \/ m \in Calls'
        /\ \A m \in Calls' : m.pc \in {"wake", "body"} \/ m \in Calls
    BY <2>2, <1>1, <1>2, <1>3, BodyIs
  <2>7. \A m \in Calls : m.pc \in Releasing => \E n \in Calls' : Destroys(n, m.task)
    BY <2>6 DEF Destroys, Releasing
  <2>. QED BY <1>1, <2>2, <2>3, <2>4, <2>5, <2>6, <2>7, QuietStep DEF AwaiterInv
<1>7. CASE awaiting[a] # Top.task
  <2>1. awaiting' = awaiting /\ stack' = rest
    BY <1>1, <1>7 DEF Wake, w
  <2>2. Stacked(handle', captured', stack') /\ Joined(stack') /\ Calls' = {w} \cup Below
    BY <2>1, <1>1, <1>5 DEF Calls
  <2>3. ASSUME NEW b \in Awaiter PROVE AwaiterAt(b)'
    <3>1. AwaiterAt(b) /\ awaiting[b] \in Task \cup {Null}
      BY DEF IInv, AwaiterInv, TypeOK
    <3>2. CASE b = a
      BY <3>1, <3>2, <2>1, <2>2, <1>1, <1>2, <1>7 DEF AwaiterAt
    <3>3. CASE b # a
      <4>1. \A m \in Calls : m.pc = "wake" /\ b \in m.who =>
              \E n \in Calls' : n.pc = "wake" /\ n.task = m.task /\ b \in n.who
        BY <3>3, <1>2, <1>3, <2>2
      <4>. QED BY <3>1, <4>1, <2>1, <1>1, AwaiterKept
    <3>. QED BY <3>2, <3>3
  <2>4. \A m \in Calls' : m \in Calls \/ CallOK(m)'
    BY <2>2, <1>2, <1>3, <1>4, WakeOK
  <2>5. /\ \A m \in Calls : m.held # <<>> => \E n \in Calls' : n.held = m.held
        /\ \A n \in Calls' : n.held # <<>> => \E m \in Calls : m.held = n.held
    BY <2>2, <1>2, <1>3
  <2>6. /\ \A m \in Calls : m.pc = "wake" \/ m \in Calls'
        /\ \A m \in Calls' : m.pc \in {"wake", "body"} \/ m \in Calls
    BY <2>2, <1>1, <1>2, <1>3
  <2>7. \A m \in Calls : m.pc \in Releasing => \E n \in Calls' : Destroys(n, m.task)
    BY <2>6 DEF Destroys, Releasing
  <2>. QED BY <1>1, <2>2, <2>3, <2>4, <2>5, <2>6, <2>7, QuietStep DEF AwaiterInv
<1>. QED BY <1>6, <1>7

-----------------------------------------------------------------------------
(* A pointer goes. *)

LEMMA ReleaseIs ==
  ASSUME NEW k \in Task
  PROVE  /\ NewCall("release", k) \in Call /\ NewCall("release", k).pc = "release"
         /\ NewCall("release", k).task = k /\ NewCall("release", k).held = <<>>
BY CallRecords DEF NewCall, Label

LEMMA DroppedCalls ==
  ASSUME NEW k \in Task, NEW rest \in Seq(Call), stack' = Dropped(k, rest)
  PROVE  /\ Cardinality(References(k)) = 1 =>
              stack' = <<NewCall("release", k)>> \o rest /\ Calls' = {NewCall("release", k)} \cup CallsOf(rest)
         /\ Cardinality(References(k)) # 1 => stack' = rest /\ Calls' = CallsOf(rest)
         /\ \A x : (\E m \in Calls' : x \in Elements(m.held)) <=>
                   (\E m \in CallsOf(rest) : x \in Elements(m.held))
<1>1. /\ Cardinality(References(k)) = 1 => stack' = <<NewCall("release", k)>> \o rest
      /\ Cardinality(References(k)) # 1 => stack' = rest
  BY DEF Dropped
<1>2. /\ Cardinality(References(k)) = 1 => Calls' = {NewCall("release", k)} \cup CallsOf(rest)
      /\ Cardinality(References(k)) # 1 => Calls' = CallsOf(rest)
  BY <1>1, ReleaseIs, Put DEF Calls
<1>3. \A x : x \notin Elements(NewCall("release", k).held)
  BY ReleaseIs DEF Elements
<1>. QED BY <1>1, <1>2, <1>3

LEMMA DropOK ==
  ASSUME IInv, TypeOK', NEW k \in Task, NEW rest \in Seq(Call), stack' = Dropped(k, rest), Referenced(k),
         UNCHANGED <<object, mapped, status, co, next_list, callers, awaiting>>,
         \A x \in Task : captured'[x] \subseteq captured[x] /\ waits'[x] \in {waits[x], Null},
         Stacked(handle', captured', rest), Joined(rest),
         rest # <<>> => Head(rest).pc \notin {"started", "notify"},
         \A m \in CallsOf(rest) : m \in Calls \/ (m.pc = "wake" /\ m.task # Null),
         \A m \in Calls : m \in CallsOf(rest) \/ (m.pc = "wake" /\ m.who = {}),
         \A x \in Task \ {k} : Referenced(x)' <=> Referenced(x),
         Referenced(k)' <=> Cardinality(References(k)) # 1
  PROVE  IInv'
<1>. DEFINE R == NewCall("release", k)
<1>1. /\ Cardinality(References(k)) = 1 => stack' = <<R>> \o rest /\ Calls' = {R} \cup CallsOf(rest)
      /\ Cardinality(References(k)) # 1 => stack' = rest /\ Calls' = CallsOf(rest)
  BY DroppedCalls
<1>2. R \in Call /\ R.pc = "release" /\ R.task = k /\ R.held = <<>>
  BY ReleaseIs
<1>. HIDE DEF R
<1>3. object[k] = "alive" /\ mapped[k] /\ \A m \in Calls : ~Destroys(m, k)
  BY ReferencedNow
<1>4. ASSUME Cardinality(References(k)) = 1, NEW e \in CallsOf(rest), e.task = k PROVE FALSE
  <2>1. e.pc \notin Releasing
    BY <1>4, <1>3 DEF Destroys, Releasing
  <2>2. PICK i \in 1..Len(rest) : e = rest[i]
    BY DEF CallsOf
  <2>3. Supported(handle', captured', e, Deeper(rest, i)) /\ Deeper(rest, i) \subseteq CallsOf(rest)
    BY <2>2, CallsIn DEF Stacked
  <2>4. Kept(handle', captured', e, Deeper(rest, i))
    BY <2>1, <2>3, <1>4, LifetimeAssumption DEF Supported
  <2>5. ~Referenced(k)' /\ CallsOf(rest) \subseteq Calls'
    BY <1>1, <1>4
  <2>6. k \notin handle'
    BY <2>5 DEF Referenced
  <2>7. ASSUME NEW f \in CallsOf(rest), f.pc = "action", k \in captured'[f.task] PROVE FALSE
    <3>1. f \in Calls
      BY <2>7
    <3>2. f.task \in Task
      BY <3>1, <2>7, TaskOf
    <3>. QED BY <3>2, <2>5, <2>7 DEF Referenced
  <2>8. ASSUME NEW f \in CallsOf(rest), k \in Elements(f.held) PROVE FALSE
    BY <2>5, <2>8 DEF Referenced
  <2>9. ASSUME NEW f \in CallsOf(rest), f.pc = "members", f.task = k PROVE FALSE
    <3>1. f \in Calls
      BY <2>9
    <3>. QED BY <3>1, <2>9, <1>3 DEF Destroys, Releasing
  <2>. QED BY <2>3, <2>4, <2>6, <2>7, <2>8, <2>9, <1>4 DEF Kept
<1>5. Stacked(handle', captured', stack') /\ Joined(stack')
  <2>1. CASE Cardinality(References(k)) = 1
    <3>1. Supported(handle', captured', R, CallsOf(rest))
      BY <1>2, <1>4, <2>1 DEF Supported, Releasing
    <3>. QED BY <3>1, <2>1, <1>1, <1>2, Pushed
  <2>. QED BY <2>1, <1>1
<1>6. CallsOf(rest) \subseteq Calls' /\ \A m \in Calls' : m \in CallsOf(rest) \/ m = R
  BY <1>1
<1>7. CallsOK'
  <2>1. R \in Calls' => CallOK(R)'
    <3>1. CASE Cardinality(References(k)) = 1
      BY <3>1, <1>2, <1>3, LifetimeAssumption DEF CallOK, Releasing
    <3>2. CASE Cardinality(References(k)) # 1
      <4>1. R \notin Calls
        BY <1>2, <1>3 DEF Destroys, Releasing
      <4>. QED BY <3>2, <4>1, <1>1, <1>2
    <3>. QED BY <3>1, <3>2
  <2>2. \A m \in CallsOf(rest) : m \in Calls \/ CallOK(m)'
    BY WakeOK
  <2>3. \A m \in Calls' : m \in Calls \/ CallOK(m)'
    BY <2>1, <2>2, <1>6
  <2>4. \A x \in Task : Exiting(x) => Exiting(x)'
    BY DEF Exiting
  <2>5. \A x \in Task : ~Referenced(x) => ~Referenced(x)'
    OBVIOUS
  <2>6. \A m \in Calls : m.pc \in {"notify", "activate"} => m \in Calls'
    BY <1>6
  <2>. QED BY <2>3, <2>4, <2>5, <2>6, CallsKept
<1>8. ASSUME NEW x \in Task PROVE ReferenceAt(x)'
  <2>1. ReferenceAt(x)
    BY DEF IInv, ReferenceInv
  <2>2. CASE x = k
    <3>1. Cardinality(References(k)) = 1 => \E m \in Calls' : Destroys(m, k)
      BY <1>1, <1>2 DEF Destroys, Releasing
    <3>. QED BY <3>1, <2>2, <1>3 DEF ReferenceAt
  <2>3. CASE x # k
    <3>1. (\E m \in Calls : Destroys(m, x)) => \E m \in Calls' : Destroys(m, x)
      BY <1>6 DEF Destroys, Releasing
    <3>. QED BY <3>1, <2>1, <2>3, ReferenceKept
  <2>. QED BY <2>2, <2>3
<1>9. ASSUME NEW x \in Task PROVE StatusAt(x)'
  <2>1. StatusAt(x)
    BY DEF IInv, StatusInv
  <2>2. (Exiting(x)' <=> Exiting(x)) /\ (Completed(x)' <=> Completed(x))
    BY DEF Exiting, Completed
  <2>3. \A m : m.pc \in {"started", "notify", "action", "activate"} => (m \in Calls' <=> m \in Calls)
    BY <1>6, <1>2
  <2>. QED BY <2>1, <2>2, <2>3 DEF StatusAt, Drives
<1>10. ASSUME NEW x \in Task PROVE WaitAt(x)'
  <2>1. WaitAt(x) /\ waits[x] \in Task \cup {Null}
    BY DEF IInv, WaitInv, TypeOK
  <2>2. CASE waits'[x] = Null
    BY <2>2 DEF WaitAt
  <2>3. CASE waits'[x] = waits[x]
    <3>1. \A j \in Task : Completed(j) => Completed(j)'
      BY DEF Completed
    <3>2. \A m \in Calls : m.pc = "activate" => m \in Calls'
      BY <1>6
    <3>. QED BY <2>1, <2>3, <3>1, <3>2, WaitKept
  <2>. QED BY <2>2, <2>3
<1>11. ASSUME NEW a \in Awaiter PROVE AwaiterAt(a)'
  <2>1. AwaiterAt(a) /\ awaiting[a] \in Task \cup {Null}
    BY DEF IInv, AwaiterInv, TypeOK
  <2>2. \A m \in Calls : a \in m.who => m \in Calls'
    BY <1>6
  <2>. QED BY <2>1, <2>2, AwaiterKept
<1>. QED BY <1>5, <1>7, <1>8, <1>9, <1>10, <1>11 DEF IInv, StackOK, ReferenceInv, StatusInv, WaitInv, AwaiterInv

LEMMA DropHandleOK ==
  ASSUME IInv, TypeOK', NEW k \in Task, DropHandle(k)
  PROVE  IInv'
<1>1. /\ Client /\ k \in handle /\ ~InProgress(k) /\ handle' = handle \ {k} /\ stack' = Dropped(k, stack)
      /\ UNCHANGED <<object, captured, mapped, status, co, next_list, callers, waits, awaiting>>
  BY DEF DropHandle
<1>2. stack \in Seq(Call) /\ Joined(stack) /\ CallsOf(stack) = Calls
  BY StackNow DEF Calls
<1>3. \A m \in Calls : m.task # k
  BY <1>1, <1>2 DEF InProgress, Calls, CallsOf
<1>4. Stacked(handle', captured', stack)
  BY <1>1, <1>2, <1>3, StackNow, StackedKept
<1>5. stack # <<>> => Head(stack).pc \notin {"started", "notify"}
  BY <1>1 DEF Client, Top
<1>6. \A x : (\E m \in Calls' : x \in Elements(m.held)) <=> (\E m \in Calls : x \in Elements(m.held))
  BY <1>1, <1>2, DroppedCalls
<1>7. \A x \in Task \ {k} : Referenced(x)' <=> Referenced(x)
  BY <1>1, <1>6 DEF Referenced
<1>8. Referenced(k)' <=> Cardinality(References(k)) # 1
  <2>1. TypeOK
    BY DEF IInv
  <2>2. Cardinality(References(k)) = 1 <=>
           Unlisted(k) /\ \A j \in Task : k \notin captured[j] /\ waits[j] # k
    BY <1>1, <2>1, LastHandle
  <2>. QED BY <2>2, <1>1, <1>6 DEF Unlisted, Referenced
<1>9. Referenced(k)
  BY <1>1 DEF Referenced
<1>. QED BY <1>1, <1>2, <1>4, <1>5, <1>7, <1>8, <1>9, DropOK

LEMMA DropCaptureOK ==
  ASSUME IInv, TypeOK', At("captures"), NEW k \in captured[Top.task],
         captured' = [captured EXCEPT ![Top.task] = @ \ {k}], stack' = Dropped(k, stack),
         UNCHANGED <<object, mapped, handle, status, co, next_list, callers, waits, awaiting>>
  PROVE  IInv'
<1>1. stack # <<>> /\ Top.pc = "captures" /\ Calls = {Top} \cup Below
  BY StackNow DEF At
<1>2. Top.task \in Task /\ \A e \in Below : e.task # Top.task
  BY <1>1, AtRest DEF Releasing
<1>3. TypeOK /\ captured \in [Task -> SUBSET Task]
  BY DEF IInv, TypeOK
<1>4. k \in Task /\ Referenced(k)
  BY <1>2, <1>3 DEF Referenced
<1>5. stack \in Seq(Call) /\ Joined(stack) /\ CallsOf(stack) = Calls
  BY StackNow DEF Calls
<1>6. \A x \in Task : /\ captured'[x] \subseteq captured[x] /\ x # Top.task => captured'[x] = captured[x]
                      /\ \A y : y # k => (y \in captured'[x] <=> y \in captured[x])
                      /\ (k \in captured'[x] <=> k \in captured[x] /\ x # Top.task)
  BY <1>2, <1>3
<1>7. \A m \in Calls : m.pc = "action" => m.task \in Task /\ m.task # Top.task
  BY <1>1, <1>2, TaskOf
<1>8. Stacked(handle', captured', stack)
  <2>1. \A m \in CallsOf(stack) : m.pc = "action" => captured[m.task] \subseteq captured'[m.task]
    BY <1>5, <1>6, <1>7
  <2>2. \A m \in CallsOf(stack) : m.task \in handle => m.task \in handle'
    OBVIOUS
  <2>3. Stacked(handle, captured, stack)
    BY StackNow
  <2>. HIDE DEF Calls
  <2>. QED BY <2>1, <2>2, <2>3, <1>5, StackedKept
<1>9. Head(stack).pc \notin {"started", "notify"}
  BY <1>1 DEF Top
<1>10. \A x : (\E m \in Calls' : x \in Elements(m.held)) <=> (\E m \in Calls : x \in Elements(m.held))
  BY <1>4, <1>5, DroppedCalls
<1>11. \A x \in Task \ {k} : Referenced(x)' <=> Referenced(x)
  BY <1>6, <1>10 DEF Referenced
<1>12. Referenced(k)' <=> Cardinality(References(k)) # 1
  <2>1. Cardinality(References(k)) = 1 <=>
          /\ Unlisted(k) /\ k \notin handle
          /\ \A j \in Task : (k \in captured[j] => j = Top.task) /\ waits[j] # k
    BY <1>2, <1>3, <1>4, LastCaptured
  <2>. QED BY <2>1, <1>6, <1>10 DEF Unlisted, Referenced
<1>. QED BY <1>4, <1>5, <1>6, <1>8, <1>9, <1>11, <1>12, DropOK

LEMMA AwaitEndOK ==
  ASSUME IInv, TypeOK', At("action"), NEW k \in Task, Top.task = k, waits[k] # Null,
         waits' = [waits EXCEPT ![k] = Null], stack' = Dropped(waits[k], stack),
         UNCHANGED <<object, mapped, handle, captured, status, co, next_list, callers, awaiting>>
  PROVE  IInv'
<1>1. stack # <<>> /\ Top.pc = "action"
  BY DEF At
<1>2. TypeOK /\ waits \in [Task -> Task \cup {Null}]
  BY DEF IInv, TypeOK
<1>3. PICK j \in Task : j = waits[k]
  BY <1>2
<1>4. Referenced(j)
  BY <1>3 DEF Referenced
<1>5. stack \in Seq(Call) /\ Joined(stack) /\ CallsOf(stack) = Calls /\ Stacked(handle, captured, stack)
  BY StackNow DEF Calls
<1>6. \A x \in Task : /\ waits'[x] \in {waits[x], Null} 
                      /\ \A y \in Task : y # j => (waits'[x] = y <=> waits[x] = y)
                      /\ (waits'[x] = j <=> waits[x] = j /\ x # k)
  BY <1>2, <1>3, LifetimeAssumption
<1>7. Head(stack).pc \notin {"started", "notify"}
  BY <1>1 DEF Top
<1>8. \A x : (\E m \in Calls' : x \in Elements(m.held)) <=> (\E m \in Calls : x \in Elements(m.held))
  BY <1>3, <1>5, DroppedCalls
<1>9. \A x \in Task \ {j} : Referenced(x)' <=> Referenced(x)
  BY <1>6, <1>8 DEF Referenced
<1>10. Referenced(j)' <=> Cardinality(References(j)) # 1
  <2>1. Cardinality(References(j)) = 1 <=>
          /\ Unlisted(j) /\ j \notin handle
          /\ \A x \in Task : j \notin captured[x] /\ (waits[x] = j => x = k)
    BY <1>2, <1>3, LastWaits
  <2>. QED BY <2>1, <1>6, <1>8 DEF Unlisted, Referenced
<1>. QED BY <1>3, <1>4, <1>5, <1>6, <1>7, <1>9, <1>10, DropOK

LEMMA UnholdOK ==
  ASSUME IInv, TypeOK', Unhold
  PROVE  IInv'
<1>1. /\ stack # <<>> /\ Top.pc = "wake" /\ Top.who = {} /\ Rest = Tail(stack)
      /\ UNCHANGED <<object, mapped, handle, captured, status, co, next_list, callers, waits, awaiting>>
  BY StackNow DEF Unhold, At
<1>2. /\ Rest \in Seq(Call) /\ Top \in Call /\ Calls = {Top} \cup Below /\ Top \in Calls
      /\ Supported(handle, captured, Top, Below) /\ Stacked(handle, captured, Rest) /\ Joined(Rest)
      /\ CallsOf(Rest) = Below /\ Joined(<<Top>> \o Rest)
  BY <1>1, StackNow DEF Below
<1>3. Top.held \in Seq(Task) /\ Top.task # Null /\ TypeOK
  BY <1>1, <1>2, TaskOf DEF IInv
<1>4. CASE Top.held = <<>>
  <2>1. stack' = Rest
    BY <1>1, <1>4 DEF Unhold
  <2>2. Calls' = Below /\ Stacked(handle', captured', stack') /\ Joined(stack')
    BY <2>1, <1>1, <1>2 DEF Calls
  <2>3. ASSUME NEW a \in Awaiter PROVE AwaiterAt(a)'
    <3>1. AwaiterAt(a) /\ awaiting[a] \in Task \cup {Null}
      BY DEF IInv, AwaiterInv, TypeOK
    <3>2. \A m \in Calls : a \in m.who => m \in Calls'
      BY <1>1, <1>2, <2>2
    <3>. QED BY <3>1, <3>2, <1>1, AwaiterKept
  <2>4. \A m \in Calls : m.pc # "wake" \/ m.held # <<>> => m \in Calls'
    BY <1>1, <1>2, <1>4, <2>2
  <2>5. \A m \in Calls : m.pc \in Releasing => \E n \in Calls' : Destroys(n, m.task)
    BY <2>4 DEF Destroys, Releasing
  <2>6. Calls' \subseteq Calls
    BY <2>2, <1>2
  <2>. QED BY <1>1, <2>2, <2>3, <2>4, <2>5, <2>6, QuietStep DEF AwaiterInv
<1>5. CASE Top.held # <<>>
  <2>. DEFINE w == [Top EXCEPT !.held = Tail(Top.held)]
              rest == <<w>> \o Rest
  <2>1. Head(Top.held) \in Task /\ Tail(Top.held) \in Seq(Task)
    BY <1>3, <1>5
  <2>a. PICK k \in Task : k = Head(Top.held)
    BY <2>1
  <2>2. w \in Call /\ w.pc = "wake" /\ w.task = Top.task /\ w.who = Top.who /\ w.held = Tail(Top.held)
    BY <1>1, <1>2, <2>1, CallRecords DEF Call
  <2>3. stack' = Dropped(k, rest)
    BY <1>1, <1>5, <2>a DEF Unhold
  <2>. HIDE DEF w
  <2>4. /\ rest \in Seq(Call) /\ CallsOf(rest) = {w} \cup Below /\ Head(rest) = w
        /\ Stacked(handle, captured, rest) /\ Joined(rest)
    <3>1. Supported(handle, captured, w, Below)
      BY <1>1, <1>2, <2>2, SupportedOn DEF Releasing
    <3>2. Joined(rest)
      BY <1>1, <1>2, <2>2, JoinedPut
    <3>. QED BY <3>1, <3>2, <1>2, <2>2, Put, StackedPut
  <2>. HIDE DEF rest
  <2>5. \A x : x \in Elements(Top.held) <=> x = k \/ x \in Elements(Tail(Top.held))
    <3>. DEFINE t == Top.held
    <3>1. t \in Seq(Task) /\ t # <<>>
      BY <1>3, <1>5
    <3>. HIDE DEF t
    <3>2. /\ Head(t) = t[1] /\ Len(t) \in Nat /\ 1 \in 1..Len(t)
          /\ \A i \in 1..Len(Tail(t)) : i + 1 \in 1..Len(t) /\ Tail(t)[i] = t[i + 1]
          /\ \A i \in 1..Len(t) : i # 1 => i - 1 \in 1..Len(Tail(t)) /\ Tail(t)[i - 1] = t[i]
      BY <3>1
    <3>3. \A x : x \in Elements(t) <=> x = Head(t) \/ x \in Elements(Tail(t))
      BY <3>2 DEF Elements
    <3>. QED BY <3>3, <2>a DEF t
  <2>6. Referenced(k)
    BY <2>5, <1>2 DEF Referenced
  <2>7. \A x : (\E m \in Calls' : x \in Elements(m.held)) <=>
               x \in Elements(Tail(Top.held)) \/ \E m \in Below : x \in Elements(m.held)
    <3>1. \A x : (\E m \in Calls' : x \in Elements(m.held)) <=> (\E m \in CallsOf(rest) : x \in Elements(m.held))
      BY <2>1, <2>3, <2>4, DroppedCalls
    <3>. QED BY <3>1, <2>2, <2>4
  <2>8. \A x : (\E m \in Calls : x \in Elements(m.held)) <=>
               x = k \/ x \in Elements(Tail(Top.held)) \/ \E m \in Below : x \in Elements(m.held)
    BY <2>5, <1>2
  <2>9. \A x \in Task \ {k} : Referenced(x)' <=> Referenced(x)
    <3>1. ASSUME NEW x \in Task, x # k
          PROVE  (\E m \in Calls' : x \in Elements(m.held)) <=> (\E m \in Calls : x \in Elements(m.held))
      BY <2>7, <2>8, <3>1
    <3>. QED BY <3>1, <1>1 DEF Referenced
  <2>10. Referenced(k)' <=> Cardinality(References(k)) # 1
    <3>1. Cardinality(References(k)) = 1 <=>
           /\ k \notin handle
           /\ \A j \in Task : k \notin captured[j] /\ waits[j] # k /\ k \notin Elements(next_list[j])
           /\ k \notin Elements(Tail(Top.held)) /\ \A m \in Below : k \notin Elements(m.held)
      BY <1>1, <1>3, <1>5, <2>a, LastHeld
    <3>2. Referenced(k)' <=>
            \/ k \in handle
            \/ \E j \in Task : k \in captured[j] \/ waits[j] = k \/ k \in Elements(next_list[j])
            \/ \E m \in Calls' : k \in Elements(m.held)
      BY <1>1 DEF Referenced
    <3>3. (\E m \in Calls' : k \in Elements(m.held)) <=>
            k \in Elements(Tail(Top.held)) \/ \E m \in Below : k \in Elements(m.held)
      BY <2>7
    <3>. QED BY <3>1, <3>2, <3>3
  <2>11. /\ \A m \in CallsOf(rest) : m \in Calls \/ (m.pc = "wake" /\ m.task # Null)
         /\ \A m \in Calls : m \in CallsOf(rest) \/ (m.pc = "wake" /\ m.who = {})
    BY <2>2, <2>4, <1>1, <1>2, <1>3
  <2>12. Head(rest).pc \notin {"started", "notify"}
    BY <2>2, <2>4
  <2>. QED BY <1>1, <2>1, <2>3, <2>4, <2>6, <2>9, <2>10, <2>11, <2>12, DropOK
<1>. QED BY <1>4, <1>5

-----------------------------------------------------------------------------
(* The release of a task goes on. *)

\* The innermost call goes on, and resumes nothing.
LEMMA TopReplaced ==
  ASSUME IInv, stack # <<>>, NEW w \in Call, stack' = <<w>> \o Rest, w.task = Top.task,
         UNCHANGED <<handle, captured>>, w.pc \in Releasing <=> Top.pc \in Releasing,
         w.pc \in {"started", "notify"} => Top.pc \in {"started", "notify"},
         w.pc # "action", Top.pc # "action"
  PROVE  /\ Calls' = {w} \cup Below /\ Calls = {Top} \cup Below
         /\ Stacked(handle', captured', stack') /\ Joined(stack')
<1>1. /\ Rest \in Seq(Call) /\ Top \in Call /\ CallsOf(Rest) = Below /\ Calls = {Top} \cup Below
      /\ Supported(handle, captured, Top, Below) /\ Stacked(handle, captured, Rest)
      /\ Joined(<<Top>> \o Rest)
  BY StackNow DEF Below
<1>2. Supported(handle, captured, w, Below)
  BY <1>1, SupportedOn
<1>3. Joined(<<w>> \o Rest)
  BY <1>1, JoinedPut
<1>4. Calls' = {w} \cup CallsOf(Rest)
  BY <1>1, Pushed
<1>5. Stacked(handle', captured', stack') <=>
        Stacked(handle', captured', Rest) /\ Supported(handle', captured', w, CallsOf(Rest))
  BY <1>1, Pushed
<1>. QED BY <1>1, <1>2, <1>3, <1>4, <1>5

LEMMA ReleaseOn ==
  ASSUME IInv, TypeOK', stack # <<>>, Top.pc \in Releasing, NEW w \in Call, stack' = <<w>> \o Rest,
         w.task = Top.task, w.pc \in Releasing, w.held = <<>>,
         ~Referenced(w.task)' => CallOK(w)',
         UNCHANGED <<object, mapped, handle, captured, status, co, next_list, waits, callers, awaiting>>
  PROVE  IInv'
<1>1. /\ Calls' = {w} \cup Below /\ Calls = {Top} \cup Below
      /\ Stacked(handle', captured', stack') /\ Joined(stack')
  BY TopReplaced DEF Releasing
<1>2. Top.task \in Task /\ ~Referenced(Top.task) /\ Top.held = <<>>
  BY AtRest DEF CallOK, Releasing
<1>3. /\ \A m \in Calls : m.held # <<>> => m \in Calls'
      /\ \A n \in Calls' : n.held # <<>> => n \in Calls
  BY <1>1, <1>2
<1>4. \A k \in Task : Referenced(k)' <=> Referenced(k)
  BY <1>3, SameReferences
<1>5. CallOK(w)'
  BY <1>2, <1>4
<1>6. /\ \A m \in Calls : m.pc \in {"started", "notify", "activate", "action", "wake"} => m \in Calls'
      /\ \A m \in Calls' : m.pc \in {"started", "notify", "activate", "action", "wake"} => m \in Calls
  BY <1>1 DEF Releasing
<1>7. \A m \in Calls : m.pc \in Releasing => \E n \in Calls' : Destroys(n, m.task)
  BY <1>1 DEF Destroys
<1>8. ASSUME NEW a \in Awaiter PROVE AwaiterAt(a)'
  <2>1. AwaiterAt(a) /\ awaiting[a] \in Task \cup {Null}
    BY DEF IInv, AwaiterInv, TypeOK
  <2>2. \A m \in Calls : m.pc = "wake" => m \in Calls'
    BY <1>6
  <2>. QED BY <2>1, <2>2, AwaiterKept
<1>9. \A m \in Calls' : m \in Calls \/ CallOK(m)'
  BY <1>1, <1>5
<1>. QED BY <1>1, <1>3, <1>6, <1>7, <1>8, <1>9, QuietStep DEF AwaiterInv

LEMMA DestroyActionOK ==
  ASSUME IInv, TypeOK', DestroyAction
  PROVE  IInv'
<1>1. /\ stack # <<>> /\ Top.pc = "release" /\ Rest = Tail(stack)
      /\ stack' = <<[Top EXCEPT !.pc = "captures", !.coro = Saved]>> \o Rest
      /\ UNCHANGED <<object, mapped, handle, captured, status, co, next_list, waits, callers, awaiting>>
  BY StackNow DEF DestroyAction, At
<1>2. Top \in Call /\ CallOK(Top) /\ Top.pc \in Releasing
  BY <1>1, StackNow, TaskOf DEF Releasing
<1>3. PICK w \in Call : /\ stack' = <<w>> \o Rest /\ w.pc = "captures" /\ w.task = Top.task
                        /\ w.held = Top.held /\ w.coro
  <2>. DEFINE v == [Top EXCEPT !.pc = "captures", !.coro = Saved]
  <2>1. "captures" \in Label /\ TRUE \in BOOLEAN
    BY DEF Label
  <2>2. v \in Call
    BY <1>2, <2>1, CallRecords DEF Saved
  <2>3. v.pc = "captures" /\ v.task = Top.task /\ v.held = Top.held /\ v.coro
    BY <1>2 DEF Saved, Call
  <2>4. stack' = <<v>> \o Rest
    BY <1>1
  <2>. HIDE DEF v
  <2>. QED BY <2>2, <2>3, <2>4
<1>4. ~Referenced(w.task)' => CallOK(w)'
  BY <1>1, <1>2, <1>3 DEF CallOK, Releasing
<1>5. w.held = <<>> /\ w.pc \in Releasing
  BY <1>1, <1>2, <1>3 DEF CallOK, Releasing
<1>. QED BY <1>1, <1>2, <1>3, <1>4, <1>5, ReleaseOn

\* Goto(), when the call is one of a release.
LEMMA GotoIs ==
  ASSUME IInv, stack # <<>>, NEW l \in Label
  PROVE  \E w \in Call : /\ Goto(l) = <<w>> \o Rest /\ w.pc = l /\ w.task = Top.task
                         /\ w.held = Top.held /\ w.coro = Top.coro
<1>1. Top \in Call /\ Rest = Tail(stack)
  BY StackNow
<1>. DEFINE w == [Top EXCEPT !.pc = l]
<1>2. w \in Call /\ w.pc = l /\ w.task = Top.task /\ w.held = Top.held /\ w.coro = Top.coro
  BY <1>1, CallRecords DEF Call
<1>3. Goto(l) = <<w>> \o Rest
  BY <1>1 DEF Goto
<1>. HIDE DEF w
<1>. QED BY <1>2, <1>3

LEMMA DropCapturesOK ==
  ASSUME IInv, TypeOK', DropCaptures
  PROVE  IInv'
<1>1. /\ At("captures") /\ stack # <<>> /\ Top.pc = "captures" /\ Top.pc \in Releasing
      /\ UNCHANGED <<object, mapped, handle, status, co, next_list, waits, callers, awaiting>>
  BY DEF DropCaptures, At, Releasing
<1>2. CASE captured[Top.task] = {}
  <2>1. stack' = Goto("destroy_task") /\ UNCHANGED captured
    BY <1>2 DEF DropCaptures
  <2>2. PICK w \in Call : /\ stack' = <<w>> \o Rest /\ w.pc = "destroy_task" /\ w.task = Top.task
                          /\ w.held = Top.held /\ w.coro = Top.coro
    BY <1>1, <2>1, GotoIs DEF Label
  <2>3. CallOK(Top)
    BY <1>1, StackNow, TaskOf
  <2>4. w.pc \in Releasing /\ w.held = <<>>
    BY <1>1, <2>2, <2>3 DEF CallOK, Releasing
  <2>5. ~Referenced(w.task)' => CallOK(w)'
    BY <1>1, <1>2, <2>1, <2>2, <2>3 DEF CallOK, Releasing
  <2>. QED BY <1>1, <2>1, <2>2, <2>4, <2>5, ReleaseOn
<1>3. CASE captured[Top.task] # {}
  <2>1. PICK j \in captured[Top.task] :
          /\ captured' = [captured EXCEPT ![Top.task] = @ \ {j}]
          /\ stack' = Dropped(j, stack)
    BY <1>3 DEF DropCaptures
  <2>. QED BY <1>1, <2>1, DropCaptureOK
<1>. QED BY <1>2, <1>3

\* The next list is empty by now, so that nothing goes with the members.
LEMMA DestroyMembersOK ==
  ASSUME IInv, TypeOK', DestroyMembers
  PROVE  IInv'
<1>1. /\ stack # <<>> /\ Top.pc = "members" /\ Top.pc \in Releasing
      /\ UNCHANGED <<object, captured, handle, status, co, waits, callers, awaiting>>
  BY DEF DestroyMembers, At, Releasing
<1>2. Top.task \in Task /\ CallOK(Top) /\ \A e \in Below : e.task # Top.task
  BY <1>1, AtRest
<1>3. Calls = {Top} \cup Below
  BY <1>1, StackNow
<1>4. next_list[Top.task] = <<>> /\ Top.coro /\ mapped[Top.task]
  BY <1>1, <1>2, <1>3 DEF CallOK, Releasing
<1>5. mapped' = mapped /\ stack' = Goto("base") /\ next_list' = next_list
  <2>1. mapped \in [Task -> BOOLEAN] /\ mapped' = [mapped EXCEPT ![Top.task] = Top.coro]
    BY <1>4 DEF DestroyMembers, IInv, TypeOK
  <2>2. Top.coro = TRUE /\ mapped[Top.task] = TRUE
    <3>1. Top.coro \in BOOLEAN
      BY <1>1, StackNow, CallRecords
    <3>. QED BY <2>1, <1>2, <1>4, <3>1
  <2>3. mapped' = mapped
    BY <2>1, <2>2, <1>2
  <2>. QED BY <2>3, <1>4 DEF DestroyMembers
<1>6. PICK w \in Call : /\ stack' = <<w>> \o Rest /\ w.pc = "base" /\ w.task = Top.task
                        /\ w.held = Top.held /\ w.coro = Top.coro
  BY <1>1, <1>5, GotoIs DEF Label
<1>7. w.pc \in Releasing /\ w.held = <<>>
  BY <1>1, <1>2, <1>6 DEF CallOK, Releasing
<1>8. callers[Top.task] = {}
  BY <1>1, <1>2, <1>3 DEF CallOK, Releasing
<1>9. ~Referenced(w.task)' => CallOK(w)'
  BY <1>1, <1>2, <1>4, <1>5, <1>6, <1>8 DEF CallOK, Releasing
<1>. QED BY <1>1, <1>5, <1>6, <1>7, <1>9, ReleaseOn

-----------------------------------------------------------------------------
(* A coroutine is started or resumed. *)

LEMMA StartedIs ==
  ASSUME NEW l \in Label, NEW k \in Task
  PROVE  /\ NewCall(l, k) \in Call /\ NewCall(l, k).pc = l
         /\ NewCall(l, k).task = k /\ NewCall(l, k).held = <<>>
BY CallRecords DEF NewCall

LEMMA KeptMore ==
  ASSUME NEW h, NEW ca, NEW m, NEW D, Kept(h, ca, m, D), NEW n, n.task = m.task, NEW E, D \subseteq E
  PROVE  Kept(h, ca, n, E)
BY DEF Kept

\* start() of n above the calls of rest, which are those of the stack, but for a list
\* that n was taken from.
LEMMA StartOn ==
  ASSUME IInv, TypeOK', NEW n \in Task, Startable(n), Referenced(n), NEW rest \in Seq(Call),
         stack' = <<NewCall("action", n)>> \o (<<NewCall("started", n)>> \o rest),
         status' = [status EXCEPT ![n] = RUNNING], co' = [co EXCEPT ![n] = "RUNNING"],
         UNCHANGED <<object, mapped, handle, captured, next_list, callers, waits, awaiting>>,
         Stacked(handle, captured, rest), Joined(rest),
         rest # <<>> => Head(rest).pc \notin {"started", "notify"},
         Kept(handle, captured, NewCall("started", n), CallsOf(rest)),
         \A m \in CallsOf(rest) : m \in Calls \/ (m.pc = "activate" /\ CallOK(m)'),
         \A m \in CallsOf(rest) : m.held # <<>> => \E e \in Calls : e.held = m.held,
         \A m \in Calls : \/ m \in CallsOf(rest)
                          \/ /\ m.pc = "activate"
                             /\ \E e \in CallsOf(rest) :
                                  /\ e.pc = "activate" /\ e.task = m.task /\ e.held = m.held
                                  /\ \A x \in Elements(m.todo) : x = n \/ x \in Elements(e.todo)
  PROVE  IInv'
<1>. DEFINE A == NewCall("action", n)
            S == NewCall("started", n)
            under == <<S>> \o rest
<1>1. /\ A \in Call /\ A.pc = "action" /\ A.task = n /\ A.held = <<>>
      /\ S \in Call /\ S.pc = "started" /\ S.task = n /\ S.held = <<>>
  BY StartedIs DEF Label
<1>2. stack' = <<A>> \o under /\ Kept(handle, captured, S, CallsOf(rest))
  OBVIOUS
<1>. HIDE DEF A, S
<1>3. /\ under \in Seq(Call) /\ under # <<>> /\ Head(under) = S /\ CallsOf(under) = {S} \cup CallsOf(rest)
  BY <1>1, Put
<1>4. /\ \A m \in Calls : ~Drives(m, n) /\ ~(m.pc = "action" /\ m.task = n)
      /\ ~Completed(n) /\ ~Exiting(n) /\ co[n] # "RUNNING"
  BY StartableNow
<1>5. /\ \A m \in CallsOf(rest) : ~Drives(m, n)
      /\ \A m \in CallsOf(rest) : ~(m.pc = "action" /\ m.task = n)
  BY <1>4 DEF Drives
<1>6. Supported(handle, captured, S, CallsOf(rest))
  BY <1>1, <1>2, <1>5 DEF Supported, Releasing
<1>7. Stacked(handle, captured, under) /\ Joined(under)
  BY <1>1, <1>6, StackedPut, JoinedPut
<1>8. Supported(handle, captured, A, CallsOf(under))
  <2>1. Kept(handle, captured, A, CallsOf(under))
    BY <1>1, <1>2, <1>3, KeptMore
  <2>. QED BY <2>1, <1>1 DEF Supported, Releasing
<1>9. Stacked(handle', captured', stack') /\ Joined(stack') /\ Calls' = {A, S} \cup CallsOf(rest)
  <2>1. Drives(S, n)
    BY <1>1 DEF Drives
  <2>2. Calls' = {A} \cup CallsOf(under)
    BY <1>1, <1>2, <1>3, Pushed
  <2>. HIDE DEF under
  <2>3. Stacked(handle', captured', stack')
    <3>1. Stacked(handle', captured', under) /\ Supported(handle', captured', A, CallsOf(under))
      BY <1>7, <1>8
    <3>. QED BY <3>1, <1>1, <1>2, <1>3, Pushed
  <2>4. Joined(stack')
    BY <2>1, <1>1, <1>2, <1>3, <1>7, Pushed
  <2>. QED BY <2>2, <2>3, <2>4, <1>3
<1>. HIDE DEF under
<1>10. status' \in [Task -> CREATED..TIMEOUT] /\ status \in [Task -> CREATED..TIMEOUT]
       /\ co \in [Task -> {"FRESH", "READY", "RUNNING", "FINISHED"}]
  BY DEF IInv, TypeOK
<1>11. /\ status'[n] = RUNNING /\ co'[n] = "RUNNING"
       /\ \A k \in Task \ {n} : status'[k] = status[k] /\ co'[k] = co[k]
       /\ \A k \in Task \ {n} : (Exiting(k)' <=> Exiting(k)) /\ (Completed(k)' <=> Completed(k))
       /\ ~Exiting(n)' /\ ~Completed(n)'
  BY <1>10 DEF Exiting, Completed, RUNNING, DONE
<1>12. \A k \in Task : Referenced(k)' <=> Referenced(k)
  <2>1. \A m \in Calls : m.held # <<>> => \E e \in Calls' : e.held = m.held
    BY <1>9
  <2>2. \A m \in Calls' : m.held # <<>> => \E e \in Calls : e.held = m.held
    BY <1>1, <1>9
  <2>. QED BY <2>1, <2>2, SameReferences
<1>13. /\ \A m \in Calls : m.pc = "activate" => \E e \in Calls' : e.pc = "activate" /\ e.task = m.task
       /\ \A m \in Calls : m.pc # "activate" => m \in Calls'
       /\ \A m \in Calls' : m.pc # "activate" => m \in Calls \/ m = A \/ m = S
  BY <1>9
<1>14. CallsOK'
  <2>1. CallOK(A)' /\ CallOK(S)'
    BY <1>1, LifetimeAssumption DEF CallOK, Releasing
  <2>2. \A m \in Calls' : m \in Calls \/ CallOK(m)'
    BY <2>1, <1>9
  <2>3. \A k \in Task : Exiting(k) => Exiting(k)'
    BY <1>4, <1>11
  <2>4. \A k \in Task : ~Referenced(k) => k # n
    OBVIOUS
  <2>. QED BY <2>2, <2>3, <2>4, <1>11, <1>12, <1>13, CallsKept
<1>15. ASSUME NEW k \in Task PROVE ReferenceAt(k)'
  <2>1. ReferenceAt(k) /\ object[n] = "alive"
    BY ReferencedNow DEF IInv, ReferenceInv
  <2>2. (\E m \in Calls : Destroys(m, k)) => \E m \in Calls' : Destroys(m, k)
    BY <1>13 DEF Destroys, Releasing
  <2>3. object[k] # "alive" => status'[k] = status[k] /\ co'[k] = co[k]
    BY <2>1, <1>11
  <2>. QED BY <2>1, <2>2, <2>3, <1>12, ReferenceKept
<1>16. ASSUME NEW k \in Task PROVE StatusAt(k)'
  <2>1. StatusAt(k)
    BY DEF IInv, StatusInv
  <2>2. CASE k = n
    <3>1. \E m \in Calls' : m.pc = "started" /\ m.task = n
      BY <1>1, <1>9
    <3>2. \E m \in Calls' : m.pc = "action" /\ m.task = n
      BY <1>1, <1>9
    <3>. QED BY <2>2, <3>1, <3>2, <1>11 DEF StatusAt, RUNNING, CREATED, WAITING
  <2>3. CASE k # n
    <3>1. \A m : m.pc \in {"started", "notify", "action"} /\ m.task = k => (m \in Calls' <=> m \in Calls)
      BY <2>3, <1>1, <1>13
    <3>2. (\E m \in Calls : m.pc \in {"started", "notify", "activate"} /\ m.task = k) =>
             \E m \in Calls' : m.pc \in {"started", "notify", "activate"} /\ m.task = k
      BY <1>13
    <3>. QED BY <2>1, <2>3, <3>1, <3>2, <1>11 DEF StatusAt, Drives
  <2>. QED BY <2>2, <2>3
<1>17. ASSUME NEW k \in Task PROVE WaitAt(k)'
  <2>1. WaitAt(k) /\ waits[k] \in Task \cup {Null}
    BY DEF IInv, WaitInv, TypeOK
  <2>2. \A j \in Task : Completed(j) => Completed(j)'
    BY <1>4, <1>11
  <2>3. (\E m \in Calls : m.pc = "activate" /\ k \in Elements(m.todo)) =>
           co'[k] = "RUNNING" \/ \E m \in Calls' : m.pc = "activate" /\ k \in Elements(m.todo)
    BY <1>9, <1>11
  <2>4. /\ co[k] \in {"READY", "RUNNING"} => co'[k] \in {"READY", "RUNNING"}
        /\ co[k] = "RUNNING" => co'[k] = "RUNNING"
    BY <1>11
  <2>. QED BY <2>1, <2>2, <2>3, <2>4, WaitKept
<1>18. ASSUME NEW a \in Awaiter PROVE AwaiterAt(a)'
  <2>1. AwaiterAt(a) /\ awaiting[a] \in Task \cup {Null}
    BY DEF IInv, AwaiterInv, TypeOK
  <2>2. \A m \in Calls : m.pc = "wake" => m \in Calls'
    BY <1>13
  <2>. QED BY <2>1, <2>2, AwaiterKept
<1>. QED BY <1>9, <1>14, <1>15, <1>16, <1>17, <1>18
          DEF IInv, StackOK, ReferenceInv, StatusInv, WaitInv, AwaiterInv

\* A client starts n.
LEMMA ClientStarts ==
  ASSUME IInv, TypeOK', Client, NEW n \in Task, n \in Reachable, Startable(n),
         status' = [status EXCEPT ![n] = RUNNING], Run(n, <<NewCall("started", n)>> \o stack),
         UNCHANGED <<object, mapped, handle, captured, next_list, callers, waits, awaiting>>
  PROVE  IInv'
<1>1. /\ Referenced(n) /\ Kept(handle, captured, NewCall("started", n), Calls)
  BY ReachableNow, StartedIs DEF Label
<1>2. /\ stack \in Seq(Call) /\ Stacked(handle, captured, stack) /\ Joined(stack) /\ CallsOf(stack) = Calls
  BY StackNow DEF Calls
<1>3. stack # <<>> => Head(stack).pc \notin {"started", "notify"}
  BY DEF Client, Top
<1>4. /\ stack' = <<NewCall("action", n)>> \o (<<NewCall("started", n)>> \o stack)
      /\ co' = [co EXCEPT ![n] = "RUNNING"]
  BY DEF Run, Entered
<1>. QED BY <1>1, <1>2, <1>3, <1>4, StartOn

LEMMA StartOK ==
  ASSUME IInv, TypeOK', NEW k \in Task, Start(k)
  PROVE  IInv'
BY ClientStarts DEF Start

\* The list goes on behind its first element.
LEMMA ListOn ==
  ASSUME NEW t \in Seq(Task), t # <<>>
  PROVE  /\ Head(t) \in Task /\ Tail(t) \in Seq(Task)
         /\ \A x : x \in Elements(t) <=> x = Head(t) \/ x \in Elements(Tail(t))
<1>1. /\ Head(t) = t[1] /\ Len(t) \in Nat /\ 1 \in 1..Len(t)
      /\ \A i \in 1..Len(Tail(t)) : i + 1 \in 1..Len(t) /\ Tail(t)[i] = t[i + 1]
      /\ \A i \in 1..Len(t) : i # 1 => i - 1 \in 1..Len(Tail(t)) /\ Tail(t)[i - 1] = t[i]
  OBVIOUS
<1>2. \A x : x \in Elements(t) <=> x = Head(t) \/ x \in Elements(Tail(t))
  BY <1>1 DEF Elements
<1>. QED BY <1>2

LEMMA ActivateOK ==
  ASSUME IInv, TypeOK', Activate
  PROVE  IInv'
<1>1. /\ stack # <<>> /\ Top.pc = "activate" /\ Top.todo # <<>> /\ Rest = Tail(stack)
      /\ UNCHANGED <<object, mapped, handle, captured, next_list, callers, waits, awaiting>>
  BY StackNow DEF Activate, At
<1>2. /\ Rest \in Seq(Call) /\ Top \in Call /\ Calls = {Top} \cup Below /\ Top \in Calls
      /\ Supported(handle, captured, Top, Below) /\ Stacked(handle, captured, Rest) /\ Joined(<<Top>> \o Rest)
      /\ CallsOf(Rest) = Below
  BY <1>1, StackNow DEF Below
<1>3. /\ Top.held \in Seq(Task) /\ Top.todo \in Seq(Task) /\ Top.task # Null /\ Top.task \in Task
      /\ Elements(Top.todo) \subseteq Elements(Top.held)
  BY <1>1, <1>2, TaskOf DEF CallOK
<1>4. PICK n \in Task : n = Head(Top.todo)
  BY <1>1, <1>3
<1>5. \A x : x \in Elements(Top.todo) <=> x = n \/ x \in Elements(Tail(Top.todo))
  BY <1>1, <1>3, <1>4, ListOn
<1>6. PICK w \in Call : /\ w = [Top EXCEPT !.todo = Tail(@), !.held = StillHeld(Top)]
                        /\ w.pc = "activate" /\ w.task = Top.task /\ w.held = Top.held
                        /\ w.todo = Tail(Top.todo)
  <2>. DEFINE v == [Top EXCEPT !.todo = Tail(Top.todo), !.held = Top.held]
  <2>1. v \in Call
    <3>1. Tail(Top.todo) \in Seq(Task)
      BY <1>1, <1>3
    <3>. QED BY <3>1, <1>2, <1>3, CallRecords
  <2>2. v.pc = "activate" /\ v.task = Top.task /\ v.held = Top.held /\ v.todo = Tail(Top.todo)
    BY <1>1, <1>2 DEF Call
  <2>3. v = [Top EXCEPT !.todo = Tail(@), !.held = StillHeld(Top)]
    BY DEF StillHeld
  <2>. HIDE DEF v
  <2>. QED BY <2>1, <2>2, <2>3
<1>7. /\ <<w>> \o Rest \in Seq(Call) /\ CallsOf(<<w>> \o Rest) = {w} \cup Below
      /\ Head(<<w>> \o Rest) = w /\ Stacked(handle, captured, <<w>> \o Rest) /\ Joined(<<w>> \o Rest)
  <2>1. Supported(handle, captured, w, Below)
    BY <1>1, <1>2, <1>6, SupportedOn DEF Releasing
  <2>2. Joined(<<w>> \o Rest)
    BY <1>1, <1>2, <1>6, JoinedPut
  <2>. QED BY <2>1, <2>2, <1>2, <1>6, Put, StackedPut
<1>8. CallOK(w)'
  BY <1>3, <1>5, <1>6 DEF CallOK, Releasing
<1>9. CASE Startable(n)
  <2>1. status' = [status EXCEPT ![n] = RUNNING] /\ Run(n, <<NewCall("started", n)>> \o (<<w>> \o Rest))
    BY <1>1, <1>4, <1>6, <1>9 DEF Activate, Activated
  <2>2. n \in Elements(Top.held)
    BY <1>3, <1>5
  <2>3. Referenced(n)
    BY <2>2, <1>2 DEF Referenced
  <2>. DEFINE rest == <<w>> \o Rest
  <2>4. Kept(handle, captured, NewCall("started", n), CallsOf(rest))
    <3>1. NewCall("started", n).task = n
      BY StartedIs DEF Label
    <3>2. w \in CallsOf(rest)
      BY <1>7
    <3>. HIDE DEF rest
    <3>. QED BY <2>2, <3>1, <3>2, <1>6 DEF Kept
  <2>5. /\ stack' = <<NewCall("action", n)>> \o (<<NewCall("started", n)>> \o rest)
        /\ co' = [co EXCEPT ![n] = "RUNNING"]
    BY <2>1 DEF Run, Entered
  <2>6. /\ \A m \in CallsOf(rest) : m \in Calls \/ (m.pc = "activate" /\ CallOK(m)')
        /\ \A m \in CallsOf(rest) : m.held # <<>> => \E e \in Calls : e.held = m.held
    BY <1>2, <1>6, <1>7, <1>8
  <2>7. \A m \in Calls : \/ m \in CallsOf(rest)
                          \/ /\ m.pc = "activate"
                             /\ \E e \in CallsOf(rest) :
                                  /\ e.pc = "activate" /\ e.task = m.task /\ e.held = m.held
                                  /\ \A x \in Elements(m.todo) : x = n \/ x \in Elements(e.todo)
    BY <1>1, <1>2, <1>5, <1>6, <1>7
  <2>8. /\ rest \in Seq(Call) /\ Stacked(handle, captured, rest) /\ Joined(rest)
        /\ rest # <<>> => Head(rest).pc \notin {"started", "notify"}
    BY <1>6, <1>7
  <2>. HIDE DEF rest
  <2>. QED BY <1>1, <1>9, <2>1, <2>3, <2>4, <2>5, <2>6, <2>7, <2>8, StartOn
<1>10. CASE ~Startable(n)
  <2>1. stack' = <<w>> \o Rest /\ UNCHANGED <<status, co>>
    BY <1>1, <1>4, <1>6, <1>10 DEF Activate, Activated
  <2>2. Calls' = {w} \cup Below /\ Stacked(handle', captured', stack') /\ Joined(stack')
    BY <2>1, <1>1, <1>7 DEF Calls
  <2>3. \A k \in Task : Referenced(k)' <=> Referenced(k)
    <3>1. \A m \in Calls : m.held # <<>> => \E e \in Calls' : e.held = m.held
      BY <2>2, <1>2, <1>6
    <3>2. \A m \in Calls' : m.held # <<>> => \E e \in Calls : e.held = m.held
      BY <2>2, <1>2, <1>6
    <3>. QED BY <3>1, <3>2, <1>1, SameReferences
  <2>4. /\ \A m \in Calls : m.pc = "activate" => \E e \in Calls' : e.pc = "activate" /\ e.task = m.task
        /\ \A m \in Calls : m.pc # "activate" => m \in Calls'
        /\ \A m \in Calls' : m.pc # "activate" => m \in Calls
    BY <2>2, <1>1, <1>2, <1>6
  <2>5. CallsOK'
    <3>1. \A m \in Calls' : m \in Calls \/ CallOK(m)'
      BY <2>2, <1>2, <1>8
    <3>2. \A k \in Task : Exiting(k) => Exiting(k)'
      BY <2>1 DEF Exiting
    <3>. QED BY <3>1, <3>2, <2>1, <2>3, <2>4, <1>1, CallsKept
  <2>6. ASSUME NEW k \in Task PROVE ReferenceAt(k)'
    <3>1. ReferenceAt(k)
      BY DEF IInv, ReferenceInv
    <3>2. (\E m \in Calls : Destroys(m, k)) => \E m \in Calls' : Destroys(m, k)
      BY <2>4 DEF Destroys, Releasing
    <3>. QED BY <3>1, <3>2, <2>1, <2>3, <1>1, ReferenceKept
  <2>7. ASSUME NEW k \in Task PROVE StatusAt(k)'
    <3>1. StatusAt(k) /\ (Exiting(k)' <=> Exiting(k)) /\ (Completed(k)' <=> Completed(k))
      BY <2>1 DEF IInv, StatusInv, Exiting, Completed
    <3>. QED BY <3>1, <2>1, <2>4, <1>1 DEF StatusAt, Drives
  <2>8. ASSUME NEW k \in Task PROVE WaitAt(k)'
    <3>1. WaitAt(k) /\ waits[k] \in Task \cup {Null}
      BY DEF IInv, WaitInv, TypeOK
    <3>2. \A j \in Task : Completed(j) => Completed(j)'
      BY <2>1 DEF Completed
    <3>3. waits[n] # Null => co[n] = "RUNNING"
      <4>1. ASSUME waits[n] # Null PROVE \E m \in Below : m.pc \in {"started", "notify"} /\ m.task = n
        <5>1. WaitAt(n) /\ StatusAt(n) /\ status[n] \in CREATED..TIMEOUT
          BY DEF IInv, WaitInv, StatusInv, TypeOK
        <5>2. ~Completed(n)
          BY <4>1, <5>1 DEF WaitAt, Completed
        <5>3. status[n] = RUNNING \/ Exiting(n)
          BY <5>1, <1>10 DEF Startable, Exiting, CREATED, RUNNING, WAITING, DONE, TIMEOUT
        <5>4. \E m \in Calls : m.pc \in {"started", "notify"} /\ m.task = n
          BY <5>1, <5>2, <5>3 DEF StatusAt, Drives
        <5>. QED BY <5>4, <1>1, <1>2
      <4>. QED BY <4>1, DriverBelow
    <3>4. CASE waits[k] = Null
      BY <3>4, <1>1 DEF WaitAt
    <3>5. CASE waits[k] # Null
      <4>1. (\E m \in Calls : m.pc = "activate" /\ k \in Elements(m.todo)) =>
              co'[k] = "RUNNING" \/ \E m \in Calls' : m.pc = "activate" /\ k \in Elements(m.todo)
        <5>1. k = n => co'[k] = "RUNNING"
          BY <3>3, <3>5, <2>1
        <5>2. ASSUME k # n, NEW m \in Calls, m.pc = "activate", k \in Elements(m.todo)
              PROVE  \E e \in Calls' : e.pc = "activate" /\ k \in Elements(e.todo)
          <6>1. CASE m = Top
            BY <5>2, <6>1, <2>2, <1>5, <1>6
          <6>2. CASE m # Top
            BY <5>2, <6>2, <2>2, <1>2
          <6>. QED BY <6>1, <6>2
        <5>. QED BY <5>1, <5>2
      <4>. QED BY <4>1, <3>1, <3>2, <2>1, <1>1, WaitKept
    <3>. QED BY <3>4, <3>5
  <2>9. ASSUME NEW a \in Awaiter PROVE AwaiterAt(a)'
    <3>1. AwaiterAt(a) /\ awaiting[a] \in Task \cup {Null}
      BY DEF IInv, AwaiterInv, TypeOK
    <3>2. \A m \in Calls : m.pc = "wake" => m \in Calls'
      BY <2>4
    <3>. QED BY <3>1, <3>2, <1>1, AwaiterKept
  <2>. QED BY <2>2, <2>5, <2>6, <2>7, <2>8, <2>9
          DEF IInv, StackOK, ReferenceInv, StatusInv, WaitInv, AwaiterInv
<1>. QED BY <1>9, <1>10

-----------------------------------------------------------------------------
(* What an action does, and what happens when its coroutine comes back. *)

\* A step that takes nobody out of a list of callers, nor from those to be woken,
\* forgets no awaiter.
LEMMA AwaitersStay ==
  ASSUME IInv, UNCHANGED awaiting,
         \A x \in Task : callers[x] \subseteq callers'[x],
         \A m \in Calls : m.pc = "wake" => m \in Calls'
  PROVE  AwaiterInv'
<1>1. ASSUME NEW a \in Awaiter PROVE AwaiterAt(a)'
  <2>1. AwaiterAt(a) /\ awaiting[a] \in Task \cup {Null}
    BY DEF IInv, AwaiterInv, TypeOK
  <2>. QED BY <2>1, AwaiterKept
<1>. QED BY <1>1 DEF AwaiterInv

LEMMA ActionLeft ==
  ASSUME IInv, TypeOK', At("action"), NEW k \in Task, Top.task = k, stack' = Tail(stack),
         NEW s \in {"READY", "FINISHED"}, co' = [co EXCEPT ![k] = s],
         UNCHANGED <<object, mapped, handle, captured, status, callers, awaiting>>,
         \A x \in Task : Referenced(x)' <=> Referenced(x),
         \A x \in Task : next_list'[x] # next_list[x] => Referenced(x) /\ ~Exiting(x),
         WaitInv'
  PROVE  IInv'
<1>1. /\ stack # <<>> /\ Top.pc = "action" /\ Rest = Tail(stack) /\ Calls = {Top} \cup Below /\ Top \in Calls
      /\ stack' = Rest
  BY StackNow DEF At
<1>2. /\ Stacked(handle', captured', stack') /\ Joined(stack') /\ Calls' = Below
  BY <1>1, StackNow DEF Calls, Below
<1>3. /\ Head(Rest) \in Below /\ Drives(Head(Rest), k)
      /\ \A e \in Below : ~(e.pc = "action" /\ e.task = k)
  BY TopAction
<1>4. co \in [Task -> {"FRESH", "READY", "RUNNING", "FINISHED"}]
  BY DEF IInv, TypeOK
<1>5. /\ co[k] = "RUNNING" /\ status[k] \notin {CREATED, WAITING}
      /\ object[k] = "alive"
  BY <1>1, ActionNow, InStack
<1>6. \A m \in Calls : m.pc # "action" => m \in Calls'
  BY <1>1, <1>2
<1>7. \A m \in Calls : m.pc = "action" /\ m.task # k => m \in Calls'
  BY <1>1, <1>2
<1>8. Calls' \subseteq Calls
  BY <1>1, <1>2
<1>9. \A x \in Task : Exiting(x)' <=> Exiting(x)
  BY DEF Exiting
<1>10. CallsOK'
  <2>1. \A m \in Calls : m.pc \in {"notify", "activate"} => m \in Calls'
    BY <1>6
  <2>2. \A x \in Task : ~Referenced(x) => next_list'[x] = next_list[x]
    OBVIOUS
  <2>. QED BY <2>1, <2>2, <1>8, <1>9, CallsKept
<1>11. ASSUME NEW x \in Task PROVE ReferenceAt(x)'
  <2>1. ReferenceAt(x)
    BY DEF IInv, ReferenceInv
  <2>2. (\E m \in Calls : Destroys(m, x)) => \E m \in Calls' : Destroys(m, x)
    BY <1>6 DEF Destroys, Releasing
  <2>3. object[x] # "alive" => co'[x] = co[x]
    BY <1>4, <1>5
  <2>. QED BY <2>1, <2>2, <2>3, ReferenceKept
<1>12. ASSUME NEW x \in Task PROVE StatusAt(x)'
  <2>1. StatusAt(x)
    BY DEF IInv, StatusInv
  <2>2. \A m : m.pc \in {"started", "notify", "activate"} => (m \in Calls' <=> m \in Calls)
    BY <1>6, <1>8
  <2>3. CASE x = k
    <3>1. co'[k] # "RUNNING" /\ ~(\E m \in Calls' : m.pc = "action" /\ m.task = k)
      BY <1>2, <1>3, <1>4
    <3>2. Exiting(k) \/ \E m \in Calls' : m.pc = "started" /\ m.task = k
      <4>1. CASE Head(Rest).pc = "started"
        BY <4>1, <1>2, <1>3 DEF Drives
      <4>2. CASE Head(Rest).pc = "notify"
        <5>1. Head(Rest) \in Calls
          BY <1>1, <1>3
        <5>2. CallOK(Head(Rest)) /\ Head(Rest).task = k
          BY <5>1, <1>3, TaskOf DEF Drives
        <5>. QED BY <5>2, <4>2 DEF CallOK
      <4>. QED BY <4>1, <4>2, <1>3 DEF Drives
    <3>3. \E m \in Calls' : Drives(m, k)
      BY <1>2, <1>3
    <3>4. \E m \in Calls' : m.pc \in {"started", "notify", "activate"} /\ m.task = k
      BY <3>3 DEF Drives
    <3>5. status'[k] = status[k]
      OBVIOUS
    <3>6. status[k] = RUNNING => \E m \in Calls' : m.pc = "started" /\ m.task = k
      BY <2>1, <2>2, <2>3 DEF StatusAt
    <3>. QED BY <2>3, <3>1, <3>2, <3>3, <3>4, <3>5, <3>6, <1>5, <1>9 DEF StatusAt
  <2>4. CASE x # k
    <3>1. co'[x] = co[x] /\ (Completed(x)' <=> Completed(x))
      BY <2>4, <1>4 DEF Completed
    <3>2. \A m : m.pc = "action" /\ m.task = x => (m \in Calls' <=> m \in Calls)
      BY <2>4, <1>7, <1>8
    <3>3. Exiting(x) => next_list'[x] = next_list[x]
      OBVIOUS
    <3>. QED BY <2>1, <2>2, <3>1, <3>2, <3>3, <1>9 DEF StatusAt, Drives
  <2>. QED BY <2>3, <2>4
<1>13. AwaiterInv'
  BY <1>6, AwaitersStay
<1>. QED BY <1>2, <1>10, <1>11, <1>12, <1>13 DEF IInv, StackOK, ReferenceInv, StatusInv

\* The action of k suspends itself or ends, and who waits for k goes on waiting.
LEMMA ActionStops ==
  ASSUME IInv, TypeOK', At("action"), NEW k \in Task, Top.task = k, stack' = Tail(stack),
         NEW s \in {"READY", "FINISHED"}, co' = [co EXCEPT ![k] = s],
         UNCHANGED <<object, mapped, handle, captured, status, next_list, callers, waits, awaiting>>,
         waits[k] # Null => s = "READY" /\ ~Completed(waits[k])
  PROVE  IInv'
<1>1. /\ stack # <<>> /\ Calls = {Top} \cup Below /\ Calls' = Below /\ Top \in Calls /\ Top.pc = "action"
  BY StackNow DEF At, Calls, Below
<1>2. Top.held = <<>>
  BY <1>1, TaskOf DEF CallOK
<1>3. \A x \in Task : Referenced(x)' <=> Referenced(x)
  BY <1>1, <1>2, SameReferences
<1>4. co[k] = "RUNNING" /\ co \in [Task -> {"FRESH", "READY", "RUNNING", "FINISHED"}]
  BY <1>1, ActionNow DEF IInv, TypeOK
<1>5. ASSUME NEW x \in Task PROVE WaitAt(x)'
  <2>1. WaitAt(x) /\ waits[x] \in Task \cup {Null}
    BY DEF IInv, WaitInv, TypeOK
  <2>2. \A j \in Task : Completed(j) => Completed(j)'
    BY <1>4 DEF Completed
  <2>3. CASE x = k
    <3>1. CASE waits[k] = Null
      BY <3>1, <2>3 DEF WaitAt
    <3>2. CASE waits[k] # Null
      <4>1. co'[k] = "READY" /\ k \in Elements(next_list'[waits'[k]])
        BY <3>2, <2>1, <2>3, <1>4 DEF WaitAt
      <4>. QED BY <4>1, <2>3 DEF WaitAt
    <3>. QED BY <3>1, <3>2
  <2>4. CASE x # k
    <3>1. co'[x] = co[x]
      BY <2>4, <1>4
    <3>2. \A m \in Calls : m.pc = "activate" => m \in Calls'
      BY <1>1
    <3>. QED BY <2>1, <2>2, <3>1, <3>2, WaitKept
  <2>. QED BY <2>3, <2>4
<1>. QED BY <1>3, <1>5, ActionLeft DEF WaitInv

LEMMA YieldOK ==
  ASSUME IInv, TypeOK', NEW k \in Task, Yield(k)
  PROVE  IInv'
BY ActionStops DEF Yield, InAction

LEMMA FinishOK ==
  ASSUME IInv, TypeOK', NEW k \in Task, Finish(k)
  PROVE  IInv'
BY ActionStops DEF Finish, InAction

LEMMA AwaitLoopOK ==
  ASSUME IInv, TypeOK', NEW k \in Task, AwaitLoop(k)
  PROVE  IInv'
<1>1. CASE Exiting(waits[k]) \/ Completed(waits[k]) \/ Exiting(k)
  BY <1>1, AwaitEndOK DEF AwaitLoop
<1>2. CASE ~(Exiting(waits[k]) \/ Completed(waits[k]) \/ Exiting(k))
  BY <1>2, ActionStops DEF AwaitLoop
<1>. QED BY <1>1, <1>2

\* What is appended to a list.
LEMMA ListGrows ==
  ASSUME NEW t \in Seq(Task), NEW n \in Task
  PROVE  \A x : x \in Elements(Append(t, n)) <=> x = n \/ x \in Elements(t)
<1>. DEFINE u == Append(t, n)
<1>1. /\ Len(t) \in Nat /\ Len(u) = Len(t) + 1 /\ u[Len(t) + 1] = n
      /\ \A i \in 1..Len(t) : u[i] = t[i] /\ i \in 1..Len(u)
  OBVIOUS
<1>2. \A i \in 1..Len(u) : i \in 1..Len(t) \/ i = Len(t) + 1
  BY <1>1
<1>3. Len(t) + 1 \in 1..Len(u)
  BY <1>1
<1>. HIDE DEF u
<1>4. \A x : x \in Elements(u) <=> x = n \/ x \in Elements(t)
  BY <1>1, <1>2, <1>3 DEF Elements
<1>. QED BY <1>4 DEF u

LEMMA AwaitOK ==
  ASSUME IInv, TypeOK', NEW k \in Task, NEW j \in Task, Await(k, j)
  PROVE  IInv'
<1>1. /\ At("action") /\ Top.task = k /\ waits[k] = Null /\ stack' = Tail(stack)
      /\ j \in Reachable /\ j # k /\ ~Exiting(j) /\ ~Completed(j) /\ ~Exiting(k)
      /\ next_list' = [next_list EXCEPT ![j] = Append(@, k)] /\ waits' = [waits EXCEPT ![k] = j]
      /\ co' = [co EXCEPT ![k] = "READY"]
      /\ UNCHANGED <<object, mapped, handle, captured, status, callers, awaiting>>
  BY DEF Await, InAction, MayAwait
<1>2. /\ stack # <<>> /\ Calls = {Top} \cup Below /\ Calls' = Below /\ Top \in Calls /\ Top.pc = "action"
  BY <1>1, StackNow DEF At, Calls, Below
<1>3. Top.held = <<>>
  BY <1>2, TaskOf DEF CallOK
<1>4. /\ co[k] = "RUNNING" /\ co \in [Task -> {"FRESH", "READY", "RUNNING", "FINISHED"}]
      /\ next_list \in [Task -> Seq(Task)] /\ waits \in [Task -> Task \cup {Null}]
      /\ status[k] \in CREATED..TIMEOUT /\ status[k] \notin {CREATED, WAITING}
  BY <1>1, <1>2, ActionNow DEF IInv, TypeOK
<1>5. Referenced(j)
  BY <1>1, <1>2, ReachableNow DEF Client
<1>6. Referenced(k)
  <2>1. ASSUME NEW e \in Calls, e.pc = "members", e.task = k PROVE FALSE
    <3>1. status[k] \notin {RUNNING, WAITING}
      BY <2>1, TaskOf DEF CallOK, Releasing
    <3>. QED BY <3>1, <1>1, <1>4 DEF Exiting, CREATED, RUNNING, WAITING, DONE, TIMEOUT
  <2>2. "action" \notin Releasing
    BY DEF Releasing
  <2>. QED BY <2>1, <2>2, <1>1, <1>2, InStack
<1>7. /\ \A i \in Task : i # j => next_list'[i] = next_list[i]
      /\ \A x : x \in Elements(next_list'[j]) <=> x = k \/ x \in Elements(next_list[j])
      /\ \A i \in Task : i # k => waits'[i] = waits[i]
      /\ waits'[k] = j
  BY <1>1, <1>4, ListGrows
<1>8. \A x \in Task : Referenced(x)' <=> Referenced(x)
  <2>1. \A x : (\E m \in Calls' : x \in Elements(m.held)) <=> (\E m \in Calls : x \in Elements(m.held))
    BY <1>2, <1>3 DEF Elements
  <2>2. ASSUME NEW x \in Task, Referenced(x) PROVE Referenced(x)'
    <3>1. \A i \in Task : waits[i] = x => waits'[i] = x
      BY <1>1, <1>7, LifetimeAssumption
    <3>2. \A i \in Task : x \in Elements(next_list[i]) => x \in Elements(next_list'[i])
      BY <1>7
    <3>. QED BY <3>1, <3>2, <2>1, <2>2, <1>1 DEF Referenced
  <2>3. ASSUME NEW x \in Task, Referenced(x)' PROVE Referenced(x)
    <3>1. \A i \in Task : waits'[i] = x => waits[i] = x \/ x = j
      BY <1>7
    <3>2. \A i \in Task : x \in Elements(next_list'[i]) => x \in Elements(next_list[i]) \/ x = k
      BY <1>7
    <3>3. x = j \/ x = k \/ Referenced(x)
      BY <3>1, <3>2, <2>1, <2>3, <1>1 DEF Referenced
    <3>. QED BY <3>3, <1>5, <1>6
  <2>. QED BY <2>2, <2>3
<1>9. ASSUME NEW x \in Task PROVE WaitAt(x)'
  <2>1. WaitAt(x) /\ waits[x] \in Task \cup {Null}
    BY DEF IInv, WaitInv, TypeOK
  <2>2. CASE x = k
    <3>1. co'[k] = "READY"
      BY <1>1, <1>4
    <3>. QED BY <2>2, <3>1, <1>7 DEF WaitAt
  <2>3. CASE x # k
    <3>1. co'[x] = co[x] /\ waits'[x] = waits[x]
      BY <2>3, <1>1, <1>4, <1>7
    <3>2. \A i \in Task : Completed(i) => Completed(i)'
      BY <1>1, <1>4 DEF Completed
    <3>3. \A m \in Calls : m.pc = "activate" => m \in Calls'
      BY <1>2
    <3>4. \A i \in Task : x \in Elements(next_list[i]) => x \in Elements(next_list'[i])
      BY <1>7
    <3>. QED BY <2>1, <3>1, <3>2, <3>3, <3>4, WaitKept
  <2>. QED BY <2>2, <2>3
<1>10. \A x \in Task : next_list'[x] # next_list[x] => Referenced(x) /\ ~Exiting(x)
  BY <1>1, <1>5, <1>7
<1>. QED BY <1>1, <1>8, <1>9, <1>10, ActionLeft DEF WaitInv

\* next() of a task that is not over: n goes into its list.
LEMMA NextOK ==
  ASSUME IInv, TypeOK', NEW k \in Task, NEW n \in Task, Next_(k, n)
  PROVE  IInv'
<1>1. /\ Client /\ k \in Reachable /\ n \in Reachable
      /\ UNCHANGED <<object, mapped, handle, captured, callers, waits, awaiting>>
  BY DEF Next_
<1>2. CASE Startable(n) /\ status' = [status EXCEPT ![n] = RUNNING]
           /\ Run(n, <<NewCall("started", n)>> \o stack) /\ UNCHANGED next_list
  BY <1>1, <1>2, ClientStarts
<1>3. CASE /\ ~Exiting(k) /\ next_list' = [next_list EXCEPT ![k] = Append(@, n)]
           /\ UNCHANGED <<status, co, stack>>
  <2>1. Referenced(k) /\ Referenced(n) /\ Calls' = Calls /\ next_list \in [Task -> Seq(Task)]
    BY <1>1, <1>3, ReachableNow DEF Calls, IInv, TypeOK
  <2>2. /\ \A i \in Task : i # k => next_list'[i] = next_list[i]
        /\ \A x : x \in Elements(next_list'[k]) <=> x = n \/ x \in Elements(next_list[k])
    BY <1>3, <2>1, ListGrows
  <2>3. \A x \in Task : Referenced(x)' <=> Referenced(x)
    <3>1. \A i \in Task, x \in Task : x \in Elements(next_list[i]) => x \in Elements(next_list'[i])
      BY <2>2
    <3>2. \A i \in Task, x \in Task : x \in Elements(next_list'[i]) => x \in Elements(next_list[i]) \/ x = n
      BY <2>2
    <3>3. \A x \in Task : Referenced(x) => Referenced(x)'
      BY <3>1, <2>1, <1>1 DEF Referenced
    <3>4. \A x \in Task : Referenced(x)' => Referenced(x) \/ x = n
      BY <3>2, <2>1, <1>1 DEF Referenced
    <3>. QED BY <3>3, <3>4, <2>1
  <2>4. \A x \in Task : (Exiting(x)' <=> Exiting(x)) /\ (Completed(x)' <=> Completed(x))
    BY <1>3 DEF Exiting, Completed
  <2>5. CallsOK'
    <3>1. \A x \in Task : ~Referenced(x) => next_list'[x] = next_list[x]
      BY <2>1, <2>2
    <3>. QED BY <3>1, <2>1, <2>3, <2>4, <1>1, <1>3, CallsKept
  <2>6. ASSUME NEW x \in Task PROVE ReferenceAt(x)' /\ StatusAt(x)' /\ WaitAt(x)'
    <3>1. ReferenceAt(x) /\ StatusAt(x) /\ WaitAt(x) /\ waits[x] \in Task \cup {Null}
      BY DEF IInv, ReferenceInv, StatusInv, WaitInv, TypeOK
    <3>2. ReferenceAt(x)'
      BY <3>1, <2>1, <2>3, <1>1, <1>3, ReferenceKept
    <3>3. StatusAt(x)'
      <4>1. Exiting(x) => next_list'[x] = next_list[x]
        BY <2>2, <1>3
      <4>2. Untouched(x)
        BY <2>1 DEF Untouched
      <4>. QED BY <3>1, <4>1, <4>2, <1>1, <1>3, StatusKept
    <3>4. WaitAt(x)'
      <4>1. \A i \in Task : x \in Elements(next_list[i]) => x \in Elements(next_list'[i])
        BY <2>2
      <4>. QED BY <3>1, <4>1, <2>1, <2>4, <1>1, <1>3, WaitKept
    <3>. QED BY <3>2, <3>3, <3>4
  <2>7. AwaiterInv'
    BY <2>1, <1>1, AwaitersStay
  <2>8. StackOK' /\ Joined(stack')
    BY <1>1, <1>3 DEF IInv, StackOK
  <2>. QED BY <2>5, <2>6, <2>7, <2>8 DEF IInv, ReferenceInv, StatusInv, WaitInv
<1>. QED BY <1>2, <1>3 DEF Next_

-----------------------------------------------------------------------------
(* start(), kill() and _notify_finished(). *)

LEMMA WaitsStay ==
  ASSUME IInv, UNCHANGED <<waits, co>>,
         \A i \in Task, x \in Task : x \in Elements(next_list[i]) => x \in Elements(next_list'[i]),
         \A m \in Calls : m.pc = "activate" => m \in Calls'
  PROVE  WaitInv'
<1>1. ASSUME NEW x \in Task PROVE WaitAt(x)'
  <2>1. WaitAt(x) /\ waits[x] \in Task \cup {Null}
    BY DEF IInv, WaitInv, TypeOK
  <2>2. \A j \in Task : Completed(j) => Completed(j)'
    BY DEF Completed
  <2>. QED BY <2>1, <2>2, WaitKept
<1>. QED BY <1>1 DEF WaitInv

LEMMA ReferencesStay ==
  ASSUME IInv, \A x \in Task : Referenced(x)' <=> Referenced(x),
         UNCHANGED <<object, mapped, captured, co, callers>>,
         \A x \in Task : object[x] # "alive" => status'[x] = status[x],
         \A m \in Calls : m.pc \in Releasing => \E n \in Calls' : Destroys(n, m.task)
  PROVE  ReferenceInv'
<1>1. ASSUME NEW x \in Task PROVE ReferenceAt(x)'
  <2>1. ReferenceAt(x)
    BY DEF IInv, ReferenceInv
  <2>2. (\E m \in Calls : Destroys(m, x)) => \E m \in Calls' : Destroys(m, x)
    BY DEF Destroys
  <2>. QED BY <2>1, <2>2, ReferenceKept
<1>. QED BY <1>1 DEF ReferenceInv

LEMMA Statuses ==
  ASSUME IInv, NEW k \in Task
  PROVE  /\ status[k] \in {CREATED, RUNNING, WAITING} \/ Exiting(k)
         /\ status[k] \in {CREATED, RUNNING, WAITING} => ~Exiting(k)
         /\ status[k] \in CREATED..TIMEOUT
BY DEF IInv, TypeOK, CREATED, RUNNING, WAITING, DONE, TIMEOUT, Exiting

LEMMA SettleOK ==
  ASSUME IInv, TypeOK', Settle
  PROVE  IInv'
<1>1. /\ stack # <<>> /\ Top.pc = "started" /\ Rest = Tail(stack) /\ Calls = {Top} \cup Below /\ Top \in Calls
      /\ UNCHANGED <<object, mapped, handle, captured, co, next_list, callers, waits, awaiting>>
  BY StackNow DEF Settle, At
<1>2. PICK k \in Task : k = Top.task
  BY <1>1, TaskOf
<1>3. Top.held = <<>> /\ object[k] = "alive"
  BY <1>1, <1>2, TaskOf, InStack DEF CallOK
<1>4. \A e \in Below : ~Drives(e, k)
  BY <1>1, <1>2, StackNow DEF Supported
<1>5. StatusAt(k) /\ status[k] \notin {CREATED, WAITING} /\ status \in [Task -> CREATED..TIMEOUT]
  <2>1. StatusAt(k) /\ Drives(Top, k)
    BY <1>1, <1>2 DEF IInv, StatusInv, Drives
  <2>. QED BY <2>1, <1>1 DEF StatusAt, IInv, TypeOK
<1>6. \A x \in Task : Completed(x)' <=> Completed(x)
  BY <1>1 DEF Completed
<1>7. CASE Completed(k) \/ Exiting(k)
  <2>1. status' = [status EXCEPT ![k] = IF Exiting(k) THEN @ ELSE DONE] /\ stack' = Goto("notify")
    BY <1>2, <1>7 DEF Settle
  <2>2. PICK w \in Call : /\ stack' = <<w>> \o Rest /\ w.pc = "notify" /\ w.task = k /\ w.held = <<>>
    <3>1. "notify" \in Label
      BY DEF Label
    <3>2. PICK w \in Call : /\ Goto("notify") = <<w>> \o Rest /\ w.pc = "notify" /\ w.task = Top.task
                            /\ w.held = Top.held
      BY <3>1, <1>1, GotoIs
    <3>. QED BY <3>2, <2>1, <1>2, <1>3
  <2>3. /\ Calls' = {w} \cup Below /\ Stacked(handle', captured', stack') /\ Joined(stack')
    BY <2>2, <1>1, <1>2, TopReplaced DEF Releasing
  <2>4. /\ \A x \in Task \ {k} : status'[x] = status[x]
        /\ Exiting(k)' /\ status'[k] \notin {CREATED, RUNNING, WAITING}
        /\ \A x \in Task : Exiting(x) => Exiting(x)'
    <3>1. status'[k] = IF Exiting(k) THEN status[k] ELSE DONE
      BY <2>1, <1>5
    <3>2. \A x \in Task \ {k} : status'[x] = status[x]
      BY <2>1, <1>5
    <3>3. Exiting(k)' /\ status'[k] \notin {CREATED, RUNNING, WAITING}
      BY <3>1, Statuses DEF Exiting, CREATED, RUNNING, WAITING, DONE
    <3>. QED BY <3>2, <3>3 DEF Exiting
  <2>5. /\ \A m \in Calls : m.pc # "started" => m \in Calls'
        /\ \A m \in Calls' : m.pc # "notify" => m \in Calls
        /\ \A m \in Calls : m.task # k => m \in Calls'
        /\ \A m \in Calls' : m.task # k => m \in Calls
    BY <2>2, <2>3, <1>1, <1>2
  <2>6. \A x \in Task : Referenced(x)' <=> Referenced(x)
    <3>1. \A m \in Calls : m.held # <<>> => m \in Calls'
      BY <2>3, <1>1, <1>3
    <3>2. \A m \in Calls' : m.held # <<>> => m \in Calls
      BY <2>2, <2>3, <1>1
    <3>. QED BY <3>1, <3>2, <1>1, SameReferences
  <2>7. CallsOK'
    <3>1. CallOK(w)'
      BY <2>2, <2>4, LifetimeAssumption DEF CallOK, Releasing
    <3>2. \A m \in Calls' : m \in Calls \/ CallOK(m)'
      BY <3>1, <2>3, <1>1
    <3>3. \A x \in Task : status[x] \notin {RUNNING, WAITING} => status'[x] \notin {RUNNING, WAITING}
      BY <2>4
    <3>. QED BY <3>2, <3>3, <2>4, <2>5, <2>6, <1>1, CallsKept
  <2>8. ReferenceInv'
    <3>1. \A m \in Calls : m.pc \in Releasing => \E n \in Calls' : Destroys(n, m.task)
      BY <2>5 DEF Destroys, Releasing
    <3>2. \A x \in Task : object[x] # "alive" => status'[x] = status[x]
      BY <2>4, <1>3
    <3>. QED BY <3>1, <3>2, <2>6, <1>1, ReferencesStay
  <2>9. ASSUME NEW x \in Task PROVE StatusAt(x)'
    <3>1. StatusAt(x)
      BY DEF IInv, StatusInv
    <3>2. CASE x = k
      <4>1. Drives(w, k) /\ w \in Calls'
        BY <2>2, <2>3 DEF Drives
      <4>2. \A m : m.pc = "action" => (m \in Calls' <=> m \in Calls)
        BY <2>5
      <4>3. (co[k] = "RUNNING")' <=> \E m \in Calls' : m.pc = "action" /\ m.task = k
        BY <4>2, <1>1, <1>5 DEF StatusAt
      <4>. QED BY <3>2, <4>1, <4>3, <2>4 DEF StatusAt, Drives
    <3>3. CASE x # k
      <4>1. Untouched(x)
        BY <3>3, <2>5 DEF Untouched
      <4>. QED BY <3>1, <3>3, <4>1, <2>4, <1>1, StatusKept
    <3>. QED BY <3>2, <3>3
  <2>10. WaitInv' /\ AwaiterInv'
    BY <2>5, <1>1, WaitsStay, AwaitersStay
  <2>. QED BY <2>3, <2>7, <2>8, <2>9, <2>10 DEF IInv, StackOK, StatusInv
<1>8. CASE ~(Completed(k) \/ Exiting(k))
  <2>1. status' = [status EXCEPT ![k] = WAITING] /\ stack' = Rest
    BY <1>1, <1>2, <1>8 DEF Settle
  <2>2. Calls' = Below /\ Stacked(handle', captured', stack') /\ Joined(stack')
    BY <2>1, <1>1, StackNow DEF Calls, Below
  <2>3. status[k] = RUNNING
    BY <1>5, <1>8, Statuses
  <2>4. /\ \A x \in Task \ {k} : status'[x] = status[x]
        /\ status'[k] = WAITING /\ ~Exiting(k)'
        /\ \A x \in Task : Exiting(x) => Exiting(x)'
    <3>1. status'[k] = WAITING /\ \A x \in Task \ {k} : status'[x] = status[x]
      BY <2>1, <1>5
    <3>. QED BY <3>1, <1>8 DEF Exiting, WAITING, DONE
  <2>5. /\ \A m \in Calls : m.pc # "started" => m \in Calls'
        /\ Calls' \subseteq Calls
        /\ \A m \in Calls : m.task # k => m \in Calls'
    BY <2>2, <1>1, <1>2
  <2>6. \A x \in Task : Referenced(x)' <=> Referenced(x)
    <3>1. \A m \in Calls : m.held # <<>> => m \in Calls'
      BY <2>2, <1>1, <1>3
    <3>. QED BY <3>1, <2>5, <1>1, SameReferences
  <2>7. CallsOK'
    <3>1. \A x \in Task : status[x] \notin {RUNNING, WAITING} => status'[x] \notin {RUNNING, WAITING}
      BY <2>3, <2>4
    <3>. QED BY <3>1, <2>4, <2>5, <2>6, <1>1, CallsKept
  <2>8. ReferenceInv'
    <3>1. \A m \in Calls : m.pc \in Releasing => \E n \in Calls' : Destroys(n, m.task)
      BY <2>5 DEF Destroys, Releasing
    <3>2. \A x \in Task : object[x] # "alive" => status'[x] = status[x]
      BY <2>4, <1>3
    <3>. QED BY <3>1, <3>2, <2>6, <1>1, ReferencesStay
  <2>9. ASSUME NEW x \in Task PROVE StatusAt(x)'
    <3>1. StatusAt(x)
      BY DEF IInv, StatusInv
    <3>2. CASE x = k
      <4>1. \A m : m.pc = "action" => (m \in Calls' <=> m \in Calls)
        BY <2>5
      <4>2. (co[k] = "RUNNING")' <=> \E m \in Calls' : m.pc = "action" /\ m.task = k
        BY <4>1, <1>1, <1>5 DEF StatusAt
      <4>3. ~Completed(k)'
        BY <1>6, <1>8
      <4>. QED BY <3>2, <4>2, <4>3, <2>2, <2>4, <1>4 DEF StatusAt, CREATED, RUNNING, WAITING
    <3>3. CASE x # k
      <4>1. Untouched(x)
        BY <3>3, <2>5 DEF Untouched
      <4>. QED BY <3>1, <3>3, <4>1, <2>4, <1>1, StatusKept
    <3>. QED BY <3>2, <3>3
  <2>10. WaitInv' /\ AwaiterInv'
    BY <2>5, <1>1, WaitsStay, AwaitersStay
  <2>. QED BY <2>2, <2>7, <2>8, <2>9, <2>10 DEF IInv, StackOK, StatusInv
<1>. QED BY <1>7, <1>8

\* kill() of k, which client code has a pointer to, or ~task() of one that no pointer
\* leads to any more: the status is set and k is notified, above the calls of rest.
LEMMA KilledOn ==
  ASSUME IInv, TypeOK', NEW k \in Task, object[k] = "alive", NEW s \in {KILLED, TIMEOUT},
         status' = [status EXCEPT ![k] = s], NEW rest \in Seq(Call),
         stack' = <<NewCall("notify", k)>> \o rest,
         UNCHANGED <<object, mapped, handle, captured, co, next_list, callers, waits, awaiting>>,
         Stacked(handle, captured, rest), Joined(rest),
         rest # <<>> => Head(rest).pc \notin {"started", "notify"},
         Kept(handle, captured, NewCall("notify", k), CallsOf(rest)),
         \A m \in CallsOf(rest) : ~Drives(m, k),
         \A m \in CallsOf(rest) :
            m \in Calls \/ (m.pc = "members" /\ m.held = <<>> /\ (~Referenced(m.task)' => CallOK(m)')
                             /\ m.task \in Task /\ ~Referenced(m.task)),
         \A m \in Calls : m \in CallsOf(rest) \/
           (m.pc = "destroy_task" /\ \E e \in CallsOf(rest) : e.pc = "members" /\ e.task = m.task)
  PROVE  IInv'
<1>1. PICK N \in Call : N = NewCall("notify", k) /\ N.pc = "notify" /\ N.task = k /\ N.held = <<>>
  BY StartedIs DEF Label
<1>2. Calls' = {N} \cup CallsOf(rest) /\ Stacked(handle', captured', stack') /\ Joined(stack')
  <2>1. Supported(handle, captured, N, CallsOf(rest))
    BY <1>1 DEF Supported, Releasing
  <2>2. stack' = <<N>> \o rest
    BY <1>1
  <2>3. Calls' = {N} \cup CallsOf(rest)
    BY <2>2, Pushed
  <2>4. Stacked(handle', captured', stack') <=>
          Stacked(handle', captured', rest) /\ Supported(handle', captured', N, CallsOf(rest))
    BY <2>2, Pushed
  <2>5. Joined(stack')
    BY <2>2, <1>1, Pushed
  <2>. QED BY <2>1, <2>3, <2>4, <2>5
<1>3. status \in [Task -> CREATED..TIMEOUT]
  BY DEF IInv, TypeOK
<1>4. /\ \A x \in Task \ {k} : status'[x] = status[x]
      /\ Exiting(k)' /\ status'[k] \notin {CREATED, RUNNING, WAITING}
      /\ \A x \in Task : Exiting(x) => Exiting(x)'
  <2>1. status'[k] = s /\ \A x \in Task \ {k} : status'[x] = status[x]
    BY <1>3
  <2>. QED BY <2>1 DEF Exiting, CREATED, RUNNING, WAITING, DONE, KILLED, TIMEOUT
<1>5. \A m \in Calls : m.held # <<>> => m \in CallsOf(rest)
  <2>1. \A m \in Calls : m.pc = "destroy_task" => m.held = <<>>
    BY TaskOf DEF CallOK
  <2>. QED BY <2>1
<1>6. \A x \in Task : Referenced(x)' <=> Referenced(x)
  <2>1. \A m \in Calls : m.held # <<>> => m \in Calls'
    BY <1>2, <1>5
  <2>2. \A m \in Calls' : m.held # <<>> => m \in Calls
    BY <1>1, <1>2
  <2>. QED BY <2>1, <2>2, SameReferences
<1>7. /\ \A m \in Calls : m.pc # "destroy_task" => m \in Calls'
      /\ \A m \in Calls' : m.pc # "members" => m \in Calls \/ m = N
      /\ \A m \in Calls : m.pc \in Releasing => \E n \in Calls' : Destroys(n, m.task)
  BY <1>2 DEF Destroys, Releasing
<1>8. CallsOK'
  <2>1. CallOK(N)'
    BY <1>1, <1>4, LifetimeAssumption DEF CallOK, Releasing
  <2>2. \A m \in Calls' : m \in Calls \/ CallOK(m)'
    BY <2>1, <1>2, <1>6
  <2>3. \A x \in Task : status[x] \notin {RUNNING, WAITING} => status'[x] \notin {RUNNING, WAITING}
    BY <1>4
  <2>. QED BY <2>2, <2>3, <1>4, <1>6, <1>7, CallsKept
<1>9. ReferenceInv'
  <2>1. \A x \in Task : object[x] # "alive" => status'[x] = status[x]
    BY <1>4
  <2>. QED BY <2>1, <1>6, <1>7, ReferencesStay
<1>10. ASSUME NEW x \in Task PROVE StatusAt(x)'
  <2>1. StatusAt(x)
    BY DEF IInv, StatusInv
  <2>2. CASE x = k
    <3>1. \A m : m.pc = "action" => (m \in Calls' <=> m \in Calls)
      BY <1>1, <1>7
    <3>2. (co[k] = "RUNNING")' <=> \E m \in Calls' : m.pc = "action" /\ m.task = k
      BY <3>1, <2>1, <2>2 DEF StatusAt
    <3>3. N \in Calls' /\ Drives(N, k)
      BY <1>1, <1>2 DEF Drives
    <3>. QED BY <2>2, <3>2, <3>3, <1>1, <1>4 DEF StatusAt
  <2>3. CASE x # k
    <3>1. \A m : m.pc \in {"started", "notify", "action", "activate"} /\ m.task = x =>
             (m \in Calls' <=> m \in Calls)
      BY <2>3, <1>1, <1>7
    <3>2. (Exiting(x)' <=> Exiting(x)) /\ (Completed(x)' <=> Completed(x)) /\ status'[x] = status[x]
      BY <2>3, <1>4 DEF Exiting, Completed
    <3>. QED BY <2>1, <3>1, <3>2 DEF StatusAt, Drives
  <2>. QED BY <2>2, <2>3
<1>11. WaitInv' /\ AwaiterInv'
  BY <1>7, WaitsStay, AwaitersStay
<1>. QED BY <1>2, <1>8, <1>9, <1>10, <1>11 DEF IInv, StackOK, StatusInv

LEMMA KillOK ==
  ASSUME IInv, TypeOK', NEW k \in Task, Kill(k)
  PROVE  IInv'
<1>1. /\ Client /\ k \in Reachable /\ (Exiting(k) => Completed(k) /\ ~InProgress(k))
      /\ status' = [status EXCEPT ![k] = KILLED]
      /\ stack' = IF status[k] = RUNNING THEN stack ELSE <<NewCall("notify", k)>> \o stack
      /\ UNCHANGED <<object, mapped, handle, captured, co, next_list, callers, waits, awaiting>>
  BY DEF Kill
<1>2. /\ Referenced(k) /\ object[k] = "alive" /\ Kept(handle, captured, NewCall("notify", k), Calls)
  <2>1. NewCall("notify", k).task = k
    BY StartedIs DEF Label
  <2>. QED BY <2>1, <1>1, ReachableNow, ReferencedNow
<1>3. stack \in Seq(Call) /\ Stacked(handle, captured, stack) /\ Joined(stack) /\ CallsOf(stack) = Calls
  BY StackNow DEF Calls
<1>4. StatusAt(k) /\ status \in [Task -> CREATED..TIMEOUT]
  BY DEF IInv, StatusInv, TypeOK
<1>5. CASE status[k] = RUNNING
  <2>1. Calls' = Calls /\ stack' = stack
    BY <1>1, <1>5 DEF Calls
  <2>2. /\ \A x \in Task \ {k} : status'[x] = status[x]
        /\ Exiting(k)' /\ status'[k] \notin {CREATED, RUNNING, WAITING}
        /\ \A x \in Task : Exiting(x) => Exiting(x)'
    <3>1. status'[k] = KILLED /\ \A x \in Task \ {k} : status'[x] = status[x]
      BY <1>1, <1>4
    <3>. QED BY <3>1 DEF Exiting, CREATED, RUNNING, WAITING, DONE, KILLED
  <2>3. \A x \in Task : Referenced(x)' <=> Referenced(x)
    BY <2>1, <1>1, SameReferences
  <2>4. CallsOK'
    <3>1. \A x \in Task : status[x] \notin {RUNNING, WAITING} => status'[x] \notin {RUNNING, WAITING}
      BY <2>2
    <3>. QED BY <3>1, <2>1, <2>2, <2>3, <1>1, CallsKept
  <2>5. ReferenceInv'
    <3>1. \A m \in Calls : m.pc \in Releasing => \E n \in Calls' : Destroys(n, m.task)
      BY <2>1 DEF Destroys
    <3>2. \A x \in Task : object[x] # "alive" => status'[x] = status[x]
      BY <2>2, <1>2
    <3>. QED BY <3>1, <3>2, <2>3, <1>1, ReferencesStay
  <2>6. ASSUME NEW x \in Task PROVE StatusAt(x)'
    <3>1. StatusAt(x)
      BY DEF IInv, StatusInv
    <3>2. CASE x = k
      <4>1. \E m \in Calls' : m.pc = "started" /\ m.task = k
        BY <2>1, <1>4, <1>5 DEF StatusAt
      <4>2. (co[k] = "RUNNING")' <=> \E m \in Calls' : m.pc = "action" /\ m.task = k
        BY <2>1, <1>1, <1>4 DEF StatusAt
      <4>. QED BY <3>2, <4>1, <4>2, <2>2 DEF StatusAt, Drives
    <3>3. CASE x # k
      <4>1. Untouched(x)
        BY <2>1 DEF Untouched
      <4>. QED BY <3>1, <3>3, <4>1, <2>2, <1>1, StatusKept
    <3>. QED BY <3>2, <3>3
  <2>7. WaitInv' /\ AwaiterInv'
    BY <2>1, <1>1, WaitsStay, AwaitersStay
  <2>8. StackOK' /\ Joined(stack')
    BY <2>1, <1>1, <1>3 DEF StackOK
  <2>. QED BY <2>4, <2>5, <2>6, <2>7, <2>8 DEF IInv, StatusInv
<1>6. CASE status[k] # RUNNING
  <2>1. \A m \in Calls : ~Drives(m, k)
    <3>1. CASE Exiting(k)
      BY <3>1, <1>1, <1>3 DEF InProgress, Calls, CallsOf, Drives
    <3>2. CASE ~Exiting(k)
      BY <3>2, <1>4, <1>6, Statuses DEF StatusAt
    <3>. QED BY <3>1, <3>2
  <2>2. stack # <<>> => Head(stack).pc \notin {"started", "notify"}
    BY <1>1 DEF Client, Top
  <2>. QED BY <2>1, <2>2, <1>1, <1>2, <1>3, <1>6, KilledOn
<1>. QED BY <1>5, <1>6

LEMMA NotifyResumeOK ==
  ASSUME IInv, TypeOK', NotifyResume
  PROVE  IInv'
<1>1. /\ stack # <<>> /\ Top.pc = "notify" /\ Calls = {Top} \cup Below /\ Top \in Calls
      /\ co[Top.task] \in {"FRESH", "READY"}
      /\ UNCHANGED <<object, mapped, handle, captured, status, next_list, callers, waits, awaiting>>
      /\ stack \in Seq(Call) /\ Stacked(handle, captured, stack) /\ Joined(stack) /\ CallsOf(stack) = Calls
  BY StackNow DEF NotifyResume, At, Calls
<1>2. PICK k \in Task : k = Top.task
  BY <1>1, TaskOf
<1>3. PICK A \in Call : A = NewCall("action", k) /\ A.pc = "action" /\ A.task = k /\ A.held = <<>>
  BY StartedIs DEF Label
<1>4. stack' = <<A>> \o stack /\ co' = [co EXCEPT ![k] = "RUNNING"]
  BY <1>2, <1>3 DEF NotifyResume, Run, Entered
<1>5. StatusAt(k) /\ Exiting(k) /\ Drives(Top, k) /\ object[k] = "alive"
  BY <1>1, <1>2, TaskOf, InStack DEF CallOK, Drives, IInv, StatusInv
<1>6. /\ co \in [Task -> {"FRESH", "READY", "RUNNING", "FINISHED"}] /\ co[k] # "RUNNING"
      /\ ~Completed(k)
  BY <1>1, <1>2 DEF IInv, TypeOK, Completed
<1>7. Calls' = {A} \cup Calls /\ Stacked(handle', captured', stack') /\ Joined(stack')
  <2>1. Kept(handle, captured, Top, Below)
    <3>1. Supported(handle, captured, Top, Below) /\ Top.task # Null
      BY <1>1, StackNow, TaskOf
    <3>. QED BY <3>1, <1>1 DEF Supported, Releasing
  <2>2. Supported(handle, captured, A, Calls)
    <3>1. Kept(handle, captured, A, Calls)
      BY <2>1, <1>1, <1>2, <1>3, KeptMore
    <3>. QED BY <3>1, <1>3 DEF Supported, Releasing
  <2>3. Calls' = {A} \cup Calls
    BY <1>1, <1>4, Pushed
  <2>4. Stacked(handle', captured', stack') <=>
          Stacked(handle', captured', stack) /\ Supported(handle', captured', A, Calls)
    BY <1>1, <1>4, Pushed
  <2>5. Joined(stack')
    <3>1. Head(stack) = Top
      BY DEF Top
    <3>. QED BY <3>1, <1>1, <1>2, <1>3, <1>4, <1>5, Pushed
  <2>. QED BY <2>2, <2>3, <2>4, <2>5, <1>1
<1>8. \A x \in Task : Referenced(x)' <=> Referenced(x)
  BY <1>1, <1>3, <1>7, SameReferences
<1>9. /\ co'[k] = "RUNNING" /\ \A x \in Task \ {k} : co'[x] = co[x]
      /\ \A x \in Task : Exiting(x)' <=> Exiting(x)
      /\ \A x \in Task : Completed(x)' <=> Completed(x)
  <2>1. co'[k] = "RUNNING" /\ \A x \in Task \ {k} : co'[x] = co[x]
    BY <1>4, <1>6
  <2>2. \A x \in Task : Completed(x)' <=> Completed(x)
    BY <2>1, <1>6 DEF Completed
  <2>. QED BY <2>1, <2>2, <1>1 DEF Exiting
<1>10. CallsOK'
  <2>1. CallOK(A)'
    BY <1>3, LifetimeAssumption DEF CallOK, Releasing
  <2>2. \A m \in Calls' : m \in Calls \/ CallOK(m)'
    BY <2>1, <1>7
  <2>3. \A m \in Calls : m \in Calls'
    BY <1>7
  <2>. QED BY <2>2, <2>3, <1>1, <1>8, <1>9, CallsKept
<1>11. ASSUME NEW x \in Task PROVE ReferenceAt(x)'
  <2>1. ReferenceAt(x)
    BY DEF IInv, ReferenceInv
  <2>2. (\E m \in Calls : Destroys(m, x)) => \E m \in Calls' : Destroys(m, x)
    BY <1>7
  <2>3. object[x] # "alive" => co'[x] = co[x]
    BY <1>5, <1>9
  <2>. QED BY <2>1, <2>2, <2>3, <1>1, <1>8, ReferenceKept
<1>12. ASSUME NEW x \in Task PROVE StatusAt(x)'
  <2>1. StatusAt(x)
    BY DEF IInv, StatusInv
  <2>2. CASE x = k
    <3>1. A \in Calls' /\ Top \in Calls'
      BY <1>1, <1>7
    <3>2. status'[k] \notin {CREATED, RUNNING, WAITING}
      BY <1>1, <1>5, Statuses
    <3>3. Exiting(k)' /\ ~Completed(k)'
      BY <1>5, <1>6, <1>9
    <3>. QED BY <2>2, <3>1, <3>2, <3>3, <1>1, <1>2, <1>3, <1>5, <1>9 DEF StatusAt
  <2>3. CASE x # k
    <3>1. Untouched(x)
      BY <2>3, <1>3, <1>7 DEF Untouched
    <3>. QED BY <2>1, <2>3, <3>1, <1>1, <1>9, StatusKept
  <2>. QED BY <2>2, <2>3
<1>13. ASSUME NEW x \in Task PROVE WaitAt(x)'
  <2>1. WaitAt(x) /\ waits[x] \in Task \cup {Null}
    BY DEF IInv, WaitInv, TypeOK
  <2>2. /\ co[x] \in {"READY", "RUNNING"} => co'[x] \in {"READY", "RUNNING"}
        /\ co[x] = "RUNNING" => co'[x] = "RUNNING"
    BY <1>9
  <2>3. \A m \in Calls : m \in Calls'
    BY <1>7
  <2>. QED BY <2>1, <2>2, <2>3, <1>1, <1>9, WaitKept
<1>14. AwaiterInv'
  BY <1>1, <1>7, AwaitersStay
<1>. QED BY <1>7, <1>10, <1>11, <1>12, <1>13, <1>14 DEF IInv, StackOK, ReferenceInv, StatusInv, WaitInv

\* A next list that is taken out keeps its pointers, and whoever waited in it for a
\* task that is over is going to be resumed.
LEMMA TakenReferences ==
  ASSUME IInv, NEW k \in Task, next_list' = [next_list EXCEPT ![k] = <<>>],
         UNCHANGED <<handle, captured, waits>>,
         NEW N, N.held = next_list[k], N \in Calls',
         \A m \in Calls : m.held # <<>> => m \in Calls',
         \A m \in Calls' : m.held # <<>> => m \in Calls \/ m = N
  PROVE  \A x \in Task : Referenced(x)' <=> Referenced(x)
<1>1. /\ next_list'[k] = <<>> /\ \A i \in Task \ {k} : next_list'[i] = next_list[i]
  BY DEF IInv, TypeOK
<1>2. Elements(<<>>) = {}
  BY DEF Elements
<1>3. ASSUME NEW x \in Task, Referenced(x) PROVE Referenced(x)'
  <2>1. \A m \in Calls : x \in Elements(m.held) => m \in Calls'
    BY <1>2
  <2>2. \A i \in Task : x \in Elements(next_list[i]) => x \in Elements(next_list'[i]) \/ x \in Elements(N.held)
    BY <1>1
  <2>. QED BY <2>1, <2>2, <1>3 DEF Referenced
<1>4. ASSUME NEW x \in Task, Referenced(x)' PROVE Referenced(x)
  <2>1. \A m \in Calls' : x \in Elements(m.held) => m \in Calls \/ x \in Elements(next_list[k])
    BY <1>2
  <2>2. \A i \in Task : x \in Elements(next_list'[i]) => x \in Elements(next_list[i])
    BY <1>1, <1>2
  <2>. QED BY <2>1, <2>2, <1>4 DEF Referenced
<1>. QED BY <1>3, <1>4

LEMMA ActivationIs ==
  ASSUME IInv, NEW k \in Task
  PROVE  \E N \in Call : /\ N = Activation(k) /\ N.pc = "activate" /\ N.task = k
                         /\ N.held = next_list[k] /\ N.todo = next_list[k]
<1>1. next_list[k] \in Seq(Task)
  BY DEF IInv, TypeOK
<1>2. PICK m \in Call : m = NewCall("activate", k) /\ m.pc = "activate" /\ m.task = k
  BY StartedIs DEF Label
<1>. DEFINE N == [m EXCEPT !.held = next_list[k], !.todo = next_list[k]]
<1>3. N \in Call /\ N.pc = "activate" /\ N.task = k /\ N.held = next_list[k] /\ N.todo = next_list[k]
  BY <1>1, <1>2 DEF Call
<1>4. N = Activation(k)
  BY <1>2 DEF Activation
<1>. HIDE DEF N
<1>. QED BY <1>3, <1>4

LEMMA NotifyNextOK ==
  ASSUME IInv, TypeOK', NotifyNext
  PROVE  IInv'
<1>1. /\ stack # <<>> /\ Top.pc = "notify" /\ Rest = Tail(stack) /\ Calls = {Top} \cup Below /\ Top \in Calls
      /\ UNCHANGED <<object, mapped, handle, captured, status, co, callers, waits, awaiting>>
  BY StackNow DEF NotifyNext, At
<1>2. PICK k \in Task : k = Top.task
  BY <1>1, TaskOf
<1>3. Completed(k) /\ next_list' = [next_list EXCEPT ![k] = <<>>] /\ stack' = <<Activation(k)>> \o Rest
  BY <1>1, <1>2 DEF NotifyNext, TakeNext
<1>4. PICK N \in Call : /\ stack' = <<N>> \o Rest /\ N.pc = "activate" /\ N.task = k
                        /\ N.held = next_list[k] /\ N.todo = next_list[k]
  BY <1>3, ActivationIs
<1>5. Top.held = <<>> /\ Exiting(k)
  BY <1>1, <1>2, TaskOf DEF CallOK
<1>6. Calls' = {N} \cup Below /\ Stacked(handle', captured', stack') /\ Joined(stack')
  BY <1>1, <1>2, <1>4, TopReplaced DEF Releasing
<1>7. /\ next_list'[k] = <<>> /\ \A x \in Task \ {k} : next_list'[x] = next_list[x]
  BY <1>3 DEF IInv, TypeOK
<1>8. \A x \in Task : Referenced(x)' <=> Referenced(x)
  <2>1. \A m \in Calls : m.held # <<>> => m \in Calls'
    BY <1>1, <1>5, <1>6
  <2>2. N \in Calls' /\ \A m \in Calls' : m.held # <<>> => m \in Calls \/ m = N
    BY <1>1, <1>6
  <2>. QED BY <2>1, <2>2, <1>1, <1>3, <1>4, TakenReferences
<1>9. /\ \A x \in Task : Exiting(x)' <=> Exiting(x)
      /\ \A x \in Task : Completed(x)' <=> Completed(x)
  BY <1>1 DEF Exiting, Completed
<1>10. /\ \A m \in Calls : m.pc # "notify" => m \in Calls'
       /\ \A m \in Calls : m.task # k => m \in Calls'
       /\ \A m \in Calls' : m.pc # "activate" => m \in Calls
       /\ \A m \in Calls' : m.task # k => m \in Calls
  BY <1>1, <1>2, <1>4, <1>6
<1>11. CallsOK'
  <2>1. CallOK(N)'
    BY <1>4, LifetimeAssumption DEF CallOK, Releasing
  <2>2. \A m \in Calls' : m \in Calls \/ CallOK(m)'
    BY <2>1, <1>1, <1>6
  <2>3. \A m \in Calls : m.pc = "notify" =>
            \/ \E n \in Calls' : n.pc = "notify" /\ n.task = m.task
            \/ next_list'[m.task] = <<>> /\ \E n \in Calls' : n.pc = "activate" /\ n.task = m.task
    BY <1>1, <1>2, <1>4, <1>6, <1>7
  <2>4. \A x \in Task : next_list'[x] # <<>> => next_list[x] # <<>>
    BY <1>7
  <2>. QED BY <2>2, <2>3, <2>4, <1>1, <1>8, <1>9, <1>10, CallsKept
<1>12. ReferenceInv'
  <2>1. \A m \in Calls : m.pc \in Releasing => \E n \in Calls' : Destroys(n, m.task)
    BY <1>10 DEF Destroys, Releasing
  <2>. QED BY <2>1, <1>1, <1>8, ReferencesStay
<1>13. ASSUME NEW x \in Task PROVE StatusAt(x)'
  <2>1. StatusAt(x)
    BY DEF IInv, StatusInv
  <2>2. CASE x = k
    <3>1. status'[k] \notin {CREATED, RUNNING, WAITING} /\ Exiting(k)' /\ Completed(k)'
      BY <1>1, <1>3, <1>5, <1>9, Statuses
    <3>2. N \in Calls' /\ \A m : m.pc = "action" => (m \in Calls' <=> m \in Calls)
      BY <1>6, <1>10
    <3>3. (co[k] = "RUNNING")' <=> \E m \in Calls' : m.pc = "action" /\ m.task = k
      BY <2>1, <2>2, <3>2, <1>1 DEF StatusAt
    <3>. QED BY <2>2, <3>1, <3>2, <3>3, <1>4, <1>7 DEF StatusAt
  <2>3. CASE x # k
    <3>1. Untouched(x)
      BY <2>3, <1>10 DEF Untouched
    <3>. QED BY <2>1, <2>3, <3>1, <1>1, <1>7, StatusKept
  <2>. QED BY <2>2, <2>3
<1>14. ASSUME NEW x \in Task PROVE WaitAt(x)'
  <2>1. WaitAt(x) /\ waits[x] \in Task \cup {Null}
    BY DEF IInv, WaitInv, TypeOK
  <2>2. CASE waits[x] # k
    <3>1. waits[x] = Null \/ next_list'[waits[x]] = next_list[waits[x]]
      BY <2>1, <2>2, <1>7
    <3>2. \A m \in Calls : m.pc = "activate" => m \in Calls'
      BY <1>10
    <3>. QED BY <2>1, <3>1, <3>2, <1>1, <1>9 DEF WaitAt
  <2>3. CASE waits[x] = k
    <3>1. ASSUME x \in Elements(next_list[k])
          PROVE  \E m \in Calls' : m.pc = "activate" /\ x \in Elements(m.todo)
      BY <3>1, <1>4, <1>6
    <3>2. \A m \in Calls : m.pc = "activate" => m \in Calls'
      BY <1>10
    <3>. QED BY <2>1, <2>3, <3>1, <3>2, <1>1, <1>3, <1>9 DEF WaitAt
  <2>. QED BY <2>2, <2>3
<1>15. AwaiterInv'
  BY <1>1, <1>10, AwaitersStay
<1>. QED BY <1>6, <1>11, <1>12, <1>13, <1>14, <1>15 DEF IInv, StackOK, StatusInv, WaitInv

LEMMA TakeCallersOK ==
  ASSUME IInv, TypeOK', TakeCallers
  PROVE  IInv'
<1>1. /\ stack # <<>> /\ Top.pc = "activate" /\ Top.todo = <<>> /\ Rest = Tail(stack)
      /\ Calls = {Top} \cup Below /\ Top \in Calls /\ Top \in Call
      /\ UNCHANGED <<object, mapped, handle, captured, status, co, next_list, waits, awaiting>>
  BY StackNow DEF TakeCallers, At
<1>2. PICK k \in Task : k = Top.task
  BY <1>1, TaskOf
<1>3. /\ callers' = [callers EXCEPT ![k] = {}] /\ callers \in [Task -> SUBSET Awaiter]
      /\ stack' = <<[Top EXCEPT !.pc = "wake", !.who = callers[k]]>> \o Rest
  BY <1>1, <1>2 DEF TakeCallers, IInv, TypeOK
<1>4. PICK w \in Call : /\ stack' = <<w>> \o Rest /\ w.pc = "wake" /\ w.task = k /\ w.held = Top.held
                        /\ w.who = callers[k]
  <2>. DEFINE v == [Top EXCEPT !.pc = "wake", !.who = callers[k]]
  <2>1. "wake" \in Label /\ callers[k] \in SUBSET Awaiter
    BY <1>3 DEF Label
  <2>2. v \in Call
    BY <2>1, <1>1, CallRecords
  <2>3. v.pc = "wake" /\ v.task = k /\ v.held = Top.held /\ v.who = callers[k] /\ stack' = <<v>> \o Rest
    BY <1>1, <1>2, <1>3 DEF Call
  <2>. HIDE DEF v
  <2>. QED BY <2>2, <2>3
<1>5. Calls' = {w} \cup Below /\ Stacked(handle', captured', stack') /\ Joined(stack')
  BY <1>1, <1>2, <1>4, TopReplaced DEF Releasing
<1>6. callers'[k] = {} /\ \A x \in Task \ {k} : callers'[x] = callers[x]
  BY <1>3
<1>7. \A x \in Task : Referenced(x)' <=> Referenced(x)
  <2>1. \A m \in Calls : m.held # <<>> => \E n \in Calls' : n.held = m.held
    BY <1>1, <1>4, <1>5
  <2>2. \A m \in Calls' : m.held # <<>> => \E n \in Calls : n.held = m.held
    BY <1>1, <1>4, <1>5
  <2>. QED BY <2>1, <2>2, <1>1, SameReferences
<1>8. /\ \A m \in Calls : m.pc # "activate" => m \in Calls'
      /\ \A m \in Calls : m.task # k => m \in Calls'
      /\ \A m \in Calls' : m.pc # "wake" => m \in Calls
      /\ \A m \in Calls' : m.task # k => m \in Calls
  BY <1>1, <1>2, <1>4, <1>5
<1>9. CallsOK'
  <2>1. CallOK(w)'
    BY <1>4, LifetimeAssumption, WakeOK
  <2>2. \A m \in Calls' : m \in Calls \/ CallOK(m)'
    BY <2>1, <1>1, <1>5
  <2>3. \A m \in Calls : m.pc = "activate" =>
            \/ \E n \in Calls' : n.pc = "activate" /\ n.task = m.task
            \/ callers'[m.task] = {}
    BY <1>6, <1>8
  <2>4. \A x \in Task : callers'[x] \subseteq callers[x] /\ (Exiting(x)' <=> Exiting(x))
    BY <1>1, <1>6 DEF Exiting
  <2>. QED BY <2>2, <2>3, <2>4, <1>1, <1>7, <1>8, CallsKept
<1>10. ASSUME NEW x \in Task PROVE ReferenceAt(x)'
  <2>1. ReferenceAt(x) /\ callers'[x] \subseteq callers[x]
    BY <1>6 DEF IInv, ReferenceInv
  <2>2. (\E m \in Calls : Destroys(m, x)) => \E m \in Calls' : Destroys(m, x)
    BY <1>8 DEF Destroys, Releasing
  <2>. QED BY <2>1, <2>2, <1>1, <1>7, ReferenceKept
<1>11. ASSUME NEW x \in Task PROVE StatusAt(x)'
  <2>1. StatusAt(x)
    BY DEF IInv, StatusInv
  <2>2. /\ \A m : m.pc \in {"started", "notify", "action"} => (m \in Calls' <=> m \in Calls)
        /\ (Exiting(x)' <=> Exiting(x)) /\ (Completed(x)' <=> Completed(x))
    BY <1>1, <1>8 DEF Exiting, Completed
  <2>3. CASE x = k
    BY <2>1, <2>2, <2>3, <1>1, <1>6 DEF StatusAt, Drives
  <2>4. CASE x # k
    <3>1. Untouched(x)
      BY <2>4, <1>8 DEF Untouched
    <3>. QED BY <2>1, <2>4, <3>1, <1>1, <1>6, StatusKept
  <2>. QED BY <2>3, <2>4
<1>12. ASSUME NEW x \in Task PROVE WaitAt(x)'
  <2>1. WaitAt(x) /\ (\A j \in Task : Completed(j)' <=> Completed(j)) /\ waits[x] \in Task \cup {Null}
    BY <1>1 DEF IInv, WaitInv, Completed, TypeOK
  <2>2. \A m \in Calls : m.pc = "activate" /\ x \in Elements(m.todo) => m \in Calls'
    BY <1>1, <1>5 DEF Elements
  <2>. QED BY <2>1, <2>2, <1>1, WaitKept
<1>13. ASSUME NEW a \in Awaiter PROVE AwaiterAt(a)'
  <2>1. AwaiterAt(a) /\ awaiting[a] \in Task \cup {Null}
    BY DEF IInv, AwaiterInv, TypeOK
  <2>2. \A x \in Task : a \in callers[x] =>
           a \in callers'[x] \/ \E m \in Calls' : m.pc = "wake" /\ m.task = x /\ a \in m.who
    BY <1>4, <1>5, <1>6
  <2>3. \A m \in Calls : m.pc = "wake" => m \in Calls'
    BY <1>8
  <2>. QED BY <2>1, <2>2, <2>3, <1>1, AwaiterKept
<1>. QED BY <1>5, <1>9, <1>10, <1>11, <1>12, <1>13
          DEF IInv, StackOK, ReferenceInv, StatusInv, WaitInv, AwaiterInv

-----------------------------------------------------------------------------
(* ~task() and what follows. *)

\* ~task() of k has gone on to its members, and what k waits for is notified.
LEMMA MembersNext ==
  ASSUME IInv, At("destroy_task"), NEW k \in Task, k = Top.task
  PROVE  \E w \in Call :
           /\ Goto("members") = <<w>> \o Rest
           /\ w.pc = "members" /\ w.task = k /\ w.held = <<>> /\ w.coro
           /\ <<w>> \o Rest \in Seq(Call) /\ CallsOf(<<w>> \o Rest) = {w} \cup Below
           /\ Head(<<w>> \o Rest) = w
           /\ Stacked(handle, captured, <<w>> \o Rest) /\ Joined(<<w>> \o Rest)
<1>1. stack # <<>> /\ Top.pc = "destroy_task" /\ Top.pc \in Releasing /\ "members" \in Label
  BY DEF At, Releasing, Label
<1>2. CallOK(Top) /\ Top.held = <<>> /\ Top.coro
  BY <1>1, AtRest DEF CallOK, Releasing
<1>3. PICK w \in Call : /\ Goto("members") = <<w>> \o Rest /\ w.pc = "members" /\ w.task = Top.task
                        /\ w.held = Top.held /\ w.coro = Top.coro
  BY <1>1, GotoIs
<1>4. /\ Rest \in Seq(Call) /\ CallsOf(Rest) = Below /\ Stacked(handle, captured, Rest)
      /\ Supported(handle, captured, Top, Below) /\ Joined(<<Top>> \o Rest) /\ Top \in Call
  BY <1>1, StackNow DEF Below
<1>5. Supported(handle, captured, w, Below)
  BY <1>1, <1>3, <1>4, SupportedOn DEF Releasing
<1>6. Stacked(handle, captured, <<w>> \o Rest)
  BY <1>4, <1>5, StackedPut
<1>7. Joined(<<w>> \o Rest)
  BY <1>1, <1>3, <1>4, JoinedPut
<1>8. /\ <<w>> \o Rest \in Seq(Call) /\ CallsOf(<<w>> \o Rest) = {w} \cup Below
      /\ Head(<<w>> \o Rest) = w
  BY <1>4, Put
<1>. QED BY <1>2, <1>3, <1>6, <1>7, <1>8

LEMMA DestroyTaskOK ==
  ASSUME IInv, TypeOK', DestroyTask
  PROVE  IInv'
<1>1. /\ At("destroy_task") /\ stack # <<>> /\ Top.pc = "destroy_task" /\ Top.pc \in Releasing
      /\ UNCHANGED <<object, mapped, handle, captured, co, callers, waits, awaiting>>
  BY DEF DestroyTask, At, Releasing
<1>2. PICK k \in Task : k = Top.task
  BY <1>1, AtRest
<1>3. /\ \A e \in Below : e.task # k
      /\ ~Referenced(k) /\ CallOK(Top) /\ Calls = {Top} \cup Below /\ Top \in Calls
  BY <1>1, <1>2, AtRest, StackNow
<1>4. object[k] = "alive" /\ mapped[k] /\ captured[k] = {} /\ Top.held = <<>>
  BY <1>1, <1>2, <1>3 DEF CallOK, Releasing
<1>5. \A m \in Calls : m.task = k => m.pc = "destroy_task"
  BY <1>1, <1>3
<1>6. StatusAt(k) /\ status \in [Task -> CREATED..TIMEOUT]
  BY DEF IInv, StatusInv, TypeOK
<1>7. PICK w \in Call :
        /\ Goto("members") = <<w>> \o Rest
        /\ w.pc = "members" /\ w.task = k /\ w.held = <<>> /\ w.coro
        /\ <<w>> \o Rest \in Seq(Call) /\ CallsOf(<<w>> \o Rest) = {w} \cup Below
        /\ Head(<<w>> \o Rest) = w
        /\ Stacked(handle, captured, <<w>> \o Rest) /\ Joined(<<w>> \o Rest)
  BY <1>1, <1>2, MembersNext
<1>. DEFINE rest == <<w>> \o Rest
<1>8. status[k] # RUNNING
  BY <1>5, <1>6 DEF StatusAt
<1>9. CASE status[k] = WAITING
  <2>1. /\ stack' = <<NewCall("notify", k)>> \o rest
        /\ status' = [status EXCEPT ![k] = TIMEOUT] /\ UNCHANGED next_list
    <3>1. KilledByDestructor(k) /\ ~ActivatedByDestructor(k)
      BY <1>9 DEF KilledByDestructor, ActivatedByDestructor, CREATED, WAITING
    <3>2. /\ stack' = IF status[k] = RUNNING THEN Goto("members")
                      ELSE <<NewCall("notify", k)>> \o Goto("members")
          /\ status' = [status EXCEPT ![k] = TIMEOUT] /\ UNCHANGED next_list
      BY <3>1, <1>2 DEF DestroyTask
    <3>. QED BY <3>2, <1>7, <1>8
  <2>2. PICK N \in Call : N = NewCall("notify", k) /\ N.pc = "notify" /\ N.task = k
    BY StartedIs DEF Label
  <2>3. N \in Calls'
    BY <2>1, <2>2, <1>7, Pushed
  <2>4. status'[k] = TIMEOUT
    BY <2>1, <1>6
  <2>5. ~Referenced(w.task)' => CallOK(w)'
    BY <2>2, <2>3, <2>4, <1>1, <1>4, <1>7, LifetimeAssumption
       DEF CallOK, Releasing, RUNNING, WAITING, TIMEOUT
  <2>6. Kept(handle, captured, NewCall("notify", k), CallsOf(rest))
    <3>1. w \in CallsOf(rest) /\ NewCall("notify", k).task = k
      BY <2>2, <1>7
    <3>. HIDE DEF rest
    <3>. QED BY <3>1, <1>7 DEF Kept
  <2>7. \A m \in CallsOf(rest) : ~Drives(m, k)
    BY <1>3, <1>7 DEF Drives
  <2>8. \A m \in CallsOf(rest) :
            m \in Calls \/ (m.pc = "members" /\ m.held = <<>> /\ (~Referenced(m.task)' => CallOK(m)')
                             /\ m.task \in Task /\ ~Referenced(m.task))
    <3>1. ASSUME NEW m \in CallsOf(rest), m \notin Calls PROVE m = w
      BY <3>1, <1>3, <1>7
    <3>2. w.pc = "members" /\ w.held = <<>> /\ (~Referenced(w.task)' => CallOK(w)')
             /\ w.task \in Task /\ ~Referenced(w.task)
      BY <2>5, <1>3, <1>7
    <3>. HIDE DEF rest
    <3>. QED BY <3>1, <3>2
  <2>9. \A m \in Calls : m \in CallsOf(rest) \/
           (m.pc = "destroy_task" /\ \E e \in CallsOf(rest) : e.pc = "members" /\ e.task = m.task)
    BY <1>1, <1>2, <1>3, <1>7
  <2>10. /\ rest \in Seq(Call) /\ Stacked(handle, captured, rest) /\ Joined(rest)
         /\ rest # <<>> => Head(rest).pc \notin {"started", "notify"}
    BY <1>7
  <2>. HIDE DEF rest
  <2>11. TIMEOUT \in {KILLED, TIMEOUT}
    OBVIOUS
  <2>. QED BY <2>1, <2>6, <2>7, <2>8, <2>9, <2>10, <2>11, <1>1, <1>4, KilledOn
<1>10. CASE status[k] = CREATED
  <2>1. stack' = <<Activation(k)>> \o rest /\ next_list' = [next_list EXCEPT ![k] = <<>>] /\ UNCHANGED status
    <3>1. ~KilledByDestructor(k) /\ ActivatedByDestructor(k)
      BY <1>10 DEF KilledByDestructor, ActivatedByDestructor, CREATED, RUNNING, WAITING
    <3>. QED BY <3>1, <1>2, <1>7 DEF DestroyTask, TakeNext
  <2>2. PICK N \in Call : /\ stack' = <<N>> \o rest /\ N.pc = "activate" /\ N.task = k
                          /\ N.held = next_list[k] /\ N.todo = next_list[k]
    BY <2>1, ActivationIs
  <2>3. Calls' = {N, w} \cup Below /\ Stacked(handle', captured', stack') /\ Joined(stack')
    <3>1. w \in CallsOf(rest) /\ CallsOf(rest) = {w} \cup Below /\ Head(rest) = w
          /\ rest \in Seq(Call) /\ Stacked(handle, captured, rest) /\ Joined(rest)
      BY <1>7
    <3>. HIDE DEF rest
    <3>2. Kept(handle, captured, N, CallsOf(rest))
      BY <2>2, <3>1, <1>7 DEF Kept
    <3>3. Supported(handle, captured, N, CallsOf(rest))
      BY <2>2, <3>2 DEF Supported, Releasing
    <3>4. Stacked(handle', captured', rest) /\ Supported(handle', captured', N, CallsOf(rest))
      BY <3>1, <3>3, <1>1
    <3>5. Stacked(handle', captured', stack')
      BY <2>2, <3>1, <3>4, Pushed
    <3>6. Joined(stack')
      BY <2>2, <3>1, <1>7, Pushed
    <3>7. Calls' = {N} \cup CallsOf(rest)
      BY <2>2, <3>1, Pushed
    <3>. QED BY <3>1, <3>5, <3>6, <3>7
  <2>. HIDE DEF rest
  <2>4. /\ next_list'[k] = <<>> /\ \A x \in Task \ {k} : next_list'[x] = next_list[x]
    BY <2>1 DEF IInv, TypeOK
  <2>5. \A x \in Task : Referenced(x)' <=> Referenced(x)
    <3>1. \A m \in Calls : m.held # <<>> => m \in Calls'
      BY <2>3, <1>3, <1>4
    <3>2. N \in Calls' /\ \A m \in Calls' : m.held # <<>> => m \in Calls \/ m = N
      BY <2>3, <1>3, <1>7
    <3>. QED BY <2>1, <2>2, <3>1, <3>2, <1>1, TakenReferences
  <2>6. /\ \A x \in Task : Exiting(x)' <=> Exiting(x)
        /\ \A x \in Task : Completed(x)' <=> Completed(x)
    BY <2>1, <1>1 DEF Exiting, Completed
  <2>7. /\ \A m \in Calls : m.pc # "destroy_task" => m \in Calls'
        /\ \A m \in Calls : m.task # k => m \in Calls'
        /\ \A m \in Calls' : m.pc \notin {"activate", "members"} => m \in Calls
        /\ \A m \in Calls' : m.task # k => m \in Calls
    BY <2>2, <2>3, <1>1, <1>2, <1>3, <1>7
  <2>8. CallsOK'
    <3>1. CallOK(N)'
      BY <2>2, LifetimeAssumption DEF CallOK, Releasing
    <3>2. ~Referenced(w.task)'
      BY <2>5, <1>3, <1>7
    <3>3. status'[k] \notin {RUNNING, WAITING}
      BY <2>1, <1>10 DEF CREATED, RUNNING, WAITING
    <3>4. CallOK(w)'
      BY <2>2, <2>3, <2>4, <3>2, <3>3, <1>1, <1>4, <1>7, LifetimeAssumption DEF CallOK, Releasing
    <3>5. \A m \in Calls' : m \in Calls \/ CallOK(m)'
      BY <2>3, <3>1, <3>4, <1>3
    <3>6. \A x \in Task : next_list'[x] # <<>> => next_list[x] # <<>>
      BY <2>4
    <3>. QED BY <2>1, <2>5, <2>6, <2>7, <3>5, <3>6, <1>1, CallsKept
  <2>9. ReferenceInv'
    <3>1. Destroys(w, k) /\ w \in Calls'
      BY <2>3, <1>7 DEF Destroys, Releasing
    <3>2. \A m \in Calls : m.pc \in Releasing => \E n \in Calls' : Destroys(n, m.task)
      BY <2>7, <3>1 DEF Destroys
    <3>. QED BY <2>1, <2>5, <3>2, <1>1, ReferencesStay
  <2>10. ASSUME NEW x \in Task PROVE StatusAt(x)'
    <3>1. StatusAt(x)
      BY DEF IInv, StatusInv
    <3>2. CASE x = k
      <4>1. \A m : m.pc \in {"started", "notify", "action"} => (m \in Calls' <=> m \in Calls)
        BY <2>7
      <4>2. status'[k] = CREATED /\ ~Exiting(k)'
        BY <2>1, <1>10 DEF Exiting, CREATED, DONE
      <4>. QED BY <2>6, <3>1, <3>2, <4>1, <4>2, <1>1, <1>10 DEF StatusAt, Drives, CREATED, RUNNING
    <3>3. CASE x # k
      <4>1. Untouched(x)
        BY <2>7, <3>3 DEF Untouched
      <4>. QED BY <2>1, <2>4, <3>1, <3>3, <4>1, <1>1, StatusKept
    <3>. QED BY <3>2, <3>3
  <2>11. ASSUME NEW x \in Task PROVE WaitAt(x)'
    <3>1. WaitAt(x) /\ waits[x] \in Task \cup {Null}
      BY DEF IInv, WaitInv, TypeOK
    <3>2. waits[x] # k
      BY <1>3 DEF Referenced
    <3>3. waits[x] = Null \/ next_list'[waits[x]] = next_list[waits[x]]
      BY <2>4, <3>1, <3>2
    <3>4. \A m \in Calls : m.pc = "activate" => m \in Calls'
      BY <2>7
    <3>. QED BY <2>6, <3>1, <3>3, <3>4, <1>1 DEF WaitAt
  <2>12. AwaiterInv'
    BY <2>7, <1>1, AwaitersStay
  <2>. QED BY <2>3, <2>8, <2>9, <2>10, <2>11, <2>12 DEF IInv, StackOK, StatusInv, WaitInv
<1>11. CASE status[k] \notin {CREATED, WAITING}
  <2>1. stack' = rest /\ UNCHANGED <<status, next_list>>
    <3>1. ~KilledByDestructor(k) /\ ~ActivatedByDestructor(k)
      BY <1>8, <1>11 DEF KilledByDestructor, ActivatedByDestructor
    <3>. QED BY <3>1, <1>2, <1>7 DEF DestroyTask
  <2>2. Exiting(k)
    BY <1>8, <1>11, Statuses
  <2>3. next_list[k] = <<>> /\ callers[k] = {}
    BY <2>2, <1>5, <1>6 DEF StatusAt, Drives
  <2>4. ~Referenced(w.task)' => CallOK(w)'
    BY <2>1, <2>3, <1>1, <1>4, <1>7, <1>8, <1>11, LifetimeAssumption DEF CallOK, Releasing
  <2>5. w.pc \in Releasing
    BY <1>7 DEF Releasing
  <2>. QED BY <2>1, <2>4, <2>5, <1>1, <1>2, <1>7, ReleaseOn
<1>. QED BY <1>9, <1>10, <1>11

\* A step that changes neither tasks nor the calls that drive one or tell its end.
LEMMA StatusesStay ==
  ASSUME IInv, UNCHANGED <<status, co, next_list, callers>>,
         \A m : m.pc \in {"started", "notify", "action", "activate"} => (m \in Calls' <=> m \in Calls)
  PROVE  StatusInv'
<1>1. ASSUME NEW x \in Task PROVE StatusAt(x)'
  <2>1. StatusAt(x) /\ (Exiting(x)' <=> Exiting(x)) /\ (Completed(x)' <=> Completed(x))
    BY DEF IInv, StatusInv, Exiting, Completed
  <2>. QED BY <2>1 DEF StatusAt, Drives
<1>. QED BY <1>1 DEF StatusInv

LEMMA DestroyBaseOK ==
  ASSUME IInv, TypeOK', DestroyBase
  PROVE  IInv'
<1>1. /\ stack # <<>> /\ Top.pc = "base" /\ Top.pc \in Releasing
      /\ UNCHANGED <<mapped, handle, captured, status, co, next_list, callers, waits, awaiting>>
      /\ stack' = Goto("recycle") /\ object' = [object EXCEPT ![Top.task] = "dead"]
  BY DEF DestroyBase, At, Releasing
<1>2. PICK k \in Task : k = Top.task
  BY <1>1, AtRest
<1>3. /\ \A e \in Below : e.task # k
      /\ ~Referenced(k) /\ CallOK(Top) /\ Calls = {Top} \cup Below /\ Top \in Calls
  BY <1>1, <1>2, AtRest, StackNow
<1>4. /\ object[k] = "alive" /\ mapped[k] /\ captured[k] = {} /\ Top.held = <<>> /\ Top.coro
      /\ next_list[k] = <<>> /\ callers[k] = {} /\ status[k] \notin {RUNNING, WAITING}
  BY <1>1, <1>2, <1>3 DEF CallOK, Releasing
<1>5. StatusAt(k) /\ \A m \in Calls : m.task = k => m.pc = "base"
  BY <1>1, <1>3 DEF IInv, StatusInv
<1>6. status[k] = CREATED \/ (Exiting(k) /\ Completed(k))
  <2>1. status[k] = CREATED \/ Exiting(k)
    BY <1>4, Statuses
  <2>2. Exiting(k) => Completed(k)
    BY <1>5 DEF StatusAt, Drives
  <2>. QED BY <2>1, <2>2
<1>7. PICK w \in Call : /\ stack' = <<w>> \o Rest /\ w.pc = "recycle" /\ w.task = k
                        /\ w.held = <<>> /\ w.coro
  <2>1. "recycle" \in Label
    BY DEF Label
  <2>2. PICK w \in Call : /\ Goto("recycle") = <<w>> \o Rest /\ w.pc = "recycle" /\ w.task = Top.task
                          /\ w.held = Top.held /\ w.coro = Top.coro
    BY <2>1, <1>1, GotoIs
  <2>. QED BY <2>2, <1>1, <1>2, <1>4
<1>8. Calls' = {w} \cup Below /\ Stacked(handle', captured', stack') /\ Joined(stack')
  BY <1>1, <1>2, <1>7, TopReplaced DEF Releasing
<1>9. object'[k] = "dead" /\ \A x \in Task \ {k} : object'[x] = object[x]
  BY <1>1, <1>2 DEF IInv, TypeOK
<1>10. /\ \A m \in Calls : m.task # k => m \in Calls'
       /\ \A m \in Calls' : m.task # k => m \in Calls
       /\ \A m \in Calls : m.pc # "base" => m \in Calls'
       /\ \A m \in Calls' : m.pc # "recycle" => m \in Calls
       /\ \A m \in Calls' : m \in Calls => m.task # k
  <2>1. Below \subseteq Calls
    BY <1>3
  <2>2. w \notin Calls
    BY <1>5, <1>7
  <2>. QED BY <2>1, <2>2, <1>1, <1>2, <1>3, <1>7, <1>8
<1>11. \A x \in Task : Referenced(x)' <=> Referenced(x)
  <2>1. \A m \in Calls : m.held # <<>> => m \in Calls'
    BY <1>3, <1>4, <1>8
  <2>2. \A m \in Calls' : m.held # <<>> => m \in Calls
    BY <1>3, <1>7, <1>8
  <2>. QED BY <2>1, <2>2, <1>1, SameReferences
<1>12. \A x \in Task : (Exiting(x)' <=> Exiting(x)) /\ (Completed(x)' <=> Completed(x))
  BY <1>1 DEF Exiting, Completed
<1>13. CallsOK'
  <2>1. CallOK(w)'
    BY <1>1, <1>3, <1>4, <1>7, <1>9, <1>11, LifetimeAssumption DEF CallOK, Releasing
  <2>2. \A m \in Calls' : m \in Calls \/ CallOK(m)'
    BY <2>1, <1>3, <1>8
  <2>3. \A m \in Calls : m \in Calls' /\ m.pc \in Releasing =>
           object'[m.task] = object[m.task] /\ mapped'[m.task] = mapped[m.task]
    <3>1. \A m \in Calls : m.pc \in Releasing => m.task \in Task
      BY TaskOf DEF Releasing
    <3>. QED BY <3>1, <1>1, <1>9, <1>10
  <2>. QED BY <2>2, <2>3, <1>1, <1>10, <1>11, <1>12, CallsOn
<1>14. ASSUME NEW x \in Task PROVE ReferenceAt(x)'
  <2>1. ReferenceAt(x)
    BY DEF IInv, ReferenceInv
  <2>2. CASE x = k
    <3>1. Destroys(w, k) /\ w \in Calls'
      BY <1>7, <1>8 DEF Destroys, Releasing
    <3>. QED BY <2>2, <3>1, <1>1, <1>3, <1>4, <1>6, <1>9, <1>11, <1>12 DEF ReferenceAt
  <2>3. CASE x # k
    <3>1. (\E m \in Calls : Destroys(m, x)) => \E m \in Calls' : Destroys(m, x)
      BY <2>3, <1>10 DEF Destroys
    <3>. QED BY <2>1, <2>3, <3>1, <1>1, <1>9, <1>11, ReferenceKept
  <2>. QED BY <2>2, <2>3
<1>15. StatusInv' /\ WaitInv' /\ AwaiterInv'
  BY <1>1, <1>10, StatusesStay, WaitsStay, AwaitersStay
<1>. QED BY <1>8, <1>13, <1>14, <1>15 DEF IInv, StackOK, ReferenceInv

LEMMA RecycleOK ==
  ASSUME IInv, TypeOK', Recycle
  PROVE  IInv'
<1>1. /\ stack # <<>> /\ Top.pc = "recycle" /\ Top.pc \in Releasing /\ Rest = Tail(stack)
      /\ UNCHANGED <<object, handle, captured, status, co, next_list, callers, waits, awaiting>>
      /\ stack' = Rest /\ mapped' = [mapped EXCEPT ![Top.task] = FALSE]
  BY StackNow DEF Recycle, At, Releasing
<1>2. PICK k \in Task : k = Top.task
  BY <1>1, AtRest
<1>3. /\ \A e \in Below : e.task # k
      /\ ~Referenced(k) /\ CallOK(Top) /\ Calls = {Top} \cup Below /\ Top \in Calls
  BY <1>1, <1>2, AtRest, StackNow
<1>4. object[k] = "dead" /\ Top.held = <<>>
  BY <1>1, <1>2, <1>3 DEF CallOK, Releasing
<1>5. Calls' = Below /\ Stacked(handle', captured', stack') /\ Joined(stack')
  BY <1>1, StackNow DEF Calls, Below
<1>6. ~mapped'[k] /\ \A x \in Task \ {k} : mapped'[x] = mapped[x]
  BY <1>1, <1>2 DEF IInv, TypeOK
<1>7. /\ Calls' \subseteq Calls
      /\ \A m \in Calls : m.pc # "recycle" \/ m.task # k => m \in Calls'
      /\ \A m \in Calls' : m.task # k
  BY <1>1, <1>2, <1>3, <1>5
<1>8. \A x \in Task : Referenced(x)' <=> Referenced(x)
  <2>1. \A m \in Calls : m.held # <<>> => m \in Calls'
    BY <1>3, <1>4, <1>5
  <2>. QED BY <2>1, <1>1, <1>7, SameReferences
<1>9. CallsOK'
  <2>1. \A m \in Calls : m \in Calls' /\ m.pc \in Releasing =>
           object'[m.task] = object[m.task] /\ mapped'[m.task] = mapped[m.task]
    <3>1. \A m \in Calls : m.pc \in Releasing => m.task \in Task
      BY TaskOf DEF Releasing
    <3>. QED BY <3>1, <1>1, <1>6, <1>7
  <2>2. \A x \in Task : Exiting(x)' <=> Exiting(x)
    BY <1>1 DEF Exiting
  <2>. QED BY <2>1, <2>2, <1>1, <1>7, <1>8, CallsOn
<1>10. ASSUME NEW x \in Task PROVE ReferenceAt(x)'
  <2>1. ReferenceAt(x) /\ (Exiting(x)' <=> Exiting(x)) /\ (Completed(x)' <=> Completed(x))
    BY <1>1 DEF IInv, ReferenceInv, Exiting, Completed
  <2>2. CASE x = k
    BY <2>1, <2>2, <1>1, <1>3, <1>4, <1>6, <1>8 DEF ReferenceAt
  <2>3. CASE x # k
    <3>1. (\E m \in Calls : Destroys(m, x)) => \E m \in Calls' : Destroys(m, x)
      BY <2>3, <1>7 DEF Destroys
    <3>. QED BY <2>1, <2>3, <3>1, <1>1, <1>6, <1>8, ReferenceKept
  <2>. QED BY <2>2, <2>3
<1>11. StatusInv' /\ WaitInv' /\ AwaiterInv'
  BY <1>1, <1>7, StatusesStay, WaitsStay, AwaitersStay
<1>. QED BY <1>5, <1>9, <1>10, <1>11 DEF IInv, StackOK, ReferenceInv

LEMMA CreateOK ==
  ASSUME IInv, TypeOK', NEW k \in Task, NEW S \in SUBSET Task, Create(k, S)
  PROVE  IInv'
<1>1. /\ Client /\ object[k] = "none" /\ S \subseteq Reachable
      /\ object' = [object EXCEPT ![k] = "alive"] /\ mapped' = [mapped EXCEPT ![k] = TRUE]
      /\ captured' = [captured EXCEPT ![k] = S] /\ handle' = handle \cup {k}
      /\ UNCHANGED <<status, co, next_list, callers, waits, awaiting, stack>>
  BY DEF Create, CreateStack
<1>2. /\ object'[k] = "alive" /\ mapped'[k] /\ captured'[k] = S
      /\ \A x \in Task \ {k} : /\ object'[x] = object[x] /\ mapped'[x] = mapped[x]
                               /\ captured'[x] = captured[x]
  BY <1>1 DEF IInv, TypeOK
<1>3. /\ Calls' = Calls /\ stack \in Seq(Call) /\ Stacked(handle, captured, stack) /\ Joined(stack)
      /\ CallsOf(stack) = Calls
  BY <1>1, StackNow DEF Calls
<1>4. ReferenceAt(k) /\ status[k] = CREATED /\ captured[k] = {} /\ callers[k] = {} /\ ~Referenced(k)
  BY <1>1 DEF IInv, ReferenceInv, ReferenceAt
<1>5. \A m \in Calls : m.task # k
  <2>1. \A m \in Calls : m.pc # "body" => m.task # k
    BY <1>1, InStack
  <2>2. \A m \in Calls : m.pc = "body" => m.task = Null
    BY TaskOf
  <2>. QED BY <2>1, <2>2, LifetimeAssumption
<1>6. \A x \in S : Referenced(x) /\ x # k
  BY <1>1, <1>4, ReachableNow
<1>7. \A x \in Task : Referenced(x)' <=> Referenced(x) \/ x = k
  <2>1. \A i \in Task, x \in Task : x \in captured'[i] => x \in captured[i] \/ Referenced(x)
    BY <1>2, <1>6
  <2>2. \A i \in Task, x \in Task : x \in captured[i] => x \in captured'[i]
    BY <1>2, <1>4
  <2>3. \A x \in Task : Referenced(x)' => Referenced(x) \/ x = k
    BY <2>1, <1>1, <1>3 DEF Referenced
  <2>4. \A x \in Task : Referenced(x) => Referenced(x)'
    BY <2>2, <1>1, <1>3 DEF Referenced
  <2>5. Referenced(k)'
    BY <1>1 DEF Referenced
  <2>. QED BY <2>3, <2>4, <2>5
<1>8. Stacked(handle', captured', stack') /\ Joined(stack')
  <2>1. \A m \in CallsOf(stack) : m.pc = "action" => captured[m.task] \subseteq captured'[m.task]
    <3>1. \A m \in Calls : m.pc = "action" => m.task \in Task
      BY TaskOf
    <3>. QED BY <3>1, <1>2, <1>3, <1>5
  <2>2. \A m \in CallsOf(stack) : m.task \in handle => m.task \in handle'
    BY <1>1
  <2>3. Stacked(handle', captured', stack)
    BY <2>1, <2>2, <1>3, StackedKept
  <2>. QED BY <2>3, <1>1, <1>3
<1>9. \A x \in Task : (Exiting(x)' <=> Exiting(x)) /\ (Completed(x)' <=> Completed(x))
  BY <1>1 DEF Exiting, Completed
<1>10. ASSUME NEW m \in Calls' PROVE CallOK(m)'
  <2>1. m \in Calls /\ CallOK(m) /\ m.task # k /\ (m.pc \in Releasing => m.task \in Task)
    BY <1>3, <1>5, <1>10, TaskOf DEF Releasing
  <2>2. m.pc \in Releasing => /\ object'[m.task] = object[m.task] /\ mapped'[m.task] = mapped[m.task]
                              /\ captured'[m.task] = captured[m.task]
                              /\ ~Referenced(m.task)'
    BY <2>1, <1>2, <1>7 DEF CallOK
  <2>3. m.pc = "notify" => Exiting(m.task)'
    BY <2>1, <1>1 DEF CallOK, Exiting
  <2>4. m.pc \in Releasing => CallOK(m)'
    BY <2>1, <2>2, <1>1, <1>3 DEF CallOK, Releasing
  <2>5. m.pc \notin Releasing => CallOK(m)'
    BY <2>1, <2>3 DEF CallOK, Releasing
  <2>. QED BY <2>4, <2>5
<1>11. ASSUME NEW x \in Task PROVE ReferenceAt(x)'
  <2>1. ReferenceAt(x)
    BY DEF IInv, ReferenceInv
  <2>2. CASE x = k
    BY <2>2, <1>2, <1>7 DEF ReferenceAt
  <2>3. CASE x # k
    BY <2>1, <2>3, <1>1, <1>2, <1>3, <1>7, ReferenceKept
  <2>. QED BY <2>2, <2>3
<1>12. StatusInv' /\ WaitInv' /\ AwaiterInv'
  BY <1>1, <1>3, StatusesStay, WaitsStay, AwaitersStay
<1>. QED BY <1>8, <1>10, <1>11, <1>12 DEF IInv, StackOK, CallsOK, ReferenceInv

-----------------------------------------------------------------------------
(* The invariant. *)

LEMMA IInvAtFirst == Init => IInv
<1>. SUFFICES ASSUME Init PROVE IInv
  OBVIOUS
<1>1. Calls = {} /\ stack = <<>>
  BY NoCalls DEF Init, Calls
<1>2. TypeOK
  <2>1. <<>> \in Seq(Task) /\ <<>> \in Seq(Call)
    OBVIOUS
  <2>. QED BY <2>1, LifetimeAssumption DEF Init, TypeOK, CREATED, TIMEOUT
<1>3. StackOK /\ Joined(stack)
  BY <1>1 DEF StackOK, Stacked, Joined
<1>4. \A k \in Task : ~Referenced(k)
  <2>1. Elements(<<>>) = {}
    BY DEF Elements
  <2>. QED BY <2>1, <1>1, LifetimeAssumption DEF Init, Referenced
<1>5. ReferenceInv
  BY <1>4 DEF ReferenceInv, ReferenceAt, Init
<1>6. StatusInv
  BY <1>1 DEF StatusInv, StatusAt, Init, Exiting, Completed, CREATED, RUNNING, WAITING, DONE
<1>7. WaitInv /\ AwaiterInv
  BY DEF Init, WaitInv, WaitAt, AwaiterInv, AwaiterAt
<1>8. CallsOK
  BY <1>1 DEF CallsOK
<1>. QED BY <1>2, <1>3, <1>5, <1>6, <1>7, <1>8 DEF IInv

LEMMA IInvKept == IInv /\ [Next]_vars => IInv'
<1>. SUFFICES ASSUME IInv, [Next]_vars PROVE IInv'
  OBVIOUS
<1>t. TypeOK'
  BY TypesKept
<1>1. CASE Proceed
  <2>1. CASE Settle \/ NotifyResume \/ NotifyNext
    BY <2>1, <1>t, SettleOK, NotifyResumeOK, NotifyNextOK
  <2>2. CASE Activate \/ TakeCallers \/ Unhold
    BY <2>2, <1>t, ActivateOK, TakeCallersOK, UnholdOK
  <2>3. CASE \E a \in Awaiter : Wake(a)
    BY <2>3, <1>t, WakeStepOK
  <2>4. CASE \E k \in Task : AwaitLoop(k)
    BY <2>4, <1>t, AwaitLoopOK
  <2>5. CASE DestroyAction \/ DropCaptures \/ DestroyTask
    BY <2>5, <1>t, DestroyActionOK, DropCapturesOK, DestroyTaskOK
  <2>6. CASE DestroyMembers \/ DestroyBase \/ Recycle
    BY <2>6, <1>t, DestroyMembersOK, DestroyBaseOK, RecycleOK
  <2>. QED BY <2>1, <2>2, <2>3, <2>4, <2>5, <2>6, <1>1 DEF Proceed
<1>2. CASE ClientStep
  <2>1. CASE \E k \in Task, S \in SUBSET Task : Cardinality(S) <= 1 /\ Create(k, S)
    BY <2>1, <1>t, CreateOK
  <2>2. ASSUME NEW k \in Task, DropHandle(k) \/ Start(k) \/ Kill(k) \/ Yield(k) \/ Finish(k)
        PROVE  IInv'
    BY <2>2, <1>t, DropHandleOK, StartOK, KillOK, YieldOK, FinishOK
  <2>3. ASSUME NEW k \in Task, NEW n \in Task, Next_(k, n) \/ Await(k, n)
        PROVE  IInv'
    BY <2>3, <1>t, NextOK, AwaitOK
  <2>4. ASSUME NEW a \in Awaiter, CallAwaiter(a) \/ KillAwaiter(a)
        PROVE  IInv'
    BY <2>4, <1>t, CallAwaiterOK, KillAwaiterOK
  <2>5. CASE \E k \in Task : CoAwait(k)
    BY <2>5, <1>t, CoAwaitOK
  <2>6. CASE EndBody
    BY <2>6, <1>t, EndBodyOK
  <2>. QED BY <2>1, <2>2, <2>3, <2>4, <2>5, <2>6, <1>2 DEF ClientStep
<1>3. CASE UNCHANGED vars
  <2>1. /\ Calls' = Calls /\ \A k \in Task : (Referenced(k)' <=> Referenced(k))
    BY <1>3 DEF vars, Calls, Referenced
  <2>2. UNCHANGED <<object, mapped, handle, captured, status, co, next_list, callers, waits, awaiting, stack>>
    BY <1>3 DEF vars
  <2>3. \A m \in Calls : m.pc \in Releasing => \E n \in Calls' : Destroys(n, m.task)
    BY <2>1 DEF Destroys
  <2>4. AwaiterInv'
    BY <2>1, <2>2, AwaitersStay
  <2>5. Stacked(handle', captured', stack') /\ Joined(stack')
    BY <2>2 DEF IInv, StackOK
  <2>. QED BY <2>1, <2>2, <2>3, <2>4, <2>5, <1>t, QuietStep
<1>4. CASE Stopped
  BY <1>3, <1>4 DEF Stopped
<1>. QED BY <1>1, <1>2, <1>3, <1>4 DEF Next

LEMMA IInvAlways == Spec => []IInv
<1>1. Init => IInv
  BY IInvAtFirst
<1>2. IInv /\ [Next]_vars => IInv'
  BY IInvKept
<1>. QED BY <1>1, <1>2, PTL DEF Spec

\* Every state of the model has the types that the code gives its members.
THEOREM LifetimeTypeCorrect == Spec => []TypeOK
<1>1. IInv => TypeOK
  BY DEF IInv
<1>. QED BY <1>1, IInvAlways, PTL

-----------------------------------------------------------------------------
(* What follows from it. *)

\* No call is ever made on, or goes on in, a task whose stack was given back, however
\* the pointers to it go, and a task is released only when no call on it is left
\* (intrusive_ptr_release() of task.h).
THEOREM LifetimeReleasedAtRest == Spec => []ReleasedAtRest
<1>1. ASSUME IInv PROVE ReleasedAtRest
  <2>1. SUFFICES ASSUME NEW d \in DOMAIN stack, stack[d].task # Null
                 PROVE  /\ mapped[stack[d].task]
                        /\ stack[d].pc \in Releasing =>
                             \A e \in (d + 1)..Len(stack) : stack[e].task # stack[d].task
    BY DEF ReleasedAtRest
  <2>2. stack \in Seq(Call) /\ d \in 1..Len(stack) /\ stack[d] \in Calls
    BY <1>1, StackNow DEF Calls, CallsOf
  <2>3. mapped[stack[d].task]
    BY <1>1, <2>1, <2>2, TaskOf, InStack
  <2>4. Supported(handle, captured, stack[d], Deeper(stack, d))
    BY <1>1, <2>2, StackNow DEF Stacked
  <2>. QED BY <2>3, <2>4 DEF Supported, Deeper
<1>. QED BY <1>1, IInvAlways, PTL

\* The memory of a coroutine is given back only when the coroutine never ran or has
\* ended, with a status that ~task_impl() accepts; and when all calls have returned,
\* a task is there if and only if a pointer leads to it (task.h, ~task()).
THEOREM LifetimeEndsBeforeFreed == Spec => []EndsBeforeFreed
<1>1. ASSUME IInv PROVE EndsBeforeFreed
  <2>1. ASSUME NEW k \in Task, object[k] = "dead"
        PROVE  co[k] \in {"FRESH", "FINISHED"} /\ (status[k] = CREATED \/ Exiting(k))
    <3>1. status[k] = CREATED \/ (Exiting(k) /\ Completed(k))
      BY <1>1, <2>1 DEF IInv, ReferenceInv, ReferenceAt
    <3>2. status[k] = CREATED => co[k] = "FRESH"
      BY <1>1 DEF IInv, StatusInv, StatusAt
    <3>. QED BY <3>1, <3>2 DEF Completed
  <2>2. ASSUME stack = <<>>, NEW k \in Task
        PROVE  IF References(k) = {} THEN ~mapped[k] ELSE object[k] = "alive"
    <3>1. (References(k) = {}) <=> ~Referenced(k)
      BY <1>1, ReferencedMeans DEF IInv
    <3>2. Calls = {}
      BY <2>2, <1>1, StackNow
    <3>3. ReferenceAt(k)
      BY <1>1 DEF IInv, ReferenceInv
    <3>. QED BY <3>1, <3>2, <3>3 DEF ReferenceAt
  <2>. QED BY <2>1, <2>2 DEF EndsBeforeFreed
<1>. QED BY <1>1, IInvAlways, PTL

\* A C++20 coroutine that awaits a task by a raw pointer has been resumed before the
\* task is gone, and when all calls have returned none awaits a task that is over
\* (caller_manager_ of task_impl, task.h).
THEOREM LifetimeAwaitersAnswered == Spec => []AwaitersAnswered
<1>1. ASSUME IInv PROVE AwaitersAnswered
  <2>1. SUFFICES ASSUME NEW a \in Awaiter, awaiting[a] # Null
                 PROVE  /\ object[awaiting[a]] = "alive"
                        /\ stack = <<>> => ~Exiting(awaiting[a])
    BY DEF AwaitersAnswered
  <2>2. PICK k \in Task : k = awaiting[a]
    BY <1>1, <2>1 DEF IInv, TypeOK
  <2>3. \/ a \in callers[k]
        \/ \E m \in Calls : m.pc = "wake" /\ m.task = k /\ a \in m.who
    BY <1>1, <2>1, <2>2 DEF IInv, AwaiterInv, AwaiterAt
  <2>4. object[k] = "alive"
    <3>1. CASE a \in callers[k]
      <4>1. object[k] \in {"none", "alive", "dead"} /\ ReferenceAt(k)
        BY <1>1 DEF IInv, TypeOK, ReferenceInv
      <4>. QED BY <3>1, <4>1 DEF ReferenceAt
    <3>2. CASE \E m \in Calls : m.pc = "wake" /\ m.task = k /\ a \in m.who
      BY <1>1, <3>2, InStack
    <3>. QED BY <2>3, <3>1, <3>2
  <2>5. stack = <<>> => ~Exiting(k)
    <3>1. SUFFICES ASSUME stack = <<>>, Exiting(k) PROVE FALSE
      OBVIOUS
    <3>2. Calls = {}
      BY <1>1, <3>1, StackNow
    <3>3. callers[k] # {}
      BY <2>3, <3>2
    <3>. QED BY <1>1, <3>1, <3>2, <3>3 DEF IInv, StatusInv, StatusAt
  <2>. QED BY <2>2, <2>4, <2>5
<1>. QED BY <1>1, IInvAlways, PTL

\* When all calls have returned no task is left suspended in await_task() for one that
\* is over, and none that is over still has tasks to start (await_task(), next() and
\* active_next_tasks() of task.h).
THEOREM LifetimeAwaitNotLost == Spec => []AwaitNotLost
<1>1. ASSUME IInv PROVE AwaitNotLost
  <2>1. SUFFICES ASSUME stack = <<>>, NEW k \in Task
                 PROVE  /\ waits[k] # Null => object[waits[k]] = "alive" /\ ~Exiting(waits[k])
                        /\ next_list[k] # <<>> => ~Exiting(k) /\ ~Completed(k)
    BY DEF AwaitNotLost
  <2>2. Calls = {}
    BY <1>1, <2>1, StackNow
  <2>3. next_list[k] # <<>> => ~Exiting(k) /\ ~Completed(k)
    BY <1>1, <2>2 DEF IInv, StatusInv, StatusAt
  <2>4. ASSUME waits[k] # Null PROVE object[waits[k]] = "alive" /\ ~Exiting(waits[k])
    <3>1. PICK j \in Task : j = waits[k]
      BY <1>1, <2>4 DEF IInv, TypeOK
    <3>2. StatusAt(j) /\ WaitAt(k) /\ StatusAt(k)
      BY <1>1 DEF IInv, StatusInv, WaitInv
    <3>3. Referenced(j)
      BY <3>1 DEF Referenced
    <3>4. object[j] = "alive"
      BY <1>1, <3>3, ReferencedNow
    <3>5. co[k] # "RUNNING"
      BY <2>2, <3>2 DEF StatusAt
    <3>6. k \in Elements(next_list[j])
      BY <2>2, <2>4, <3>1, <3>2, <3>5 DEF WaitAt
    <3>7. next_list[j] # <<>>
      BY <3>6 DEF Elements
    <3>8. ~Exiting(j)
      BY <2>2, <3>2, <3>7 DEF StatusAt
    <3>. QED BY <3>1, <3>4, <3>8
  <2>. QED BY <2>3, <2>4
<1>. QED BY <1>1, IInvAlways, PTL
=============================================================================
