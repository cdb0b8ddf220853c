-------------------------- MODULE CallableFutureProofs --------------------------
(***************************************************************************)
(* Proofs about CallableFuture, for any number of coroutines, generators,  *)
(* awaits and operations: no call in progress touches a frame that is      *)
(* gone, the caller managers name exactly those that wait, nobody is       *)
(* resumed without a reason, and a kill unwinds everything.                *)
(*                                                                         *)
(* A step can only go wrong through what the calls in progress still have  *)
(* to do.  The invariant says of each of them what it needs (CallOK), and  *)
(* of any two what keeps them apart (Above): a call is about a coroutine   *)
(* that those below it own, directly or not, so that whatever it ends or   *)
(* destroys is not what one of them goes on with.                          *)
(***************************************************************************)
EXTENDS CallableFuture, SequenceTheorems, TLAPS

\* What the client keeps to.  A kill with the status of a coroutine that returned is
\* not passed on to what the coroutine waits for (std_coroutine_common.cpp:230).
Contract == ~ForeignKills /\ ~SharedWaits /\ DONE \notin KillStatus

\* The calls in progress, and those below the innermost one.
Calls(S) == {S[i] : i \in 1..Len(S)}
InProgress == Calls(stack)
Below == IF stack = <<>> THEN {} ELSE Calls(Tail(stack))
TopIs(label, c) == At(label) /\ Top.co = c

Running == {"body", "await_resume", "resume_waiting", "locals"}
Subjects(k) == ({k.co} \cap Co) \cup k.todo   \* the coroutines that a call is about
Over(x) == IF x \in Co THEN Finished(x) ELSE value[x] # "pending"
Waits(c) == frame[c] \in {"suspended", "active"}

\* The owners form trees: `line' is what is above a coroutine, itself included.
LineNone == \A c \in Co : frame[c] = "none" =>
    owner[c] = Null /\ line[c] = {} /\ \A d \in Co : c \notin line[d]
LineOwner == \A c \in Co : frame[c] # "none" =>
    \/ owner[c] = Main /\ line[c] = {c}
    \/ /\ owner[c] \in Co /\ frame[owner[c]] # "none"
       /\ c \notin line[owner[c]]
       /\ line[c] = {c} \cup line[owner[c]]
LineUp == \A c \in Co : \A b \in line[c] : line[b] \subseteq line[c]
LineAnti == \A b, c \in Co : b \in line[c] /\ c \in line[b] => b = c
LineChain == \A c \in Co : \A a, b \in line[c] : a \in line[b] \/ b \in line[a]
LineNext == \A c \in Co : \A a \in line[c] \ {c} : \E d \in line[c] : owner[d] = a
LineInv == LineNone /\ LineOwner /\ LineUp /\ LineAnti /\ LineChain /\ LineNext

\* Who lives has owners that live and have not ended.
Lives == \A c \in Co : Alive(c) => \A a \in line[c] \ {c} : Waits(a)

\* k was called from m, or from a call that m made: what k is about belongs to what m
\* runs or destroys, and has nothing to do with what m still has to wake.
Above(L, k, m) ==
  /\ m.pc \in Running => \A x \in Subjects(k) : x # m.co /\ m.co \in L[x]
  /\ m.pc = "destroy" => /\ \A x \in Subjects(k) : m.co \in L[x]
                         /\ k.pc = "destroy" => k.co # m.co
  /\ m.pc = "wake" => \A x \in Subjects(k), p \in m.todo : L[x] \cap L[p] = {}
Pairs(L, S) == \A j \in 1..Len(S) : \A i \in 1..(j-1) : Above(L, S[i], S[j])
PairsOK == Pairs(line, stack)

\* What a call needs when it goes on.
CallOK(k) ==
  /\ k.pc \in Running \cup {"resume", "destroy", "wake"}
  /\ k.pc # "wake" => k.co \in Co /\ k.todo = {}
  /\ k.pc \in Running => frame[k.co] = "active"
  /\ k.pc \in {"body", "await_resume", "resume_waiting"} => "returned" \notin flags[k.co]
  /\ k.pc \in {"body", "locals"} => awaits[k.co] = Null /\ ~attached[k.co]
  /\ k.pc = "locals" => "returned" \in flags[k.co]
  /\ k.pc = "await_resume" =>
       /\ awaits[k.co] # Null
       /\ awaits[k.co] \in Co /\ ~attached[k.co] => Exiting(awaits[k.co])
  /\ k.pc = "resume_waiting" => awaits[k.co] \in Co /\ ~attached[k.co] /\ Exiting(awaits[k.co])
  /\ k.pc = "resume" => Suspended(k.co) /\ (Exiting(k.co) \/ Over(awaits[k.co]))
  /\ k.pc = "destroy" =>
       /\ Alive(k.co)
       /\ owner[k.co] = Main \/ (frame[owner[k.co]] = "active" /\ awaits[owner[k.co]] = Null)
  /\ k.pc = "wake" =>
       /\ k.co \in Co \cup Event
       /\ k.co \in Co => frame[k.co] # "none" /\ k.todo \subseteq {owner[k.co]}
       /\ \A p \in k.todo : Suspended(p) /\ attached[p] /\ awaits[p] = k.co /\ Over(k.co)
       /\ \A p, q \in k.todo : p # q => line[p] \cap line[q] = {}

\* A call that has made another one is not in the middle of an await.
Waiting(k) == k.pc \notin {"resume", "resume_waiting"} /\ (k.pc = "await_resume" => ~attached[k.co])
CallsOK == \A k \in InProgress : CallOK(k)
BelowOK == \A k \in Below : Waiting(k)

\* A coroutine that comes back from an await has been killed, or it is over.
TopOK == At("await_resume") /\ attached[Top.co] => Exiting(Top.co) \/ Over(awaits[Top.co])
ActiveOnStack == \A c \in Co : frame[c] = "active" => \E k \in InProgress : k.pc \in Running /\ k.co = c

\* What a coroutine says about its await: its flag, its awaitable and its promise agree.
AwaitInv == \A c \in Co :
  /\ attached[c] <=> "internal_waiting" \in flags[c]
  /\ attached[c] => Suspended(c) \/ TopIs("await_resume", c)
  /\ Suspended(c) => attached[c] /\ awaits[c] # Null
  /\ awaits[c] # Null => Waits(c)
  /\ awaits[c] \in Co => owner[awaits[c]] = c /\ Alive(awaits[c])
  /\ waiting[c] # Null => attached[c] /\ waiting[c] = awaits[c] /\ (~Finished(waiting[c]) => c \in callers[waiting[c]])

\* The callers wait for something that is yet to come.
CallersInv ==
  /\ \A x \in Co \cup Event : \A c \in callers[x] : attached[c] /\ awaits[c] = x /\ ~Over(x)
  /\ \A e \in Event : \A b, c \in callers[e] : b # c => line[b] \cap line[c] = {}

\* Nobody who waits is forgotten.
Reg == \A c \in Co : Suspended(c) /\ ~Exiting(c) =>
   \/ c \in callers[awaits[c]]
   \/ \E k \in InProgress : k.pc = "wake" /\ c \in k.todo
   \/ TopIs("resume", c)

StatusInv == \A c \in Co :
   /\ status[c] = DONE => "returned" \in flags[c]
   /\ "returned" \in flags[c] => Exiting(c) /\ frame[c] \in {"active", "final", "destroyed"}
   /\ frame[c] = "final" => "returned" \in flags[c]
   /\ "destroying" \in flags[c] => frame[c] = "destroyed"

\* A coroutine that was killed and did not run yet is below one that is being destroyed,
\* or that was killed and is running.
KillCover == \A c \in Co : Suspended(c) /\ Exiting(c) =>
   \E a \in line[c] : \/ \E k \in InProgress : k.pc = "destroy" /\ k.co = a
                      \/ Exiting(a) /\ (frame[a] = "active" \/ TopIs("resume", a))

IInv == TypeOK /\ LineInv /\ Lives /\ PairsOK /\ CallsOK /\ BelowOK /\ TopOK /\ ActiveOnStack
        /\ AwaitInv /\ CallersInv /\ Reg /\ StatusInv /\ KillCover

-----------------------------------------------------------------------------
(* The stack. *)

LEMMA CallsPush ==
  ASSUME NEW S \in Seq(Call), NEW k \in Call
  PROVE  /\ <<k>> \o S \in Seq(Call) /\ <<k>> \o S # <<>>
         /\ Head(<<k>> \o S) = k /\ Tail(<<k>> \o S) = S
         /\ Calls(<<k>> \o S) = {k} \cup Calls(S)
<1>. DEFINE T == <<k>> \o S
<1>1. T \in Seq(Call) /\ Len(T) = Len(S) + 1 /\ T[1] = k /\ \A i \in 1..Len(S) : T[i + 1] = S[i]
  OBVIOUS
<1>2. T # <<>> /\ Head(T) = k
  BY <1>1
<1>3. Tail(T) = S
  OBVIOUS
<1>4. ASSUME NEW x \in Calls(T) PROVE x \in {k} \cup Calls(S)
  <2>. HIDE DEF T
  <2>1. PICK i \in 1..Len(T) : x = T[i]
    BY DEF Calls
  <2>2. CASE i = 1
    BY <2>1, <2>2, <1>1
  <2>3. CASE i # 1
    <3>1. i - 1 \in 1..Len(S) /\ T[(i - 1) + 1] = S[i - 1] /\ (i - 1) + 1 = i
      BY <2>1, <2>3, <1>1
    <3>. QED BY <3>1, <2>1 DEF Calls
  <2>. QED BY <2>2, <2>3
<1>5. ASSUME NEW x \in {k} \cup Calls(S) PROVE x \in Calls(T)
  <2>. HIDE DEF T
  <2>1. CASE x = k
    <3>1. 1 \in 1..Len(T)
      BY <1>1
    <3>. QED BY <3>1, <2>1, <1>1 DEF Calls
  <2>2. CASE x \in Calls(S)
    <3>1. PICK i \in 1..Len(S) : x = S[i]
      BY <2>2 DEF Calls
    <3>2. i + 1 \in 1..Len(T) /\ T[i + 1] = x
      BY <3>1, <1>1
    <3>. QED BY <3>2 DEF Calls
  <2>. QED BY <2>1, <2>2
<1>. QED BY <1>1, <1>2, <1>3, <1>4, <1>5

LEMMA CallsPop ==
  ASSUME NEW S \in Seq(Call), S # <<>>
  PROVE  /\ Tail(S) \in Seq(Call) /\ Head(S) \in Call
         /\ S = <<Head(S)>> \o Tail(S)
         /\ Calls(S) = {Head(S)} \cup Calls(Tail(S))
<1>1. Tail(S) \in Seq(Call) /\ Head(S) \in Call
  OBVIOUS
<1>2. S = <<Head(S)>> \o Tail(S)
  OBVIOUS
<1>. DEFINE h == Head(S)
            R == Tail(S)
<1>. HIDE DEF h, R
<1>3. Calls(<<h>> \o R) = {h} \cup Calls(R)
  BY <1>1, CallsPush DEF h, R
<1>. QED BY <1>1, <1>2, <1>3 DEF h, R

LEMMA CallsIn ==
  ASSUME NEW S \in Seq(Call)
  PROVE  Calls(S) \subseteq Call
BY DEF Calls

LEMMA PairsPush ==
  ASSUME NEW L, NEW S \in Seq(Call), NEW k \in Call, Pairs(L, S), \A m \in Calls(S) : Above(L, k, m)
  PROVE  Pairs(L, <<k>> \o S)
<1>. DEFINE T == <<k>> \o S
<1>1. T \in Seq(Call) /\ Len(T) = Len(S) + 1 /\ T[1] = k /\ \A i \in 1..Len(S) : T[i + 1] = S[i]
  OBVIOUS
<1>. HIDE DEF T
<1>2. SUFFICES ASSUME NEW j \in 1..Len(T), NEW i \in 1..(j - 1)
      PROVE Above(L, T[i], T[j])
  BY DEF Pairs, T
<1>3. j - 1 \in 1..Len(S) /\ T[j] = S[j - 1]
  <2>1. j - 1 \in 1..Len(S) /\ j = (j - 1) + 1
    BY <1>1
  <2>. QED BY <2>1, <1>1
<1>4. CASE i = 1
  <2>1. S[j - 1] \in Calls(S)
    BY <1>3 DEF Calls
  <2>. QED BY <2>1, <1>1, <1>3, <1>4
<1>5. CASE i # 1
  <2>1. i - 1 \in 1..((j - 1) - 1) /\ i - 1 \in 1..Len(S) /\ i = (i - 1) + 1
    BY <1>1, <1>3, <1>5
  <2>2. T[i] = S[i - 1]
    BY <2>1, <1>1
  <2>3. Above(L, S[i - 1], S[j - 1])
    BY <2>1, <1>3 DEF Pairs
  <2>. QED BY <2>2, <2>3, <1>3
<1>. QED BY <1>4, <1>5

LEMMA PairsPop ==
  ASSUME NEW L, NEW S \in Seq(Call), S # <<>>, Pairs(L, S)
  PROVE  Pairs(L, Tail(S)) /\ \A m \in Calls(Tail(S)) : Above(L, Head(S), m)
<1>. DEFINE R == Tail(S)
<1>1. R \in Seq(Call) /\ Len(S) = Len(R) + 1 /\ S[1] = Head(S) /\ \A i \in 1..Len(R) : R[i] = S[i + 1]
  OBVIOUS
<1>. HIDE DEF R
<1>2. Pairs(L, R)
  <2>1. SUFFICES ASSUME NEW j \in 1..Len(R), NEW i \in 1..(j - 1) PROVE Above(L, R[i], R[j])
    BY DEF Pairs
  <2>2. j + 1 \in 1..Len(S) /\ i + 1 \in 1..((j + 1) - 1) /\ i \in 1..Len(R)
    BY <1>1
  <2>3. Above(L, S[i + 1], S[j + 1])
    BY <2>2 DEF Pairs
  <2>. QED BY <2>2, <2>3, <1>1
<1>3. ASSUME NEW m \in Calls(R) PROVE Above(L, Head(S), m)
  <2>1. PICK j \in 1..Len(R) : m = R[j]
    BY DEF Calls
  <2>2. j + 1 \in 1..Len(S) /\ 1 \in 1..((j + 1) - 1)
    BY <1>1
  <2>3. Above(L, S[1], S[j + 1])
    BY <2>2 DEF Pairs
  <2>. QED BY <2>1, <2>3, <1>1
<1>. QED BY <1>2, <1>3 DEF R

LEMMA PairsLine ==
  ASSUME NEW L, NEW M, NEW S \in Seq(Call), Pairs(L, S),
         \A k, m \in Calls(S) : Above(L, k, m) => Above(M, k, m)
  PROVE  Pairs(M, S)
<1>1. SUFFICES ASSUME NEW j \in 1..Len(S), NEW i \in 1..(j - 1) PROVE Above(M, S[i], S[j])
  BY DEF Pairs
<1>2. i \in 1..Len(S)
  OBVIOUS
<1>3. S[i] \in Calls(S) /\ S[j] \in Calls(S)
  BY <1>2 DEF Calls
<1>4. Above(L, S[i], S[j])
  BY DEF Pairs
<1>. QED BY <1>3, <1>4

\* What each change of the stack does to it.
LEMMA StackPush ==
  ASSUME stack \in Seq(Call), NEW k \in Call, Push(k)
  PROVE  /\ stack' \in Seq(Call) /\ stack' # <<>> /\ Top' = k
         /\ InProgress' = {k} \cup InProgress /\ Below' = InProgress
         /\ PairsOK /\ line' = line /\ (\A m \in InProgress : Above(line, k, m)) => PairsOK'
<1>1. stack' = <<k>> \o stack
  BY DEF Push
<1>2. stack' \in Seq(Call) /\ stack' # <<>> /\ Head(stack') = k /\ Tail(stack') = stack
      /\ Calls(stack') = {k} \cup Calls(stack)
  BY <1>1, CallsPush
<1>3. ASSUME PairsOK, line' = line, \A m \in InProgress : Above(line, k, m)
      PROVE  PairsOK'
  <2>1. Pairs(line, <<k>> \o stack)
    BY <1>3, PairsPush DEF PairsOK, InProgress
  <2>. QED BY <2>1, <1>1, <1>3 DEF PairsOK
<1>. QED BY <1>2, <1>3 DEF Top, InProgress, Below

LEMMA StackPop ==
  ASSUME stack \in Seq(Call), stack # <<>>, Pop
  PROVE  /\ stack' \in Seq(Call) /\ InProgress' = Below /\ Below' \subseteq Below
         /\ stack' # <<>> => Top' \in Below
         /\ PairsOK /\ line' = line => PairsOK'
<1>1. stack' = Tail(stack) /\ Tail(stack) \in Seq(Call)
  BY CallsPop DEF Pop
<1>2. ASSUME stack' # <<>>
      PROVE  Calls(stack') = {Head(stack')} \cup Calls(Tail(stack'))
  BY <1>1, <1>2, CallsPop
<1>3. ASSUME PairsOK, line' = line
      PROVE  PairsOK'
  BY <1>1, <1>3, PairsPop DEF PairsOK
<1>. QED BY <1>1, <1>2, <1>3 DEF Top, InProgress, Below

LEMMA StackTop ==
  ASSUME stack \in Seq(Call), stack # <<>>
  PROVE  /\ Top \in Call /\ InProgress = {Top} \cup Below /\ Below \subseteq Call
         /\ PairsOK => \A m \in Below : Above(line, Top, m)
BY CallsPop, CallsIn, PairsPop DEF Top, InProgress, Below, PairsOK

LEMMA StackEmpty == InMain => InProgress = {} /\ Below = {}
BY DEF InMain, InProgress, Below, Calls

LEMMA StackBecome ==
  ASSUME stack \in Seq(Call), stack # <<>>, NEW k \in Call, Become(k)
  PROVE  /\ stack' \in Seq(Call) /\ stack' # <<>> /\ Top' = k
         /\ InProgress' = {k} \cup Below /\ Below' = Below
         /\ PairsOK /\ line' = line /\ (\A m \in Below : Above(line, k, m)) => PairsOK'
<1>1. stack' = <<k>> \o Tail(stack) /\ Tail(stack) \in Seq(Call)
  BY CallsPop DEF Become
<1>2. stack' \in Seq(Call) /\ stack' # <<>> /\ Head(stack') = k /\ Tail(stack') = Tail(stack)
      /\ Calls(stack') = {k} \cup Calls(Tail(stack))
  BY <1>1, CallsPush
<1>3. ASSUME PairsOK, line' = line, \A m \in Below : Above(line, k, m)
      PROVE  PairsOK'
  <2>1. Pairs(line, Tail(stack)) /\ \A m \in Calls(Tail(stack)) : Above(line, k, m)
    BY <1>3, PairsPop DEF PairsOK, Below
  <2>2. Pairs(line, <<k>> \o Tail(stack))
    BY <2>1, <1>1, PairsPush
  <2>. QED BY <2>2, <1>1, <1>3 DEF PairsOK
<1>. QED BY <1>2, <1>3 DEF Top, InProgress, Below

LEMMA TwoCalls ==
  ASSUME NEW S \in Seq(Call), NEW k \in Call, NEW m \in Call
  PROVE  <<k, m>> \o S = <<k>> \o (<<m>> \o S)
<1>. DEFINE a == <<k>>
            b == <<m>>
            ab == <<k, m>>
<1>1. a \in Seq(Call) /\ b \in Seq(Call) /\ ab \in Seq(Call)
  OBVIOUS
<1>2. a \o b \in Seq(Call) /\ Len(a \o b) = 2 /\ (a \o b)[1] = k /\ (a \o b)[2] = m
  BY <1>1
<1>3. Len(ab) = 2 /\ ab[1] = k /\ ab[2] = m
  OBVIOUS
<1>. HIDE DEF a, b, ab
<1>4. \A i \in 1..Len(a \o b) : (a \o b)[i] = ab[i]
  <2>1. \A i \in 1..2 : i = 1 \/ i = 2
    OBVIOUS
  <2>. QED BY <1>2, <1>3, <2>1
<1>5. a \o b = ab
  BY <1>1, <1>2, <1>3, <1>4, SeqEqual
<1>6. (a \o b) \o S = a \o (b \o S)
  BY <1>1, ConcatAssociative
<1>. QED BY <1>5, <1>6 DEF a, b, ab

LEMMA StackTwo ==
  ASSUME stack \in Seq(Call), stack # <<>>, NEW k \in Call, NEW m \in Call,
         stack' = <<k, m>> \o Tail(stack)
  PROVE  /\ stack' \in Seq(Call) /\ stack' # <<>> /\ Top' = k
         /\ InProgress' = {k, m} \cup Below /\ Below' = {m} \cup Below
         /\ /\ PairsOK /\ line' = line /\ Above(line, k, m)
            /\ \A n \in Below : Above(line, k, n) /\ Above(line, m, n)
            => PairsOK'
<1>. DEFINE R == Tail(stack)
            T == <<m>> \o R
<1>1. R \in Seq(Call)
  BY CallsPop
<1>2. T \in Seq(Call) /\ Calls(T) = {m} \cup Calls(R)
  BY <1>1, CallsPush
<1>3. <<k, m>> \o R = <<k>> \o T
  BY <1>1, TwoCalls
<1>4. Pairs(line, stack) => Pairs(line, R)
  BY PairsPop
<1>5. stack' = <<k>> \o T
  BY <1>3
<1>6. Below = Calls(R) /\ Below' = IF stack' = <<>> THEN {} ELSE Calls(Tail(stack'))
  BY DEF Below
<1>. HIDE DEF R, T
<1>7. stack' \in Seq(Call) /\ stack' # <<>> /\ Head(stack') = k /\ Tail(stack') = T
      /\ Calls(stack') = {k} \cup Calls(T)
  BY <1>2, <1>5, CallsPush
<1>8. ASSUME PairsOK, line' = line, Above(line, k, m),
             \A n \in Below : Above(line, k, n) /\ Above(line, m, n)
      PROVE  PairsOK'
  <2>1. Pairs(line, T)
    BY <1>1, <1>4, <1>6, <1>8, PairsPush DEF PairsOK, T
  <2>2. Pairs(line, <<k>> \o T)
    BY <2>1, <1>2, <1>6, <1>8, PairsPush
  <2>. QED BY <2>2, <1>5, <1>8 DEF PairsOK
<1>. QED BY <1>2, <1>6, <1>7, <1>8 DEF Top, InProgress

-----------------------------------------------------------------------------
(* Owners. *)

LEMMA OwnedBelow ==
  ASSUME TypeOK, LineInv, NEW c \in Co, frame[c] # "none"
  PROVE  /\ c \in line[c] /\ owner[c] # c /\ line[c] \subseteq Co
         /\ owner[c] \in Co => /\ owner[c] \in line[c] /\ c \notin line[owner[c]]
                               /\ line[c] = {c} \cup line[owner[c]]
                               /\ frame[owner[c]] # "none"
<1>1. line[c] \subseteq Co
  BY DEF TypeOK
<1>2. Main \notin Co /\ Null \notin Co
  BY CallableAssumption, PromiseAssumption
<1>3. c \in line[c]
  BY DEF LineInv, LineOwner
<1>4. owner[c] # c
  BY <1>2, <1>3 DEF LineInv, LineOwner
<1>5. ASSUME owner[c] \in Co
      PROVE  /\ owner[c] \in line[c] /\ c \notin line[owner[c]]
             /\ line[c] = {c} \cup line[owner[c]] /\ frame[owner[c]] # "none"
  <2>1. frame[owner[c]] # "none" /\ c \notin line[owner[c]] /\ line[c] = {c} \cup line[owner[c]]
    BY <1>2, <1>5 DEF LineInv, LineOwner
  <2>2. owner[c] \in line[owner[c]]
    BY <1>5, <2>1 DEF LineInv, LineOwner
  <2>. QED BY <2>1, <2>2
<1>. QED BY <1>1, <1>3, <1>4, <1>5

\* What runs is no heir of what a call below it is about.
LEMMA Untouched ==
  ASSUME TypeOK, LineInv, PairsOK, CallsOK, stack # <<>>,
         NEW c \in Co, frame[c] # "none", NEW z \in Subjects(Top), z \in line[c], NEW m \in Below
  PROVE  /\ m.pc \in Running => m.co # c
         /\ m.pc = "destroy" => owner[m.co] # c
         /\ m.pc = "wake" => c \notin m.todo
<1>1. Above(line, Top, m) /\ m \in InProgress
  BY StackTop DEF TypeOK, PromiseTypeOK
<1>2. line[c] \subseteq Co /\ z \in Co /\ c \in line[c]
  BY OwnedBelow
<1>3. CallOK(m)
  BY <1>1 DEF CallsOK
<1>4. ASSUME m.pc \in Running PROVE m.co # c
  <2>1. z # m.co /\ m.co \in line[z] /\ m.co \in Co
    BY <1>1, <1>2, <1>3, <1>4 DEF Above, CallOK, Running
  <2>. QED BY <2>1, <1>2 DEF LineInv, LineAnti
<1>5. ASSUME m.pc = "destroy", owner[m.co] = c PROVE FALSE
  <2>1. m.co \in Co /\ m.co \in line[z] /\ frame[m.co] # "none"
    BY <1>1, <1>3, <1>5 DEF Above, CallOK, Alive
  <2>2. c \in line[m.co] /\ m.co # c
    BY <2>1, <1>5, OwnedBelow
  <2>3. m.co \in line[c]
    BY <2>1, <1>2 DEF LineInv, LineUp
  <2>. QED BY <2>1, <2>2, <2>3 DEF LineInv, LineAnti
<1>6. ASSUME m.pc = "wake", c \in m.todo PROVE FALSE
  <2>1. line[z] \cap line[c] = {}
    BY <1>1, <1>6 DEF Above
  <2>2. line[z] \subseteq line[c] /\ frame[z] # "none"
    BY <1>2 DEF LineInv, LineUp, LineNone
  <2>3. z \in line[z]
    BY <1>2, <2>2, OwnedBelow
  <2>. QED BY <2>1, <2>3, <1>2
<1>. QED BY <1>4, <1>5, <1>6

LEMMA AboveDown ==
  ASSUME TypeOK, LineInv, NEW t, NEW k, NEW m \in InProgress, CallOK(m), Above(line, t, m),
         Subjects(k) \subseteq Co, Subjects(t) \subseteq Co,
         \A x \in Subjects(k) : frame[x] # "none" /\ \E z \in Subjects(t) : z \in line[x],
         k.pc = "destroy" /\ m.pc = "destroy" => k.co # m.co
  PROVE  Above(line, k, m)
<1>1. SUFFICES ASSUME NEW x \in Subjects(k)
      PROVE  /\ m.pc \in Running => x # m.co /\ m.co \in line[x]
             /\ m.pc = "destroy" => m.co \in line[x]
             /\ m.pc = "wake" => \A p \in m.todo : line[x] \cap line[p] = {}
  BY DEF Above
<1>2. PICK z \in Subjects(t) : z \in line[x]
  OBVIOUS
<1>3. x \in Co /\ z \in Co /\ line[z] \subseteq line[x] /\ z \in line[z] /\ line[x] \subseteq Co
  <2>1. x \in Co /\ z \in Co
    OBVIOUS
  <2>2. frame[z] # "none"
    BY <2>1, <1>2 DEF LineInv, LineNone
  <2>. QED BY <2>1, <2>2, <1>2, OwnedBelow DEF LineInv, LineUp
<1>4. ASSUME m.pc \in Running PROVE x # m.co /\ m.co \in line[x]
  <2>1. z # m.co /\ m.co \in line[z]
    BY <1>4 DEF Above
  <2>. QED BY <2>1, <1>2, <1>3 DEF LineInv, LineAnti
<1>5. ASSUME m.pc = "destroy" PROVE m.co \in line[x]
  BY <1>3, <1>5 DEF Above
<1>6. ASSUME m.pc = "wake", NEW p \in m.todo, NEW b \in line[x], b \in line[p] PROVE FALSE
  <2>1. m \in Call
    BY CallsIn DEF InProgress, TypeOK, PromiseTypeOK
  <2>2. p \in Co
    BY <1>6, <2>1 DEF Call
  <2>3. line[z] \cap line[p] = {}
    BY <1>6, <1>2 DEF Above
  <2>4. b \in line[z] \/ z \in line[b]
    BY <1>2, <1>3, <1>6 DEF LineInv, LineChain
  <2>5. z \notin line[b]
    <3>1. line[b] \subseteq line[p]
      BY <1>6, <2>2 DEF LineInv, LineUp
    <3>. QED BY <3>1, <2>3, <1>3
  <2>. QED BY <2>3, <2>4, <2>5, <1>6
<1>. QED BY <1>4, <1>5, <1>6

\* Only what has no heir that lives ends.
LEMMA NoHeirs ==
  ASSUME TypeOK, LineInv, Lives, NEW c \in Co, \A d \in Co : owner[d] = c => ~Alive(d),
         NEW x \in Co, Alive(x), c \in line[x]
  PROVE  x = c
<1>1. SUFFICES ASSUME x # c PROVE FALSE
  OBVIOUS
<1>2. PICK d \in line[x] : owner[d] = c
  BY <1>1 DEF LineInv, LineNext
<1>3. d \in Co
  BY DEF TypeOK
<1>4. Alive(d)
  BY DEF Lives, Waits, Alive
<1>. QED BY <1>2, <1>3, <1>4

LEMMA LineKept ==
  ASSUME LineInv, UNCHANGED ownVars, \A c \in Co : frame'[c] = "none" <=> frame[c] = "none"
  PROVE  LineInv'
<1>1. owner' = owner /\ line' = line
  BY DEF ownVars
<1>. QED
  BY <1>1 DEF LineInv, LineNone, LineOwner, LineUp, LineAnti, LineChain, LineNext

LEMMA LivesKept ==
  ASSUME TypeOK, Lives, line' = line,
         \A c \in Co : (Alive(c)' => Alive(c)) /\ (Waits(c) => Waits(c)')
  PROVE  Lives'
<1>1. SUFFICES ASSUME NEW c \in Co, Alive(c)', NEW a \in line[c] \ {c} PROVE Waits(a)'
  BY DEF Lives
<1>2. a \in Co /\ Waits(a)
  BY <1>1 DEF Lives, TypeOK
<1>. QED BY <1>2

LEMMA CallKept ==
  ASSUME TypeOK, LineInv, NEW m \in Call, CallOK(m), Waiting(m), NEW X \in SUBSET Co,
         \A c \in Co \ X : /\ frame'[c] = frame[c] /\ awaits'[c] = awaits[c]
                           /\ attached'[c] = attached[c] /\ flags'[c] = flags[c],
         \A c \in Co : /\ Exiting(c) => Exiting(c)'
                       /\ frame[c] # "none" => /\ frame'[c] # "none"
                                               /\ owner'[c] = owner[c] /\ line'[c] = line[c],
         m.pc = "wake" /\ m.todo # {} /\ Over(m.co) => Over(m.co)',
         m.pc \in Running => m.co \notin X,
         m.pc = "destroy" => Alive(m.co)' /\ owner[m.co] \notin X,
         m.pc = "wake" => m.todo \cap X = {}
  PROVE  CallOK(m)' /\ Waiting(m)'
<1>1. m.pc \in Running \cup {"destroy", "wake"} /\ m.todo \subseteq Co
  BY DEF CallOK, Waiting, Call
<1>2. CASE m.pc \in Running
  BY <1>2 DEF CallOK, Waiting, Running
<1>3. CASE m.pc = "destroy"
  <2>1. Main \notin Co /\ Null \notin Co
    BY CallableAssumption, PromiseAssumption
  <2>2. m.co \in Co /\ frame[m.co] # "none" /\ m.todo = {} /\ owner'[m.co] = owner[m.co]
    BY <1>3 DEF CallOK, Alive
  <2>3. owner[m.co] \in Co => frame[owner[m.co]] = "active" /\ awaits[owner[m.co]] = Null
    BY <1>3, <2>1, <2>2 DEF CallOK
  <2>4. owner[m.co] = Main \/ owner[m.co] \in Co
    BY <2>2 DEF LineInv, LineOwner
  <2>. QED BY <2>2, <2>3, <2>4, <1>3 DEF CallOK, Waiting, Running
<1>4. CASE m.pc = "wake"
  <2>1. m.co \in Co => frame'[m.co] # "none" /\ m.todo \subseteq {owner'[m.co]}
    BY <1>4 DEF CallOK
  <2>2. \A p \in m.todo : /\ Suspended(p)' /\ attached'[p] /\ awaits'[p] = m.co
                          /\ Over(m.co)' /\ line'[p] = line[p]
    BY <1>1, <1>4 DEF CallOK, Suspended
  <2>3. \A p, q \in m.todo : p # q => line'[p] \cap line'[q] = {}
    BY <1>4, <2>2 DEF CallOK
  <2>. QED BY <2>1, <2>2, <2>3, <1>4 DEF CallOK, Waiting, Running
<1>. QED BY <1>1, <1>2, <1>3, <1>4

-----------------------------------------------------------------------------
(* The innermost call. *)

LEMMA TopFacts ==
  ASSUME IInv, stack # <<>>
  PROVE  /\ stack \in Seq(Call) /\ Top \in Call /\ Top \in InProgress /\ CallOK(Top)
         /\ InProgress = {Top} \cup Below
         /\ \A m \in Below : m \in Call /\ m \in InProgress /\ CallOK(m) /\ Waiting(m)
                             /\ Above(line, Top, m)
<1>1. stack \in Seq(Call)
  BY DEF IInv, TypeOK, PromiseTypeOK
<1>. QED BY <1>1, StackTop DEF IInv, CallsOK, BelowOK

LEMMA TopCo ==
  ASSUME IInv, stack # <<>>, Top.pc # "wake"
  PROVE  /\ Top.co \in Co /\ Top.todo = {} /\ Subjects(Top) = {Top.co}
         /\ frame[Top.co] \notin {"none", "destroyed"} /\ Top.co \in line[Top.co]
<1>1. CallOK(Top)
  BY TopFacts
<1>2. Top.co \in Co /\ Top.todo = {} /\ frame[Top.co] \notin {"none", "destroyed"}
  BY <1>1 DEF CallOK, Running, Suspended, Alive
<1>. QED BY <1>2, OwnedBelow DEF Subjects, IInv

\* Nothing that the innermost call is about, and none of its heirs, is in the
\* calls below it.
LEMMA BelowSpares ==
  ASSUME IInv, stack # <<>>, NEW c \in Co, frame[c] # "none",
         NEW z \in Subjects(Top), z \in line[c]
  PROVE  /\ \A m \in Below : /\ m.pc \in Running => m.co # c
                             /\ m.pc = "destroy" => owner[m.co] # c
                             /\ m.pc = "wake" => c \notin m.todo
         /\ frame[c] = "active" => Top.pc \in Running /\ Top.co = c
<1>1. ASSUME NEW m \in Below
      PROVE  /\ m.pc \in Running => m.co # c
             /\ m.pc = "destroy" => owner[m.co] # c
             /\ m.pc = "wake" => c \notin m.todo
  BY Untouched DEF IInv
<1>2. ASSUME frame[c] = "active" PROVE Top.pc \in Running /\ Top.co = c
  <2>1. PICK k \in InProgress : k.pc \in Running /\ k.co = c
    BY <1>2 DEF IInv, ActiveOnStack
  <2>. QED BY <1>1, <2>1, TopFacts
<1>. QED BY <1>1, <1>2

LEMMA GotoFacts ==
  ASSUME NEW t \in Call, NEW l \in Label
  PROVE  /\ [t EXCEPT !.pc = l] \in Call /\ [t EXCEPT !.pc = l].pc = l
         /\ [t EXCEPT !.pc = l].co = t.co /\ [t EXCEPT !.pc = l].todo = t.todo
<1>1. /\ t.pc \in Label /\ t.co \in Co \cup Event \cup {Null}
      /\ t.todo \in SUBSET Co /\ t.time \in Nat
      /\ t = [pc |-> t.pc, co |-> t.co, todo |-> t.todo, time |-> t.time]
  BY DEF Call
<1>2. [t EXCEPT !.pc = l] = [pc |-> l, co |-> t.co, todo |-> t.todo, time |-> t.time]
  BY <1>1
<1>. QED BY <1>1, <1>2 DEF Call

LEMMA StackGoto ==
  ASSUME IInv, stack # <<>>, Top.pc # "wake", NEW l \in Running, Goto(l)
  PROVE  \E k \in Call :
           /\ k.pc = l /\ k.co = Top.co /\ k.todo = {}
           /\ stack' \in Seq(Call) /\ stack' # <<>> /\ Top' = k
           /\ InProgress' = {k} \cup Below /\ Below' = Below
           /\ line' = line => PairsOK'
<1>. DEFINE k == [Top EXCEPT !.pc = l]
<1>1. Top \in Call /\ Top.todo = {} /\ stack \in Seq(Call)
  BY TopFacts, TopCo
<1>2. k \in Call /\ k.pc = l /\ k.co = Top.co /\ k.todo = {}
  <2>1. l \in Label
    BY DEF Running, Label
  <2>. QED BY <1>1, <2>1, GotoFacts
<1>3. Become(k)
  BY DEF Goto
<1>. HIDE DEF k
<1>4. ASSUME NEW m \in Below PROVE Above(line, k, m)
  <2>1. Above(line, Top, m) /\ Subjects(k) = Subjects(Top) /\ k.pc # "destroy"
    BY <1>1, <1>2, TopFacts DEF Subjects, Running
  <2>. QED BY <2>1 DEF Above
<1>5. PairsOK
  BY DEF IInv
<1>. QED BY <1>1, <1>2, <1>3, <1>4, <1>5, StackBecome

LEMMA NewCallFacts ==
  ASSUME NEW l \in Label, NEW x \in Co \cup Event
  PROVE  /\ NewCall(l, x) \in Call
         /\ NewCall(l, x).pc = l /\ NewCall(l, x).co = x /\ NewCall(l, x).todo = {}
BY DEF NewCall, Call

\* A call on x, whose owner the innermost call is about (or x itself).
LEMMA StackCall ==
  ASSUME IInv, NEW l \in {"body", "resume", "destroy"}, NEW x \in Co, frame[x] # "none",
         Push(NewCall(l, x)), line' = line,
         \/ InMain
         \/ Top.pc \in {"body", "locals"} /\ owner[x] = Top.co
         \/ Top.pc = "destroy" /\ Top.co = x /\ l = "resume"
  PROVE  \E k \in Call :
           /\ k.pc = l /\ k.co = x /\ k.todo = {}
           /\ stack' \in Seq(Call) /\ stack' # <<>> /\ Top' = k
           /\ InProgress' = {k} \cup InProgress /\ Below' = InProgress
           /\ PairsOK'
<1>. DEFINE k == NewCall(l, x)
<1>1. k \in Call /\ k.pc = l /\ k.co = x /\ k.todo = {}
  <2>1. l \in Label /\ x \in Co \cup Event
    BY DEF Label
  <2>. QED BY <2>1, NewCallFacts
<1>6. Subjects(k) = {x}
  BY <1>1 DEF Subjects
<1>2. stack \in Seq(Call) /\ PairsOK /\ Push(k) /\ TypeOK /\ LineInv
  BY DEF IInv, TypeOK, PromiseTypeOK
<1>3. x \in line[x]
  BY OwnedBelow, <1>2
<1>. HIDE DEF k
<1>4. ASSUME NEW m \in InProgress PROVE Above(line, k, m)
  <2>1. stack # <<>> /\ ~InMain
    BY StackEmpty DEF InMain
  <2>2. Top.pc # "wake"
    BY <2>1
  <2>3. Top.co \in Co /\ Subjects(Top) = {Top.co} /\ InProgress = {Top} \cup Below
    BY <2>1, <2>2, TopFacts, TopCo
  <2>4. Top.co \in line[x] /\ (Top.pc # "destroy" => Top.co # x /\ x \notin line[Top.co])
    BY <2>1, <2>3, <1>2, <1>3, OwnedBelow
  <2>5. CASE m = Top
    <3>1. Top.pc \in {"body", "locals", "destroy"} /\ (Top.pc = "destroy" => l = "resume")
      BY <2>1
    <3>. QED BY <1>1, <1>6, <2>4, <2>5, <3>1 DEF Above, Running
  <2>6. CASE m \in Below
    <3>1. Above(line, Top, m) /\ CallOK(m)
      BY <2>1, <2>6, TopFacts
    <3>2. ASSUME k.pc = "destroy", m.pc = "destroy" PROVE k.co # m.co
      <4>1. m.co \in line[Top.co]
        BY <2>3, <3>1, <3>2 DEF Above
      <4>2. Top.pc # "destroy"
        BY <2>1, <3>2, <1>1
      <4>. QED BY <4>1, <4>2, <2>4, <1>1
    <3>. QED BY <1>1, <1>6, <1>2, <2>3, <2>4, <3>1, <3>2, AboveDown
  <2>. QED BY <2>3, <2>5, <2>6
<1>. QED BY <1>1, <1>2, <1>4, StackPush

LEMMA StackResumeThen ==
  ASSUME IInv, stack # <<>>, Top.pc \in Running, NEW l \in Running, NEW x \in Co,
         frame[x] # "none", x # Top.co, Top.co \in line[x], ResumeThen(x, l), line' = line
  PROVE  \E r, k \in Call :
           /\ r.pc = "resume" /\ r.co = x /\ r.todo = {}
           /\ k.pc = l /\ k.co = Top.co /\ k.todo = {}
           /\ stack' \in Seq(Call) /\ stack' # <<>> /\ Top' = r
           /\ InProgress' = {r, k} \cup Below /\ Below' = {k} \cup Below
           /\ PairsOK'
<1>. DEFINE r == NewCall("resume", x)
            k == [Top EXCEPT !.pc = l]
<1>1. r \in Call /\ r.pc = "resume" /\ r.co = x /\ r.todo = {} /\ Subjects(r) = {x}
  <2>1. r \in Call /\ r.pc = "resume" /\ r.co = x /\ r.todo = {}
    <3>1. "resume" \in Label /\ x \in Co \cup Event
      BY DEF Label
    <3>. QED BY <3>1, NewCallFacts
  <2>. QED BY <2>1 DEF Subjects
<1>2. Top \in Call /\ Top.todo = {} /\ stack \in Seq(Call) /\ Subjects(Top) = {Top.co} /\ Top.co \in Co
  BY TopFacts, TopCo DEF Running
<1>3. k \in Call /\ k.pc = l /\ k.co = Top.co /\ k.todo = {} /\ Subjects(k) = {Top.co}
  <2>1. k \in Call /\ k.pc = l /\ k.co = Top.co /\ k.todo = {}
    <3>1. l \in Label
      BY DEF Running, Label
    <3>. QED BY <1>2, <3>1, GotoFacts
  <2>. QED BY <1>2, <2>1 DEF Subjects
<1>4. stack' = <<r, k>> \o Tail(stack)
  BY DEF ResumeThen
<1>. HIDE DEF r, k
<1>5. Above(line, r, k)
  BY <1>1, <1>3 DEF Above, Running
<1>6. ASSUME NEW m \in Below PROVE Above(line, r, m) /\ Above(line, k, m)
  <2>1. Above(line, Top, m) /\ CallOK(m) /\ m \in InProgress
    BY TopFacts
  <2>2. Above(line, k, m)
    BY <2>1, <1>2, <1>3 DEF Above, Running
  <2>3. Above(line, r, m)
    BY <2>1, <1>1, <1>2, AboveDown DEF IInv
  <2>. QED BY <2>2, <2>3
<1>7. PairsOK
  BY DEF IInv
<1>8. /\ stack' \in Seq(Call) /\ stack' # <<>> /\ Top' = r
      /\ InProgress' = {r, k} \cup Below /\ Below' = {k} \cup Below /\ PairsOK'
  BY <1>1, <1>2, <1>3, <1>4, <1>5, <1>6, <1>7, StackTwo
<1>. QED BY <1>1, <1>3, <1>8

-----------------------------------------------------------------------------
(* The steps. *)

\* A step on c, which the innermost call is about or an heir of such a one, leaves
\* the calls below as they were.
LEMMA BelowKept ==
  ASSUME IInv, stack # <<>>, NEW c \in Co, frame[c] # "none",
         NEW z \in Subjects(Top), z \in line[c], UNCHANGED ownVars,
         \A x \in Co \ {c} : /\ frame'[x] = frame[x] /\ awaits'[x] = awaits[x]
                             /\ attached'[x] = attached[x] /\ flags'[x] = flags[x],
         \A x \in Co : Exiting(x) => Exiting(x)',
         \A e \in Event : Over(e) => Over(e)',
         frame'[c] # "none", frame[c] = "final" => frame'[c] = "final",
         \A m \in Below : m.pc = "destroy" /\ m.co = c => frame'[c] # "destroyed"
  PROVE  \A m \in Below : m \in Call /\ CallOK(m)' /\ Waiting(m)'
<1>1. SUFFICES ASSUME NEW m \in Below PROVE m \in Call /\ CallOK(m)' /\ Waiting(m)'
  OBVIOUS
<1>2. m \in Call /\ CallOK(m) /\ Waiting(m) /\ {c} \in SUBSET Co /\ TypeOK /\ LineInv
  BY TopFacts DEF IInv
<1>3. /\ m.pc \in Running => m.co # c
      /\ m.pc = "destroy" => owner[m.co] # c
      /\ m.pc = "wake" => c \notin m.todo
  BY BelowSpares
<1>4. \A x \in Co : /\ Exiting(x) => Exiting(x)'
                    /\ frame[x] # "none" => /\ frame'[x] # "none"
                                            /\ owner'[x] = owner[x] /\ line'[x] = line[x]
  BY DEF ownVars
<1>5. m.pc = "wake" /\ m.todo # {} /\ Over(m.co) => Over(m.co)'
  BY <1>2, PromiseAssumption DEF Over, Finished, CallOK
<1>6. m.pc = "destroy" => Alive(m.co)'
  BY <1>2 DEF CallOK, Alive
<1>. QED BY <1>2, <1>3, <1>4, <1>5, <1>6, CallKept

LEMMA ResumeKeeps ==
  ASSUME IInv, Resume, UNCHANGED <<ownVars, value, awaited, ops>>
  PROVE  IInv'
<1>1. stack # <<>> /\ Top.pc = "resume" /\ Suspended(Top.co) /\ Goto("await_resume")
  BY DEF Resume, At
<1>2. PICK c \in Co : c = Top.co
  BY <1>1, TopCo
<1>3. /\ frame' = [frame EXCEPT ![c] = "active"]
      /\ UNCHANGED <<status, flags, waiting, callers, awaits, attached, owner, line, value, awaited, ops>>
  BY <1>2 DEF Resume, ownVars
<1>4. PICK k \in Call :
        /\ k.pc = "await_resume" /\ k.co = c /\ k.todo = {}
        /\ stack' \in Seq(Call) /\ stack' # <<>> /\ Top' = k
        /\ InProgress' = {k} \cup Below /\ Below' = Below /\ PairsOK'
  BY <1>1, <1>2, <1>3, StackGoto DEF Running
<1>5. /\ frame[c] = "suspended" /\ Subjects(Top) = {c} /\ c \in line[c]
      /\ InProgress = {Top} \cup Below /\ CallOK(Top)
      /\ \A m \in Below : m \in Call /\ CallOK(m) /\ Waiting(m)
  BY <1>1, <1>2, TopCo, TopFacts DEF Suspended
<1>6. \A m \in Below : /\ m.pc \in Running => m.co # c
                       /\ m.pc = "destroy" => owner[m.co] # c
                       /\ m.pc = "wake" => c \notin m.todo
  BY <1>1, <1>5, BelowSpares
<1>7. TypeOK'
  BY <1>3, <1>4, <1>5 DEF IInv, TypeOK, PromiseTypeOK, GeneratorTypeOK, Frame
<1>8. TypeOK /\ LineInv /\ Lives /\ AwaitInv
  BY DEF IInv
<1>9. \A x \in Co : frame'[x] = IF x = c THEN "active" ELSE frame[x]
  BY <1>3, <1>8 DEF TypeOK, PromiseTypeOK
<1>10. LineInv' /\ Lives'
  BY <1>3, <1>5, <1>8, <1>9, LineKept, LivesKept DEF Alive, Waits, ownVars
<1>11. CallsOK' /\ BelowOK'
  <2>1. \A m \in Below : CallOK(m)' /\ Waiting(m)'
    <3>1. \A x \in Co \ {c} : /\ frame'[x] = frame[x] /\ awaits'[x] = awaits[x]
                              /\ attached'[x] = attached[x] /\ flags'[x] = flags[x]
      BY <1>3, <1>9
    <3>2. (\A x \in Co : Exiting(x) => Exiting(x)') /\ \A e \in Event : Over(e) => Over(e)'
      BY <1>3, PromiseAssumption DEF Exiting, Over
    <3>. QED BY <1>1, <1>3, <1>5, <1>9, <3>1, <3>2, BelowKept DEF ownVars
  <2>2. CallOK(k)'
    <3>1. "returned" \notin flags[c] /\ awaits[c] # Null /\ attached[c]
      BY <1>5, <1>8 DEF IInv, StatusInv, AwaitInv, Suspended
    <3>. QED BY <1>3, <1>4, <1>9, <3>1 DEF CallOK, Running
  <2>. QED BY <1>4, <2>1, <2>2 DEF CallsOK, BelowOK
<1>12. TopOK'
  <2>1. Exiting(c) \/ Over(awaits[c])
    BY <1>1, <1>2, <1>5 DEF CallOK
  <2>2. awaits[c] \in Co => awaits[c] # c
    BY <1>8, <1>5, OwnedBelow DEF AwaitInv
  <2>. QED BY <1>3, <1>4, <1>9, <2>1, <2>2 DEF TopOK, Exiting, Over, Finished
<1>13. ActiveOnStack'
  <2>1. \A x \in Co : frame[x] = "active" => \E m \in Below : m.pc \in Running /\ m.co = x
    BY <1>1, <1>5 DEF IInv, ActiveOnStack, Running
  <2>. QED BY <1>4, <1>9, <2>1 DEF ActiveOnStack, Running
<1>14. TopIs("await_resume", c)'
  BY <1>4 DEF TopIs, At
<1>15. AwaitInv'
  BY <1>1, <1>3, <1>5, <1>8, <1>9, <1>14 DEF AwaitInv, TopIs, At, Suspended, Waits, Finished, Alive
<1>16. CallersInv'
  BY <1>3, <1>5, <1>9 DEF IInv, CallersInv, Over, Finished
<1>17. Reg'
  BY <1>1, <1>2, <1>3, <1>4, <1>5, <1>9 DEF IInv, Reg, TopIs, At, Suspended, Exiting
<1>18. StatusInv'
  BY <1>3, <1>5, <1>9 DEF IInv, StatusInv, Exiting
<1>19. KillCover'
  BY <1>1, <1>2, <1>3, <1>4, <1>5, <1>8, <1>9 DEF IInv, KillCover, TopIs, At, Suspended, Exiting, TypeOK
<1>. QED BY <1>4, <1>7, <1>10, <1>11, <1>12, <1>13, <1>15, <1>16, <1>17, <1>18, <1>19 DEF IInv

LEMMA WakeNextKeeps ==
  ASSUME IInv, WakeNext, UNCHANGED <<ownVars, value, awaited, ops>>
  PROVE  IInv'
<1>1. stack # <<>> /\ Top.pc = "wake"
  BY DEF WakeNext, At
<1>2. PICK c \in Top.todo :
        stack' = IF Skipped(c) THEN <<[Top EXCEPT !.todo = @ \ {c}]>> \o Tail(stack)
                 ELSE <<NewCall("resume", c), [Top EXCEPT !.todo = @ \ {c}]>> \o Tail(stack)
  BY DEF WakeNext
<1>3. UNCHANGED <<frame, status, flags, waiting, callers, awaits, attached, owner, line, value, awaited, ops>>
  BY DEF WakeNext, promiseVars, ownVars
<1>4. /\ Top \in Call /\ InProgress = {Top} \cup Below /\ CallOK(Top) /\ stack \in Seq(Call)
      /\ \A m \in Below : m \in Call /\ m \in InProgress /\ CallOK(m) /\ Waiting(m) /\ Above(line, Top, m)
  BY <1>1, TopFacts
<1>5. TypeOK /\ LineInv /\ Lives /\ AwaitInv /\ PairsOK /\ StatusInv
  BY DEF IInv
<1>6. /\ Top.todo \subseteq Co /\ c \in Co /\ c \in Subjects(Top)
      /\ Suspended(c) /\ attached[c] /\ awaits[c] = Top.co /\ Over(Top.co)
  BY <1>1, <1>4 DEF CallOK, Call, Subjects
<1>7. c \in line[c] /\ frame[c] # "none"
  BY <1>5, <1>6, OwnedBelow DEF Suspended
<1>8. ~Skipped(c)
  BY <1>5, <1>6 DEF Skipped, StatusInv, Suspended, Finished
<1>9. PICK r, k \in Call :
        /\ r.pc = "resume" /\ r.co = c /\ r.todo = {}
        /\ k.pc = "wake" /\ k.co = Top.co /\ k.todo = Top.todo \ {c}
        /\ stack' = <<r, k>> \o Tail(stack)
  <2>. DEFINE r == NewCall("resume", c)
              k == [Top EXCEPT !.todo = @ \ {c}]
  <2>1. stack' = <<r, k>> \o Tail(stack)
    BY <1>2, <1>8
  <2>2. r \in Call /\ r.pc = "resume" /\ r.co = c /\ r.todo = {}
    <3>1. "resume" \in Label /\ c \in Co \cup Event
      BY <1>6 DEF Label
    <3>. QED BY <3>1, NewCallFacts
  <2>3. k \in Call /\ k.pc = "wake" /\ k.co = Top.co /\ k.todo = Top.todo \ {c}
    <3>1. /\ Top.pc \in Label /\ Top.co \in Co \cup Event \cup {Null}
          /\ Top.todo \in SUBSET Co /\ Top.time \in Nat
          /\ Top = [pc |-> Top.pc, co |-> Top.co, todo |-> Top.todo, time |-> Top.time]
      BY <1>4 DEF Call
    <3>2. k = [pc |-> Top.pc, co |-> Top.co, todo |-> Top.todo \ {c}, time |-> Top.time]
      BY <3>1
    <3>. QED BY <1>1, <3>1, <3>2 DEF Call
  <2>. HIDE DEF r, k
  <2>. QED BY <2>1, <2>2, <2>3
<1>12. Above(line, r, k)
  BY <1>1, <1>4, <1>6, <1>9 DEF Above, Subjects, CallOK, Running
<1>13. \A m \in Below : Above(line, r, m) /\ Above(line, k, m)
  BY <1>1, <1>4, <1>6, <1>9 DEF Above, Subjects
<1>14. /\ stack' \in Seq(Call) /\ stack' # <<>> /\ Top' = r
       /\ InProgress' = {r, k} \cup Below /\ Below' = {k} \cup Below /\ PairsOK'
  BY <1>1, <1>3, <1>4, <1>5, <1>9, <1>12, <1>13, StackTwo
<1>15. TypeOK'
  BY <1>3, <1>5, <1>14 DEF TypeOK, PromiseTypeOK, GeneratorTypeOK
<1>16. LineInv' /\ Lives'
  BY <1>3, <1>5, LineKept, LivesKept DEF Alive, Waits, ownVars
<1>17. CallsOK' /\ BelowOK'
  <2>1. \A m \in Below : CallOK(m)' /\ Waiting(m)'
    <3>1. (\A x \in Co : Exiting(x) => Exiting(x)') /\ \A e \in Event : Over(e) => Over(e)'
      BY <1>3 DEF Exiting, Over, Finished
    <3>2. \A m \in Below : m.pc = "destroy" /\ m.co = c => frame'[c] # "destroyed"
      BY <1>3, <1>6 DEF Suspended
    <3>. QED BY <1>1, <1>3, <1>6, <1>7, <3>1, <3>2, BelowKept DEF ownVars
  <2>2. CallOK(r)'
    BY <1>3, <1>6, <1>9 DEF CallOK, Running, Suspended, Exiting, Over, Finished
  <2>3. CallOK(k)' /\ Waiting(k)'
    <3>1. /\ k.co \in Co \cup Event
          /\ k.co \in Co => frame[k.co] # "none" /\ k.todo \subseteq {owner[k.co]}
          /\ \A p \in k.todo : Suspended(p) /\ attached[p] /\ awaits[p] = k.co /\ Over(k.co)
          /\ \A p, q \in k.todo : p # q => line[p] \cap line[q] = {}
      BY <1>1, <1>4, <1>6, <1>9 DEF CallOK
    <3>2. Over(k.co)' <=> Over(k.co)
      BY <1>3 DEF Over, Finished
    <3>3. \A p \in k.todo : Suspended(p)' /\ attached'[p] /\ awaits'[p] = k.co /\ Over(k.co)'
      BY <1>3, <3>1, <3>2 DEF Suspended
    <3>4. k.pc = "wake" /\ k.pc \notin Running
      BY <1>9 DEF Running
    <3>. QED BY <1>3, <3>1, <3>3, <3>4 DEF CallOK, Waiting
  <2>. QED BY <1>14, <2>1, <2>2, <2>3 DEF CallsOK, BelowOK
<1>18. TopOK'
  BY <1>9, <1>14 DEF TopOK, At
<1>19. ActiveOnStack'
  BY <1>1, <1>3, <1>4, <1>14 DEF IInv, ActiveOnStack, Running
<1>20. AwaitInv'
  BY <1>1, <1>3, <1>5, <1>9, <1>14 DEF AwaitInv, TopIs, At, Suspended, Waits, Finished, Alive
<1>21. CallersInv'
  BY <1>3 DEF IInv, CallersInv, Over, Finished
<1>22. Reg'
  BY <1>1, <1>3, <1>4, <1>9, <1>14 DEF IInv, Reg, TopIs, At, Suspended, Exiting
<1>23. StatusInv'
  BY <1>3, <1>5 DEF StatusInv, Exiting
<1>24. KillCover'
  BY <1>1, <1>3, <1>4, <1>9, <1>14 DEF IInv, KillCover, TopIs, At, Suspended, Exiting, TypeOK
<1>. QED BY <1>14, <1>15, <1>16, <1>17, <1>18, <1>19, <1>20, <1>21, <1>22, <1>23, <1>24 DEF IInv

LEMMA WakeEndKeeps ==
  ASSUME IInv, WakeEnd, UNCHANGED <<ownVars, value, awaited, ops>>
  PROVE  IInv'
<1>1. stack # <<>> /\ Top.pc = "wake" /\ Top.todo = {} /\ Pop
  BY DEF WakeEnd, At
<1>3. UNCHANGED <<frame, status, flags, waiting, callers, awaits, attached, owner, line, value, awaited, ops>>
  BY DEF WakeEnd, promiseVars, ownVars
<1>4. /\ InProgress = {Top} \cup Below /\ stack \in Seq(Call)
      /\ \A m \in Below : CallOK(m) /\ Waiting(m)
  BY <1>1, TopFacts
<1>5. TypeOK /\ LineInv /\ Lives /\ AwaitInv /\ PairsOK /\ StatusInv
  BY DEF IInv
<1>14. /\ stack' \in Seq(Call) /\ InProgress' = Below /\ Below' \subseteq Below
       /\ (stack' # <<>> => Top' \in Below) /\ PairsOK'
  BY <1>1, <1>3, <1>4, <1>5, StackPop
<1>15. TypeOK'
  BY <1>3, <1>5, <1>14 DEF TypeOK, PromiseTypeOK, GeneratorTypeOK
<1>16. LineInv' /\ Lives'
  BY <1>3, <1>5, LineKept, LivesKept DEF Alive, Waits, ownVars
<1>17. CallsOK' /\ BelowOK'
  <2>1. \A m \in Below : CallOK(m)' /\ Waiting(m)'
    BY <1>3, <1>4 DEF CallOK, Running, Waiting, Suspended, Exiting, Over, Finished, Alive
  <2>. QED BY <1>14, <2>1 DEF CallsOK, BelowOK
<1>18. TopOK'
  BY <1>3, <1>4, <1>14 DEF TopOK, At, Waiting
<1>19. ActiveOnStack'
  BY <1>1, <1>3, <1>4, <1>14 DEF IInv, ActiveOnStack, Running
<1>20. AwaitInv'
  BY <1>1, <1>3, <1>5, <1>14 DEF AwaitInv, TopIs, At, Suspended, Waits, Finished, Alive
<1>21. CallersInv'
  BY <1>3 DEF IInv, CallersInv, Over, Finished
<1>22. Reg'
  BY <1>1, <1>3, <1>4, <1>14 DEF IInv, Reg, TopIs, At, Suspended, Exiting
<1>23. StatusInv'
  BY <1>3, <1>5 DEF StatusInv, Exiting
<1>24. KillCover'
  BY <1>1, <1>3, <1>4, <1>14 DEF IInv, KillCover, TopIs, At, Suspended, Exiting, TypeOK
<1>. QED BY <1>14, <1>15, <1>16, <1>17, <1>18, <1>19, <1>20, <1>21, <1>22, <1>23, <1>24 DEF IInv

LEMMA ResumeWaitingKeeps ==
  ASSUME IInv, ResumeWaiting, UNCHANGED <<ownVars, value, awaited, ops>>
  PROVE  IInv'
<1>1. stack # <<>> /\ Top.pc = "resume_waiting"
  BY DEF ResumeWaiting, At
<1>2. /\ stack \in Seq(Call) /\ InProgress = {Top} \cup Below /\ CallOK(Top)
      /\ \A m \in Below : m \in Call /\ CallOK(m) /\ Waiting(m)
      /\ Top.co \in Co /\ Subjects(Top) = {Top.co} /\ Top.co \in line[Top.co]
  BY <1>1, TopFacts, TopCo
<1>3. TypeOK /\ LineInv /\ Lives /\ AwaitInv /\ StatusInv /\ CallersInv
  BY DEF IInv
<1>4. PICK c \in Co, d \in Co : c = Top.co /\ d = awaits[c]
  BY <1>1, <1>2 DEF CallOK
<1>5. /\ frame[c] = "active" /\ "returned" \notin flags[c] /\ ~attached[c] /\ Exiting(d)
  BY <1>1, <1>2, <1>4 DEF CallOK, Running
<1>6. owner[d] = c /\ Alive(d)
  BY <1>3, <1>4 DEF AwaitInv
<1>7. waiting[d] # Null /\ ~Finished(waiting[d])
  BY <1>4 DEF ResumeWaiting, WaitsForAnother
<1>8. PICK w \in Co : w = waiting[d]
  BY <1>3, <1>7 DEF TypeOK, PromiseTypeOK
<1>9. /\ attached[d] /\ awaits[d] = w /\ d \in callers[w] /\ Suspended(d) /\ owner[w] = d /\ Alive(w)
  BY <1>1, <1>3, <1>7, <1>8 DEF AwaitInv, TopIs, At
<1>10. /\ c \in line[d] /\ d \in line[w] /\ c \in line[w] /\ w # c /\ d # c /\ w # d
  <2>1. c \in line[d] /\ d # c
    BY <1>3, <1>6, OwnedBelow DEF Alive
  <2>2. d \in line[w] /\ w \notin line[d] /\ w # d /\ line[w] = {w} \cup line[d]
    BY <1>3, <1>9, OwnedBelow DEF Alive
  <2>. QED BY <2>1, <2>2
<1>11. Suspended(w)
  <2>1. frame[w] # "active" /\ frame[w] # "final"
    BY <1>1, <1>2, <1>4, <1>7, <1>8, <1>9, <1>10, BelowSpares DEF Alive, Finished
  <2>. QED BY <1>3, <1>9, <2>1 DEF Alive, Suspended, TypeOK, PromiseTypeOK, Frame
<1>12. status[d] > DONE /\ status[d] \in CREATED..TIMEOUT
  <2>1. status[d] \in CREATED..TIMEOUT
    BY <1>3 DEF TypeOK, PromiseTypeOK
  <2>2. status[d] # DONE
    BY <1>3, <1>9 DEF StatusInv, Suspended
  <2>. QED BY <1>5, <2>1, <2>2 DEF Exiting, DONE, CREATED, TIMEOUT
<1>13. /\ waiting' = [waiting EXCEPT ![d] = Null]
       /\ callers' = [callers EXCEPT ![w] = @ \ {d}]
       /\ awaits' = [awaits EXCEPT ![c] = Null]
       /\ UNCHANGED <<frame, flags, attached, owner, line, value, awaited, ops>>
       /\ status' = IF Exiting(w) THEN status ELSE [status EXCEPT ![w] = status[d]]
       /\ ResumeThen(w, "body")
  BY <1>4, <1>8, <1>9, <1>12 DEF ResumeWaiting, RemoveCaller, Inherited, ownVars
<1>14. PICK r, k \in Call :
           /\ r.pc = "resume" /\ r.co = w /\ r.todo = {}
           /\ k.pc = "body" /\ k.co = c /\ k.todo = {}
           /\ stack' \in Seq(Call) /\ stack' # <<>> /\ Top' = r
           /\ InProgress' = {r, k} \cup Below /\ Below' = {k} \cup Below
           /\ PairsOK'
  <2>1. /\ Top.pc \in Running /\ "body" \in Running /\ frame[w] # "none"
        /\ w # Top.co /\ Top.co \in line[w] /\ line' = line
    BY <1>1, <1>4, <1>10, <1>11, <1>13 DEF Running, Suspended
  <2>2. ResumeThen(w, "body")
    BY <1>13
  <2>3. \E r, k \in Call :
           /\ r.pc = "resume" /\ r.co = w /\ r.todo = {}
           /\ k.pc = "body" /\ k.co = Top.co /\ k.todo = {}
           /\ stack' \in Seq(Call) /\ stack' # <<>> /\ Top' = r
           /\ InProgress' = {r, k} \cup Below /\ Below' = {k} \cup Below
           /\ PairsOK'
    BY <1>1, <2>1, <2>2, StackResumeThen
  <2>. QED BY <1>4, <2>3
<1>15. /\ \A x \in Co : awaits'[x] = IF x = c THEN Null ELSE awaits[x]
       /\ \A x \in Co : waiting'[x] = IF x = d THEN Null ELSE waiting[x]
       /\ \A x \in Co \cup Event : callers'[x] = IF x = w THEN callers[x] \ {d} ELSE callers[x]
       /\ \A x \in Co : status'[x] = IF x = w /\ ~Exiting(w) THEN status[d] ELSE status[x]
  BY <1>3, <1>13 DEF TypeOK, PromiseTypeOK
<1>16. Exiting(w)' /\ \A x \in Co : /\ Exiting(x) => Exiting(x)'
                                    /\ x # w => (Exiting(x)' => Exiting(x))
                                    /\ status'[x] = DONE => status[x] = DONE
  BY <1>12, <1>15 DEF Exiting, DONE, CREATED, TIMEOUT
<1>17. TypeOK'
  <2>1. status' \in [Co -> CREATED..TIMEOUT]
    BY <1>3, <1>12, <1>13 DEF TypeOK, PromiseTypeOK
  <2>2. \A x \in Co : status'[x] = CREATED <=> frame'[x] = "none"
    BY <1>3, <1>11, <1>12, <1>13, <1>15 DEF TypeOK, Suspended, CREATED, DONE
  <2>. QED BY <1>3, <1>13, <1>14, <2>1, <2>2 DEF TypeOK, PromiseTypeOK, GeneratorTypeOK
<1>18. LineInv' /\ Lives'
  BY <1>3, <1>13, LineKept, LivesKept DEF Alive, Waits, ownVars
<1>19. CallsOK' /\ BelowOK'
  <2>1. \A m \in Below : CallOK(m)' /\ Waiting(m)'
    <3>1. \A x \in Co \ {c} : /\ frame'[x] = frame[x] /\ awaits'[x] = awaits[x]
                              /\ attached'[x] = attached[x] /\ flags'[x] = flags[x]
      BY <1>13, <1>15
    <3>2. (\A x \in Co : Exiting(x) => Exiting(x)') /\ \A e \in Event : Over(e) => Over(e)'
      BY <1>13, <1>16, PromiseAssumption DEF Over
    <3>. QED BY <1>1, <1>2, <1>4, <1>5, <1>13, <3>1, <3>2, BelowKept DEF ownVars
  <2>2. CallOK(r)' /\ CallOK(k)' /\ Waiting(k)'
    BY <1>5, <1>11, <1>13, <1>14, <1>15, <1>16 DEF CallOK, Waiting, Running, Suspended
  <2>. QED BY <1>14, <2>1, <2>2 DEF CallsOK, BelowOK
<1>20. TopOK'
  BY <1>14 DEF TopOK, At
<1>21. ActiveOnStack'
  BY <1>2, <1>4, <1>13, <1>14 DEF IInv, ActiveOnStack, Running
<1>22. AwaitInv'
  <2>1. \A x : ~TopIs("await_resume", x)
    BY <1>1 DEF TopIs, At
  <2>. QED BY <1>3, <1>5, <1>13, <1>15, <2>1, PromiseAssumption
           DEF AwaitInv, Suspended, Waits, Finished, Alive, TypeOK, PromiseTypeOK
<1>23. CallersInv'
  <2>1. \A x \in Co \cup Event : Over(x)' <=> Over(x)
    BY <1>13 DEF Over, Finished
  <2>2. \A x \in Co \cup Event : callers'[x] \subseteq callers[x]
    BY <1>15
  <2>3. \A x \in Co \cup Event : c \notin callers[x]
    BY <1>3, <1>5 DEF CallersInv
  <2>. QED BY <1>3, <1>13, <1>15, <2>1, <2>2, <2>3 DEF CallersInv, TypeOK, PromiseTypeOK
<1>24. Reg'
  <2>1. SUFFICES ASSUME NEW x \in Co, Suspended(x)', ~Exiting(x)'
        PROVE  x \in callers'[awaits'[x]] \/ \E m \in InProgress' : m.pc = "wake" /\ x \in m.todo
    BY DEF Reg
  <2>2. Suspended(x) /\ ~Exiting(x) /\ x # c /\ x # d /\ ~TopIs("resume", x)
    BY <1>1, <1>5, <1>13, <1>16, <2>1 DEF Suspended, TopIs, At
  <2>3. x \in callers[awaits[x]] \/ \E m \in Below : m.pc = "wake" /\ x \in m.todo
    BY <1>1, <1>2, <2>2 DEF IInv, Reg
  <2>4. awaits[x] \in Co \cup Event
    BY <1>3, <2>2 DEF AwaitInv, TypeOK, PromiseTypeOK
  <2>5. awaits'[x] = awaits[x] /\ (x \in callers[awaits[x]] => x \in callers'[awaits[x]])
    BY <1>15, <2>2, <2>4
  <2>. QED BY <1>14, <2>3, <2>5
<1>25. StatusInv'
  BY <1>3, <1>13, <1>16 DEF StatusInv
<1>26. KillCover'
  <2>1. TopIs("resume", w)' /\ \A x : ~TopIs("resume", x)
    BY <1>1, <1>14 DEF TopIs, At
  <2>2. SUFFICES ASSUME NEW x \in Co, Suspended(x)', Exiting(x)'
        PROVE  \E a \in line'[x] : \/ \E m \in InProgress' : m.pc = "destroy" /\ m.co = a
                                   \/ Exiting(a)' /\ (frame'[a] = "active" \/ TopIs("resume", a)')
    BY DEF KillCover
  <2>3. CASE x = w
    BY <1>3, <1>9, <1>13, <1>16, <2>1, <2>3, OwnedBelow DEF Alive
  <2>4. CASE x # w
    <3>1. PICK a \in line[x] : \/ \E m \in Below : m.pc = "destroy" /\ m.co = a
                               \/ Exiting(a) /\ frame[a] = "active"
      BY <1>1, <1>2, <1>13, <1>16, <2>1, <2>2, <2>4 DEF IInv, KillCover, Suspended
    <3>2. a \in Co
      BY <1>3 DEF TypeOK
    <3>. QED BY <1>13, <1>14, <1>16, <3>1, <3>2
  <2>. QED BY <2>3, <2>4
<1>. QED BY <1>14, <1>17, <1>18, <1>19, <1>20, <1>21, <1>22, <1>23, <1>24, <1>25, <1>26 DEF IInv

LEMMA ResumeCalleeKeeps ==
  ASSUME IInv, ResumeCallee, UNCHANGED <<ownVars, value, awaited, ops>>
  PROVE  IInv'
<1>1. stack # <<>> /\ Top.pc = "resume_waiting"
  BY DEF ResumeCallee, At
<1>2. /\ stack \in Seq(Call) /\ InProgress = {Top} \cup Below /\ CallOK(Top)
      /\ \A m \in Below : m \in Call /\ CallOK(m) /\ Waiting(m)
      /\ Top.co \in Co /\ Subjects(Top) = {Top.co} /\ Top.co \in line[Top.co]
  BY <1>1, TopFacts, TopCo
<1>3. TypeOK /\ LineInv /\ Lives /\ AwaitInv /\ StatusInv /\ CallersInv
  BY DEF IInv
<1>4. PICK c \in Co, d \in Co : c = Top.co /\ d = awaits[c]
  BY <1>1, <1>2 DEF CallOK
<1>5. /\ frame[c] = "active" /\ "returned" \notin flags[c] /\ ~attached[c] /\ Exiting(d)
  BY <1>1, <1>2, <1>4 DEF CallOK, Running
<1>6. owner[d] = c /\ Alive(d)
  BY <1>3, <1>4 DEF AwaitInv
<1>7. c \in line[d] /\ d # c
  BY <1>3, <1>6, OwnedBelow DEF Alive
<1>8. /\ awaits' = [awaits EXCEPT ![c] = Null]
      /\ UNCHANGED <<frame, status, flags, waiting, callers, attached, owner, line, value, awaited, ops>>
      /\ IF ~Finished(d) /\ "internal_waiting" \in flags[d]
         THEN ResumeThen(d, "body") ELSE Goto("body")
  BY <1>4 DEF ResumeCallee, ownVars
<1>9. PICK k \in Call :
        /\ k.pc = "body" /\ k.co = c /\ k.todo = {}
        /\ stack' \in Seq(Call) /\ stack' # <<>> /\ PairsOK'
        /\ \/ Top' = k /\ InProgress' = {k} \cup Below /\ Below' = Below
           \/ \E r \in Call : /\ r.pc = "resume" /\ r.co = d /\ r.todo = {} /\ Suspended(d)
                              /\ Top' = r /\ InProgress' = {r, k} \cup Below /\ Below' = {k} \cup Below
  <2>1. CASE ~Finished(d) /\ "internal_waiting" \in flags[d]
    <3>1. Suspended(d)
      BY <1>1, <1>3, <1>6, <2>1 DEF AwaitInv, TopIs, At
    <3>2. /\ Top.pc \in Running /\ "body" \in Running /\ frame[d] # "none"
          /\ d # Top.co /\ Top.co \in line[d] /\ line' = line /\ ResumeThen(d, "body")
      BY <1>1, <1>4, <1>6, <1>7, <1>8, <2>1 DEF Running, Alive
    <3>3. \E r, k \in Call :
             /\ r.pc = "resume" /\ r.co = d /\ r.todo = {}
             /\ k.pc = "body" /\ k.co = Top.co /\ k.todo = {}
             /\ stack' \in Seq(Call) /\ stack' # <<>> /\ Top' = r
             /\ InProgress' = {r, k} \cup Below /\ Below' = {k} \cup Below
             /\ PairsOK'
      BY <1>1, <3>2, StackResumeThen
    <3>. QED BY <1>4, <3>1, <3>3
  <2>2. CASE ~(~Finished(d) /\ "internal_waiting" \in flags[d])
    <3>1. Goto("body") /\ "body" \in Running /\ line' = line /\ Top.pc # "wake"
      BY <1>1, <1>8, <2>2 DEF Running
    <3>2. \E k \in Call :
           /\ k.pc = "body" /\ k.co = Top.co /\ k.todo = {}
           /\ stack' \in Seq(Call) /\ stack' # <<>> /\ Top' = k
           /\ InProgress' = {k} \cup Below /\ Below' = Below /\ PairsOK'
      BY <1>1, <3>1, StackGoto
    <3>. QED BY <1>4, <3>2
  <2>. QED BY <2>1, <2>2
<1>10. \A x \in Co : awaits'[x] = IF x = c THEN Null ELSE awaits[x]
  BY <1>3, <1>8 DEF TypeOK, PromiseTypeOK
<1>11. Below \subseteq InProgress' /\ (\A x : ~TopIs("await_resume", x) /\ ~TopIs("resume", x))
  BY <1>1, <1>9 DEF TopIs, At
<1>12. TypeOK'
  BY <1>3, <1>8, <1>9 DEF TypeOK, PromiseTypeOK, GeneratorTypeOK
<1>13. LineInv' /\ Lives'
  BY <1>3, <1>8, LineKept, LivesKept DEF Alive, Waits, ownVars
<1>14. CallsOK' /\ BelowOK'
  <2>1. \A m \in Below : CallOK(m)' /\ Waiting(m)'
    <3>1. \A x \in Co \ {c} : /\ frame'[x] = frame[x] /\ awaits'[x] = awaits[x]
                              /\ attached'[x] = attached[x] /\ flags'[x] = flags[x]
      BY <1>8, <1>10
    <3>2. (\A x \in Co : Exiting(x) => Exiting(x)') /\ \A e \in Event : Over(e) => Over(e)'
      BY <1>8, PromiseAssumption DEF Over, Exiting
    <3>. QED BY <1>1, <1>2, <1>4, <1>5, <1>8, <3>1, <3>2, BelowKept DEF ownVars
  <2>2. CallOK(k)' /\ Waiting(k)'
    BY <1>5, <1>8, <1>9, <1>10 DEF CallOK, Waiting, Running
  <2>3. ASSUME NEW r \in Call, r.pc = "resume" /\ r.co = d /\ r.todo = {}, Suspended(d) PROVE CallOK(r)'
    BY <1>5, <1>8, <2>3 DEF CallOK, Running, Suspended, Exiting
  <2>. QED BY <1>9, <2>1, <2>2, <2>3 DEF CallsOK, BelowOK
<1>15. TopOK'
  BY <1>9 DEF TopOK, At
<1>16. ActiveOnStack'
  BY <1>2, <1>4, <1>8, <1>9 DEF IInv, ActiveOnStack, Running
<1>17. AwaitInv'
  BY <1>3, <1>5, <1>8, <1>10, <1>11, PromiseAssumption
     DEF AwaitInv, Suspended, Waits, Finished, Alive, TypeOK, PromiseTypeOK
<1>18. CallersInv'
  <2>1. \A x \in Co \cup Event : Over(x)' <=> Over(x)
    BY <1>8 DEF Over, Finished
  <2>2. \A x \in Co \cup Event : c \notin callers[x]
    BY <1>3, <1>5 DEF CallersInv
  <2>. QED BY <1>3, <1>8, <1>10, <2>1, <2>2 DEF CallersInv, TypeOK, PromiseTypeOK
<1>19. Reg'
  BY <1>1, <1>2, <1>5, <1>8, <1>10, <1>11 DEF IInv, Reg, Suspended, Exiting
<1>20. StatusInv'
  BY <1>3, <1>8 DEF StatusInv, Exiting
<1>21. KillCover'
  BY <1>1, <1>2, <1>8, <1>11 DEF IInv, KillCover, Suspended, Exiting
<1>. QED BY <1>9, <1>12, <1>13, <1>14, <1>15, <1>16, <1>17, <1>18, <1>19, <1>20, <1>21 DEF IInv

\* co_await is over: what detach() leaves.
LEMMA DetachGeneratorKeeps ==
  ASSUME IInv, NEW c \in Co, NEW e \in Event, DetachGenerator(c, e), UNCHANGED <<ownVars, awaited, ops>>
  PROVE  IInv'
<1>1. stack # <<>> /\ Top.pc = "await_resume" /\ Top.co = c /\ awaits[c] = e /\ e \notin Co
  BY PromiseAssumption DEF DetachGenerator, At
<1>2. /\ stack \in Seq(Call) /\ InProgress = {Top} \cup Below /\ CallOK(Top)
      /\ \A m \in Below : m \in Call /\ CallOK(m) /\ Waiting(m)
      /\ Subjects(Top) = {c} /\ c \in line[c]
  BY <1>1, TopFacts, TopCo
<1>3. TypeOK /\ LineInv /\ Lives /\ AwaitInv /\ StatusInv /\ CallersInv
  BY DEF IInv
<1>4. frame[c] = "active" /\ "returned" \notin flags[c]
  BY <1>1, <1>2 DEF CallOK, Running
<1>5. waiting[c] = Null
  BY <1>1, <1>3 DEF AwaitInv, TypeOK, PromiseTypeOK, PromiseAssumption
<1>6. /\ awaits' = [awaits EXCEPT ![c] = Null]
      /\ flags' = [flags EXCEPT ![c] = IF attached[c] THEN @ \ {"internal_waiting"} ELSE @]
      /\ attached' = [attached EXCEPT ![c] = FALSE]
      /\ callers' = IF attached[c] THEN [callers EXCEPT ![e] = @ \ {c}] ELSE callers
      /\ UNCHANGED <<frame, status, waiting, owner, line, value, awaited, ops>>
      /\ Goto("body")
  BY DEF DetachGenerator, Detached, RemoveCaller, ownVars
<1>7. PICK k \in Call :
        /\ k.pc = "body" /\ k.co = c /\ k.todo = {}
        /\ stack' \in Seq(Call) /\ stack' # <<>> /\ Top' = k
        /\ InProgress' = {k} \cup Below /\ Below' = Below /\ PairsOK'
  BY <1>1, <1>6, StackGoto DEF Running
<1>8. /\ \A x \in Co : /\ awaits'[x] = IF x = c THEN Null ELSE awaits[x]
                       /\ attached'[x] = (x # c /\ attached[x])
                       /\ flags'[x] \subseteq flags[x] /\ (x # c => flags'[x] = flags[x])
                       /\ \A f \in Flag : f # "internal_waiting" => (f \in flags'[x] <=> f \in flags[x])
      /\ "internal_waiting" \notin flags'[c]
      /\ \A x \in Co \cup Event : callers'[x] = callers[x] \ {c}
  <2>1. \A x \in Co : /\ awaits'[x] = IF x = c THEN Null ELSE awaits[x]
                      /\ attached'[x] = (x # c /\ attached[x])
                      /\ flags'[x] = IF x = c /\ attached[c] THEN flags[x] \ {"internal_waiting"} ELSE flags[x]
    BY <1>3, <1>6 DEF TypeOK, PromiseTypeOK
  <2>2. "internal_waiting" \in flags[c] <=> attached[c]
    BY <1>3 DEF AwaitInv
  <2>3. \A x \in Co \cup Event : callers'[x] = callers[x] \ {c}
    <3>1. \A x \in Co \cup Event : c \in callers[x] => attached[c] /\ x = e
      BY <1>1, <1>3 DEF CallersInv
    <3>. QED BY <1>3, <1>6, <3>1 DEF TypeOK, PromiseTypeOK
  <2>. QED BY <2>1, <2>2, <2>3
<1>9. \A x : ~TopIs("await_resume", x)' /\ ~TopIs("resume", x) /\ (TopIs("await_resume", x) => x = c)
  BY <1>1, <1>7 DEF TopIs, At
<1>10. TypeOK'
  BY <1>3, <1>6, <1>7 DEF TypeOK, PromiseTypeOK, GeneratorTypeOK
<1>11. LineInv' /\ Lives'
  BY <1>3, <1>6, LineKept, LivesKept DEF Alive, Waits, ownVars
<1>12. CallsOK' /\ BelowOK'
  <2>1. \A m \in Below : CallOK(m)' /\ Waiting(m)'
    <3>1. \A x \in Co \ {c} : /\ frame'[x] = frame[x] /\ awaits'[x] = awaits[x]
                              /\ attached'[x] = attached[x] /\ flags'[x] = flags[x]
      BY <1>3, <1>6, <1>8 DEF TypeOK, PromiseTypeOK
    <3>2. (\A x \in Co : Exiting(x) => Exiting(x)') /\ \A y \in Event : Over(y) => Over(y)'
      BY <1>6, PromiseAssumption DEF Over, Exiting
    <3>. QED BY <1>1, <1>2, <1>4, <1>6, <3>1, <3>2, BelowKept DEF ownVars
  <2>2. CallOK(k)'
    BY <1>4, <1>6, <1>7, <1>8 DEF CallOK, Running
  <2>. QED BY <1>7, <2>1, <2>2 DEF CallsOK, BelowOK
<1>13. TopOK'
  BY <1>7 DEF TopOK, At
<1>14. ActiveOnStack'
  BY <1>1, <1>2, <1>6, <1>7 DEF IInv, ActiveOnStack, Running
<1>15. AwaitInv'
  <2>1. \A x \in Co : x # c => /\ ~TopIs("await_resume", x)
                              /\ waiting[x] \in Co \cup {Null}
                              /\ attached'[x] = attached[x] /\ awaits'[x] = awaits[x] /\ flags'[x] = flags[x]
    BY <1>3, <1>8, <1>9 DEF TypeOK, PromiseTypeOK
  <2>2. \A x \in Co : x # c /\ waiting[x] \in Co => (x \in callers[waiting[x]] => x \in callers'[waiting[x]])
    BY <1>8
  <2>3. ~attached'[c] /\ awaits'[c] = Null /\ "internal_waiting" \notin flags'[c] /\ Null \notin Co
    BY <1>8, PromiseAssumption
  <2>. QED BY <1>3, <1>4, <1>5, <1>6, <2>1, <2>2, <2>3 DEF AwaitInv, Suspended, Waits, Finished, Alive
<1>16. CallersInv'
  <2>1. \A x \in Co \cup Event : Over(x)' <=> Over(x)
    BY <1>6 DEF Over, Finished
  <2>. QED BY <1>3, <1>6, <1>8, <2>1 DEF CallersInv, TypeOK, PromiseTypeOK
<1>17. Reg'
  <2>1. SUFFICES ASSUME NEW x \in Co, Suspended(x)', ~Exiting(x)'
        PROVE  x \in callers'[awaits'[x]] \/ \E m \in InProgress' : m.pc = "wake" /\ x \in m.todo
    BY DEF Reg
  <2>2. Suspended(x) /\ ~Exiting(x) /\ x # c
    BY <1>4, <1>6, <2>1 DEF Suspended, Exiting
  <2>3. x \in callers[awaits[x]] \/ \E m \in Below : m.pc = "wake" /\ x \in m.todo
    BY <1>1, <1>2, <1>9, <2>2 DEF IInv, Reg
  <2>4. awaits[x] \in Co \cup Event
    BY <1>3, <2>2 DEF AwaitInv, TypeOK, PromiseTypeOK
  <2>. QED BY <1>7, <1>8, <2>2, <2>3, <2>4
<1>18. StatusInv'
  BY <1>3, <1>6, <1>8 DEF StatusInv, Exiting, Flag
<1>19. KillCover'
  BY <1>1, <1>2, <1>6, <1>7, <1>9 DEF IInv, KillCover, Suspended, Exiting
<1>. QED BY <1>7, <1>10, <1>11, <1>12, <1>13, <1>14, <1>15, <1>16, <1>17, <1>18, <1>19 DEF IInv

LEMMA DetachCallableKeeps ==
  ASSUME IInv, NEW c \in Co, NEW d \in Co, DetachCallable(c, d)
  PROVE  IInv'
<1>1. stack # <<>> /\ Top.pc = "await_resume" /\ Top.co = c /\ awaits[c] = d
  BY DEF DetachCallable, At
<1>2. /\ stack \in Seq(Call) /\ InProgress = {Top} \cup Below /\ CallOK(Top)
      /\ \A m \in Below : m \in Call /\ CallOK(m) /\ Waiting(m)
      /\ Subjects(Top) = {c} /\ c \in line[c]
  BY <1>1, TopFacts, TopCo
<1>3. TypeOK /\ LineInv /\ Lives /\ AwaitInv /\ StatusInv /\ CallersInv
  BY DEF IInv
<1>4. frame[c] = "active" /\ "returned" \notin flags[c] /\ (~attached[c] => Exiting(d))
  BY <1>1, <1>2 DEF CallOK, Running
<1>5. owner[d] = c /\ Alive(d) /\ c \in line[d] /\ d # c
  <2>1. owner[d] = c /\ Alive(d)
    BY <1>1, <1>3 DEF AwaitInv
  <2>. QED BY <1>3, <2>1, OwnedBelow DEF Alive
<1>6. /\ flags' = [flags EXCEPT ![c] = IF attached[c] THEN @ \ {"internal_waiting"} ELSE @]
      /\ attached' = [attached EXCEPT ![c] = FALSE]
      /\ callers' = IF attached[c] THEN [callers EXCEPT ![d] = @ \ {c}] ELSE callers
      /\ waiting' = [waiting EXCEPT ![c] = IF attached[c] THEN Null ELSE @]
      /\ status' = [status EXCEPT ![d] = CalleeStatus(c, d)]
      /\ UNCHANGED <<frame, awaits, owner, line, value, awaited, ops>>
      /\ Goto("resume_waiting")
  BY DEF DetachCallable, Detached, RemoveCaller, ownVars
<1>7. PICK k \in Call :
        /\ k.pc = "resume_waiting" /\ k.co = c /\ k.todo = {}
        /\ stack' \in Seq(Call) /\ stack' # <<>> /\ Top' = k
        /\ InProgress' = {k} \cup Below /\ Below' = Below /\ PairsOK'
  BY <1>1, <1>6, StackGoto DEF Running
<1>8. /\ \A x \in Co : /\ attached'[x] = (x # c /\ attached[x])
                       /\ flags'[x] \subseteq flags[x] /\ (x # c => flags'[x] = flags[x])
                       /\ \A f \in Flag : f # "internal_waiting" => (f \in flags'[x] <=> f \in flags[x])
                       /\ waiting'[x] = IF x = c THEN Null ELSE waiting[x]
      /\ "internal_waiting" \notin flags'[c]
      /\ \A x \in Co \cup Event : callers'[x] = callers[x] \ {c}
  <2>1. \A x \in Co : /\ attached'[x] = (x # c /\ attached[x])
                      /\ flags'[x] = IF x = c /\ attached[c] THEN flags[x] \ {"internal_waiting"} ELSE flags[x]
                      /\ waiting'[x] = IF x = c /\ attached[c] THEN Null ELSE waiting[x]
    BY <1>3, <1>6 DEF TypeOK, PromiseTypeOK
  <2>2. /\ "internal_waiting" \in flags[c] <=> attached[c]
        /\ waiting[c] # Null => attached[c]
    BY <1>3 DEF AwaitInv
  <2>3. \A x \in Co \cup Event : callers'[x] = callers[x] \ {c}
    <3>1. \A x \in Co \cup Event : c \in callers[x] => attached[c] /\ x = d
      BY <1>1, <1>3 DEF CallersInv
    <3>. QED BY <1>3, <1>6, <3>1 DEF TypeOK, PromiseTypeOK
  <2>. QED BY <2>1, <2>2, <2>3
<1>9. \A x : ~TopIs("await_resume", x)' /\ ~TopIs("resume", x) /\ (TopIs("await_resume", x) => x = c)
  BY <1>1, <1>7 DEF TopIs, At
<1>10. /\ CalleeStatus(c, d) \in CREATED..TIMEOUT /\ CalleeStatus(c, d) >= DONE
       /\ Exiting(d) => CalleeStatus(c, d) = status[d]
       /\ ~Exiting(d) => Exiting(c) /\ CalleeStatus(c, d) # DONE
  <2>1. status[c] \in CREATED..TIMEOUT /\ status[d] \in CREATED..TIMEOUT
    BY <1>3 DEF TypeOK, PromiseTypeOK
  <2>2. ~Exiting(d) => Exiting(c) /\ attached[c]
    <3>1. attached[c] => Exiting(c) \/ Finished(d)
      BY <1>1 DEF IInv, TopOK, At, Over
    <3>2. Finished(d) => Exiting(d)
      BY <1>3 DEF StatusInv, Finished
    <3>. QED BY <1>4, <3>1, <3>2
  <2>3. status[c] # DONE
    BY <1>3, <1>4 DEF StatusInv
  <2>. QED BY <2>1, <2>2, <2>3 DEF CalleeStatus, Exiting
<1>11. /\ \A x \in Co : status'[x] = IF x = d THEN CalleeStatus(c, d) ELSE status[x]
       /\ Exiting(d)' /\ \A x \in Co : /\ Exiting(x) => Exiting(x)'
                                       /\ x # d => (Exiting(x)' => Exiting(x))
                                       /\ status'[x] = DONE => status[x] = DONE
  <2>1. \A x \in Co : status'[x] = IF x = d THEN CalleeStatus(c, d) ELSE status[x]
    BY <1>3, <1>6 DEF TypeOK, PromiseTypeOK
  <2>. QED BY <1>10, <2>1 DEF Exiting
<1>12. TypeOK'
  <2>1. status' \in [Co -> CREATED..TIMEOUT]
    BY <1>3, <1>6, <1>10 DEF TypeOK, PromiseTypeOK
  <2>2. \A x \in Co : status'[x] = CREATED <=> frame'[x] = "none"
    BY <1>3, <1>5, <1>6, <1>10, <1>11 DEF TypeOK, Alive, CREATED, DONE
  <2>3. flags' \in [Co -> SUBSET Flag] /\ waiting' \in [Co -> Co \cup {Null}]
        /\ attached' \in [Co -> BOOLEAN] /\ callers' \in [Co \cup Event -> SUBSET Co]
    BY <1>3, <1>6 DEF TypeOK, PromiseTypeOK
  <2>. QED BY <1>3, <1>6, <1>7, <2>1, <2>2, <2>3 DEF TypeOK, PromiseTypeOK, GeneratorTypeOK
<1>13. LineInv' /\ Lives'
  BY <1>3, <1>6, LineKept, LivesKept DEF Alive, Waits, ownVars
<1>14. CallsOK' /\ BelowOK'
  <2>1. \A m \in Below : CallOK(m)' /\ Waiting(m)'
    <3>1. \A x \in Co \ {c} : /\ frame'[x] = frame[x] /\ awaits'[x] = awaits[x]
                              /\ attached'[x] = attached[x] /\ flags'[x] = flags[x]
      BY <1>3, <1>6, <1>8 DEF TypeOK, PromiseTypeOK
    <3>2. (\A x \in Co : Exiting(x) => Exiting(x)') /\ \A y \in Event : Over(y) => Over(y)'
      BY <1>6, <1>11, PromiseAssumption DEF Over
    <3>. QED BY <1>1, <1>2, <1>4, <1>6, <3>1, <3>2, BelowKept DEF ownVars
  <2>2. CallOK(k)'
    BY <1>1, <1>4, <1>6, <1>7, <1>8, <1>11 DEF CallOK, Running
  <2>. QED BY <1>7, <2>1, <2>2 DEF CallsOK, BelowOK
<1>15. TopOK'
  BY <1>7 DEF TopOK, At
<1>16. ActiveOnStack'
  BY <1>1, <1>2, <1>6, <1>7 DEF IInv, ActiveOnStack, Running
<1>17. AwaitInv'
  <2>1. \A x \in Co : x # c => /\ ~TopIs("await_resume", x)
                              /\ waiting[x] \in Co \cup {Null}
                              /\ attached'[x] = attached[x] /\ flags'[x] = flags[x]
    BY <1>3, <1>8, <1>9 DEF TypeOK, PromiseTypeOK
  <2>2. \A x \in Co : x # c /\ waiting[x] \in Co => (x \in callers[waiting[x]] => x \in callers'[waiting[x]])
    BY <1>8
  <2>3. ~attached'[c] /\ waiting'[c] = Null /\ "internal_waiting" \notin flags'[c] /\ Null \notin Co
    BY <1>8, PromiseAssumption
  <2>. QED BY <1>3, <1>4, <1>6, <1>8, <2>1, <2>2, <2>3 DEF AwaitInv, Suspended, Waits, Finished, Alive
<1>18. CallersInv'
  <2>1. \A x \in Co \cup Event : Over(x)' <=> Over(x)
    BY <1>6 DEF Over, Finished
  <2>. QED BY <1>3, <1>6, <1>8, <2>1 DEF CallersInv, TypeOK, PromiseTypeOK
<1>19. Reg'
  <2>1. SUFFICES ASSUME NEW x \in Co, Suspended(x)', ~Exiting(x)'
        PROVE  x \in callers'[awaits'[x]] \/ \E m \in InProgress' : m.pc = "wake" /\ x \in m.todo
    BY DEF Reg
  <2>2. Suspended(x) /\ ~Exiting(x) /\ x # c
    BY <1>4, <1>6, <1>11, <2>1 DEF Suspended
  <2>3. x \in callers[awaits[x]] \/ \E m \in Below : m.pc = "wake" /\ x \in m.todo
    BY <1>1, <1>2, <1>9, <2>2 DEF IInv, Reg
  <2>4. awaits[x] \in Co \cup Event
    BY <1>3, <2>2 DEF AwaitInv, TypeOK, PromiseTypeOK
  <2>. QED BY <1>6, <1>7, <1>8, <2>2, <2>3, <2>4
<1>20. StatusInv'
  BY <1>3, <1>6, <1>8, <1>11 DEF StatusInv, Flag
<1>21. KillCover'
  <2>1. SUFFICES ASSUME NEW x \in Co, Suspended(x)', Exiting(x)'
        PROVE  \E a \in line'[x] : \/ \E m \in InProgress' : m.pc = "destroy" /\ m.co = a
                                   \/ Exiting(a)' /\ frame'[a] = "active"
    BY DEF KillCover
  <2>2. CASE Exiting(x)
    <3>1. PICK a \in line[x] : \/ \E m \in Below : m.pc = "destroy" /\ m.co = a
                               \/ Exiting(a) /\ frame[a] = "active"
      BY <1>1, <1>2, <1>6, <1>9, <2>1, <2>2 DEF IInv, KillCover, Suspended
    <3>2. a \in Co
      BY <1>3 DEF TypeOK
    <3>. QED BY <1>6, <1>7, <1>11, <3>1, <3>2
  <2>3. CASE ~Exiting(x)
    <3>1. x = d /\ Exiting(c)'
      BY <1>5, <1>10, <1>11, <2>1, <2>3
    <3>. QED BY <1>4, <1>5, <1>6, <3>1
  <2>. QED BY <2>2, <2>3
<1>. QED BY <1>7, <1>12, <1>13, <1>14, <1>15, <1>16, <1>17, <1>18, <1>19, <1>20, <1>21 DEF IInv

-----------------------------------------------------------------------------
(* The steps of a body. *)

LEMMA BodyFacts ==
  ASSUME IInv, NEW c \in Co, Body(c)
  PROVE  /\ stack # <<>> /\ Top.pc = "body" /\ Top.co = c
         /\ stack \in Seq(Call) /\ InProgress = {Top} \cup Below
         /\ \A m \in Below : m \in Call /\ CallOK(m) /\ Waiting(m)
         /\ Subjects(Top) = {c} /\ c \in line[c]
         /\ frame[c] = "active" /\ "returned" \notin flags[c] /\ awaits[c] = Null
         /\ ~attached[c] /\ waiting[c] = Null /\ "internal_waiting" \notin flags[c]
         /\ TypeOK /\ LineInv /\ Lives /\ AwaitInv /\ StatusInv /\ CallersInv
         /\ \A x : ~TopIs("await_resume", x) /\ ~TopIs("resume", x)
<1>1. stack # <<>> /\ Top.pc = "body" /\ Top.co = c
  BY DEF Body, At
<1>2. /\ stack \in Seq(Call) /\ InProgress = {Top} \cup Below /\ CallOK(Top)
      /\ \A m \in Below : m \in Call /\ CallOK(m) /\ Waiting(m)
      /\ Subjects(Top) = {c} /\ c \in line[c]
  BY <1>1, TopFacts, TopCo
<1>3. TypeOK /\ LineInv /\ Lives /\ AwaitInv /\ StatusInv /\ CallersInv
  BY DEF IInv
<1>4. frame[c] = "active" /\ "returned" \notin flags[c] /\ awaits[c] = Null /\ ~attached[c]
  BY <1>1, <1>2 DEF CallOK, Running
<1>5. waiting[c] = Null /\ "internal_waiting" \notin flags[c]
  BY <1>3, <1>4 DEF AwaitInv
<1>. QED BY <1>1, <1>2, <1>3, <1>4, <1>5 DEF TopIs, At

LEMMA AwaitsFacts ==
  ASSUME IInv, NEW c \in Co, Awaits(c)
  PROVE  Body(c) /\ awaited' \in [Co -> 0..MaxAwait] /\ owner' = owner /\ line' = line /\ ops' = ops
<1>1. awaited \in [Co -> 0..MaxAwait] /\ awaited[c] < MaxAwait /\ awaited' = [awaited EXCEPT ![c] = @ + 1]
  BY DEF IInv, TypeOK, Awaits
<1>2. awaited[c] + 1 \in 0..MaxAwait
  BY <1>1, CallableAssumption
<1>. QED BY <1>1, <1>2 DEF Awaits, ownVars

LEMMA GoOnKeeps ==
  ASSUME IInv, NEW c \in Co, NEW y \in Co \cup Event, Awaits(c), GoOn(c, y), UNCHANGED <<status, value>>,
         y \in Co => owner[y] = c /\ Alive(y) /\ Exiting(y)
  PROVE  IInv'
<1>1. Body(c) /\ awaited' \in [Co -> 0..MaxAwait]
  BY AwaitsFacts
<1>21. TypeOK /\ LineInv /\ Lives /\ AwaitInv /\ StatusInv /\ CallersInv
  BY DEF IInv
<1>22. /\ frame[c] = "active" /\ "returned" \notin flags[c] /\ awaits[c] = Null
       /\ ~attached[c] /\ waiting[c] = Null /\ "internal_waiting" \notin flags[c]
  BY <1>1, BodyFacts
<1>23. /\ stack # <<>> /\ Top.pc = "body" /\ Top.co = c
       /\ stack \in Seq(Call) /\ InProgress = {Top} \cup Below
       /\ \A m \in Below : m \in Call /\ CallOK(m) /\ Waiting(m)
       /\ Subjects(Top) = {c} /\ c \in line[c]
       /\ \A x : ~TopIs("await_resume", x) /\ ~TopIs("resume", x)
  BY <1>1, BodyFacts
<1>2. /\ awaits' = [awaits EXCEPT ![c] = y] /\ Goto("await_resume")
      /\ UNCHANGED <<frame, status, flags, waiting, callers, attached, owner, line, value, ops>>
  BY AwaitsFacts DEF GoOn
<1>3. PICK k \in Call :
        /\ k.pc = "await_resume" /\ k.co = c /\ k.todo = {}
        /\ stack' \in Seq(Call) /\ stack' # <<>> /\ Top' = k
        /\ InProgress' = {k} \cup Below /\ Below' = Below /\ PairsOK'
  BY <1>1, <1>2, <1>21, <1>22, <1>23, StackGoto DEF Running
<1>4. \A x \in Co : awaits'[x] = IF x = c THEN y ELSE awaits[x]
  BY <1>1, <1>2, <1>21, <1>22, <1>23 DEF TypeOK, PromiseTypeOK
<1>5. y # Null
  BY PromiseAssumption
<1>6. \A x : ~TopIs("resume", x)'
  BY <1>3 DEF TopIs, At
<1>7. TypeOK'
  BY <1>1, <1>2, <1>3, <1>21, <1>22, <1>23 DEF TypeOK, PromiseTypeOK, GeneratorTypeOK
<1>8. LineInv' /\ Lives'
  BY <1>1, <1>2, <1>21, <1>22, <1>23, LineKept, LivesKept DEF Alive, Waits, ownVars
<1>9. CallsOK' /\ BelowOK'
  <2>1. \A m \in Below : CallOK(m)' /\ Waiting(m)'
    <3>1. \A x \in Co \ {c} : /\ frame'[x] = frame[x] /\ awaits'[x] = awaits[x]
                              /\ attached'[x] = attached[x] /\ flags'[x] = flags[x]
      BY <1>2, <1>4
    <3>2. (\A x \in Co : Exiting(x) => Exiting(x)') /\ \A e \in Event : Over(e) => Over(e)'
      BY <1>2, PromiseAssumption DEF Over, Exiting
    <3>. QED BY <1>1, <1>2, <3>1, <3>2, <1>21, <1>22, <1>23, BelowKept DEF ownVars
  <2>2. CallOK(k)'
    BY <1>1, <1>2, <1>3, <1>4, <1>5, <1>21, <1>22, <1>23 DEF CallOK, Running, Exiting
  <2>. QED BY <1>3, <2>1, <2>2 DEF CallsOK, BelowOK
<1>10. TopOK'
  BY <1>1, <1>2, <1>3, <1>21, <1>22, <1>23 DEF TopOK
<1>11. ActiveOnStack'
  BY <1>1, <1>2, <1>3, <1>21, <1>22, <1>23 DEF IInv, ActiveOnStack, Running
<1>12. AwaitInv'
  BY <1>1, <1>2, <1>4, <1>21, <1>22, <1>23 DEF AwaitInv, Suspended, Waits, Finished, Alive
<1>13. CallersInv'
  <2>1. \A x \in Co \cup Event : Over(x)' <=> Over(x)
    BY <1>2 DEF Over, Finished
  <2>2. \A x \in Co \cup Event : c \notin callers[x]
    BY <1>1, <1>21, <1>22, <1>23 DEF CallersInv
  <2>. QED BY <1>1, <1>2, <1>4, <2>1, <2>2, <1>21, <1>22, <1>23 DEF CallersInv, TypeOK, PromiseTypeOK
<1>14. Reg'
  BY <1>1, <1>2, <1>3, <1>4, <1>21, <1>22, <1>23 DEF IInv, Reg, Suspended, Exiting
<1>15. StatusInv'
  BY <1>1, <1>2, <1>21, <1>22, <1>23 DEF StatusInv, Exiting
<1>16. KillCover'
  BY <1>1, <1>2, <1>3, <1>21, <1>22, <1>23 DEF IInv, KillCover, Suspended, Exiting
<1>. QED BY <1>3, <1>7, <1>8, <1>9, <1>10, <1>11, <1>12, <1>13, <1>14, <1>15, <1>16 DEF IInv

LEMMA SuspendKeeps ==
  ASSUME IInv, NEW c \in Co, NEW y \in Co \cup Event, Awaits(c), MaySuspend(c),
         Suspend(c, y, <<>>), AddCaller(y, c), ~Over(y), UNCHANGED <<status, value>>,
         y \in Co => owner[y] = c /\ Alive(y) /\ ~Exiting(y) /\ waiting' = [waiting EXCEPT ![c] = y],
         y \in Event => UNCHANGED waiting /\ \A b \in callers[y] : line[b] \cap line[c] = {}
  PROVE  IInv'
<1>1. Body(c) /\ awaited' \in [Co -> 0..MaxAwait]
  BY AwaitsFacts
<1>21. TypeOK /\ LineInv /\ Lives /\ AwaitInv /\ StatusInv /\ CallersInv
  BY DEF IInv
<1>22. /\ frame[c] = "active" /\ "returned" \notin flags[c] /\ awaits[c] = Null
       /\ ~attached[c] /\ waiting[c] = Null /\ "internal_waiting" \notin flags[c]
  BY <1>1, BodyFacts
<1>23. /\ stack # <<>> /\ Top.pc = "body" /\ Top.co = c
       /\ stack \in Seq(Call) /\ InProgress = {Top} \cup Below
       /\ \A m \in Below : m \in Call /\ CallOK(m) /\ Waiting(m)
       /\ Subjects(Top) = {c} /\ c \in line[c]
       /\ \A x : ~TopIs("await_resume", x) /\ ~TopIs("resume", x)
  BY <1>1, BodyFacts
<1>2. /\ frame' = [frame EXCEPT ![c] = "suspended"]
      /\ flags' = [flags EXCEPT ![c] = @ \cup {"internal_waiting"}]
      /\ awaits' = [awaits EXCEPT ![c] = y] /\ attached' = [attached EXCEPT ![c] = TRUE]
      /\ callers' = [callers EXCEPT ![y] = @ \cup {c}]
      /\ UNCHANGED <<status, owner, line, value, ops>>
      /\ ~Exiting(c) /\ stack' = <<>> \o Tail(stack)
  BY AwaitsFacts DEF Suspend, AddCaller, MaySuspend
<1>3. Pop
  <2>1. Tail(stack) \in Seq(Call)
    BY <1>1, <1>21, <1>22, <1>23, CallsPop
  <2>2. <<>> \o Tail(stack) = Tail(stack)
    BY <2>1, ConcatEmptySeq
  <2>. QED BY <1>2, <2>2 DEF Pop
<1>4. /\ stack' \in Seq(Call) /\ InProgress' = Below /\ Below' \subseteq Below
      /\ (stack' # <<>> => Top' \in Below) /\ PairsOK'
  BY <1>1, <1>2, <1>3, <1>21, <1>22, <1>23, StackPop DEF IInv
<1>5. /\ \A x \in Co : /\ frame'[x] = IF x = c THEN "suspended" ELSE frame[x]
                       /\ flags'[x] = IF x = c THEN flags[x] \cup {"internal_waiting"} ELSE flags[x]
                       /\ awaits'[x] = IF x = c THEN y ELSE awaits[x]
                       /\ attached'[x] = IF x = c THEN TRUE ELSE attached[x]
                       /\ waiting'[x] = IF x = c /\ y \in Co THEN y ELSE waiting[x]
      /\ \A x \in Co \cup Event : callers'[x] = IF x = y THEN callers[x] \cup {c} ELSE callers[x]
  <2>1. CASE y \in Co
    BY <1>2, <1>21, <2>1 DEF TypeOK, PromiseTypeOK
  <2>2. CASE y \in Event
    BY <1>2, <1>21, <2>2, PromiseAssumption DEF TypeOK, PromiseTypeOK
  <2>. QED BY <2>1, <2>2
<1>6. y # Null /\ Null \notin Co
  BY PromiseAssumption
<1>7. y # c
  BY <1>1, <1>21, <1>22, <1>23, OwnedBelow
<1>8. \A x \in Co \cup Event : Over(x)' <=> Over(x)
  BY <1>1, <1>2, <1>5, <1>21, <1>22, <1>23 DEF Over, Finished
<1>9. TypeOK'
  <2>1. waiting' \in [Co -> Co \cup {Null}]
    BY <1>2, <1>21 DEF TypeOK, PromiseTypeOK
  <2>2. /\ frame' \in [Co -> Frame] /\ flags' \in [Co -> SUBSET Flag] /\ attached' \in [Co -> BOOLEAN]
        /\ awaits' \in [Co -> Co \cup Event \cup {Null}] /\ callers' \in [Co \cup Event -> SUBSET Co]
    BY <1>1, <1>2, <1>21, <1>22, <1>23 DEF TypeOK, PromiseTypeOK, Frame, Flag
  <2>3. \A x \in Co : status'[x] = CREATED <=> frame'[x] = "none"
    BY <1>1, <1>2, <1>5, <1>21, <1>22, <1>23 DEF TypeOK
  <2>. QED BY <1>1, <1>2, <1>4, <2>1, <2>2, <2>3, <1>21, <1>22, <1>23 DEF TypeOK, PromiseTypeOK, GeneratorTypeOK
<1>10. LineInv' /\ Lives'
  BY <1>1, <1>2, <1>5, <1>21, <1>22, <1>23, LineKept, LivesKept DEF Alive, Waits, ownVars
<1>11. CallsOK' /\ BelowOK'
  <2>1. \A m \in Below : CallOK(m)' /\ Waiting(m)'
    <3>1. \A x \in Co \ {c} : /\ frame'[x] = frame[x] /\ awaits'[x] = awaits[x]
                              /\ attached'[x] = attached[x] /\ flags'[x] = flags[x]
      BY <1>1, <1>5, <1>21, <1>22, <1>23 DEF TypeOK, PromiseTypeOK
    <3>2. (\A x \in Co : Exiting(x) => Exiting(x)') /\ \A e \in Event : Over(e) => Over(e)'
      BY <1>2, <1>8 DEF Exiting
    <3>3. frame'[c] = "suspended" /\ UNCHANGED ownVars
      BY <1>2, <1>5 DEF ownVars
    <3>. QED BY <1>22, <1>23, <3>1, <3>2, <3>3, BelowKept
  <2>. QED BY <1>4, <2>1 DEF CallsOK, BelowOK
<1>12. \A x : ~TopIs("resume", x)' /\ (TopIs("await_resume", x)' => ~attached'[x])
  <2>1. ASSUME NEW m \in Below
        PROVE  m.pc # "resume" /\ (m.pc = "await_resume" => m.co \in Co /\ ~attached'[m.co])
    <3>1. CallOK(m) /\ Waiting(m) /\ (m.pc \in Running => m.co # c)
      BY <1>22, <1>23, BelowSpares
    <3>. QED BY <1>5, <3>1 DEF CallOK, Waiting, Running
  <2>. QED BY <1>4, <2>1 DEF TopIs, At
<1>13. TopOK'
  BY <1>12 DEF TopOK, TopIs
<1>14. ActiveOnStack'
  <2>1. SUFFICES ASSUME NEW x \in Co, frame'[x] = "active"
        PROVE  \E m \in Below : m.pc \in Running /\ m.co = x
    BY <1>4 DEF ActiveOnStack
  <2>2. x # c /\ frame[x] = "active"
    BY <1>5, <2>1
  <2>3. PICK m \in InProgress : m.pc \in Running /\ m.co = x
    BY <2>2 DEF IInv, ActiveOnStack
  <2>. QED BY <1>23, <2>2, <2>3
<1>15. AwaitInv'
  BY <1>1, <1>2, <1>5, <1>6, <1>7, <1>21, <1>22, <1>23
     DEF AwaitInv, Suspended, Waits, Finished, Alive, TypeOK, PromiseTypeOK
<1>16. CallersInv'
  <2>1. \A x \in Co \cup Event : c \notin callers[x]
    BY <1>1, <1>21, <1>22, <1>23 DEF CallersInv
  <2>. QED BY <1>1, <1>2, <1>5, <1>8, <2>1, PromiseAssumption, <1>21, <1>22, <1>23 DEF CallersInv, TypeOK, PromiseTypeOK
<1>17. Reg'
  <2>1. SUFFICES ASSUME NEW x \in Co, Suspended(x)', ~Exiting(x)'
        PROVE  x \in callers'[awaits'[x]] \/ \E m \in InProgress' : m.pc = "wake" /\ x \in m.todo
    BY DEF Reg
  <2>2. CASE x = c
    BY <1>5, <2>2
  <2>3. CASE x # c
    <3>1. Suspended(x) /\ ~Exiting(x)
      BY <1>2, <1>5, <2>1, <2>3 DEF Suspended, Exiting
    <3>2. x \in callers[awaits[x]] \/ \E m \in Below : m.pc = "wake" /\ x \in m.todo
      BY <1>1, <3>1, <1>21, <1>22, <1>23 DEF IInv, Reg
    <3>3. awaits[x] \in Co \cup Event
      BY <1>1, <3>1, <1>21, <1>22, <1>23 DEF AwaitInv, TypeOK, PromiseTypeOK
    <3>. QED BY <1>4, <1>5, <2>3, <3>2, <3>3
  <2>. QED BY <2>2, <2>3
<1>18. StatusInv'
  BY <1>1, <1>2, <1>5, <1>21, <1>22, <1>23 DEF StatusInv, Exiting
<1>19. KillCover'
  <2>1. SUFFICES ASSUME NEW x \in Co, Suspended(x)', Exiting(x)'
        PROVE  \E a \in line'[x] : \/ \E m \in InProgress' : m.pc = "destroy" /\ m.co = a
                                   \/ Exiting(a)' /\ frame'[a] = "active"
    BY DEF KillCover
  <2>2. Suspended(x) /\ Exiting(x)
    BY <1>2, <1>5, <2>1 DEF Suspended, Exiting
  <2>3. PICK a \in line[x] : \/ \E m \in Below : m.pc = "destroy" /\ m.co = a
                             \/ Exiting(a) /\ frame[a] = "active"
    BY <1>1, <2>2, <1>21, <1>22, <1>23 DEF IInv, KillCover
  <2>4. a \in Co
    BY <1>1, <1>21, <1>22, <1>23 DEF TypeOK
  <2>. QED BY <1>2, <1>4, <1>5, <2>3, <2>4 DEF Exiting
<1>. QED BY <1>4, <1>9, <1>10, <1>11, <1>13, <1>14, <1>15, <1>16, <1>17, <1>18, <1>19 DEF IInv

LEMMA WakeCallFacts ==
  ASSUME NEW x \in Co \cup Event, NEW who \in SUBSET Co
  PROVE  /\ WakeCall(x, who) \in Call
         /\ WakeCall(x, who).pc = "wake" /\ WakeCall(x, who).co = x /\ WakeCall(x, who).todo = who
<1>1. WakeCall(x, who) = [pc |-> "wake", co |-> x, todo |-> who, time |-> 0]
  BY DEF WakeCall, NewCall
<1>2. "wake" \in Label
  BY DEF Label
<1>. QED BY <1>1, <1>2 DEF Call

LEMMA WaitForCallbackKeeps ==
  ASSUME IInv, NEW c \in Co, NEW e \in Event, Awaits(c), WaitForCallback(c, e), callers[e] = {}
  PROVE  IInv'
<1>1. Body(c) /\ awaited' \in [Co -> 0..MaxAwait]
  BY AwaitsFacts
<1>21. TypeOK /\ LineInv /\ Lives /\ AwaitInv /\ StatusInv /\ CallersInv
  BY DEF IInv
<1>22. /\ frame[c] = "active" /\ "returned" \notin flags[c] /\ awaits[c] = Null
       /\ ~attached[c] /\ waiting[c] = Null /\ "internal_waiting" \notin flags[c]
  BY <1>1, BodyFacts
<1>23. /\ stack # <<>> /\ Top.pc = "body" /\ Top.co = c
       /\ stack \in Seq(Call) /\ InProgress = {Top} \cup Below
       /\ \A m \in Below : m \in Call /\ CallOK(m) /\ Waiting(m)
       /\ Subjects(Top) = {c} /\ c \in line[c]
       /\ \A x : ~TopIs("await_resume", x) /\ ~TopIs("resume", x)
  BY <1>1, BodyFacts
<1>2. /\ frame' = [frame EXCEPT ![c] = "suspended"]
      /\ flags' = [flags EXCEPT ![c] = @ \cup {"internal_waiting"}]
      /\ awaits' = [awaits EXCEPT ![c] = e] /\ attached' = [attached EXCEPT ![c] = TRUE]
      /\ callers' = callers /\ value' = [value EXCEPT ![e] = "ready"]
      /\ UNCHANGED <<status, waiting, owner, line, ops>>
      /\ value[e] = "pending" /\ ~Exiting(c) /\ stack' = <<WakeCall(e, {c})>> \o Tail(stack)
  <2>1. callers' = callers
    BY <1>21 DEF WaitForCallback, Took, TypeOK, PromiseTypeOK
  <2>2. callers[e] \cup {c} = {c}
    OBVIOUS
  <2>. QED BY <2>1, <2>2, AwaitsFacts DEF WaitForCallback, Suspend, MaySuspend
<1>3. PICK k \in Call :
        /\ k.pc = "wake" /\ k.co = e /\ k.todo = {c}
        /\ stack' \in Seq(Call) /\ stack' # <<>> /\ Top' = k
        /\ InProgress' = {k} \cup Below /\ Below' = Below /\ PairsOK'
  <2>1. PICK k \in Call : k.pc = "wake" /\ k.co = e /\ k.todo = {c} /\ k = WakeCall(e, {c})
    BY WakeCallFacts
  <2>2. Become(k)
    BY <1>2, <2>1 DEF Become
  <2>3. \A m \in Below : Above(line, k, m)
    <3>1. Subjects(k) = {c}
      BY <2>1, PromiseAssumption DEF Subjects
    <3>. QED BY <1>23, <2>1, <3>1, TopFacts DEF Above
  <2>. QED BY <1>2, <1>23, <2>1, <2>2, <2>3, StackBecome DEF IInv
<1>5. /\ \A x \in Co : /\ frame'[x] = IF x = c THEN "suspended" ELSE frame[x]
                       /\ flags'[x] = IF x = c THEN flags[x] \cup {"internal_waiting"} ELSE flags[x]
                       /\ awaits'[x] = IF x = c THEN e ELSE awaits[x]
                       /\ attached'[x] = IF x = c THEN TRUE ELSE attached[x]
      /\ \A x \in Event : value'[x] = IF x = e THEN "ready" ELSE value[x]
  BY <1>2, <1>21 DEF TypeOK, PromiseTypeOK, GeneratorTypeOK
<1>6. e # Null /\ e \notin Co /\ Null \notin Co
  BY PromiseAssumption
<1>8. Over(e)' /\ \A x \in Co \cup Event : x # e => (Over(x)' <=> Over(x))
  BY <1>2, <1>5, <1>6, <1>22, PromiseAssumption DEF Over, Finished
<1>9. TypeOK'
  <2>2. /\ frame' \in [Co -> Frame] /\ flags' \in [Co -> SUBSET Flag] /\ attached' \in [Co -> BOOLEAN]
        /\ awaits' \in [Co -> Co \cup Event \cup {Null}]
        /\ value' \in [Event -> {"pending", "ready", "gone"}]
    BY <1>2, <1>21 DEF TypeOK, PromiseTypeOK, GeneratorTypeOK, Frame, Flag
  <2>3. \A x \in Co : status'[x] = CREATED <=> frame'[x] = "none"
    BY <1>2, <1>5, <1>21, <1>22 DEF TypeOK
  <2>. QED BY <1>1, <1>2, <1>3, <1>21, <2>2, <2>3 DEF TypeOK, PromiseTypeOK, GeneratorTypeOK
<1>10. LineInv' /\ Lives'
  BY <1>2, <1>5, <1>21, <1>22, LineKept, LivesKept DEF Alive, Waits, ownVars
<1>11. CallsOK' /\ BelowOK'
  <2>1. \A m \in Below : CallOK(m)' /\ Waiting(m)'
    <3>1. \A x \in Co \ {c} : /\ frame'[x] = frame[x] /\ awaits'[x] = awaits[x]
                              /\ attached'[x] = attached[x] /\ flags'[x] = flags[x]
      BY <1>5
    <3>2. (\A x \in Co : Exiting(x) => Exiting(x)') /\ \A y \in Event : Over(y) => Over(y)'
      BY <1>2, <1>8 DEF Exiting
    <3>3. frame'[c] = "suspended" /\ UNCHANGED ownVars
      BY <1>2, <1>5 DEF ownVars
    <3>. QED BY <1>22, <1>23, <3>1, <3>2, <3>3, BelowKept
  <2>2. CallOK(k)'
    BY <1>3, <1>5, <1>6, <1>8 DEF CallOK, Running, Suspended
  <2>. QED BY <1>3, <2>1, <2>2 DEF CallsOK, BelowOK
<1>12. \A x : ~TopIs("await_resume", x)' /\ ~TopIs("resume", x)'
  BY <1>3 DEF TopIs, At
<1>13. TopOK'
  BY <1>12 DEF TopOK, TopIs
<1>14. ActiveOnStack'
  <2>1. SUFFICES ASSUME NEW x \in Co, frame'[x] = "active"
        PROVE  \E m \in Below : m.pc \in Running /\ m.co = x
    BY <1>3 DEF ActiveOnStack
  <2>2. x # c /\ frame[x] = "active"
    BY <1>5, <2>1
  <2>3. PICK m \in InProgress : m.pc \in Running /\ m.co = x
    BY <2>2 DEF IInv, ActiveOnStack
  <2>. QED BY <1>23, <2>2, <2>3
<1>15. AwaitInv'
  BY <1>2, <1>5, <1>6, <1>21, <1>22, <1>23
     DEF AwaitInv, Suspended, Waits, Finished, Alive, TypeOK, PromiseTypeOK
<1>16. CallersInv'
  <2>1. \A x \in Co \cup Event : c \notin callers[x]
    BY <1>21, <1>22 DEF CallersInv
  <2>2. \A x \in Co \cup Event : \A b \in callers[x] : b \in Co /\ x # e /\ ~Over(x)
    BY <1>21 DEF CallersInv, TypeOK, PromiseTypeOK
  <2>. QED BY <1>2, <1>5, <1>8, <1>21, <2>1, <2>2 DEF CallersInv
<1>17. Reg'
  <2>1. SUFFICES ASSUME NEW x \in Co, Suspended(x)', ~Exiting(x)'
        PROVE  x \in callers'[awaits'[x]] \/ \E m \in InProgress' : m.pc = "wake" /\ x \in m.todo
    BY DEF Reg
  <2>2. CASE x = c
    BY <1>3, <2>2
  <2>3. CASE x # c
    <3>1. Suspended(x) /\ ~Exiting(x)
      BY <1>2, <1>5, <2>1, <2>3 DEF Suspended, Exiting
    <3>2. x \in callers[awaits[x]] \/ \E m \in Below : m.pc = "wake" /\ x \in m.todo
      BY <1>23, <3>1 DEF IInv, Reg
    <3>. QED BY <1>2, <1>3, <1>5, <2>3, <3>2
  <2>. QED BY <2>2, <2>3
<1>18. StatusInv'
  BY <1>2, <1>5, <1>21, <1>22 DEF StatusInv, Exiting
<1>19. KillCover'
  <2>1. SUFFICES ASSUME NEW x \in Co, Suspended(x)', Exiting(x)'
        PROVE  \E a \in line'[x] : \/ \E m \in InProgress' : m.pc = "destroy" /\ m.co = a
                                   \/ Exiting(a)' /\ frame'[a] = "active"
    BY DEF KillCover
  <2>2. Suspended(x) /\ Exiting(x)
    BY <1>2, <1>5, <2>1 DEF Suspended, Exiting
  <2>3. PICK a \in line[x] : \/ \E m \in Below : m.pc = "destroy" /\ m.co = a
                             \/ Exiting(a) /\ frame[a] = "active"
    BY <1>23, <2>2 DEF IInv, KillCover
  <2>4. a \in Co
    BY <1>21 DEF TypeOK
  <2>. QED BY <1>2, <1>3, <1>5, <2>3, <2>4 DEF Exiting
<1>. QED BY <1>3, <1>9, <1>10, <1>11, <1>13, <1>14, <1>15, <1>16, <1>17, <1>18, <1>19 DEF IInv

LEMMA AwaitWhenKilledKeeps ==
  ASSUME IInv, NEW c \in Co, NEW d \in Co, AwaitWhenKilled(c, d)
  PROVE  IInv'
<1>1. Body(c) /\ awaited' \in [Co -> 0..MaxAwait]
  BY AwaitsFacts DEF AwaitWhenKilled
<1>21. TypeOK /\ LineInv /\ Lives /\ AwaitInv /\ StatusInv /\ CallersInv
  BY DEF IInv
<1>22. /\ frame[c] = "active" /\ "returned" \notin flags[c] /\ awaits[c] = Null
       /\ ~attached[c] /\ waiting[c] = Null /\ "internal_waiting" \notin flags[c]
  BY <1>1, BodyFacts
<1>23. /\ stack # <<>> /\ Top.pc = "body" /\ Top.co = c
       /\ stack \in Seq(Call) /\ InProgress = {Top} \cup Below
       /\ \A m \in Below : m \in Call /\ CallOK(m) /\ Waiting(m)
       /\ Subjects(Top) = {c} /\ c \in line[c]
       /\ \A x : ~TopIs("await_resume", x) /\ ~TopIs("resume", x)
  BY <1>1, BodyFacts
<1>24. owner[d] = c /\ Alive(d) /\ ~Finished(d) /\ ~Exiting(d) /\ Exiting(c)
  BY DEF AwaitWhenKilled, AwaitReady, MaySuspend
<1>25. c \in line[d] /\ d # c /\ d # Null /\ frame[d] # "none"
  BY <1>21, <1>24, OwnedBelow, PromiseAssumption DEF Alive
<1>26. Suspended(d) /\ "internal_waiting" \in flags[d]
  <2>1. frame[d] # "active"
    BY <1>23, <1>25, BelowSpares
  <2>2. Suspended(d)
    BY <1>21, <1>24, <2>1 DEF Alive, Finished, Suspended, TypeOK, PromiseTypeOK, Frame
  <2>. QED BY <1>21, <2>2 DEF AwaitInv
<1>2. /\ awaits' = [awaits EXCEPT ![c] = d] /\ status' = [status EXCEPT ![d] = status[c]]
      /\ UNCHANGED <<frame, flags, waiting, callers, attached, value, owner, line, ops>>
      /\ ResumeThen(d, "await_resume")
  BY <1>26, AwaitsFacts DEF AwaitWhenKilled
<1>3. PICK r, k \in Call :
           /\ r.pc = "resume" /\ r.co = d /\ r.todo = {}
           /\ k.pc = "await_resume" /\ k.co = c /\ k.todo = {}
           /\ stack' \in Seq(Call) /\ stack' # <<>> /\ Top' = r
           /\ InProgress' = {r, k} \cup Below /\ Below' = {k} \cup Below
           /\ PairsOK'
  <2>1. /\ Top.pc \in Running /\ "await_resume" \in Running /\ frame[d] # "none"
        /\ d # Top.co /\ Top.co \in line[d] /\ line' = line /\ ResumeThen(d, "await_resume")
        /\ stack # <<>>
    BY <1>2, <1>23, <1>25 DEF Running
  <2>2. \E r, k \in Call :
           /\ r.pc = "resume" /\ r.co = d /\ r.todo = {}
           /\ k.pc = "await_resume" /\ k.co = Top.co /\ k.todo = {}
           /\ stack' \in Seq(Call) /\ stack' # <<>> /\ Top' = r
           /\ InProgress' = {r, k} \cup Below /\ Below' = {k} \cup Below
           /\ PairsOK'
    BY <2>1, StackResumeThen
  <2>. QED BY <1>23, <2>2
<1>4. status[c] \in CREATED..TIMEOUT /\ status[c] >= DONE /\ status[c] # DONE
  BY <1>21, <1>22, <1>24 DEF StatusInv, Exiting, TypeOK, PromiseTypeOK
<1>5. /\ \A x \in Co : awaits'[x] = IF x = c THEN d ELSE awaits[x]
      /\ \A x \in Co : status'[x] = IF x = d THEN status[c] ELSE status[x]
  BY <1>2, <1>21 DEF TypeOK, PromiseTypeOK
<1>6. Exiting(d)' /\ \A x \in Co : /\ Exiting(x) => Exiting(x)'
                                   /\ x # d => (Exiting(x)' => Exiting(x))
                                   /\ status'[x] = DONE => status[x] = DONE
  BY <1>4, <1>5 DEF Exiting
<1>9. TypeOK'
  <2>1. status' \in [Co -> CREATED..TIMEOUT] /\ awaits' \in [Co -> Co \cup Event \cup {Null}]
    BY <1>2, <1>4, <1>21 DEF TypeOK, PromiseTypeOK
  <2>2. \A x \in Co : status'[x] = CREATED <=> frame'[x] = "none"
    BY <1>2, <1>4, <1>5, <1>21, <1>25 DEF TypeOK, CREATED, DONE
  <2>. QED BY <1>1, <1>2, <1>3, <1>21, <2>1, <2>2 DEF TypeOK, PromiseTypeOK, GeneratorTypeOK
<1>10. LineInv' /\ Lives'
  BY <1>2, <1>21, LineKept, LivesKept DEF Alive, Waits, ownVars
<1>11. CallsOK' /\ BelowOK'
  <2>1. \A m \in Below : CallOK(m)' /\ Waiting(m)'
    <3>1. \A x \in Co \ {c} : /\ frame'[x] = frame[x] /\ awaits'[x] = awaits[x]
                              /\ attached'[x] = attached[x] /\ flags'[x] = flags[x]
      BY <1>2, <1>5
    <3>2. (\A x \in Co : Exiting(x) => Exiting(x)') /\ \A y \in Event : Over(y) => Over(y)'
      BY <1>2, <1>6, PromiseAssumption DEF Over
    <3>3. frame'[c] = "active" /\ UNCHANGED ownVars
      BY <1>2, <1>22 DEF ownVars
    <3>. QED BY <1>22, <1>23, <3>1, <3>2, <3>3, BelowKept
  <2>2. CallOK(r)' /\ CallOK(k)' /\ Waiting(k)'
    BY <1>2, <1>3, <1>5, <1>6, <1>22, <1>25, <1>26 DEF CallOK, Running, Suspended, Waiting
  <2>. QED BY <1>3, <2>1, <2>2 DEF CallsOK, BelowOK
<1>13. TopOK'
  BY <1>3 DEF TopOK, At
<1>14. ActiveOnStack'
  BY <1>2, <1>3, <1>23 DEF IInv, ActiveOnStack, Running
<1>15. AwaitInv'
  BY <1>2, <1>5, <1>21, <1>22, <1>23, <1>24, <1>25
     DEF AwaitInv, Suspended, Waits, Finished, Alive, TypeOK, PromiseTypeOK
<1>16. CallersInv'
  <2>1. \A x \in Co \cup Event : Over(x)' <=> Over(x)
    BY <1>2 DEF Over, Finished
  <2>2. \A x \in Co \cup Event : c \notin callers[x]
    BY <1>21, <1>22 DEF CallersInv
  <2>. QED BY <1>2, <1>5, <1>21, <2>1, <2>2 DEF CallersInv, TypeOK, PromiseTypeOK
<1>17. Reg'
  <2>1. SUFFICES ASSUME NEW x \in Co, Suspended(x)', ~Exiting(x)'
        PROVE  x \in callers'[awaits'[x]] \/ \E m \in InProgress' : m.pc = "wake" /\ x \in m.todo
    BY DEF Reg
  <2>2. Suspended(x) /\ ~Exiting(x) /\ x # c
    BY <1>2, <1>6, <1>22, <2>1 DEF Suspended
  <2>3. x \in callers[awaits[x]] \/ \E m \in Below : m.pc = "wake" /\ x \in m.todo
    BY <1>23, <2>2 DEF IInv, Reg
  <2>. QED BY <1>2, <1>3, <1>5, <2>2, <2>3
<1>18. StatusInv'
  BY <1>2, <1>6, <1>21 DEF StatusInv
<1>19. KillCover'
  <2>1. TopIs("resume", d)'
    BY <1>3 DEF TopIs, At
  <2>2. SUFFICES ASSUME NEW x \in Co, Suspended(x)', Exiting(x)'
        PROVE  \E a \in line'[x] : \/ \E m \in InProgress' : m.pc = "destroy" /\ m.co = a
                                   \/ Exiting(a)' /\ (frame'[a] = "active" \/ TopIs("resume", a)')
    BY DEF KillCover
  <2>3. CASE x = d
    BY <1>2, <1>6, <1>21, <1>25, <2>1, <2>3, OwnedBelow
  <2>4. CASE x # d
    <3>1. PICK a \in line[x] : \/ \E m \in Below : m.pc = "destroy" /\ m.co = a
                               \/ Exiting(a) /\ frame[a] = "active"
      BY <1>2, <1>6, <1>23, <2>2, <2>4 DEF IInv, KillCover, Suspended
    <3>2. a \in Co
      BY <1>21 DEF TypeOK
    <3>. QED BY <1>2, <1>3, <1>6, <3>1, <3>2
  <2>. QED BY <2>3, <2>4
<1>. QED BY <1>3, <1>9, <1>10, <1>11, <1>13, <1>14, <1>15, <1>16, <1>17, <1>18, <1>19 DEF IInv

LEMMA ReturnKeeps ==
  ASSUME IInv, NEW c \in Co, Return(c)
  PROVE  IInv'
<1>1. Body(c)
  BY DEF Return
<1>21. TypeOK /\ LineInv /\ Lives /\ AwaitInv /\ StatusInv /\ CallersInv
  BY DEF IInv
<1>22. /\ frame[c] = "active" /\ "returned" \notin flags[c] /\ awaits[c] = Null
       /\ ~attached[c] /\ waiting[c] = Null /\ "internal_waiting" \notin flags[c]
  BY <1>1, BodyFacts
<1>23. /\ stack # <<>> /\ Top.pc = "body" /\ Top.co = c
       /\ stack \in Seq(Call) /\ InProgress = {Top} \cup Below
       /\ \A m \in Below : m \in Call /\ CallOK(m) /\ Waiting(m)
       /\ Subjects(Top) = {c} /\ c \in line[c]
       /\ \A x : ~TopIs("await_resume", x) /\ ~TopIs("resume", x)
  BY <1>1, BodyFacts
<1>2. /\ flags' = [flags EXCEPT ![c] = @ \cup {"returned"}]
      /\ status' = [status EXCEPT ![c] = IF Exiting(c) THEN @ ELSE DONE]
      /\ UNCHANGED <<frame, waiting, callers, awaits, attached, owner, line, value, awaited, ops>>
      /\ Goto("locals")
  BY DEF Return, ownVars
<1>3. PICK k \in Call :
        /\ k.pc = "locals" /\ k.co = c /\ k.todo = {}
        /\ stack' \in Seq(Call) /\ stack' # <<>> /\ Top' = k
        /\ InProgress' = {k} \cup Below /\ Below' = Below /\ PairsOK'
  BY <1>2, <1>23, StackGoto DEF Running
<1>5. /\ \A x \in Co : flags'[x] = IF x = c THEN flags[x] \cup {"returned"} ELSE flags[x]
      /\ \A x \in Co : status'[x] = IF x = c /\ ~Exiting(c) THEN DONE ELSE status[x]
  BY <1>2, <1>21 DEF TypeOK, PromiseTypeOK
<1>6. Exiting(c)' /\ \A x \in Co : /\ Exiting(x) => Exiting(x)'
                                   /\ x # c => (Exiting(x)' => Exiting(x))
  BY <1>5 DEF Exiting, DONE
<1>9. TypeOK'
  <2>1. status' \in [Co -> CREATED..TIMEOUT] /\ flags' \in [Co -> SUBSET Flag]
    BY <1>2, <1>21 DEF TypeOK, PromiseTypeOK, CREATED, DONE, TIMEOUT, Flag
  <2>2. \A x \in Co : status'[x] = CREATED <=> frame'[x] = "none"
    BY <1>2, <1>5, <1>21, <1>22 DEF TypeOK, CREATED, DONE
  <2>. QED BY <1>2, <1>3, <1>21, <2>1, <2>2 DEF TypeOK, PromiseTypeOK, GeneratorTypeOK
<1>10. LineInv' /\ Lives'
  BY <1>2, <1>21, LineKept, LivesKept DEF Alive, Waits, ownVars
<1>11. CallsOK' /\ BelowOK'
  <2>1. \A m \in Below : CallOK(m)' /\ Waiting(m)'
    <3>1. \A x \in Co \ {c} : /\ frame'[x] = frame[x] /\ awaits'[x] = awaits[x]
                              /\ attached'[x] = attached[x] /\ flags'[x] = flags[x]
      BY <1>2, <1>5
    <3>2. (\A x \in Co : Exiting(x) => Exiting(x)') /\ \A y \in Event : Over(y) => Over(y)'
      BY <1>2, <1>6, PromiseAssumption DEF Over
    <3>3. frame'[c] = "active" /\ UNCHANGED ownVars
      BY <1>2, <1>22 DEF ownVars
    <3>. QED BY <1>22, <1>23, <3>1, <3>2, <3>3, BelowKept
  <2>2. CallOK(k)'
    <3>1. frame'[c] = "active" /\ awaits'[c] = Null /\ ~attached'[c] /\ "returned" \in flags'[c]
      BY <1>2, <1>5, <1>22
    <3>. QED BY <1>3, <3>1 DEF CallOK, Running
  <2>. QED BY <1>3, <2>1, <2>2 DEF CallsOK, BelowOK
<1>12. \A x : ~TopIs("await_resume", x)' /\ ~TopIs("resume", x)'
  BY <1>3 DEF TopIs, At
<1>13. TopOK'
  BY <1>12 DEF TopOK, TopIs
<1>14. ActiveOnStack'
  BY <1>2, <1>3, <1>23 DEF IInv, ActiveOnStack, Running
<1>15. AwaitInv'
  BY <1>2, <1>5, <1>21, <1>22, <1>23 DEF AwaitInv, Suspended, Waits, Finished, Alive
<1>16. CallersInv'
  <2>1. \A x \in Co \cup Event : Over(x)' <=> Over(x)
    BY <1>2 DEF Over, Finished
  <2>. QED BY <1>2, <1>21, <2>1 DEF CallersInv
<1>17. Reg'
  <2>1. SUFFICES ASSUME NEW x \in Co, Suspended(x)', ~Exiting(x)'
        PROVE  x \in callers'[awaits'[x]] \/ \E m \in InProgress' : m.pc = "wake" /\ x \in m.todo
    BY DEF Reg
  <2>2. Suspended(x) /\ ~Exiting(x)
    BY <1>2, <1>6, <2>1 DEF Suspended
  <2>3. x \in callers[awaits[x]] \/ \E m \in Below : m.pc = "wake" /\ x \in m.todo
    BY <1>23, <2>2 DEF IInv, Reg
  <2>. QED BY <1>2, <1>3, <2>3
<1>18. StatusInv'
  BY <1>2, <1>5, <1>6, <1>21, <1>22 DEF StatusInv
<1>19. KillCover'
  <2>1. SUFFICES ASSUME NEW x \in Co, Suspended(x)', Exiting(x)'
        PROVE  \E a \in line'[x] : \/ \E m \in InProgress' : m.pc = "destroy" /\ m.co = a
                                   \/ Exiting(a)' /\ frame'[a] = "active"
    BY DEF KillCover
  <2>2. Suspended(x) /\ Exiting(x)
    BY <1>2, <1>6, <1>22, <2>1 DEF Suspended
  <2>3. PICK a \in line[x] : \/ \E m \in Below : m.pc = "destroy" /\ m.co = a
                             \/ Exiting(a) /\ frame[a] = "active"
    BY <1>23, <2>2 DEF IInv, KillCover
  <2>4. a \in Co
    BY <1>21 DEF TypeOK
  <2>. QED BY <1>2, <1>3, <1>6, <2>3, <2>4
<1>. QED BY <1>3, <1>9, <1>10, <1>11, <1>13, <1>14, <1>15, <1>16, <1>17, <1>18, <1>19 DEF IInv

-----------------------------------------------------------------------------
(* Creation. *)

LEMMA CreateLine ==
  ASSUME TypeOK, LineInv, NEW d \in Co, frame[d] = "none",
         NEW c, c = Main \/ (c \in Co /\ frame[c] # "none"),
         frame' = [frame EXCEPT ![d] = "active"], owner' = [owner EXCEPT ![d] = c],
         line' = [line EXCEPT ![d] = {d} \cup IF c = Main THEN {} ELSE line[c]]
  PROVE  /\ LineInv'
         /\ \A x \in Co : line'[x] = IF x = d THEN {d} \cup (IF c = Main THEN {} ELSE line[c]) ELSE line[x]
         /\ \A x \in Co : d \notin line[x]
<1>1. Main \notin Co /\ Null \notin Co
  BY CallableAssumption, PromiseAssumption
<1>2. /\ \A x \in Co : frame'[x] = IF x = d THEN "active" ELSE frame[x]
      /\ \A x \in Co : owner'[x] = IF x = d THEN c ELSE owner[x]
      /\ \A x \in Co : line[x] \subseteq Co
  BY DEF TypeOK, PromiseTypeOK
<1>. DEFINE own == IF c = Main THEN {} ELSE line[c]
<1>3. \A x \in Co : line'[x] = IF x = d THEN {d} \cup own ELSE line[x]
  BY DEF TypeOK
<1>4. \A x \in Co : d \notin line[x]
  BY DEF LineInv, LineNone
<1>5. own \subseteq Co /\ d \notin own /\ \A b \in own : line[b] \subseteq own
  BY <1>2, <1>4 DEF LineInv, LineUp
<1>. HIDE DEF own
<1>6. LineNone'
  <2>1. \A b \in own : frame[b] # "none"
    <3>1. CASE c = Main
      BY <3>1 DEF own
    <3>2. CASE c # Main
      <4>1. c \in Co /\ own = line[c]
        BY <3>2 DEF own
      <4>. QED BY <4>1, <1>5 DEF LineInv, LineNone
    <3>. QED BY <3>1, <3>2
  <2>. QED BY <1>2, <1>3, <1>4, <1>5, <2>1 DEF LineInv, LineNone
<1>7. LineOwner'
  <2>1. SUFFICES ASSUME NEW x \in Co, frame'[x] # "none"
        PROVE  \/ owner'[x] = Main /\ line'[x] = {x}
               \/ /\ owner'[x] \in Co /\ frame'[owner'[x]] # "none"
                  /\ x \notin line'[owner'[x]]
                  /\ line'[x] = {x} \cup line'[owner'[x]]
    BY DEF LineOwner
  <2>2. CASE x = d
    BY <1>1, <1>2, <1>3, <1>4, <2>2 DEF own
  <2>3. CASE x # d
    BY <1>1, <1>2, <1>3, <2>1, <2>3 DEF LineInv, LineOwner
  <2>. QED BY <2>2, <2>3
<1>8. LineUp'
  BY <1>2, <1>3, <1>4, <1>5 DEF LineInv, LineUp
<1>9. LineAnti'
  BY <1>3, <1>4, <1>5 DEF LineInv, LineAnti
<1>10. LineChain'
  <2>1. SUFFICES ASSUME NEW x \in Co, NEW a \in line'[x], NEW b \in line'[x]
        PROVE  a \in line'[b] \/ b \in line'[a]
    BY DEF LineChain
  <2>2. CASE x # d
    BY <1>2, <1>3, <1>4, <2>1, <2>2 DEF LineInv, LineChain
  <2>3. CASE x = d
    <3>1. CASE a = d \/ b = d
      BY <1>3, <2>1, <2>3, <3>1
    <3>2. CASE a # d /\ b # d
      <4>1. c \in Co /\ a \in line[c] /\ b \in line[c] /\ a \in Co /\ b \in Co
        BY <1>2, <1>3, <1>5, <2>1, <2>3, <3>2 DEF own
      <4>. QED BY <1>3, <3>2, <4>1 DEF LineInv, LineChain
    <3>. QED BY <3>1, <3>2
  <2>. QED BY <2>2, <2>3
<1>11. LineNext'
  <2>1. SUFFICES ASSUME NEW x \in Co, NEW a \in line'[x] \ {x}
        PROVE  \E y \in line'[x] : owner'[y] = a
    BY DEF LineNext
  <2>2. CASE x # d
    BY <1>2, <1>3, <1>4, <2>1, <2>2 DEF LineInv, LineNext
  <2>3. CASE x = d
    <3>1. c \in Co /\ a \in line[c] /\ own = line[c]
      BY <1>3, <2>1, <2>3 DEF own
    <3>2. CASE a = c
      BY <1>2, <1>3, <2>3, <3>2
    <3>3. CASE a # c
      <4>1. PICK y \in line[c] : owner[y] = a
        BY <3>1, <3>3 DEF LineInv, LineNext
      <4>. QED BY <1>2, <1>3, <1>4, <2>3, <3>1, <4>1
    <3>. QED BY <3>2, <3>3
  <2>. QED BY <2>2, <2>3
<1>. QED BY <1>3, <1>4, <1>6, <1>7, <1>8, <1>9, <1>10, <1>11 DEF LineInv, own

LEMMA CreateKeeps ==
  ASSUME IInv, NEW d \in Co, Create(d)
  PROVE  IInv'
<1>1. TypeOK /\ LineInv /\ Lives /\ AwaitInv /\ StatusInv /\ CallersInv /\ PairsOK
      /\ stack \in Seq(Call) /\ frame[d] = "none"
  BY DEF IInv, TypeOK, PromiseTypeOK, Create
<1>2. PICK c \in Co \cup {Main} : c = Client
  BY TopCo DEF Create, InClient, InMain, Client, At
<1>3. Main \notin Co /\ Null \notin Co
  BY CallableAssumption, PromiseAssumption
<1>4. /\ (c = Main) = (stack = <<>>)
      /\ c # Main => /\ Top.pc = "body" /\ Top.co = c /\ c \in Co /\ frame[c] = "active"
                     /\ Subjects(Top) = {c} /\ c \in line[c] /\ InProgress = {Top} \cup Below
                     /\ \A m \in Below : Above(line, Top, m)
      /\ c = Main => InProgress = {}
  <2>1. CASE stack = <<>>
    BY <1>2, <1>3, <2>1, StackEmpty DEF Client, InMain
  <2>2. CASE stack # <<>>
    <3>1. Top.pc = "body" /\ c = Top.co
      BY <1>2, <2>2 DEF Create, InClient, At, Client, InMain
    <3>2. CallOK(Top) /\ Top.co \in Co
      BY <2>2, <3>1, TopFacts, TopCo
    <3>. QED BY <1>3, <2>2, <3>1, <3>2, TopFacts, TopCo DEF CallOK, Running
  <2>. QED BY <2>1, <2>2
<1>5. /\ frame' = [frame EXCEPT ![d] = "active"] /\ owner' = [owner EXCEPT ![d] = c]
      /\ status' = [status EXCEPT ![d] = RUNNING]
      /\ line' = [line EXCEPT ![d] = {d} \cup IF c = Main THEN {} ELSE line[c]]
      /\ Push(NewCall("body", d))
      /\ UNCHANGED <<flags, waiting, callers, awaits, attached, value, awaited, ops>>
  BY <1>2, <1>4 DEF Create, InMain, FirstStatus
<1>6. /\ LineInv' /\ \A x \in Co : d \notin line[x]
      /\ \A x \in Co : line'[x] = IF x = d THEN {d} \cup (IF c = Main THEN {} ELSE line[c]) ELSE line[x]
  BY <1>1, <1>4, <1>5, CreateLine
<1>7. /\ \A x \in Co : /\ frame'[x] = IF x = d THEN "active" ELSE frame[x]
                       /\ owner'[x] = IF x = d THEN c ELSE owner[x]
                       /\ status'[x] = IF x = d THEN RUNNING ELSE status[x]
      /\ \A x \in Co : line[x] \subseteq Co
  BY <1>1, <1>5 DEF TypeOK, PromiseTypeOK
<1>8. \A x : ~TopIs("await_resume", x) /\ ~TopIs("resume", x)
  BY <1>4 DEF TopIs, At
<1>9. /\ status[d] = CREATED /\ ~Exiting(d) /\ awaits[d] = Null /\ ~attached[d] /\ waiting[d] = Null
      /\ flags[d] \cap {"internal_waiting", "returned", "destroying"} = {}
  BY <1>1, <1>8 DEF TypeOK, Exiting, CREATED, DONE, AwaitInv, StatusInv, Suspended, Waits
<1>10. /\ \A x \in Co : Exiting(x)' <=> Exiting(x)
       /\ \A x \in Co \cup Event : Over(x)' <=> Over(x)
  BY <1>1, <1>5, <1>7, <1>9 DEF Exiting, RUNNING, DONE, Over, Finished
<1>11. \A m \in InProgress : /\ m \in Call /\ CallOK(m) /\ Waiting(m)
                             /\ m.co \in Co => m.co # d
                             /\ d \notin m.todo
                             /\ \A x \in Subjects(m) : x \in Co /\ x # d
  <2>1. SUFFICES ASSUME NEW m \in InProgress
        PROVE  /\ m \in Call /\ CallOK(m) /\ Waiting(m)
               /\ m.co \in Co => m.co # d
               /\ d \notin m.todo
    BY DEF Subjects, Call
  <2>2. m \in Call /\ CallOK(m)
    BY <1>1, CallsIn DEF InProgress, IInv, CallsOK
  <2>3. Waiting(m)
    BY <1>4, TopFacts DEF Waiting
  <2>4. m.co \in Co => m.co # d
    BY <1>1, <2>2, <2>3 DEF CallOK, Waiting, Alive, Running
  <2>5. d \notin m.todo
    BY <1>1, <2>2 DEF CallOK, Suspended
  <2>. QED BY <2>2, <2>3, <2>4, <2>5
<1>12. PICK k \in Call : k.pc = "body" /\ k.co = d /\ k.todo = {} /\ Push(k)
  <2>1. "body" \in Label
    BY DEF Label
  <2>. QED BY <1>5, <2>1, NewCallFacts
<1>13. /\ stack' \in Seq(Call) /\ stack' # <<>> /\ Top' = k
       /\ InProgress' = {k} \cup InProgress /\ Below' = InProgress
  BY <1>1, <1>12, StackPush
<1>14. PairsOK'
  <2>. DEFINE M == line'
  <2>1. Pairs(M, stack)
    <3>1. ASSUME NEW a \in Calls(stack), NEW b \in Calls(stack), Above(line, a, b) PROVE Above(M, a, b)
      <4>1. /\ \A x \in Subjects(a) : x \in Co /\ M[x] = line[x]
            /\ \A x \in b.todo : x \in Co /\ M[x] = line[x]
        BY <1>6, <1>11 DEF InProgress, Call
      <4>. QED BY <3>1, <4>1 DEF Above
    <3>. QED BY <1>1, <3>1, PairsLine DEF PairsOK
  <2>2. ASSUME NEW m \in Calls(stack) PROVE Above(M, k, m)
    <3>1. m \in InProgress /\ Subjects(k) = {d} /\ M[d] = {d} \cup line[c] /\ c # Main /\ c \in Co
      BY <1>4, <1>6, <1>12 DEF InProgress, Subjects
    <3>2. m.pc # "wake" => m.co \in line[c]
      <4>1. m \in Below => Above(line, Top, m)
        BY <1>4, <3>1
      <4>. QED BY <1>4, <1>11, <3>1, <4>1 DEF Above, CallOK, Waiting
    <3>3. ASSUME NEW p \in m.todo, m.pc = "wake" PROVE line[c] \cap line[p] = {} /\ M[p] = line[p] /\ p \in Co
      BY <1>4, <1>6, <1>11, <3>1, <3>3 DEF Above, Call
    <3>4. ASSUME NEW p \in m.todo, m.pc = "wake" PROVE M[d] \cap M[p] = {}
      BY <3>1, <3>3, <3>4, <1>6
    <3>5. m.pc \in Running => m.co # d
      BY <1>11, <3>1 DEF CallOK, Running
    <3>. QED BY <1>12, <3>1, <3>2, <3>4, <3>5 DEF Above, Running
  <2>. HIDE DEF M
  <2>3. Pairs(M, <<k>> \o stack)
    BY <1>1, <2>1, <2>2, PairsPush
  <2>. QED BY <1>12, <2>3 DEF Push, PairsOK, M
<1>15. TypeOK'
  <2>1. /\ frame' \in [Co -> Frame] /\ status' \in [Co -> CREATED..TIMEOUT]
        /\ owner' \in [Co -> Co \cup {Main, Null}]
    BY <1>1, <1>5 DEF TypeOK, PromiseTypeOK, Frame, CREATED, RUNNING, TIMEOUT
  <2>2. line' \in [Co -> SUBSET Co]
    <3>. DEFINE own == IF c = Main THEN {} ELSE line[c]
    <3>1. own \subseteq Co
      BY <1>7
    <3>. HIDE DEF own
    <3>2. line' = [line EXCEPT ![d] = {d} \cup own]
      BY <1>5 DEF own
    <3>. QED BY <1>1, <3>1, <3>2 DEF TypeOK
  <2>3. \A x \in Co : status'[x] = CREATED <=> frame'[x] = "none"
    <3>1. frame'[d] # "none" /\ status'[d] # CREATED
      BY <1>7 DEF CREATED, RUNNING
    <3>2. \A x \in Co : x # d => status'[x] = status[x] /\ frame'[x] = frame[x]
      BY <1>7
    <3>3. \A x \in Co : status[x] = CREATED <=> frame[x] = "none"
      BY <1>1 DEF TypeOK
    <3>. QED BY <3>1, <3>2, <3>3
  <2>. QED BY <1>1, <1>5, <1>13, <2>1, <2>2, <2>3 DEF TypeOK, PromiseTypeOK, GeneratorTypeOK
<1>16. Lives'
  <2>1. SUFFICES ASSUME NEW x \in Co, Alive(x)', NEW a \in line'[x] \ {x} PROVE Waits(a)'
    BY DEF Lives
  <2>2. CASE x = d
    <3>1. c \in Co /\ a \in line[c] /\ a \in Co /\ a # d /\ frame[c] = "active"
      BY <1>4, <1>6, <1>7, <2>1, <2>2
    <3>2. Waits(a)
      BY <1>1, <3>1 DEF Lives, Alive, Waits
    <3>. QED BY <1>7, <3>1, <3>2 DEF Waits
  <2>3. CASE x # d
    <3>1. Alive(x) /\ a \in line[x] \ {x} /\ a \in Co /\ a # d
      BY <1>6, <1>7, <2>1, <2>3 DEF Alive
    <3>2. Waits(a)
      BY <1>1, <3>1 DEF Lives
    <3>. QED BY <1>7, <3>1, <3>2 DEF Waits
  <2>. QED BY <2>2, <2>3
<1>17. CallsOK' /\ BelowOK'
  <2>1. \A m \in InProgress : CallOK(m)' /\ Waiting(m)'
    <3>1. \A x \in Co \ {d} : /\ frame'[x] = frame[x] /\ awaits'[x] = awaits[x]
                              /\ attached'[x] = attached[x] /\ flags'[x] = flags[x]
      BY <1>5, <1>7
    <3>2. \A x \in Co : /\ Exiting(x) => Exiting(x)'
                        /\ frame[x] # "none" => /\ frame'[x] # "none"
                                                /\ owner'[x] = owner[x] /\ line'[x] = line[x]
      BY <1>1, <1>6, <1>7, <1>10
    <3>3. ASSUME NEW m \in InProgress PROVE CallOK(m)' /\ Waiting(m)'
      <4>1. m.pc = "wake" /\ m.todo # {} /\ Over(m.co) => Over(m.co)'
        BY <1>10, <1>11 DEF CallOK
      <4>2. m.pc \in Running => m.co \notin {d}
        BY <1>11 DEF CallOK
      <4>3. m.pc = "destroy" => Alive(m.co)' /\ owner[m.co] \notin {d}
        <5>1. ASSUME m.pc = "destroy" PROVE m.co \in Co /\ Alive(m.co) /\ m.co # d
          BY <1>11, <5>1 DEF CallOK
        <5>. QED BY <1>1, <1>7, <5>1, OwnedBelow DEF Alive
      <4>4. m.pc = "wake" => m.todo \cap {d} = {}
        BY <1>11
      <4>. QED BY <1>1, <1>11, <3>1, <3>2, <4>1, <4>2, <4>3, <4>4, CallKept
    <3>. QED BY <3>3
  <2>2. CallOK(k)'
    BY <1>5, <1>7, <1>9, <1>12 DEF CallOK, Running
  <2>. QED BY <1>13, <2>1, <2>2 DEF CallsOK, BelowOK
<1>18. TopOK'
  BY <1>12, <1>13 DEF TopOK, At
<1>19. ActiveOnStack'
  BY <1>7, <1>12, <1>13 DEF IInv, ActiveOnStack, Running
<1>20. \A x : ~TopIs("await_resume", x)' /\ ~TopIs("resume", x)'
  BY <1>12, <1>13 DEF TopIs, At
<1>21. AwaitInv'
  <2>1. \A x \in Co : awaits[x] # d
    BY <1>1 DEF AwaitInv, Alive
  <2>. QED BY <1>1, <1>3, <1>5, <1>7, <1>8, <1>9, <2>1
           DEF AwaitInv, Suspended, Waits, Finished, Alive, TypeOK, PromiseTypeOK
<1>22. CallersInv'
  <2>1. \A x \in Co \cup Event : \A b \in callers[x] : b \in Co /\ b # d
    BY <1>1, <1>9 DEF CallersInv, TypeOK, PromiseTypeOK
  <2>. QED BY <1>1, <1>5, <1>6, <1>10, <2>1 DEF CallersInv
<1>23. Reg'
  <2>1. SUFFICES ASSUME NEW x \in Co, Suspended(x)', ~Exiting(x)'
        PROVE  x \in callers'[awaits'[x]] \/ \E m \in InProgress' : m.pc = "wake" /\ x \in m.todo
    BY DEF Reg
  <2>2. Suspended(x) /\ ~Exiting(x)
    BY <1>7, <1>10, <2>1 DEF Suspended
  <2>3. x \in callers[awaits[x]] \/ \E m \in InProgress : m.pc = "wake" /\ x \in m.todo
    BY <1>8, <2>2 DEF IInv, Reg
  <2>. QED BY <1>5, <1>13, <2>3
<1>24. StatusInv'
  BY <1>1, <1>5, <1>7, <1>9, <1>10 DEF StatusInv, RUNNING, DONE
<1>25. KillCover'
  <2>1. SUFFICES ASSUME NEW x \in Co, Suspended(x)', Exiting(x)'
        PROVE  \E a \in line'[x] : \/ \E m \in InProgress' : m.pc = "destroy" /\ m.co = a
                                   \/ Exiting(a)' /\ frame'[a] = "active"
    BY DEF KillCover
  <2>2. Suspended(x) /\ Exiting(x) /\ x # d
    BY <1>7, <1>10, <2>1 DEF Suspended
  <2>3. PICK a \in line[x] : \/ \E m \in InProgress : m.pc = "destroy" /\ m.co = a
                             \/ Exiting(a) /\ frame[a] = "active"
    BY <1>8, <2>2 DEF IInv, KillCover
  <2>4. a \in Co
    BY <1>7
  <2>. QED BY <1>6, <1>7, <1>10, <1>13, <2>2, <2>3, <2>4
<1>. QED BY <1>6, <1>13, <1>14, <1>15, <1>16, <1>17, <1>18, <1>19, <1>21, <1>22, <1>23, <1>24, <1>25 DEF IInv

-----------------------------------------------------------------------------
(* Destruction and kills. *)

\* A call of which nothing but a status changes leaves those below it as they were.
LEMMA AllKept ==
  ASSUME IInv, stack # <<>> => Waiting(Top), UNCHANGED <<frame, awaits, attached, flags, value, ownVars>>,
         \A x \in Co : Exiting(x) => Exiting(x)'
  PROVE  \A m \in InProgress : CallOK(m)' /\ Waiting(m)'
<1>1. SUFFICES ASSUME NEW m \in InProgress PROVE CallOK(m)' /\ Waiting(m)'
  OBVIOUS
<1>2. m \in Call /\ CallOK(m) /\ TypeOK /\ LineInv /\ {} \in SUBSET Co
  BY CallsIn DEF IInv, CallsOK, InProgress, TypeOK, PromiseTypeOK
<1>3. Waiting(m)
  BY StackEmpty, TopFacts DEF InMain
<1>4. m.pc = "wake" /\ m.todo # {} /\ Over(m.co) => Over(m.co)'
  BY DEF Over, Finished
<1>5. m.pc = "destroy" => Alive(m.co)'
  BY <1>2 DEF CallOK, Alive
<1>6. \A x \in Co : /\ Exiting(x) => Exiting(x)'
                    /\ frame[x] # "none" => /\ frame'[x] # "none"
                                            /\ owner'[x] = owner[x] /\ line'[x] = line[x]
  BY DEF ownVars
<1>. QED BY <1>2, <1>3, <1>4, <1>5, <1>6, CallKept

LEMMA DestroyCallKeeps ==
  ASSUME IInv, NEW d \in Co, Alive(d), Push(NewCall("destroy", d)),
         \/ InMain /\ owner[d] = Main
         \/ stack # <<>> /\ Top.pc \in {"body", "locals"} /\ owner[d] = Top.co,
         UNCHANGED <<promiseVars, ownVars, value, awaited>>, ops' \in 0..MaxOp
  PROVE  IInv'
<1>1. /\ TypeOK /\ LineInv /\ Lives /\ AwaitInv /\ StatusInv /\ CallersInv /\ stack \in Seq(Call)
      /\ UNCHANGED <<frame, status, flags, waiting, callers, awaits, attached, owner, line, value, awaited>>
  BY DEF IInv, TypeOK, PromiseTypeOK, promiseVars, ownVars
<1>2. PICK k \in Call :
        /\ k.pc = "destroy" /\ k.co = d /\ k.todo = {}
        /\ stack' \in Seq(Call) /\ stack' # <<>> /\ Top' = k
        /\ InProgress' = {k} \cup InProgress /\ Below' = InProgress /\ PairsOK'
  <2>1. /\ "destroy" \in {"body", "resume", "destroy"} /\ frame[d] # "none" /\ line' = line
        /\ \/ InMain
           \/ Top.pc \in {"body", "locals"} /\ owner[d] = Top.co
           \/ Top.pc = "destroy" /\ Top.co = d /\ "destroy" = "resume"
    BY <1>1 DEF Alive
  <2>. QED BY <2>1, StackCall
<1>3. \A x : ~TopIs("await_resume", x) /\ ~TopIs("resume", x) /\ ~TopIs("await_resume", x)'
  BY <1>2 DEF TopIs, At, InMain
<1>4. LineInv' /\ Lives'
  BY <1>1, LineKept, LivesKept DEF Alive, Waits, ownVars
<1>5. CallsOK' /\ BelowOK'
  <2>1. \A m \in InProgress : CallOK(m)' /\ Waiting(m)'
    <3>1. stack # <<>> => Waiting(Top)
      BY DEF Waiting, InMain
    <3>2. \A x \in Co : Exiting(x) => Exiting(x)'
      BY <1>1 DEF Exiting
    <3>3. UNCHANGED <<frame, awaits, attached, flags, value, ownVars>>
      BY <1>1
    <3>. QED BY <3>1, <3>2, <3>3, AllKept
  <2>2. owner[d] = Main \/ (frame[owner[d]] = "active" /\ awaits[owner[d]] = Null)
    BY TopFacts DEF CallOK, Running
  <2>3. CallOK(k)'
    BY <1>1, <1>2, <2>2 DEF CallOK, Running, Alive
  <2>. QED BY <1>2, <2>1, <2>3 DEF CallsOK, BelowOK
<1>6. TypeOK'
  BY <1>1, <1>2 DEF TypeOK, PromiseTypeOK, GeneratorTypeOK
<1>7. TopOK'
  BY <1>2 DEF TopOK, At
<1>8. ActiveOnStack'
  BY <1>1, <1>2 DEF IInv, ActiveOnStack
<1>9. AwaitInv'
  BY <1>1, <1>3 DEF AwaitInv, Suspended, Waits, Finished, Alive
<1>10. CallersInv'
  BY <1>1 DEF CallersInv, Over, Finished
<1>11. Reg'
  BY <1>1, <1>2, <1>3 DEF IInv, Reg, Suspended, Exiting
<1>12. StatusInv'
  BY <1>1 DEF StatusInv, Exiting
<1>13. KillCover'
  BY <1>1, <1>2, <1>3 DEF IInv, KillCover, Suspended, Exiting
<1>. QED BY <1>2, <1>4, <1>5, <1>6, <1>7, <1>8, <1>9, <1>10, <1>11, <1>12, <1>13 DEF IInv

\* The new status that a kill gives.
LEMMA NewStatus ==
  ASSUME IInv, NEW d \in Co, NEW s \in CREATED..TIMEOUT, s > DONE \/ (Exiting(d) /\ s = status[d]),
         frame[d] # "none", status' = [status EXCEPT ![d] = s]
  PROVE  /\ status' \in [Co -> CREATED..TIMEOUT]
         /\ \A x \in Co : status'[x] = CREATED <=> frame[x] = "none"
         /\ Exiting(d)'
         /\ \A x \in Co : /\ Exiting(x) => Exiting(x)'
                          /\ x # d => (Exiting(x)' => Exiting(x))
                          /\ status'[x] = DONE => status[x] = DONE
<1>1. /\ status \in [Co -> CREATED..TIMEOUT]
      /\ \A x \in Co : status'[x] = IF x = d THEN s ELSE status[x]
  BY DEF IInv, TypeOK, PromiseTypeOK
<1>2. \A x \in Co : status[x] = CREATED <=> frame[x] = "none"
  BY DEF IInv, TypeOK
<1>3. status' \in [Co -> CREATED..TIMEOUT]
  BY <1>1
<1>4. s # CREATED /\ s >= DONE /\ (s = DONE => status[d] = DONE)
  BY <1>1 DEF CREATED, DONE, TIMEOUT, Exiting
<1>5. ASSUME NEW x \in Co PROVE status'[x] = CREATED <=> frame[x] = "none"
  BY <1>1, <1>2, <1>4
<1>6. Exiting(d)'
  BY <1>1, <1>4 DEF Exiting
<1>7. ASSUME NEW x \in Co
      PROVE  /\ Exiting(x) => Exiting(x)'
             /\ x # d => (Exiting(x)' => Exiting(x))
             /\ status'[x] = DONE => status[x] = DONE
  BY <1>1, <1>4, <1>6 DEF Exiting
<1>. QED BY <1>3, <1>5, <1>6, <1>7

LEMMA KillResumeKeeps ==
  ASSUME IInv, NEW d \in Co, Suspended(d), Push(NewCall("resume", d)),
         \/ InMain
         \/ stack # <<>> /\ Top.pc = "body" /\ owner[d] = Top.co
         \/ stack # <<>> /\ Top.pc = "destroy" /\ Top.co = d,
         NEW s \in CREATED..TIMEOUT, s > DONE \/ (Exiting(d) /\ s = status[d]),
         status' = [status EXCEPT ![d] = s],
         UNCHANGED <<frame, flags, waiting, callers, awaits, attached, ownVars, value, awaited>>,
         ops' \in 0..MaxOp
  PROVE  IInv'
<1>1. /\ TypeOK /\ LineInv /\ Lives /\ AwaitInv /\ StatusInv /\ CallersInv /\ stack \in Seq(Call)
      /\ UNCHANGED <<frame, flags, waiting, callers, awaits, attached, owner, line, value, awaited>>
      /\ frame[d] = "suspended"
  BY DEF IInv, TypeOK, PromiseTypeOK, ownVars, Suspended
<1>2. PICK k \in Call :
        /\ k.pc = "resume" /\ k.co = d /\ k.todo = {}
        /\ stack' \in Seq(Call) /\ stack' # <<>> /\ Top' = k
        /\ InProgress' = {k} \cup InProgress /\ Below' = InProgress /\ PairsOK'
  <2>1. /\ "resume" \in {"body", "resume", "destroy"} /\ frame[d] # "none" /\ line' = line
        /\ \/ InMain
           \/ Top.pc \in {"body", "locals"} /\ owner[d] = Top.co
           \/ Top.pc = "destroy" /\ Top.co = d /\ "resume" = "resume"
    BY <1>1
  <2>. QED BY <2>1, StackCall
<1>3. /\ \A x : ~TopIs("await_resume", x) /\ ~TopIs("resume", x) /\ ~TopIs("await_resume", x)'
      /\ TopIs("resume", d)'
  BY <1>2 DEF TopIs, At, InMain
<1>4. /\ status' \in [Co -> CREATED..TIMEOUT]
      /\ \A x \in Co : status'[x] = CREATED <=> frame[x] = "none"
      /\ Exiting(d)'
      /\ \A x \in Co : /\ Exiting(x) => Exiting(x)'
                       /\ x # d => (Exiting(x)' => Exiting(x))
                       /\ status'[x] = DONE => status[x] = DONE
  BY <1>1, NewStatus
<1>5. CallsOK' /\ BelowOK'
  <2>1. \A m \in InProgress : CallOK(m)' /\ Waiting(m)'
    <3>1. stack # <<>> => Waiting(Top)
      BY DEF Waiting, InMain
    <3>3. UNCHANGED <<frame, awaits, attached, flags, value, ownVars>>
      BY <1>1
    <3>. QED BY <1>4, <3>1, <3>3, AllKept
  <2>3. CallOK(k)'
    BY <1>1, <1>2, <1>4 DEF CallOK, Running, Suspended
  <2>. QED BY <1>2, <2>1, <2>3 DEF CallsOK, BelowOK
<1>6. TypeOK'
  BY <1>1, <1>2, <1>4 DEF TypeOK, PromiseTypeOK, GeneratorTypeOK
<1>7. TopOK' /\ LineInv' /\ Lives'
  BY <1>1, <1>2, LineKept, LivesKept DEF TopOK, At, Alive, Waits, ownVars
<1>8. ActiveOnStack'
  BY <1>1, <1>2 DEF IInv, ActiveOnStack
<1>9. AwaitInv'
  BY <1>1, <1>3 DEF AwaitInv, Suspended, Waits, Finished, Alive
<1>10. CallersInv'
  BY <1>1 DEF CallersInv, Over, Finished
<1>11. Reg'
  BY <1>1, <1>2, <1>3, <1>4 DEF IInv, Reg, Suspended
<1>12. StatusInv'
  BY <1>1, <1>4 DEF StatusInv
<1>13. KillCover'
  <2>1. SUFFICES ASSUME NEW x \in Co, Suspended(x)', Exiting(x)'
        PROVE  \E a \in line'[x] : \/ \E m \in InProgress' : m.pc = "destroy" /\ m.co = a
                                   \/ Exiting(a)' /\ (frame'[a] = "active" \/ TopIs("resume", a)')
    BY DEF KillCover
  <2>2. CASE x = d
    BY <1>1, <1>3, <1>4, <2>2, OwnedBelow
  <2>3. CASE x # d
    <3>1. PICK a \in line[x] : \/ \E m \in InProgress : m.pc = "destroy" /\ m.co = a
                               \/ Exiting(a) /\ frame[a] = "active"
      BY <1>1, <1>3, <1>4, <2>1, <2>3 DEF IInv, KillCover, Suspended
    <3>2. a \in Co
      BY <1>1 DEF TypeOK
    <3>. QED BY <1>1, <1>2, <1>4, <3>1, <3>2
  <2>. QED BY <2>2, <2>3
<1>. QED BY <1>2, <1>5, <1>6, <1>7, <1>8, <1>9, <1>10, <1>11, <1>12, <1>13 DEF IInv

LEMMA KillKeeps ==
  ASSUME Contract, IInv, NEW d \in Co, NEW target \in KillStatus, Kill(d, target)
  PROVE  IInv'
<1>1. /\ TypeOK /\ LineInv /\ Lives /\ AwaitInv /\ StatusInv /\ CallersInv /\ stack \in Seq(Call)
      /\ frame[d] \notin {"none", "destroyed", "final"} /\ ~Exiting(d)
      /\ status' = [status EXCEPT ![d] = target]
      /\ UNCHANGED <<frame, flags, waiting, callers, awaits, attached, ownVars, value, awaited>>
  BY DEF IInv, TypeOK, PromiseTypeOK, Kill, Alive, Finished
<1>2. target \in CREATED..TIMEOUT /\ target > DONE
  <2>1. KillStatus \subseteq DONE..TIMEOUT /\ DONE \notin KillStatus
    BY CallableAssumption DEF Contract
  <2>. QED BY <2>1 DEF CREATED, DONE, TIMEOUT
<1>3. ops' \in 0..MaxOp
  <2>1. ops \in 0..MaxOp /\ ops < MaxOp /\ ops' = ops + 1 /\ MaxOp \in Nat
    BY <1>1, CallableAssumption DEF Kill, Op, TypeOK
  <2>. QED BY <2>1
<1>4. \/ InMain
      \/ stack # <<>> /\ Top.pc = "body" /\ owner[d] = Top.co
  BY DEF Contract, Kill, InClient, InMain, At, Client
<1>5. \A x : ~TopIs("await_resume", x) /\ ~TopIs("resume", x)
  BY <1>4 DEF TopIs, At, InMain
<1>6. /\ IsWaiting(d) => Suspended(d)
      /\ Suspended(d) => IsWaiting(d) /\ flags[d] \cap {"destroying", "returned"} = {}
  BY <1>1, <1>5 DEF IsWaiting, AwaitInv, StatusInv, Suspended
<1>7. CASE IsWaiting(d) /\ flags[d] \cap {"destroying", "returned"} = {}
  <2>1. Push(NewCall("resume", d))
    BY <1>7 DEF Kill
  <2>. QED BY <1>1, <1>2, <1>3, <1>4, <1>6, <1>7, <2>1, KillResumeKeeps
<1>8. CASE ~(IsWaiting(d) /\ flags[d] \cap {"destroying", "returned"} = {})
  <2>1. stack' = stack /\ ~Suspended(d) /\ owner' = owner /\ line' = line
        /\ InProgress' = InProgress /\ Below' = Below /\ Top' = Top
    BY <1>1, <1>6, <1>8 DEF Kill, ownVars, InProgress, Below, Top
  <2>2. /\ status' \in [Co -> CREATED..TIMEOUT]
        /\ \A x \in Co : status'[x] = CREATED <=> frame[x] = "none"
        /\ \A x \in Co : /\ Exiting(x) => Exiting(x)'
                         /\ x # d => (Exiting(x)' => Exiting(x))
                         /\ status'[x] = DONE => status[x] = DONE
    BY <1>1, <1>2, NewStatus
  <2>3. CallsOK' /\ BelowOK'
    <3>1. stack # <<>> => Waiting(Top)
      BY <1>4 DEF Waiting, InMain
    <3>2. \A m \in InProgress : CallOK(m)' /\ Waiting(m)'
      BY <1>1, <2>2, <3>1, AllKept
    <3>3. Below \subseteq InProgress
      BY StackEmpty, TopFacts DEF InMain
    <3>. QED BY <2>1, <3>2, <3>3 DEF CallsOK, BelowOK
  <2>4. TypeOK'
    BY <1>1, <1>3, <2>1, <2>2 DEF TypeOK, PromiseTypeOK, GeneratorTypeOK
  <2>5. LineInv' /\ Lives'
    BY <1>1, <2>1, LineKept, LivesKept DEF Alive, Waits
  <2>6. PairsOK' /\ (\A x : ~TopIs("await_resume", x)' /\ ~TopIs("resume", x)')
    BY <1>5, <2>1 DEF IInv, PairsOK, TopIs, At
  <2>7. TopOK'
    BY <2>6 DEF TopOK, TopIs
  <2>8. ActiveOnStack'
    BY <1>1, <2>1 DEF IInv, ActiveOnStack
  <2>9. AwaitInv'
    BY <1>1, <2>1, <2>6, <1>5 DEF AwaitInv, Suspended, Waits, Finished, Alive
  <2>10. CallersInv'
    BY <1>1, <2>1 DEF CallersInv, Over, Finished
  <2>11. Reg'
    BY <1>1, <1>5, <2>1, <2>2 DEF IInv, Reg, Suspended
  <2>12. StatusInv'
    BY <1>1, <2>2 DEF StatusInv
  <2>13. KillCover'
    <3>1. SUFFICES ASSUME NEW x \in Co, Suspended(x)', Exiting(x)'
          PROVE  \E a \in line'[x] : \/ \E m \in InProgress' : m.pc = "destroy" /\ m.co = a
                                     \/ Exiting(a)' /\ frame'[a] = "active"
      BY DEF KillCover
    <3>2. PICK a \in line[x] : \/ \E m \in InProgress : m.pc = "destroy" /\ m.co = a
                               \/ Exiting(a) /\ frame[a] = "active"
      BY <1>1, <1>5, <2>1, <2>2, <3>1 DEF IInv, KillCover, Suspended
    <3>3. a \in Co
      BY <1>1 DEF TypeOK
    <3>. QED BY <1>1, <2>1, <2>2, <3>2, <3>3
  <2>. QED BY <2>3, <2>4, <2>5, <2>6, <2>7, <2>8, <2>9, <2>10, <2>11, <2>12, <2>13 DEF IInv
<1>. QED BY <1>7, <1>8

LEMMA DestroyResumesKeeps ==
  ASSUME IInv, NEW d \in Co, DestroyResumes(d)
  PROVE  IInv'
<1>1. stack # <<>> /\ Top.pc = "destroy" /\ Top.co = d /\ RunsOut(d)
  BY DEF DestroyResumes, At
<1>2. CallOK(Top) /\ Subjects(Top) = {d} /\ d \in line[d] /\ TypeOK /\ ops \in 0..MaxOp
  BY <1>1, TopFacts, TopCo DEF IInv, TypeOK
<1>3. Suspended(d)
  <2>1. Alive(d) /\ frame[d] # "final"
    BY <1>1, <1>2 DEF CallOK, RunsOut, Finished
  <2>2. frame[d] # "active"
    BY <1>1, <1>2, <2>1, BelowSpares DEF Alive, Running
  <2>. QED BY <1>2, <2>1, <2>2 DEF Alive, Suspended, TypeOK, PromiseTypeOK, Frame
<1>4. PICK s \in CREATED..TIMEOUT : /\ s > DONE \/ (Exiting(d) /\ s = status[d])
                                    /\ status' = [status EXCEPT ![d] = s]
  <2>1. CASE Exiting(d)
    BY <1>2, <2>1 DEF DestroyResumes, TypeOK, PromiseTypeOK
  <2>2. CASE ~Exiting(d)
    BY <2>2 DEF DestroyResumes, KILLED, DONE, CREATED, TIMEOUT
  <2>. QED BY <2>1, <2>2
<1>5. UNCHANGED <<frame, flags, waiting, callers, awaits, attached, ownVars, value, awaited, ops>>
      /\ Push(NewCall("resume", d))
  BY DEF DestroyResumes
<1>. QED BY <1>1, <1>2, <1>3, <1>4, <1>5, KillResumeKeeps

LEMMA DestroyFrameKeeps ==
  ASSUME IInv, NEW d \in Co, DestroyFrame(d)
  PROVE  IInv'
<1>1. stack # <<>> /\ Top.pc = "destroy" /\ Top.co = d /\ ~RunsOut(d)
  BY DEF DestroyFrame, At
<1>2. /\ TypeOK /\ LineInv /\ Lives /\ AwaitInv /\ StatusInv /\ CallersInv /\ PairsOK
      /\ frame' = [frame EXCEPT ![d] = "destroyed"]
      /\ flags' = [flags EXCEPT ![d] = @ \cup {"destroying"}]
      /\ Pop
      /\ UNCHANGED <<status, waiting, callers, awaits, attached, owner, line, value, awaited, ops>>
  BY DEF IInv, DestroyFrame, ownVars
<1>3. /\ stack \in Seq(Call) /\ InProgress = {Top} \cup Below /\ CallOK(Top)
      /\ \A m \in Below : m \in Call /\ CallOK(m) /\ Waiting(m) /\ Above(line, Top, m)
      /\ Subjects(Top) = {d} /\ d \in line[d] /\ Alive(d)
      /\ \A x : ~TopIs("await_resume", x) /\ ~TopIs("resume", x)
  BY <1>1, TopFacts, TopCo DEF CallOK, TopIs, At
<1>4. frame[d] = "final"
  <2>1. frame[d] # "active"
    BY <1>1, <1>3, BelowSpares DEF Alive, Running
  <2>. QED BY <1>1, <1>2, <1>3, <2>1 DEF RunsOut, Finished, StatusInv, Alive
<1>5. /\ \A x \in Co : frame'[x] = IF x = d THEN "destroyed" ELSE frame[x]
      /\ \A x \in Co : flags'[x] = IF x = d THEN flags[x] \cup {"destroying"} ELSE flags[x]
  BY <1>2 DEF TypeOK, PromiseTypeOK
\* Nobody awaits what is being destroyed, and no heir of it is left.
<1>6. \A x \in Co : awaits[x] # d
  <2>1. SUFFICES ASSUME NEW x \in Co, awaits[x] = d PROVE FALSE
    OBVIOUS
  <2>2. owner[d] = x /\ Main \notin Co /\ Null \notin Co
    BY <1>2, <2>1, CallableAssumption, PromiseAssumption DEF AwaitInv
  <2>. QED BY <1>1, <1>3, <2>1, <2>2 DEF CallOK
<1>7. \A x \in Co : Alive(x) /\ d \in line[x] => x = d
  BY <1>2, <1>4 DEF Lives, Waits
<1>8. /\ stack' \in Seq(Call) /\ InProgress' = Below /\ Below' \subseteq Below
      /\ (stack' # <<>> => Top' \in Below) /\ PairsOK'
  BY <1>1, <1>2, <1>3, StackPop
<1>9. TypeOK'
  <2>1. frame' \in [Co -> Frame] /\ flags' \in [Co -> SUBSET Flag]
    BY <1>2 DEF TypeOK, PromiseTypeOK, Frame, Flag
  <2>2. \A x \in Co : status'[x] = CREATED <=> frame'[x] = "none"
    BY <1>2, <1>4, <1>5 DEF TypeOK
  <2>. QED BY <1>2, <1>8, <2>1, <2>2 DEF TypeOK, PromiseTypeOK, GeneratorTypeOK
<1>10. LineInv' /\ Lives'
  BY <1>2, <1>4, <1>5, LineKept, LivesKept DEF Alive, Waits, ownVars
<1>11. \A m \in Below : CallOK(m)' /\ Waiting(m)'
  <2>1. SUFFICES ASSUME NEW m \in Below PROVE CallOK(m)' /\ Waiting(m)'
    OBVIOUS
  <2>2. /\ \A x \in Co \ {d} : /\ frame'[x] = frame[x] /\ awaits'[x] = awaits[x]
                               /\ attached'[x] = attached[x] /\ flags'[x] = flags[x]
        /\ \A x \in Co : /\ Exiting(x) => Exiting(x)'
                         /\ frame[x] # "none" => /\ frame'[x] # "none"
                                                 /\ owner'[x] = owner[x] /\ line'[x] = line[x]
    BY <1>2, <1>5 DEF Exiting
  <2>3. /\ m.pc \in Running => m.co \notin {d}
        /\ m.pc = "destroy" => owner[m.co] \notin {d}
        /\ m.pc = "wake" => m.todo \cap {d} = {}
    BY <1>1, <1>3, <1>4, BelowSpares
  <2>4. m.pc = "destroy" => Alive(m.co)'
    <3>1. ASSUME m.pc = "destroy" PROVE m.co \in Co /\ Alive(m.co) /\ m.co # d
      BY <1>1, <1>3, <3>1 DEF Above, CallOK
    <3>. QED BY <1>5, <3>1 DEF Alive
  <2>5. m.pc = "wake" /\ m.todo # {} /\ Over(m.co) => Over(m.co)'
    <3>1. ASSUME m.pc = "wake", m.todo # {}, Over(m.co) PROVE m.co # d /\ m.co \in Co \cup Event
      BY <1>3, <1>6, <3>1 DEF CallOK, Call
    <3>. QED BY <1>2, <1>5, <3>1 DEF Over, Finished
  <2>. QED BY <1>2, <1>3, <2>2, <2>3, <2>4, <2>5, CallKept
<1>12. CallsOK' /\ BelowOK'
  BY <1>8, <1>11 DEF CallsOK, BelowOK
<1>13. TopOK'
  <2>1. stack' # <<>> => CallOK(Top)' /\ Waiting(Top)'
    BY <1>8, <1>11
  <2>. QED BY <2>1 DEF TopOK, At, Waiting
<1>14. ActiveOnStack'
  BY <1>1, <1>3, <1>5, <1>8 DEF IInv, ActiveOnStack, Running
<1>15. AwaitInv'
  <2>1. ~attached[d] /\ awaits[d] = Null
    BY <1>2, <1>3, <1>4 DEF AwaitInv, Suspended, Waits
  <2>. QED BY <1>2, <1>3, <1>4, <1>5, <1>6, <2>1
           DEF AwaitInv, Suspended, Waits, Finished, Alive, TypeOK, PromiseTypeOK
<1>16. CallersInv'
  <2>1. \A x \in Co \cup Event : Over(x)' => Over(x)
    BY <1>2, <1>5 DEF Over, Finished
  <2>. QED BY <1>2, <2>1 DEF CallersInv
<1>17. Reg'
  <2>1. SUFFICES ASSUME NEW x \in Co, Suspended(x)', ~Exiting(x)'
        PROVE  x \in callers'[awaits'[x]] \/ \E m \in InProgress' : m.pc = "wake" /\ x \in m.todo
    BY DEF Reg
  <2>2. Suspended(x) /\ ~Exiting(x)
    BY <1>2, <1>5, <2>1 DEF Suspended, Exiting
  <2>3. x \in callers[awaits[x]] \/ \E m \in Below : m.pc = "wake" /\ x \in m.todo
    BY <1>1, <1>3, <2>2 DEF IInv, Reg
  <2>. QED BY <1>2, <1>8, <2>3
<1>18. StatusInv'
  <2>1. \A x \in Co : /\ Exiting(x)' <=> Exiting(x)
                      /\ "returned" \in flags'[x] <=> "returned" \in flags[x]
                      /\ x # d => ("destroying" \in flags'[x] <=> "destroying" \in flags[x])
    BY <1>2, <1>5 DEF Exiting
  <2>. QED BY <1>2, <1>5, <2>1 DEF StatusInv
<1>19. KillCover'
  <2>1. SUFFICES ASSUME NEW x \in Co, Suspended(x)', Exiting(x)'
        PROVE  \E a \in line'[x] : \/ \E m \in InProgress' : m.pc = "destroy" /\ m.co = a
                                   \/ Exiting(a)' /\ frame'[a] = "active"
    BY DEF KillCover
  <2>2. Suspended(x) /\ Exiting(x) /\ d \notin line[x]
    BY <1>2, <1>4, <1>5, <1>7, <2>1 DEF Suspended, Exiting, Alive
  <2>3. PICK a \in line[x] : \/ \E m \in InProgress : m.pc = "destroy" /\ m.co = a
                             \/ Exiting(a) /\ frame[a] = "active"
    BY <1>3, <2>2 DEF IInv, KillCover
  <2>4. a \in Co /\ a # d
    BY <1>2, <2>2 DEF TypeOK
  <2>. QED BY <1>1, <1>2, <1>3, <1>5, <1>8, <2>3, <2>4 DEF Exiting
<1>. QED BY <1>8, <1>9, <1>10, <1>12, <1>13, <1>14, <1>15, <1>16, <1>17, <1>18, <1>19 DEF IInv

\* A coroutine that ends takes its caller with it, if that one waits.
LEMMA EndKeeps ==
  ASSUME IInv, NEW c \in Co, End(c)
  PROVE  IInv'
<1>1. stack # <<>> /\ Top.pc = "locals" /\ Top.co = c /\ Owned(c) = {}
  BY DEF End, At
<1>2. /\ TypeOK /\ LineInv /\ Lives /\ AwaitInv /\ StatusInv /\ CallersInv /\ PairsOK
      /\ frame' = [frame EXCEPT ![c] = "final"]
      /\ flags' = [flags EXCEPT ![c] = @ \cup {"final_suspend"}]
      /\ callers' = [callers EXCEPT ![c] = {}]
      /\ Become(WakeCall(c, callers[c]))
      /\ UNCHANGED <<status, waiting, awaits, attached, owner, line, value, awaited, ops>>
  BY DEF IInv, End, FinalSuspend, Took, ownVars
<1>3. /\ stack \in Seq(Call) /\ InProgress = {Top} \cup Below /\ CallOK(Top)
      /\ \A m \in Below : m \in Call /\ CallOK(m) /\ Waiting(m) /\ Above(line, Top, m)
      /\ Subjects(Top) = {c} /\ c \in line[c]
      /\ \A x : ~TopIs("await_resume", x) /\ ~TopIs("resume", x)
  BY <1>1, TopFacts, TopCo DEF TopIs, At
<1>4. frame[c] = "active" /\ "returned" \in flags[c] /\ awaits[c] = Null /\ ~attached[c]
  BY <1>1, <1>3 DEF CallOK, Running
<1>5. /\ \A x \in Co : frame'[x] = IF x = c THEN "final" ELSE frame[x]
      /\ \A x \in Co : flags'[x] = IF x = c THEN flags[x] \cup {"final_suspend"} ELSE flags[x]
      /\ \A x \in Co \cup Event : callers'[x] = IF x = c THEN {} ELSE callers[x]
      /\ callers[c] \subseteq Co
  BY <1>2 DEF TypeOK, PromiseTypeOK
<1>6. \A x \in Co : Alive(x) /\ c \in line[x] => x = c
  <2>1. \A d \in Co : owner[d] = c => ~Alive(d)
    BY <1>1 DEF Owned
  <2>. QED BY <1>2, <2>1, NoHeirs
<1>7. \A p \in callers[c] : p \in Co /\ owner[c] = p /\ Suspended(p) /\ attached[p] /\ awaits[p] = c
  BY <1>2, <1>3, <1>5 DEF CallersInv, AwaitInv
<1>8. PICK k \in Call :
        /\ k.pc = "wake" /\ k.co = c /\ k.todo = callers[c]
        /\ stack' \in Seq(Call) /\ stack' # <<>> /\ Top' = k
        /\ InProgress' = {k} \cup Below /\ Below' = Below /\ PairsOK'
  <2>1. PICK k \in Call : k.pc = "wake" /\ k.co = c /\ k.todo = callers[c] /\ Become(k)
    BY <1>2, <1>5, WakeCallFacts
  <2>2. ASSUME NEW m \in Below PROVE Above(line, k, m)
    <3>1. CallOK(m) /\ Above(line, Top, m) /\ c \in Subjects(Top) /\ m.todo \subseteq Co
      BY <1>3 DEF Call
    <3>2. Subjects(k) = {c} \cup callers[c]
      BY <2>1 DEF Subjects
    <3>3. ASSUME NEW p \in callers[c]
          PROVE  p \in Co /\ line[c] = {c} \cup line[p] /\ Suspended(p) /\ owner[c] = p
      BY <1>2, <1>4, <1>7, <3>3, OwnedBelow
    <3>4. ASSUME m.pc \in Running, NEW x \in Subjects(k) PROVE x # m.co /\ m.co \in line[x]
      <4>1. c # m.co /\ m.co \in line[c] /\ frame[m.co] = "active"
        BY <3>1, <3>4 DEF Above, CallOK
      <4>2. CASE x = c
        BY <4>1, <4>2
      <4>3. CASE x \in callers[c]
        BY <3>3, <4>1, <4>3 DEF Suspended
      <4>. QED BY <3>2, <4>2, <4>3
    <3>5. ASSUME m.pc = "destroy", NEW x \in Subjects(k) PROVE m.co \in line[x]
      <4>1. m.co \in line[c] /\ (owner[m.co] = Main \/ frame[owner[m.co]] = "active")
        BY <3>1, <3>5 DEF Above, CallOK
      <4>2. CASE x = c
        BY <4>1, <4>2
      <4>3. CASE x \in callers[c]
        <5>1. m.co # c
          BY <3>3, <4>1, <4>3, CallableAssumption DEF Suspended
        <5>. QED BY <3>3, <4>1, <4>3, <5>1
      <4>. QED BY <3>2, <4>2, <4>3
    <3>6. ASSUME m.pc = "wake", NEW x \in Subjects(k), NEW q \in m.todo PROVE line[x] \cap line[q] = {}
      <4>1. line[c] \cap line[q] = {}
        BY <3>1, <3>6 DEF Above
      <4>2. CASE x = c
        BY <4>1, <4>2
      <4>3. CASE x \in callers[c]
        BY <3>3, <4>1, <4>3
      <4>. QED BY <3>2, <4>2, <4>3
    <3>. QED BY <2>1, <3>4, <3>5, <3>6 DEF Above
  <2>3. /\ stack' \in Seq(Call) /\ stack' # <<>> /\ Top' = k
        /\ InProgress' = {k} \cup Below /\ Below' = Below /\ PairsOK'
    BY <1>1, <1>2, <1>3, <2>1, <2>2, StackBecome
  <2>. QED BY <2>1, <2>3
<1>9. TypeOK'
  <2>1. /\ frame' \in [Co -> Frame] /\ flags' \in [Co -> SUBSET Flag]
        /\ callers' \in [Co \cup Event -> SUBSET Co]
    BY <1>2 DEF TypeOK, PromiseTypeOK, Frame, Flag
  <2>2. \A x \in Co : status'[x] = CREATED <=> frame'[x] = "none"
    BY <1>2, <1>4, <1>5 DEF TypeOK
  <2>. QED BY <1>2, <1>8, <2>1, <2>2 DEF TypeOK, PromiseTypeOK, GeneratorTypeOK
<1>10. LineInv' /\ \A x \in Co : Alive(x)' <=> Alive(x)
  BY <1>2, <1>4, <1>5, LineKept DEF Alive, ownVars
<1>11. Lives'
  <2>1. SUFFICES ASSUME NEW x \in Co, Alive(x)', NEW a \in line[x] \ {x} PROVE Waits(a)'
    BY <1>2 DEF Lives
  <2>2. a \in Co /\ Waits(a) /\ a # c
    BY <1>2, <1>6, <1>10, <2>1 DEF Lives, TypeOK
  <2>. QED BY <1>5, <2>2 DEF Waits
<1>12. CallsOK' /\ BelowOK'
  <2>1. \A m \in Below : CallOK(m)' /\ Waiting(m)'
    <3>1. \A x \in Co \ {c} : /\ frame'[x] = frame[x] /\ awaits'[x] = awaits[x]
                              /\ attached'[x] = attached[x] /\ flags'[x] = flags[x]
      BY <1>2, <1>5
    <3>2. (\A x \in Co : Exiting(x) => Exiting(x)') /\ \A y \in Event : Over(y) => Over(y)'
      BY <1>2, PromiseAssumption DEF Over, Exiting
    <3>3. frame'[c] = "final" /\ UNCHANGED ownVars
      BY <1>2, <1>5 DEF ownVars
    <3>. QED BY <1>1, <1>3, <1>4, <3>1, <3>2, <3>3, BelowKept
  <2>2. CallOK(k)'
    <3>1. \A p \in k.todo : Suspended(p)' /\ attached'[p] /\ awaits'[p] = k.co
      BY <1>2, <1>4, <1>5, <1>7, <1>8 DEF Suspended
    <3>2. Over(k.co)' /\ frame'[k.co] # "none" /\ k.co \in Co
      BY <1>5, <1>8 DEF Over, Finished
    <3>3. k.todo \subseteq {owner'[k.co]} /\ \A p, q \in k.todo : p = q
      BY <1>2, <1>7, <1>8
    <3>. QED BY <1>8, <3>1, <3>2, <3>3 DEF CallOK, Running
  <2>. QED BY <1>8, <2>1, <2>2 DEF CallsOK, BelowOK
<1>13. TopOK'
  BY <1>8 DEF TopOK, At
<1>14. ActiveOnStack'
  BY <1>1, <1>3, <1>5, <1>8 DEF IInv, ActiveOnStack
<1>15. AwaitInv'
  BY <1>2, <1>3, <1>4, <1>5, <1>10
     DEF AwaitInv, Suspended, Waits, Finished, TypeOK, PromiseTypeOK
<1>16. CallersInv'
  <2>1. \A x \in Co \cup Event : x # c => (Over(x)' <=> Over(x))
    BY <1>2, <1>5 DEF Over, Finished
  <2>2. \A e \in Event : e # c
    BY PromiseAssumption
  <2>. QED BY <1>2, <1>5, <2>1, <2>2 DEF CallersInv
<1>17. Reg'
  <2>1. SUFFICES ASSUME NEW x \in Co, Suspended(x)', ~Exiting(x)'
        PROVE  x \in callers'[awaits'[x]] \/ \E m \in InProgress' : m.pc = "wake" /\ x \in m.todo
    BY DEF Reg
  <2>2. Suspended(x) /\ ~Exiting(x)
    BY <1>2, <1>5, <2>1 DEF Suspended, Exiting
  <2>3. x \in callers[awaits[x]] \/ \E m \in Below : m.pc = "wake" /\ x \in m.todo
    BY <1>1, <1>3, <2>2 DEF IInv, Reg
  <2>4. awaits[x] \in Co \cup Event
    BY <1>2, <2>2 DEF AwaitInv, TypeOK, PromiseTypeOK
  <2>. QED BY <1>2, <1>5, <1>8, <2>3, <2>4
<1>18. StatusInv'
  <2>1. \A x \in Co : /\ Exiting(x)' <=> Exiting(x)
                      /\ "returned" \in flags'[x] <=> "returned" \in flags[x]
                      /\ "destroying" \in flags'[x] <=> "destroying" \in flags[x]
    BY <1>2, <1>5 DEF Exiting
  <2>. QED BY <1>2, <1>4, <1>5, <2>1 DEF StatusInv
<1>19. KillCover'
  <2>1. SUFFICES ASSUME NEW x \in Co, Suspended(x)', Exiting(x)'
        PROVE  \E a \in line'[x] : \/ \E m \in InProgress' : m.pc = "destroy" /\ m.co = a
                                   \/ Exiting(a)' /\ frame'[a] = "active"
    BY DEF KillCover
  <2>2. Suspended(x) /\ Exiting(x) /\ c \notin line[x]
    BY <1>2, <1>4, <1>5, <1>6, <2>1 DEF Suspended, Exiting, Alive
  <2>3. PICK a \in line[x] : \/ \E m \in InProgress : m.pc = "destroy" /\ m.co = a
                             \/ Exiting(a) /\ frame[a] = "active"
    BY <1>3, <2>2 DEF IInv, KillCover
  <2>4. a \in Co /\ a # c
    BY <1>2, <2>2 DEF TypeOK
  <2>. QED BY <1>1, <1>2, <1>3, <1>5, <1>8, <2>3, <2>4 DEF Exiting
<1>. QED BY <1>8, <1>9, <1>10, <1>11, <1>12, <1>13, <1>14, <1>15, <1>16, <1>17, <1>18, <1>19 DEF IInv

-----------------------------------------------------------------------------
(* The event loop. *)

LEMMA OpFacts == IInv /\ Op => ops' \in 0..MaxOp
<1>1. SUFFICES ASSUME IInv, Op PROVE ops' \in 0..MaxOp
  OBVIOUS
<1>2. ops \in 0..MaxOp /\ ops < MaxOp /\ ops' = ops + 1 /\ MaxOp \in Nat
  BY <1>1, CallableAssumption DEF Op, IInv, TypeOK
<1>. QED BY <1>2

\* No call is in progress, and none is about to be resumed.
LEMMA MainFacts ==
  ASSUME IInv, InMain
  PROVE  /\ TypeOK /\ LineInv /\ Lives /\ AwaitInv /\ StatusInv /\ CallersInv
         /\ stack = <<>> /\ stack \in Seq(Call) /\ InProgress = {} /\ Below = {}
         /\ \A x : ~TopIs("await_resume", x) /\ ~TopIs("resume", x)
         /\ \A c \in Co : frame[c] # "active"
         /\ \A c \in Co : attached[c] => Suspended(c)
<1>1. /\ TypeOK /\ LineInv /\ Lives /\ AwaitInv /\ StatusInv /\ CallersInv
      /\ stack = <<>> /\ stack \in Seq(Call) /\ InProgress = {} /\ Below = {}
  BY StackEmpty DEF IInv, InMain, TypeOK, PromiseTypeOK
<1>2. \A x : ~TopIs("await_resume", x) /\ ~TopIs("resume", x)
  BY <1>1 DEF TopIs, At
<1>. QED BY <1>1, <1>2 DEF IInv, ActiveOnStack, AwaitInv

LEMMA SetValueKeeps ==
  ASSUME IInv, NEW e \in Event, NEW v \in {"ready", "gone"}, SetValue(e, v)
  PROVE  IInv'
<1>1. /\ TypeOK /\ LineInv /\ Lives /\ AwaitInv /\ StatusInv /\ CallersInv
      /\ stack \in Seq(Call) /\ InProgress = {}
      /\ \A x : ~TopIs("await_resume", x) /\ ~TopIs("resume", x)
      /\ \A c \in Co : frame[c] # "active"
      /\ \A c \in Co : attached[c] => Suspended(c)
  BY MainFacts DEF SetValue
<1>2. /\ value' = [value EXCEPT ![e] = v] /\ callers' = [callers EXCEPT ![e] = {}]
      /\ Push(WakeCall(e, callers[e]))
      /\ UNCHANGED <<frame, status, flags, waiting, awaits, attached, owner, line, awaited>>
      /\ ops' \in 0..MaxOp
  BY OpFacts DEF SetValue, SetGenerator, Took, ownVars
<1>3. /\ \A x \in Event : value'[x] = IF x = e THEN v ELSE value[x]
      /\ \A x \in Co \cup Event : callers'[x] = IF x = e THEN {} ELSE callers[x]
      /\ callers[e] \subseteq Co
  BY <1>1, <1>2 DEF TypeOK, PromiseTypeOK, GeneratorTypeOK
<1>4. PICK k \in Call :
        /\ k.pc = "wake" /\ k.co = e /\ k.todo = callers[e]
        /\ stack' \in Seq(Call) /\ stack' # <<>> /\ Top' = k
        /\ InProgress' = {k} /\ Below' = {} /\ PairsOK'
  <2>1. PICK k \in Call : k.pc = "wake" /\ k.co = e /\ k.todo = callers[e] /\ Push(k)
    BY <1>2, <1>3, WakeCallFacts
  <2>2. PairsOK /\ line' = line /\ \A m \in InProgress : Above(line, k, m)
    BY <1>1, <1>2 DEF IInv
  <2>3. /\ stack' \in Seq(Call) /\ stack' # <<>> /\ Top' = k
        /\ InProgress' = {k} \cup InProgress /\ Below' = InProgress /\ PairsOK'
    BY <1>1, <2>1, <2>2, StackPush
  <2>. QED BY <1>1, <2>1, <2>3
<1>5. e \notin Co /\ Null \notin Co /\ e # Null
  BY PromiseAssumption
<1>6. Over(e)' /\ \A x \in Co \cup Event : x # e => (Over(x)' <=> Over(x))
  BY <1>2, <1>3, <1>5 DEF Over, Finished
<1>7. TypeOK'
  BY <1>1, <1>2, <1>4 DEF TypeOK, PromiseTypeOK, GeneratorTypeOK
<1>8. LineInv' /\ Lives'
  BY <1>1, <1>2, LineKept, LivesKept DEF Alive, Waits, ownVars
<1>9. CallsOK' /\ BelowOK'
  <2>1. \A p \in k.todo : Suspended(p)' /\ attached'[p] /\ awaits'[p] = k.co
    BY <1>1, <1>2, <1>3, <1>4 DEF CallersInv, Suspended
  <2>2. \A p, q \in k.todo : p # q => line'[p] \cap line'[q] = {}
    BY <1>1, <1>2, <1>4 DEF CallersInv
  <2>3. CallOK(k)'
    BY <1>4, <1>5, <1>6, <2>1, <2>2 DEF CallOK, Running
  <2>. QED BY <1>4, <2>3 DEF CallsOK, BelowOK
<1>10. TopOK'
  BY <1>4 DEF TopOK, At
<1>11. ActiveOnStack'
  BY <1>1, <1>2 DEF ActiveOnStack
<1>12. AwaitInv'
  BY <1>1, <1>2, <1>3, <1>5
     DEF AwaitInv, Suspended, Waits, Finished, Alive, TypeOK, PromiseTypeOK
<1>13. CallersInv'
  BY <1>1, <1>2, <1>3, <1>6 DEF CallersInv
<1>14. Reg'
  <2>1. SUFFICES ASSUME NEW x \in Co, Suspended(x)', ~Exiting(x)'
        PROVE  x \in callers'[awaits'[x]] \/ \E m \in InProgress' : m.pc = "wake" /\ x \in m.todo
    BY DEF Reg
  <2>2. x \in callers[awaits[x]] /\ awaits[x] \in Co \cup Event
    BY <1>1, <1>2, <2>1 DEF IInv, Reg, Suspended, Exiting, AwaitInv, TypeOK, PromiseTypeOK
  <2>. QED BY <1>2, <1>3, <1>4, <2>2
<1>15. StatusInv'
  BY <1>1, <1>2 DEF StatusInv, Exiting
<1>16. KillCover'
  <2>1. \A x \in Co : ~(Suspended(x) /\ Exiting(x))
    BY <1>1 DEF IInv, KillCover, TypeOK
  <2>. QED BY <1>2, <2>1 DEF KillCover, Suspended, Exiting
<1>. QED BY <1>4, <1>7, <1>8, <1>9, <1>10, <1>11, <1>12, <1>13, <1>14, <1>15, <1>16 DEF IInv

\* Nothing but the value of a generator changes, and a value only appears or is one
\* for which nobody waits.
LEMMA ResetValueKeeps ==
  ASSUME IInv, NEW e \in Event, ResetValue(e)
  PROVE  IInv'
<1>1. /\ TypeOK /\ LineInv /\ Lives /\ AwaitInv /\ StatusInv /\ CallersInv
      /\ stack = <<>> /\ InProgress = {} /\ Below = {}
      /\ \A x : ~TopIs("await_resume", x) /\ ~TopIs("resume", x)
  BY MainFacts DEF ResetValue
<1>2. /\ value' = [value EXCEPT ![e] = "pending"]
      /\ UNCHANGED <<frame, status, flags, waiting, callers, awaits, attached, owner, line, awaited, stack>>
      /\ ops' \in 0..MaxOp
  BY OpFacts DEF ResetValue, ResetGenerator, promiseVars, ownVars
<1>3. InProgress' = {} /\ Below' = {} /\ stack' = <<>> /\ PairsOK'
  BY <1>1, <1>2 DEF InProgress, Below, IInv, PairsOK
<1>4. \A x \in Co \cup Event : Over(x)' => Over(x)
  BY <1>1, <1>2 DEF Over, Finished, TypeOK, GeneratorTypeOK
<1>5. TypeOK'
  BY <1>1, <1>2 DEF TypeOK, PromiseTypeOK, GeneratorTypeOK
<1>6. LineInv' /\ Lives'
  BY <1>1, <1>2, LineKept, LivesKept DEF Alive, Waits, ownVars
<1>7. CallsOK' /\ BelowOK' /\ TopOK'
  BY <1>3 DEF CallsOK, BelowOK, TopOK, At
<1>8. ActiveOnStack'
  BY <1>1, <1>2, <1>3 DEF IInv, ActiveOnStack
<1>9. AwaitInv'
  BY <1>1, <1>2 DEF AwaitInv, Suspended, Waits, Finished, Alive
<1>10. CallersInv'
  BY <1>1, <1>2, <1>4 DEF CallersInv
<1>11. Reg'
  BY <1>1, <1>2, <1>3 DEF IInv, Reg, Suspended, Exiting
<1>12. StatusInv'
  BY <1>1, <1>2 DEF StatusInv, Exiting
<1>13. KillCover'
  BY <1>1, <1>2, <1>3 DEF IInv, KillCover, Suspended, Exiting
<1>. QED BY <1>3, <1>5, <1>6, <1>7, <1>8, <1>9, <1>10, <1>11, <1>12, <1>13 DEF IInv

-----------------------------------------------------------------------------
(* The invariant. *)

LEMMA InitInv == Init => IInv
<1>1. SUFFICES ASSUME Init PROVE IInv
  OBVIOUS
<1>2. /\ \A c \in Co : /\ frame[c] = "none" /\ status[c] = CREATED /\ flags[c] = {}
                       /\ waiting[c] = Null /\ awaits[c] = Null /\ ~attached[c]
                       /\ owner[c] = Null /\ line[c] = {}
      /\ \A x \in Co \cup Event : callers[x] = {}
      /\ stack = <<>> /\ stack \in Seq(Call)
  BY <1>1 DEF Init, PromiseInit
<1>3. InProgress = {} /\ Below = {}
  BY <1>2, StackEmpty DEF InMain
<1>4. TypeOK
  <2>1. PromiseTypeOK
    BY <1>1, <1>2 DEF Init, PromiseInit, PromiseTypeOK, Frame, CREATED, TIMEOUT
  <2>2. GeneratorTypeOK
    BY <1>1 DEF Init, GeneratorInit, GeneratorTypeOK
  <2>3. /\ owner \in [Co -> Co \cup {Main, Null}] /\ line \in [Co -> SUBSET Co]
        /\ awaited \in [Co -> 0..MaxAwait] /\ ops \in 0..MaxOp
    BY <1>1, CallableAssumption DEF Init
  <2>. QED BY <1>2, <2>1, <2>2, <2>3 DEF TypeOK
<1>5. LineInv
  BY <1>2 DEF LineInv, LineNone, LineOwner, LineUp, LineAnti, LineChain, LineNext
<1>6. Lives
  BY <1>2 DEF Lives, Alive
<1>7. PairsOK /\ CallsOK /\ BelowOK /\ TopOK
  BY <1>2, <1>3 DEF PairsOK, Pairs, CallsOK, BelowOK, TopOK, At
<1>8. ActiveOnStack
  BY <1>2 DEF ActiveOnStack
<1>9. AwaitInv
  BY <1>2, PromiseAssumption DEF AwaitInv, Suspended
<1>10. CallersInv
  BY <1>2 DEF CallersInv
<1>11. Reg /\ KillCover
  BY <1>2 DEF Reg, KillCover, Suspended
<1>12. StatusInv
  <2>1. \A c \in Co : /\ status[c] # DONE /\ "returned" \notin flags[c] /\ "destroying" \notin flags[c]
                      /\ frame[c] # "final"
    <3>1. CREATED # DONE
      BY DEF CREATED, DONE
    <3>. QED BY <1>2, <3>1
  <2>. QED BY <2>1 DEF StatusInv
<1>. QED BY <1>4, <1>5, <1>6, <1>7, <1>8, <1>9, <1>10, <1>11, <1>12 DEF IInv

LEMMA BodyStepKeeps ==
  ASSUME Contract, IInv, NEW c \in Co, BodyStep(c)
  PROVE  IInv'
<1>1. TypeOK /\ StatusInv
  BY DEF IInv
<1>2. ASSUME NEW d \in Co, AwaitReadyCallable(c, d) PROVE IInv'
  <2>1. /\ Awaits(c) /\ GoOn(c, d) /\ UNCHANGED <<status, value>>
        /\ owner[d] = c /\ Alive(d) /\ AwaitReady(d)
    BY <1>2 DEF AwaitReadyCallable
  <2>2. Exiting(d)
    BY <1>1, <2>1 DEF AwaitReady, StatusInv, Finished
  <2>. QED BY <2>1, <2>2, GoOnKeeps
<1>3. ASSUME NEW d \in Co, AwaitCallable(c, d) PROVE IInv'
  <2>1. /\ Awaits(c) /\ MaySuspend(c) /\ Suspend(c, d, <<>>) /\ AddCaller(d, c)
        /\ UNCHANGED <<status, value>> /\ waiting' = [waiting EXCEPT ![c] = d]
        /\ owner[d] = c /\ Alive(d) /\ ~AwaitReady(d)
    BY <1>3 DEF AwaitCallable
  <2>2. ~Over(d) /\ ~Exiting(d) /\ d \notin Event
    BY <2>1, PromiseAssumption DEF AwaitReady, Over
  <2>. QED BY <2>1, <2>2, SuspendKeeps
<1>4. ASSUME NEW d \in Co, AwaitWhenKilled(c, d) PROVE IInv'
  BY <1>4, AwaitWhenKilledKeeps
<1>5. ASSUME NEW e \in Event, AwaitSet(c, e) PROVE IInv'
  <2>1. Awaits(c) /\ GoOn(c, e) /\ UNCHANGED <<status, value>> /\ e \notin Co
    BY <1>5, PromiseAssumption DEF AwaitSet, AwaitReadyGenerator
  <2>. QED BY <2>1, GoOnKeeps
<1>6. ASSUME NEW e \in Event, AwaitGenerator(c, e) PROVE IInv'
  <2>1. Awaits(c) /\ (\A b \in callers[e] : line[b] \cap line[c] = {}) /\ e \notin Co
    BY <1>6, PromiseAssumption DEF AwaitGenerator, Contract
  <2>2. CASE WaitForGenerator(c, e)
    <3>1. /\ MaySuspend(c) /\ Suspend(c, e, <<>>) /\ AddCaller(e, c)
          /\ UNCHANGED <<status, waiting, value>> /\ ~Over(e)
      BY <2>1, <2>2 DEF WaitForGenerator, Over
    <3>. QED BY <2>1, <3>1, SuspendKeeps
  <2>3. CASE callers[e] = {} /\ WaitForCallback(c, e)
    BY <2>1, <2>3, WaitForCallbackKeeps
  <2>. QED BY <1>6, <2>2, <2>3 DEF AwaitGenerator, Contract
<1>7. CASE Return(c)
  BY <1>7, ReturnKeeps
<1>. QED BY <1>2, <1>3, <1>4, <1>5, <1>6, <1>7 DEF BodyStep

LEMMA ResumeStepKeeps ==
  ASSUME IInv, NEW c \in Co, ResumeStep(c)
  PROVE  IInv'
<1>1. ASSUME DestroyLocal(c) PROVE IInv'
  <2>1. PICK d \in Co : owner[d] = c /\ Alive(d) /\ Push(NewCall("destroy", d))
    BY <1>1 DEF DestroyLocal, Owned
  <2>2. /\ stack # <<>> /\ Top.pc \in {"body", "locals"} /\ owner[d] = Top.co
        /\ UNCHANGED <<promiseVars, ownVars, value, awaited>> /\ ops' = ops
    BY <1>1, <2>1 DEF DestroyLocal, At
  <2>3. ops' \in 0..MaxOp
    BY <2>2 DEF IInv, TypeOK
  <2>. QED BY <2>1, <2>2, <2>3, DestroyCallKeeps
<1>. QED BY <1>1, DetachCallableKeeps, DetachGeneratorKeeps, EndKeeps, DestroyResumesKeeps,
            DestroyFrameKeeps DEF ResumeStep

LEMMA DestroyKeeps ==
  ASSUME IInv, NEW d \in Co, Destroy(d)
  PROVE  IInv'
<1>1. /\ Alive(d) /\ Push(NewCall("destroy", d))
      /\ UNCHANGED <<promiseVars, ownVars, value, awaited>> /\ ops' \in 0..MaxOp
  BY OpFacts DEF Destroy
<1>2. \/ InMain /\ owner[d] = Main
      \/ stack # <<>> /\ Top.pc \in {"body", "locals"} /\ owner[d] = Top.co
  BY DEF Destroy, InClient, Client, InMain, At
<1>. QED BY <1>1, <1>2, DestroyCallKeeps

LEMMA NextInv == Contract /\ IInv /\ [Next]_vars => IInv'
<1>1. SUFFICES ASSUME Contract, IInv, [Next]_vars PROVE IInv'
  OBVIOUS
<1>2. ASSUME NEW c \in Co, Create(c) \/ BodyStep(c) \/ ResumeStep(c) \/ Destroy(c) PROVE IInv'
  BY <1>1, <1>2, CreateKeeps, BodyStepKeeps, ResumeStepKeeps, DestroyKeeps
<1>3. ASSUME NEW c \in Co, NEW target \in KillStatus, Kill(c, target) PROVE IInv'
  BY <1>1, <1>3, KillKeeps
<1>4. ASSUME NEW e \in Event, NEW v \in {"ready", "gone"}, SetValue(e, v) PROVE IInv'
  BY <1>1, <1>4, SetValueKeeps
<1>5. ASSUME NEW e \in Event, ResetValue(e) PROVE IInv'
  BY <1>1, <1>5, ResetValueKeeps
<1>6. CASE PromiseStep
  BY <1>1, <1>6, WakeNextKeeps, WakeEndKeeps, ResumeKeeps, ResumeWaitingKeeps, ResumeCalleeKeeps
     DEF PromiseStep
<1>7. CASE UNCHANGED vars
  <2>1. /\ UNCHANGED <<frame, status, flags, waiting, callers, awaits, attached, stack>>
        /\ UNCHANGED <<owner, line, value, awaited, ops>>
    BY <1>7 DEF vars, promiseVars, ownVars
  <2>2. UNCHANGED <<Top, InProgress, Below>>
    BY <2>1 DEF Top, InProgress, Below
  <2>3. \A x : /\ (TopIs("await_resume", x)' <=> TopIs("await_resume", x))
               /\ (TopIs("resume", x)' <=> TopIs("resume", x))
    BY <2>1, <2>2 DEF TopIs, At
  <2>4. TypeOK'
    BY <1>1, <2>1 DEF IInv, TypeOK, PromiseTypeOK, GeneratorTypeOK
  <2>5. LineInv' /\ Lives'
    BY <1>1, <2>1, LineKept, LivesKept DEF IInv, Alive, Waits, ownVars
  <2>6. PairsOK' /\ BelowOK'
    BY <1>1, <2>1, <2>2 DEF IInv, PairsOK, BelowOK, Waiting
  <2>7. CallsOK'
    BY <1>1, <2>1, <2>2 DEF IInv, CallsOK, CallOK, Exiting, Over, Finished, Suspended, Alive
  <2>8. TopOK'
    BY <1>1, <2>1, <2>2 DEF IInv, TopOK, At, Exiting, Over, Finished
  <2>9. ActiveOnStack'
    BY <1>1, <2>1, <2>2 DEF IInv, ActiveOnStack
  <2>10. AwaitInv'
    BY <1>1, <2>1, <2>3 DEF IInv, AwaitInv, Suspended, Waits, Finished, Alive
  <2>11. CallersInv'
    BY <1>1, <2>1 DEF IInv, CallersInv, Over, Finished
  <2>12. Reg'
    BY <1>1, <2>1, <2>2, <2>3 DEF IInv, Reg, Suspended, Exiting
  <2>13. StatusInv'
    BY <1>1, <2>1 DEF IInv, StatusInv, Exiting
  <2>14. KillCover'
    BY <1>1, <2>1, <2>2, <2>3 DEF IInv, KillCover, Suspended, Exiting
  <2>. QED BY <2>4, <2>5, <2>6, <2>7, <2>8, <2>9, <2>10, <2>11, <2>12, <2>13, <2>14 DEF IInv
<1>. QED BY <1>1, <1>2, <1>3, <1>4, <1>5, <1>6, <1>7 DEF Next

LEMMA CallableInvariant ==
  ASSUME Contract
  PROVE  Spec => []IInv
BY InitInv, NextInv, PTL DEF Spec

-----------------------------------------------------------------------------
(* The properties. *)

\* Everything is of its type, and a coroutine has left kCreated exactly when it has a
\* frame: a callable runs when it is created (callable_promise.h:280).
THEOREM CallableTypeCorrect ==
  ASSUME Contract
  PROVE  Spec => []TypeOK
<1>1. IInv => TypeOK
  BY DEF IInv
<1>. QED BY <1>1, CallableInvariant, PTL

\* Nobody touches a frame that is not there, however deep resumptions, ends and
\* destructions are nested: handle.resume() is called on a suspended coroutine,
\* handle.destroy() on one that does not run, and every await_resume() finds its callee
\* (std_coroutine_common.cpp:95, callable_promise.h:325).
THEOREM CallableHandlesLive ==
  ASSUME Contract
  PROVE  Spec => []HandlesLive
<1>1. ASSUME IInv PROVE HandlesLive
  <2>1. stack \in Seq(Call) /\ TypeOK /\ AwaitInv
    BY <1>1 DEF IInv, TypeOK, PromiseTypeOK
  <2>2. ASSUME NEW i \in DOMAIN stack
        PROVE  /\ stack[i].pc = "wake" => \A c \in stack[i].todo : frame[c] # "destroyed"
               /\ stack[i].pc \in Running => frame[stack[i].co] = "active"
    <3>1. stack[i] \in InProgress
      BY <2>1, <2>2 DEF InProgress, Calls
    <3>2. CallOK(stack[i])
      BY <1>1, <3>1 DEF IInv, CallsOK
    <3>. QED BY <3>2 DEF CallOK, Suspended
  <2>3. At("resume") => Suspended(Top.co)
    BY <1>1, TopFacts DEF At, CallOK
  <2>4. ASSUME At("destroy") PROVE frame[Top.co] \in {"suspended", "final"}
    <3>1. /\ stack # <<>> /\ Top.pc = "destroy" /\ Top.co \in Co /\ Alive(Top.co)
          /\ Top.co \in Subjects(Top) /\ Top.co \in line[Top.co]
      BY <1>1, <2>4, TopFacts, TopCo DEF At, CallOK
    <3>2. frame[Top.co] # "active"
      BY <1>1, <3>1, BelowSpares DEF Alive, Running
    <3>. QED BY <2>1, <3>1, <3>2 DEF Alive, TypeOK, PromiseTypeOK, Frame
  <2>5. \A c \in Co : Alive(c) /\ awaits[c] \in Co => frame[awaits[c]] # "destroyed"
    BY <2>1 DEF AwaitInv, Alive
  <2>. QED BY <2>2, <2>3, <2>4, <2>5 DEF HandlesLive, Running
<1>. QED BY <1>1, CallableInvariant, PTL

\* The caller managers name exactly those that wait: no caller dangles in one, and no
\* wake-up is lost, since whoever is still suspended when the event loop runs is
\* registered at something that is yet to come (std_coroutine_common.cpp:32-93).
THEOREM CallableCallersWait ==
  ASSUME Contract
  PROVE  Spec => []CallersWait
<1>1. ASSUME IInv PROVE CallersWait
  <2>1. TypeOK /\ AwaitInv /\ CallersInv
    BY <1>1 DEF IInv
  <2>2. ASSUME NEW x \in Co \cup Event, NEW c \in callers[x]
        PROVE  Alive(c) /\ awaits[c] = x /\ attached[c]
    <3>1. c \in Co /\ x # Null
      BY <2>1, <2>2, PromiseAssumption DEF TypeOK, PromiseTypeOK
    <3>. QED BY <2>1, <2>2, <3>1 DEF CallersInv, AwaitInv, Waits, Alive
  <2>3. ASSUME InMain, NEW c \in Co, Suspended(c), ~Exiting(c)
        PROVE  /\ c \in callers[awaits[c]]
               /\ IF awaits[c] \in Co THEN Suspended(awaits[c]) /\ ~Exiting(awaits[c])
                  ELSE value[awaits[c]] = "pending"
    <3>1. /\ InProgress = {} /\ (\A x : ~TopIs("await_resume", x) /\ ~TopIs("resume", x))
          /\ \A d \in Co : frame[d] # "active"
      BY <1>1, <2>3, MainFacts
    <3>2. c \in callers[awaits[c]] /\ awaits[c] \in Co \cup Event
      BY <1>1, <2>1, <2>3, <3>1 DEF IInv, Reg, AwaitInv, TypeOK, PromiseTypeOK
    <3>3. ~Over(awaits[c])
      BY <2>1, <3>2 DEF CallersInv
    <3>4. ASSUME awaits[c] \in Co PROVE Suspended(awaits[c]) /\ ~Exiting(awaits[c])
      <4>1. Alive(awaits[c]) /\ owner[awaits[c]] = c
        BY <2>1, <3>4 DEF AwaitInv
      <4>2. Suspended(awaits[c])
        BY <2>1, <3>1, <3>3, <3>4, <4>1
           DEF Over, Finished, Alive, Suspended, TypeOK, PromiseTypeOK, Frame
      <4>3. ~(Suspended(awaits[c]) /\ Exiting(awaits[c]))
        BY <1>1, <2>1, <3>1, <3>4 DEF IInv, KillCover, TypeOK
      <4>. QED BY <4>2, <4>3
    <3>. QED BY <3>2, <3>3, <3>4 DEF Over
  <2>. QED BY <2>2, <2>3 DEF CallersWait
<1>. QED BY <1>1, CallableInvariant, PTL

\* A coroutine that waited comes back because what it waited for is over, or because it
\* was killed (callable_promise.h:171-246).
THEOREM CallableNoSpuriousResume ==
  ASSUME Contract
  PROVE  Spec => []NoSpuriousResume
<1>1. IInv => NoSpuriousResume
  BY DEF IInv, TopOK, NoSpuriousResume, Over
<1>. QED BY <1>1, CallableInvariant, PTL

\* When the event loop runs again after a kill, everything that was killed, itself or
\* with its caller, has run to its end (callable_promise.h:366, 185; :330 for a
\* destruction).
THEOREM CallableKillUnwinds ==
  ASSUME Contract
  PROVE  Spec => []KillUnwinds
<1>1. ASSUME IInv PROVE KillUnwinds
  <2>1. SUFFICES ASSUME InMain, NEW c \in Co, status[c] > DONE
        PROVE  frame[c] \in {"final", "destroyed"}
    BY DEF KillUnwinds
  <2>2. /\ InProgress = {} /\ (\A x : ~TopIs("await_resume", x) /\ ~TopIs("resume", x))
        /\ frame[c] # "active" /\ (\A d \in Co : frame[d] # "active") /\ TypeOK
    BY <1>1, <2>1, MainFacts
  <2>3. Exiting(c) /\ frame[c] # "none"
    <3>1. status[c] \in CREATED..TIMEOUT /\ (status[c] = CREATED <=> frame[c] = "none")
      BY <2>2 DEF TypeOK, PromiseTypeOK
    <3>2. status[c] >= DONE /\ status[c] # CREATED
      BY <2>1, <3>1 DEF CREATED, DONE, TIMEOUT
    <3>. QED BY <3>1, <3>2 DEF Exiting
  <2>4. ~Suspended(c)
    BY <1>1, <2>2, <2>3 DEF IInv, KillCover, TypeOK
  <2>. QED BY <2>2, <2>3, <2>4 DEF Suspended, TypeOK, PromiseTypeOK, Frame
<1>. QED BY <1>1, CallableInvariant, PTL

=============================================================================
