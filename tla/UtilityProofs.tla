----------------------------- MODULE UtilityProofs -----------------------------
(***************************************************************************)
(* Proofs about the utilities, each for any number of threads: the spin    *)
(* lock excludes, the atomic integer loses nothing in any of its builds,   *)
(* ids are unique, and every storage of FutureStorage implements           *)
(* FutureValue, for any number of cells, values and blocks.  And about     *)
(* where stacks come from: the pool, for any number of its clients and any *)
(* configuration, and the allocators and containers, for any requests.     *)
(***************************************************************************)
EXTENDS SpinLock, AtomicInt, IntrusivePtr, IdAllocator, FutureStorage, StackPool,
        StackAllocator, FiniteSetTheorems, SequenceTheorems, WellFoundedInduction, TLAPS

-----------------------------------------------------------------------------
(* SpinLock *)

\* A holder that waits for the lock, or is about to give it up, does not name it: it is
\* set after the exchange and cleared before the store (lock_holder.h:102-122).
NamesNothing == \A h \in Holder : doing[h] # "idle" => ~lock_flag[h]

SpinInv == SpinTypeOK /\ NamesNothing /\ MutualExclusion

LEMMA SpinInitially == SpinInit => SpinInv
BY DEF SpinInit, SpinInv, SpinTypeOK, NamesNothing, MutualExclusion, Inside, UNLOCKED, LOCKED

LEMMA SpinStep == SpinInv /\ [SpinNext]_lockVars => SpinInv'
<1> SUFFICES ASSUME SpinInv, [SpinNext]_lockVars PROVE SpinInv'
  OBVIOUS
<1> USE DEF SpinInv, SpinTypeOK, NamesNothing, MutualExclusion, Inside, UNLOCKED, LOCKED
<1>1. ASSUME NEW h \in Holder, TakeLock(h) PROVE SpinInv'
  BY <1>1 DEF TakeLock, FreeHolder, IdleThread
<1>2. ASSUME NEW h \in Holder, Exchange(h) PROVE SpinInv'
  BY <1>2 DEF Exchange, WasUnlocked
<1>3. ASSUME NEW h \in Holder, TryLock(h) PROVE SpinInv'
  BY <1>3 DEF TryLock, FreeHolder, IdleThread, WasUnlocked
<1>4. ASSUME NEW h \in Holder, ResetHolder(h) PROVE SpinInv'
  BY <1>4 DEF ResetHolder, IdleThread
<1>5. ASSUME NEW h \in Holder, Unlock(h) PROVE SpinInv'
  BY <1>5 DEF Unlock
<1>6. ASSUME NEW from \in Holder, NEW to \in Holder, MoveHolder(from, to) PROVE SpinInv'
  <2>1. lock_flag[from] /\ ~lock_flag[to] /\ from # to /\ doing[from] = "idle" /\ doing[to] = "idle"
    BY <1>6 DEF MoveHolder, FreeHolder, IdleThread
  <2>2. \A h \in Holder : h \in Inside' <=> h = to
    BY <1>6, <2>1 DEF MoveHolder, LeftBehind
  <2> QED
    BY <1>6, <2>1, <2>2 DEF MoveHolder, LeftBehind
<1>7. CASE UNCHANGED lockVars
  BY <1>7 DEF lockVars
<1> QED
  BY <1>1, <1>2, <1>3, <1>4, <1>5, <1>6, <1>7 DEF SpinNext

\* spin_lock and lock_holder exclude: two holders never have the lock, and the lock is
\* taken exactly as long as one does.
THEOREM SpinLockExcludes == SpinSpec => []MutualExclusion
<1>1. SpinInv => MutualExclusion
  BY DEF SpinInv
<1> QED
  BY SpinInitially, SpinStep, <1>1, PTL DEF SpinSpec

-----------------------------------------------------------------------------
(* AtomicInt *)

\* What is added modulo the width and taken off again is what it was.
LEMMA Wraps ==
  ASSUME NEW M \in Nat \ {0}, NEW m \in 0..(M - 1), NEW old \in 0..(M - 1)
  PROVE (old + m + M - old) % M = m
<1>1. (m + M) % M = m
  OBVIOUS
<1>2. old + m + M - old = m + M
  OBVIOUS
<1> QED
  BY <1>1, <1>2

LEMMA InWidth ==
  ASSUME NEW M \in Nat \ {0}, NEW x \in Int PROVE x % M \in 0..(M - 1)
OBVIOUS

\* Only the build without threads reads and writes in two steps, and there the cell has
\* one user; so what was read is what is still there when it is written.
ReadIsCurrent ==
  \A t \in Writer :
    /\ at[t] # "idle" => t \in users
    /\ at[t] = "write" => build = "unsafe" /\ expected[t] = data

OneUser == build = "unsafe" => \A t, u \in users : t = u

CellInv == CellTypeOK /\ OneUser /\ ReadIsCurrent /\ NothingLost

LEMMA CellInitially == CellInit => CellInv
<1> SUFFICES ASSUME CellInit PROVE CellInv
  OBVIOUS
<1> USE CellAssumption DEF CellInit
<1>1. 0 \in Value
  BY DEF Value
<1>2. CellTypeOK
  BY <1>1 DEF CellTypeOK, Calls, Fetches, Compares
<1> QED
  BY <1>2 DEF CellInv, OneUser, ReadIsCurrent, NothingLost

\* What the cell becomes is a value of its width.
LEMMA ModifiedIsValue ==
  ASSUME NEW op \in Calls, NEW old \in Value, NEW a \in Value PROVE Modified(op, old, a) \in Value
<1> USE CellAssumption DEF Value
<1>1. (old + a) % Modulus \in Value /\ (old + Modulus - a) % Modulus \in Value
  <2>1. Modulus \in Nat \ {0} /\ old + a \in Int /\ old + Modulus - a \in Int
    OBVIOUS
  <2> QED
    BY <2>1, InWidth
<1>2. BitAnd(old, a) \in Value /\ BitOr(old, a) \in Value /\ BitXor(old, a) \in Value
  OBVIOUS
<1> QED
  BY <1>1, <1>2, Zenon DEF Modified

\* A write that starts from what is there keeps the books.
LEMMA WriteKeepsBooks ==
  ASSUME CellInv, NEW t \in Writer, Write(t, data)
  PROVE data' \in Value /\ balance' \in Value /\ data' = balance'
<1> DEFINE m == Modified(call[t], data, arg[t])
<1>1. data \in Value /\ balance = data /\ m \in Value
  BY ModifiedIsValue DEF CellInv, CellTypeOK, NothingLost
<1>2. data' = m /\ balance' = (data + m + Modulus - data) % Modulus
  BY <1>1 DEF Write
<1> HIDE DEF m
<1>3. (data + m + Modulus - data) % Modulus = m
  BY <1>1, Wraps, CellAssumption DEF Value
<1> QED
  BY <1>1, <1>2, <1>3

\* What a call leaves behind when it is over.
LEMMA AnswerIsTyped ==
  ASSUME CellInv, NEW t \in Writer, Answer(t)
  PROVE /\ call' \in [Writer -> Calls] /\ arg' \in [Writer -> Value] /\ expected' \in [Writer -> Value]
        /\ at' \in [Writer -> {"idle", "start", "swap", "reload", "write"}]
        /\ \A u \in Writer : at'[u] # "idle" => u # t /\ at'[u] = at[u] /\ expected'[u] = expected[u]
<1>1. 0 \in Value /\ "load" \in Calls
  BY CellAssumption DEF Value, Calls
<1> QED
  BY <1>1 DEF Answer, CellInv, CellTypeOK

\* A step that writes what is there and answers keeps the invariant, if nobody else has
\* read the cell to write it.
LEMMA WriteStep ==
  ASSUME CellInv, NEW t \in Writer, t \in users, Write(t, data), Answer(t), UNCHANGED <<build, users>>
  PROVE CellInv'
<1>1. data' \in Value /\ balance' \in Value /\ data' = balance'
  BY WriteKeepsBooks
<1>2. CellTypeOK'
  BY <1>1, AnswerIsTyped DEF CellInv, CellTypeOK
<1>3. ReadIsCurrent'
  BY AnswerIsTyped DEF CellInv, ReadIsCurrent, OneUser
<1> QED
  BY <1>1, <1>2, <1>3 DEF CellInv, OneUser, NothingLost

LEMMA AnswerStep ==
  ASSUME CellInv, NEW t \in Writer, Answer(t), UNCHANGED <<build, users, data, balance>>
  PROVE CellInv'
BY AnswerIsTyped DEF CellInv, CellTypeOK, ReadIsCurrent, OneUser, NothingLost

LEMMA CellStep == CellInv /\ [CellNext]_cellVars => CellInv'
<1> SUFFICES ASSUME CellInv, [CellNext]_cellVars PROVE CellInv'
  OBVIOUS
<1> USE DEF CellInv
<1>1. ASSUME NEW t \in Writer, NEW op \in Calls, NEW a \in Value, NEW e \in Value, Call(t, op, a, e)
      PROVE CellInv'
  BY <1>1 DEF Call, CellTypeOK, ReadIsCurrent, OneUser, NothingLost
<1>2. ASSUME NEW t \in Writer, InOneStep(t) PROVE CellInv'
  BY <1>2, WriteStep DEF InOneStep, ReadIsCurrent
<1>3. ASSUME NEW t \in Writer, CompareInOneStep(t) PROVE CellInv'
  BY <1>3, WriteStep, AnswerStep DEF CompareInOneStep, SameAsExpected, ReadIsCurrent
<1>4. ASSUME NEW t \in Writer, Then(t, "reload") \/ Then(t, "start"), at[t] # "idle",
             UNCHANGED <<build, users, data, balance, expected>>
      PROVE CellInv'
  BY <1>4 DEF Then, CellTypeOK, ReadIsCurrent, OneUser, NothingLost
<1>5. ASSUME NEW t \in Writer, SyncCompare(t) PROVE CellInv'
  BY <1>4, <1>5, WriteStep DEF SyncCompare, SameAsExpected, ReadIsCurrent
<1>6. ASSUME NEW t \in Writer, SyncReload(t) PROVE CellInv'
  BY <1>6, AnswerStep DEF SyncReload
<1>7. ASSUME NEW t \in Writer, SyncRead(t) PROVE CellInv'
  BY <1>7 DEF SyncRead, Then, CellTypeOK, ReadIsCurrent, OneUser, NothingLost
<1>8. ASSUME NEW t \in Writer, SyncSwap(t) PROVE CellInv'
  BY <1>4, <1>8, WriteStep DEF SyncSwap, SameAsExpected, ReadIsCurrent
<1>9. ASSUME NEW t \in Writer, UnsafeRead(t) PROVE CellInv'
  <2>1. CASE Answer(t) /\ UNCHANGED <<build, users, data, balance>>
    BY <2>1, AnswerStep
  <2>2. CASE expected' = [expected EXCEPT ![t] = data] /\ Then(t, "write")
    BY <1>9, <2>2 DEF UnsafeRead, Then, CellTypeOK, ReadIsCurrent, OneUser, NothingLost
  <2> QED
    BY <1>9, <2>1, <2>2 DEF UnsafeRead
<1>10. ASSUME NEW t \in Writer, UnsafeWrite(t) PROVE CellInv'
  BY <1>10, WriteStep DEF UnsafeWrite, ReadIsCurrent
<1>11. CASE UNCHANGED cellVars
  BY <1>11 DEF cellVars, CellTypeOK, ReadIsCurrent, OneUser, NothingLost
<1>12. 0 \in Value
  BY CellAssumption DEF Value
<1> QED
  BY <1>1, <1>2, <1>3, <1>5, <1>6, <1>7, <1>8, <1>9, <1>10, <1>11, <1>12 DEF CellNext, Access

\* No call's effect is lost in another's, in any build, with any number of threads and
\* at any width.
THEOREM AtomicsLoseNothing == CellSpec => []NothingLost
<1>1. CellInv => NothingLost
  BY DEF CellInv
<1> QED
  BY CellInitially, CellStep, <1>1, PTL DEF CellSpec

-----------------------------------------------------------------------------
(* IntrusivePtr *)

\* How many of the elements of a set a function maps to o.
CountOf(f, S, o) == Cardinality({s \in S : f[s] = o})
Is(x, o) == IF x = o THEN 1 ELSE 0

LEMMA CountIsNat == ASSUME NEW S, IsFiniteSet(S), NEW f, NEW o PROVE CountOf(f, S, o) \in Nat
<1>1. IsFiniteSet({s \in S : f[s] = o})
  BY FS_Subset
<1> QED
  BY <1>1, FS_CardinalityType DEF CountOf

LEMMA CountOfRest ==
  ASSUME NEW S, IsFiniteSet(S), NEW f, NEW x \in S, NEW o
  PROVE CountOf(f, S, o) = Cardinality({s \in S \ {x} : f[s] = o}) + Is(f[x], o)
<1> DEFINE Rest == {s \in S \ {x} : f[s] = o}
<1>1. IsFiniteSet(Rest) /\ x \notin Rest
  BY FS_Subset
<1>2. Cardinality(Rest) \in Nat /\ Cardinality(Rest \cup {x}) = Cardinality(Rest) + 1
  BY <1>1, FS_AddElement, FS_CardinalityType
<1>3. {s \in S : f[s] = o} = IF f[x] = o THEN Rest \cup {x} ELSE Rest
  OBVIOUS
<1> HIDE DEF Rest
<1> QED
  BY <1>2, <1>3 DEF CountOf, Is

LEMMA CountPositive ==
  ASSUME NEW S, IsFiniteSet(S), NEW f, NEW x \in S PROVE CountOf(f, S, f[x]) > 0
<1>1. IsFiniteSet({s \in S \ {x} : f[s] = f[x]})
  BY FS_Subset
<1> QED
  BY <1>1, CountOfRest, FS_CardinalityType DEF Is

\* One element changes: the old value has one less, the new one has one more.
LEMMA CountChanges ==
  ASSUME NEW S, IsFiniteSet(S), NEW x \in S, NEW f, NEW g, \A s \in S \ {x} : g[s] = f[s], NEW o
  PROVE CountOf(g, S, o) = CountOf(f, S, o) + Is(g[x], o) - Is(f[x], o)
<1> DEFINE R(h) == {s \in S \ {x} : h[s] = o}
<1>1. R(f) = R(g)
  OBVIOUS
<1>2. Cardinality(R(f)) \in Nat
  <2>1. IsFiniteSet(R(f))
    BY FS_Subset
  <2> QED
    BY <2>1, FS_CardinalityType
<1>3. CountOf(f, S, o) = Cardinality(R(f)) + Is(f[x], o)
  BY CountOfRest
<1>4. CountOf(g, S, o) = Cardinality(R(g)) + Is(g[x], o)
  BY CountOfRest
<1> HIDE DEF R
<1> QED
  BY <1>1, <1>2, <1>3, <1>4 DEF Is

-----------------------------------------------------------------------------
(* The invariant. *)

Typed ==
  /\ px \in [Variable -> Object \cup {Nil}]
  /\ counter \in [Object -> Int]
  /\ state \in [Object -> {"none", "live", "destroyed"}]
  /\ letting \in [User -> Object \cup {Nil}]
  /\ seen \in [User -> Int]
  /\ raw \in [User -> Object \cup {Nil}]

Counts == \A o \in Object : counter[o] = CountOf(px, Variable, o) + CountOf(raw, User, o)

\* The thread t is about to destroy o.
Dooms(t, o) == letting[t] = o /\ seen[t] = 0

\* An object without references that is still there is doomed, by one thread, and no other
\* object is.
LastReleases ==
  \A o \in Object :
    /\ counter[o] >= 0
    /\ counter[o] > 0 => state[o] = "live"
    /\ counter[o] = 0 /\ state[o] = "live" => \E t \in User : Dooms(t, o)
    /\ \A t \in User : Dooms(t, o) => counter[o] = 0 /\ state[o] = "live"
    /\ \A t, u \in User : Dooms(t, o) /\ Dooms(u, o) => t = u

PtrInv == Typed /\ Counts /\ LastReleases

LEMMA PtrInitially == PtrInit => PtrInv
<1> SUFFICES ASSUME PtrInit PROVE PtrInv
  OBVIOUS
<1> USE PtrAssumption DEF PtrInit
<1>1. Typed /\ LastReleases
  BY DEF Typed, LastReleases, Dooms
<1>2. ASSUME NEW o \in Object PROVE CountOf(px, Variable, o) = 0 /\ CountOf(raw, User, o) = 0
  <2>1. {v \in Variable : px[v] = o} = {} /\ {t \in User : raw[t] = o} = {}
    OBVIOUS
  <2> QED
    BY <2>1, FS_EmptySet DEF CountOf
<1>3. Counts
  BY <1>2 DEF Counts
<1> QED
  BY <1>1, <1>3 DEF PtrInv

\* A thread lets old go, whatever it put into its place: it decides by the counter that it
\* left, and to all other objects happens what does not concern those who are letting go.
LEMMA LetsGo ==
  ASSUME PtrInv, Typed', Counts',
         NEW t \in User, NEW old \in Object \cup {Nil},
         letting[t] = Nil, letting' = [letting EXCEPT ![t] = old],
         \A u \in User \ {t} : seen'[u] = seen[u],
         old # Nil => counter[old] > 0 /\ counter'[old] >= 0 /\ seen'[t] = counter'[old]
                      /\ state'[old] = state[old],
         \A q \in Object \ {old} :
           \/ counter'[q] >= counter[q] /\ state'[q] = state[q]
              /\ (counter[q] = 0 => counter'[q] = 0)
           \/ state[q] # "live" /\ state'[q] = "live" /\ counter'[q] > 0
  PROVE PtrInv'
<1> USE PtrAssumption DEF PtrInv, Typed
<1>1. ASSUME NEW q \in Object, NEW u \in User \ {t} PROVE Dooms(u, q)' <=> Dooms(u, q)
  BY DEF Dooms
<1>2. ASSUME NEW q \in Object PROVE ~Dooms(t, q)
  BY DEF Dooms
<1>3. ASSUME NEW q \in Object PROVE Dooms(t, q)' <=> q = old /\ counter'[q] = 0
  BY DEF Dooms
<1>4. ASSUME NEW q \in Object, q # old
      PROVE /\ counter'[q] >= 0
            /\ counter'[q] > 0 => state'[q] = "live"
            /\ counter'[q] = 0 /\ state'[q] = "live" => \E u \in User : Dooms(u, q)'
            /\ \A u \in User : Dooms(u, q)' => counter'[q] = 0 /\ state'[q] = "live"
            /\ \A u, w \in User : Dooms(u, q)' /\ Dooms(w, q)' => u = w
  BY <1>1, <1>2, <1>3, <1>4 DEF LastReleases
<1>5. ASSUME NEW q \in Object, q = old
      PROVE /\ counter'[q] >= 0
            /\ counter'[q] > 0 => state'[q] = "live"
            /\ counter'[q] = 0 /\ state'[q] = "live" => \E u \in User : Dooms(u, q)'
            /\ \A u \in User : Dooms(u, q)' => counter'[q] = 0 /\ state'[q] = "live"
            /\ \A u, w \in User : Dooms(u, q)' /\ Dooms(w, q)' => u = w
  <2>1. /\ counter[q] > 0 /\ counter'[q] >= 0 /\ state'[q] = state[q]
        /\ state[q] = "live"
        /\ \A u \in User : ~Dooms(u, q)
    BY <1>5 DEF LastReleases
  <2>2. \A u \in User \ {t} : ~Dooms(u, q)'
    BY <1>1, <2>1
  <2>3. Dooms(t, q)' <=> counter'[q] = 0
    BY <1>3, <1>5
  <2> QED
    BY <2>1, <2>2, <2>3
<1>6. LastReleases'
  BY <1>4, <1>5 DEF LastReleases
<1> QED
  BY <1>6

-----------------------------------------------------------------------------
(* The steps. *)

\* What is pointed to is counted, and so is there.
LEMMA PointedIsCounted ==
  ASSUME PtrInv, NEW v \in Variable, px[v] # Nil
  PROVE px[v] \in Object /\ counter[px[v]] > 0 /\ state[px[v]] = "live"
<1> USE PtrAssumption
<1>1. px[v] \in Object /\ px \in [Variable -> Object \cup {Nil}] /\ IsFiniteSet(Variable) /\ Nil \in Object \cup {Nil}
  BY DEF PtrInv, Typed
<1>2. CountOf(px, Variable, px[v]) > 0
  BY <1>1, CountPositive
<1>3. CountOf(px, Variable, px[v]) \in Nat /\ CountOf(raw, User, px[v]) \in Nat
  BY CountIsNat
<1> QED
  BY <1>1, <1>2, <1>3 DEF PtrInv, Counts, LastReleases

\* A variable gets o: o has one reference more, and what the variable had has one less.
LEMMA SwapCounts ==
  ASSUME NEW v \in Variable, NEW o, px'[v] = o, \A w \in Variable \ {v} : px'[w] = px[w]
  PROVE \A q \in Object : CountOf(px', Variable, q) = CountOf(px, Variable, q) + Is(o, q) - Is(px[v], q)
BY PtrAssumption, CountChanges

LEMMA RawCounts ==
  ASSUME NEW t \in User, NEW o, raw'[t] = o, \A u \in User \ {t} : raw'[u] = raw[u]
  PROVE \A q \in Object : CountOf(raw', User, q) = CountOf(raw, User, q) + Is(o, q) - Is(raw[t], q)
BY PtrAssumption, CountChanges

LEMMA CountsAreNumbers ==
  ASSUME PtrInv, NEW q \in Object
  PROVE CountOf(px, Variable, q) \in Nat /\ CountOf(raw, User, q) \in Nat /\ counter[q] \in Nat
<1>1. CountOf(px, Variable, q) \in Nat /\ CountOf(raw, User, q) \in Nat
  BY PtrAssumption, CountIsNat
<1> QED
  BY <1>1 DEF PtrInv, Counts

\* The temporary of a variable lets go what the variable had.
LEMMA SwapStep ==
  ASSUME PtrInv, NEW v \in Variable, NEW o \in Object \cup {Nil}, NEW c \in [Object -> Int],
         ReadyVariable(v), SwapPtr(v, o, c), raw' \in [User -> Object \cup {Nil}],
         state' \in [Object -> {"none", "live", "destroyed"}],
         \A q \in Object :
           /\ c[q] = CountOf(px, Variable, q) + CountOf(raw', User, q) + Is(o, q)
           /\ \/ state'[q] = state[q] /\ c[q] >= counter[q] /\ (counter[q] = 0 => c[q] = 0)
              \/ q = o /\ state[q] # "live" /\ state'[q] = "live" /\ c[q] > 0
  PROVE PtrInv'
<1> DEFINE t == UserOf[v]
           old == px[v]
<1> USE PtrAssumption
<1>1. t \in User /\ old \in Object \cup {Nil} /\ letting[t] = Nil
  BY DEF PtrInv, Typed, ReadyVariable
<1>2. /\ px' = [px EXCEPT ![v] = o]
      /\ letting' = [letting EXCEPT ![t] = old]
      /\ counter' = IF old = Nil THEN c ELSE [c EXCEPT ![old] = @ - 1]
      /\ seen' = [seen EXCEPT ![t] = IF old = Nil THEN 0 ELSE c[old] - 1]
  BY DEF SwapPtr
<1>3. old # Nil => old \in Object /\ counter[old] > 0 /\ state[old] = "live"
  BY PointedIsCounted
<1>4. \A q \in Object : counter'[q] = c[q] - Is(old, q)
  BY <1>1, <1>2 DEF Is
<1>5. Typed'
  BY <1>1, <1>2, <1>4 DEF PtrInv, Typed, Is
<1>6. Counts'
  <2> SUFFICES ASSUME NEW q \in Object
               PROVE counter'[q] = CountOf(px', Variable, q) + CountOf(raw', User, q)
    BY DEF Counts
  <2>1. CountOf(px', Variable, q) = CountOf(px, Variable, q) + Is(o, q) - Is(old, q)
    <3>1. px'[v] = o /\ \A w \in Variable \ {v} : px'[w] = px[w]
      BY <1>2 DEF PtrInv, Typed
    <3> QED
      BY <3>1, SwapCounts
  <2>2. CountOf(px, Variable, q) \in Nat /\ c[q] \in Int /\ counter'[q] = c[q] - Is(old, q)
    BY <1>4, CountsAreNumbers
  <2>3. CountOf(raw', User, q) \in Nat
    BY CountIsNat
  <2> QED
    BY <2>1, <2>2, <2>3 DEF Is
<1>7. old # Nil => counter'[old] >= 0 /\ seen'[t] = counter'[old] /\ state'[old] = state[old]
  BY <1>1, <1>2, <1>3, <1>4 DEF Is, PtrInv, Typed
<1>8. \A q \in Object \ {old} :
        \/ counter'[q] >= counter[q] /\ state'[q] = state[q] /\ (counter[q] = 0 => counter'[q] = 0)
        \/ state[q] # "live" /\ state'[q] = "live" /\ counter'[q] > 0
  BY <1>4 DEF Is
<1>9. \A u \in User \ {t} : seen'[u] = seen[u]
  BY <1>2 DEF PtrInv, Typed
<1> HIDE DEF t, old
<1> QED
  BY <1>1, <1>2, <1>3, <1>5, <1>6, <1>7, <1>8, <1>9, LetsGo

LEMMA NewStep == ASSUME PtrInv, NEW v \in Variable, NEW o \in Object, NewPtr(v, o) PROVE PtrInv'
<1> DEFINE c == AddRef([counter EXCEPT ![o] = 0], o)
<1> USE PtrAssumption
<1>1. counter[o] = 0
  BY CountsAreNumbers DEF PtrInv, LastReleases, NewPtr
<1>2. c \in [Object -> Int] /\ \A q \in Object : c[q] = counter[q] + Is(o, q)
  BY <1>1 DEF AddRef, Is, PtrInv, Typed
<1>3. \A q \in Object : c[q] = CountOf(px, Variable, q) + CountOf(raw', User, q) + Is(o, q)
  BY <1>2 DEF NewPtr, PtrInv, Counts
<1>4. state' \in [Object -> {"none", "live", "destroyed"}] /\ raw' \in [User -> Object \cup {Nil}]
  BY DEF NewPtr, PtrInv, Typed
<1>5. \A q \in Object :
        \/ state'[q] = state[q] /\ c[q] >= counter[q] /\ (counter[q] = 0 => c[q] = 0)
        \/ q = o /\ state[q] # "live" /\ state'[q] = "live" /\ c[q] > 0
  <2>1. state' = [state EXCEPT ![o] = "live"] /\ state[o] # "live"
    BY DEF NewPtr
  <2> HIDE DEF c
  <2>2. c[o] > 0 /\ \A q \in Object \ {o} : c[q] = counter[q]
    BY <1>1, <1>2 DEF Is, PtrInv, Typed
  <2> QED
    BY <2>1, <2>2 DEF PtrInv, Typed
<1>6. ReadyVariable(v) /\ SwapPtr(v, o, c)
  BY DEF NewPtr
<1> HIDE DEF c
<1> QED
  BY <1>2, <1>3, <1>4, <1>5, <1>6, SwapStep

LEMMA CopyStep == ASSUME PtrInv, NEW v \in Variable, NEW w \in Variable, CopyPtr(v, w) PROVE PtrInv'
<1> DEFINE o == px[w]
           c == AddRef(counter, o)
<1> USE PtrAssumption
<1>1. o \in Object /\ counter[o] > 0
  BY PointedIsCounted DEF CopyPtr
<1>2. c \in [Object -> Int] /\ \A q \in Object : c[q] = counter[q] + Is(o, q)
  BY <1>1 DEF AddRef, Is, PtrInv, Typed
<1>3. \A q \in Object : c[q] = CountOf(px, Variable, q) + CountOf(raw', User, q) + Is(o, q)
  BY <1>2 DEF CopyPtr, PtrInv, Counts
<1>4. /\ state' \in [Object -> {"none", "live", "destroyed"}] /\ raw' \in [User -> Object \cup {Nil}]
      /\ ReadyVariable(v) /\ SwapPtr(v, o, c) /\ state' = state
  BY DEF CopyPtr, PtrInv, Typed
<1>5. \A q \in Object : state'[q] = state[q] /\ c[q] >= counter[q] /\ (counter[q] = 0 => c[q] = 0)
  BY <1>1, <1>2, <1>4 DEF Is, PtrInv, Typed
<1> HIDE DEF c, o
<1> QED
  BY <1>1, <1>2, <1>3, <1>4, <1>5, SwapStep

LEMMA ResetStep == ASSUME PtrInv, NEW v \in Variable, ResetPtr(v) PROVE PtrInv'
<1> USE PtrAssumption
<1>1. \A q \in Object : counter[q] = CountOf(px, Variable, q) + CountOf(raw', User, q) + Is(Nil, q)
  BY CountsAreNumbers DEF ResetPtr, PtrInv, Counts, Is
<1>2. /\ state' \in [Object -> {"none", "live", "destroyed"}] /\ raw' \in [User -> Object \cup {Nil}]
      /\ ReadyVariable(v) /\ SwapPtr(v, Nil, counter) /\ state' = state
      /\ counter \in [Object -> Int]
  BY DEF ResetPtr, PtrInv, Typed
<1>3. \A q \in Object : state'[q] = state[q] /\ counter[q] >= counter[q] /\ (counter[q] = 0 => counter[q] = 0)
  BY <1>2
<1> QED
  BY <1>1, <1>2, <1>3, SwapStep

LEMMA AdoptStep == ASSUME PtrInv, NEW v \in Variable, AdoptPtr(v) PROVE PtrInv'
<1> DEFINE o == raw[UserOf[v]]
<1> USE PtrAssumption
<1>1. o \in Object /\ UserOf[v] \in User
  BY DEF AdoptPtr, PtrInv, Typed
<1>2. raw' = [raw EXCEPT ![UserOf[v]] = Nil]
  BY DEF AdoptPtr
<1>3. \A q \in Object : counter[q] = CountOf(px, Variable, q) + CountOf(raw', User, q) + Is(o, q)
  <2> SUFFICES ASSUME NEW q \in Object
               PROVE counter[q] = CountOf(px, Variable, q) + CountOf(raw', User, q) + Is(o, q)
    OBVIOUS
  <2>1. CountOf(raw', User, q) = CountOf(raw, User, q) + Is(Nil, q) - Is(o, q)
    <3>1. raw'[UserOf[v]] = Nil /\ \A u \in User \ {UserOf[v]} : raw'[u] = raw[u]
      BY <1>1, <1>2 DEF PtrInv, Typed
    <3> QED
      BY <1>1, <3>1, RawCounts
  <2> QED
    BY <2>1, CountsAreNumbers DEF PtrInv, Counts, Is
<1>4. /\ state' \in [Object -> {"none", "live", "destroyed"}] /\ raw' \in [User -> Object \cup {Nil}]
      /\ ReadyVariable(v) /\ SwapPtr(v, o, counter) /\ state' = state
      /\ counter \in [Object -> Int]
  BY <1>1, <1>2 DEF AdoptPtr, PtrInv, Typed
<1>5. \A q \in Object : state'[q] = state[q] /\ counter[q] >= counter[q] /\ (counter[q] = 0 => counter[q] = 0)
  BY <1>4
<1> HIDE DEF o
<1> QED
  BY <1>1, <1>3, <1>4, <1>5, SwapStep

LEMMA DetachStep == ASSUME PtrInv, NEW v \in Variable, DetachPtr(v) PROVE PtrInv'
<1> DEFINE t == UserOf[v]
           o == px[v]
<1> USE PtrAssumption
<1>1. t \in User /\ o \in Object /\ raw[t] = Nil
  BY DEF DetachPtr, PtrInv, Typed
<1>2. raw' = [raw EXCEPT ![t] = o] /\ px' = [px EXCEPT ![v] = Nil]
      /\ UNCHANGED <<counter, state, letting, seen>>
  BY DEF DetachPtr
<1>3. Typed' /\ LastReleases'
  BY <1>1, <1>2 DEF PtrInv, Typed, LastReleases, Dooms
<1>4. Counts'
  <2> SUFFICES ASSUME NEW q \in Object
               PROVE counter'[q] = CountOf(px', Variable, q) + CountOf(raw', User, q)
    BY DEF Counts
  <2>1. CountOf(px', Variable, q) = CountOf(px, Variable, q) + Is(Nil, q) - Is(o, q)
    <3>1. px'[v] = Nil /\ \A w \in Variable \ {v} : px'[w] = px[w]
      BY <1>2 DEF PtrInv, Typed
    <3> QED
      BY <3>1, SwapCounts
  <2>2. CountOf(raw', User, q) = CountOf(raw, User, q) + Is(o, q) - Is(Nil, q)
    <3>1. raw'[t] = o /\ \A u \in User \ {t} : raw'[u] = raw[u]
      BY <1>1, <1>2 DEF PtrInv, Typed
    <3> QED
      BY <1>1, <3>1, RawCounts
  <2> QED
    BY <1>2, <2>1, <2>2, CountsAreNumbers DEF PtrInv, Counts, Is
<1> QED
  BY <1>3, <1>4 DEF PtrInv

\* A move is a swap, after which the other variable has nothing.
LEMMA MoveStep == ASSUME PtrInv, NEW v \in Variable, NEW w \in Variable, MovePtr(v, w) PROVE PtrInv'
<1> DEFINE t == UserOf[v]
           old == px[v]
           o == px[w]
           f == [px EXCEPT ![v] = o]
<1> USE PtrAssumption
<1>1. v # w /\ t \in User /\ letting[t] = Nil /\ old \in Object \cup {Nil} /\ o \in Object /\ counter[o] > 0
  BY PointedIsCounted DEF MovePtr, ReadyVariable, PtrInv, Typed
<1>2. /\ px' = [f EXCEPT ![w] = Nil] /\ letting' = [letting EXCEPT ![t] = old]
      /\ counter' = IF old = Nil THEN counter ELSE [counter EXCEPT ![old] = @ + (-1)]
      /\ seen' = [seen EXCEPT ![t] = IF old = Nil THEN 0 ELSE counter[old] - 1]
      /\ state' = state /\ raw' = raw
  BY DEF MovePtr, MovedFrom, Counted, PtrInv, Typed
<1>3. f \in [Variable -> Object \cup {Nil}] /\ f[w] = o
  BY <1>1 DEF PtrInv, Typed
<1>4. \A q \in Object : counter'[q] = counter[q] - Is(old, q)
  BY <1>1, <1>2 DEF Is, PtrInv, Typed
<1>5. old # Nil => old \in Object /\ counter[old] > 0
  BY PointedIsCounted
<1>6. Typed'
  BY <1>1, <1>2, <1>3, <1>5 DEF PtrInv, Typed
<1>7. Counts'
  <2> SUFFICES ASSUME NEW q \in Object
               PROVE counter'[q] = CountOf(px', Variable, q) + CountOf(raw', User, q)
    BY DEF Counts
  <2>1. CountOf(f, Variable, q) = CountOf(px, Variable, q) + Is(o, q) - Is(old, q)
    <3>1. f[v] = o /\ old = px[v] /\ \A u \in Variable \ {v} : f[u] = px[u]
      BY <1>1 DEF PtrInv, Typed
    <3> HIDE DEF f, o, old
    <3> QED
      BY <3>1, CountChanges
  <2>2. px'[w] = Nil /\ \A u \in Variable \ {w} : px'[u] = f[u]
    BY <1>2, <1>3
  <2> HIDE DEF f
  <2>3. CountOf(px', Variable, q) = CountOf(f, Variable, q) + Is(Nil, q) - Is(f[w], q)
    BY <2>2, CountChanges
  <2>4. CountOf(raw', User, q) = CountOf(raw, User, q)
    BY <1>2
  <2> HIDE DEF o, old
  <2>5. /\ counter[q] = CountOf(px, Variable, q) + CountOf(raw, User, q)
        /\ CountOf(px, Variable, q) \in Nat /\ CountOf(raw, User, q) \in Nat
    BY CountsAreNumbers DEF PtrInv, Counts
  <2> QED
    BY <1>3, <1>4, <2>1, <2>3, <2>4, <2>5 DEF Is
<1>8. old # Nil => counter'[old] >= 0 /\ seen'[t] = counter'[old] /\ state'[old] = state[old]
  BY <1>1, <1>2, <1>4, <1>5 DEF Is, PtrInv, Typed
<1>9. \A q \in Object \ {old} : counter'[q] >= counter[q] /\ state'[q] = state[q] /\ (counter[q] = 0 => counter'[q] = 0)
  BY <1>2, <1>4 DEF Is, PtrInv, Typed
<1>10. \A u \in User \ {t} : seen'[u] = seen[u]
  BY <1>2 DEF PtrInv, Typed
<1> HIDE DEF t, old, o, f
<1> QED
  BY <1>1, <1>2, <1>5, <1>6, <1>7, <1>8, <1>9, <1>10, LetsGo

LEMMA ReleaseStep == ASSUME PtrInv, NEW t \in User, ReleasePtr(t) PROVE PtrInv'
<1> DEFINE o == letting[t]
<1> USE PtrAssumption
<1>1. o \in Object
  BY DEF ReleasePtr, PtrInv, Typed
<1>2. /\ state' = IF seen[t] = 0 THEN [state EXCEPT ![o] = "destroyed"] ELSE state
      /\ letting' = [letting EXCEPT ![t] = Nil] /\ seen' = [seen EXCEPT ![t] = 0]
      /\ UNCHANGED <<px, counter, raw>>
  BY DEF ReleasePtr, LastGone
<1>3. Typed' /\ Counts'
  BY <1>1, <1>2 DEF PtrInv, Typed, Counts, CountOf
<1>4. \A q \in Object : ~Dooms(t, q)'
                        /\ \A u \in User \ {t} : Dooms(u, q)' <=> Dooms(u, q)
  BY <1>2 DEF Dooms, PtrInv, Typed
<1>5. CASE seen[t] = 0
  <2>1. Dooms(t, o) /\ counter[o] = 0 /\ \A u \in User \ {t} : ~Dooms(u, o)
    BY <1>1, <1>5 DEF Dooms, PtrInv, LastReleases
  <2>2. \A q \in Object \ {o} : ~Dooms(t, q) /\ state'[q] = state[q]
    BY <1>1, <1>2 DEF Dooms, PtrInv, Typed
  <2>3. state'[o] = "destroyed"
    BY <1>1, <1>2, <1>5 DEF PtrInv, Typed
  <2> HIDE DEF o
  <2>4. LastReleases'
    BY <1>1, <1>2, <1>4, <2>1, <2>2, <2>3 DEF PtrInv, LastReleases
  <2> QED
    BY <1>3, <2>4 DEF PtrInv
<1>6. CASE seen[t] # 0
  <2>1. \A q \in Object : ~Dooms(t, q)
    BY <1>6 DEF Dooms
  <2>2. LastReleases'
    BY <1>2, <1>4, <1>6, <2>1 DEF PtrInv, LastReleases
  <2> QED
    BY <1>3, <2>2 DEF PtrInv
<1> QED
  BY <1>5, <1>6

LEMMA PtrStep == PtrInv /\ [PtrNext]_ptrVars => PtrInv'
<1>1. ASSUME PtrInv, UNCHANGED ptrVars PROVE PtrInv'
  BY <1>1 DEF ptrVars, PtrInv, Typed, Counts, CountOf, LastReleases, Dooms
<1> QED
  BY <1>1, NewStep, CopyStep, MoveStep, ResetStep, DetachStep, AdoptStep, ReleaseStep DEF PtrNext

\* Any number of threads that copy, move and let go pointers: the counter is the number of
\* references, and who takes the last one destroys the object, once.
THEOREM PointersCountExactly == PtrSpec => []CountedExactly
<1>1. PtrInv => CountedExactly
  <2> SUFFICES ASSUME PtrInv, NEW o \in Object
               PROVE /\ counter[o] = References(o)
                     /\ References(o) > 0 => state[o] = "live"
                     /\ References(o) = 0 /\ state[o] = "live" => Cardinality(Doomed(o)) = 1
                     /\ state[o] = "destroyed" => Doomed(o) = {}
    BY DEF CountedExactly
  <2>1. counter[o] = References(o)
    BY DEF PtrInv, Counts, CountOf, References
  <2>2. Doomed(o) = {t \in User : Dooms(t, o)}
    BY DEF Doomed, Dooms, LastGone
  <2>3. ASSUME counter[o] = 0, state[o] = "live" PROVE Cardinality(Doomed(o)) = 1
    <3>1. PICK t \in User : Dooms(t, o)
      BY <2>3 DEF PtrInv, LastReleases
    <3>2. Doomed(o) = {t}
      BY <2>2, <3>1 DEF PtrInv, LastReleases
    <3> QED
      BY <3>2, FS_Singleton
  <2> QED
    BY <2>1, <2>2, <2>3 DEF PtrInv, LastReleases
<1> QED
  BY PtrInitially, PtrStep, <1>1, PTL DEF PtrSpec

-----------------------------------------------------------------------------
(* IdAllocator, for any lengths of a second and of a block, and any time.   *)
(* Every base is behind the atomic word and the word is behind the clock,   *)
(* so a new base is larger than all before it; and the ids of a base that   *)
(* are left are not issued yet.                                             *)

\* What a thread inside allocate_id_by_atomic() knows.
IdThreadInv(t) ==
  /\ pc[t] \in {"clock", "time", "bump"} => TimePart(res[t]) <= clock
  /\ pc[t] = "time" => TimePart(res[t]) < now_time[t] /\ now_time[t] <= clock
  /\ pc[t] = "bump" => TimePart(res[t] + 1) = TimePart(res[t])

\* Bases are taken once.
IdBaseInv ==
  /\ \A t \in Thread : base[t] <= seq_alloc
  /\ \A t, u \in Thread : t # u /\ base[t] = base[u] => base[t] = 0

\* The ids left in the block of a thread.
IdsLeft(t) == {base[t] * BlockSize + n : n \in inner_seq[t]..(BlockSize - 1)}

IdIssuedInv ==
  /\ IsFiniteSet(issued)
  /\ Cardinality(issued) = served
  /\ \A i \in issued : i < (seq_alloc + 1) * BlockSize
  /\ \A t \in Thread : pc[t] = "call" /\ base[t] # 0 => IdsLeft(t) \cap issued = {}

IdInv ==
  /\ TypeOK
  /\ WordBehindClock
  /\ \A t \in Thread : IdThreadInv(t)
  /\ IdBaseInv
  /\ IdIssuedInv

-----------------------------------------------------------------------------
(* Arithmetic *)

\* The ids of a base lie below those of every later one.
LEMMA IdBlocksApart ==
  ASSUME NEW a \in Nat, NEW b \in Nat, NEW size \in Nat, a < b
  PROVE  (a + 1) * size <= b * size
<1> DEFINE d == b - (a + 1)
<1>1. d \in Nat
  OBVIOUS
<1>2. d * size \in Nat
  BY <1>1
<1>3. b * size = (a + 1) * size + d * size
  OBVIOUS
<1> QED
  BY <1>2, <1>3

\* A second that the word has not reached is beyond the word, and the word of a
\* second shows it.
LEMMA Seconds ==
  ASSUME NEW x \in Nat, NEW s \in Nat
  PROVE  /\ TimePart(x) \in Nat
         /\ TimePart(x) < s => x < s * SeqCount
         /\ TimePart(s * SeqCount) = s
         /\ s * SeqCount \in Nat
BY IdAssumption DEF TimePart

-----------------------------------------------------------------------------

LEMMA IdInitially == Init => IdInv
<1> SUFFICES ASSUME Init PROVE IdInv
  OBVIOUS
<1> USE DEF Init
<1>1. TypeOK
  BY IdAssumption DEF TypeOK
<1>2. WordBehindClock
  BY IdAssumption DEF WordBehindClock, TimePart
<1>3. \A t \in Thread : IdThreadInv(t)
  BY DEF IdThreadInv
<1>4. IdBaseInv
  BY DEF IdBaseInv
<1>5. IdIssuedInv
  BY FS_EmptySet DEF IdIssuedInv
<1> QED
  BY <1>1, <1>2, <1>3, <1>4, <1>5 DEF IdInv

\* A thread that returns an id from its block.
LEMMA IdReturn ==
  ASSUME IdInv, NEW t \in Thread, Return(t)
  PROVE  IdInv'
<1> DEFINE id == base[t] * BlockSize + inner_seq[t]
<1> USE DEF IdInv, TypeOK
<1>1. /\ pc[t] = "call" /\ base[t] # 0 /\ inner_seq[t] < BlockSize
      /\ inner_seq' = [inner_seq EXCEPT ![t] = @ + 1]
      /\ issued' = issued \cup {id}
      /\ served' = served + 1
      /\ UNCHANGED <<seq_alloc, clock, base, pc, res, now_time>>
  BY DEF Return, At, BlockLeft
<1>2. id \in Nat
  BY IdAssumption
<1>3. TypeOK'
  <2>1. inner_seq[t] + 1 \in 0..BlockSize
    BY <1>1, IdAssumption
  <2>2. inner_seq' \in [Thread -> 0..BlockSize]
    BY <1>1, <2>1
  <2>3. issued' \subseteq Nat
    <3> HIDE DEF id
    <3> QED
      BY <1>1, <1>2
  <2>4. served' \in Nat
    BY <1>1
  <2> QED
    BY <1>1, <2>2, <2>3, <2>4
<1>4. WordBehindClock'
  BY <1>1 DEF WordBehindClock, TimePart
<1>5. \A u \in Thread : IdThreadInv(u)'
  BY <1>1 DEF IdThreadInv, TimePart
<1>6. IdBaseInv'
  BY <1>1 DEF IdBaseInv
<1>7. IdIssuedInv'
  <2>1. id \notin issued
    <3>1. id \in IdsLeft(t)
      BY <1>1, IdAssumption DEF IdsLeft
    <3> QED
      BY <3>1, <1>1 DEF IdIssuedInv
  <2>2. IsFiniteSet(issued') /\ Cardinality(issued') = served'
    BY <1>1, <2>1, FS_AddElement DEF IdIssuedInv
  <2>3. \A i \in issued' : i < (seq_alloc' + 1) * BlockSize
    <3>1. (base[t] + 1) * BlockSize <= (seq_alloc + 1) * BlockSize
      <4>1. base[t] < seq_alloc + 1
        BY DEF IdBaseInv
      <4> QED
        BY <4>1, IdBlocksApart, IdAssumption
    <3>2. id < (base[t] + 1) * BlockSize
      BY <1>1, IdAssumption
    <3>3. (seq_alloc + 1) * BlockSize \in Nat /\ (base[t] + 1) * BlockSize \in Nat
      BY IdAssumption
    <3>4. id < (seq_alloc + 1) * BlockSize
      BY <3>1, <3>2, <3>3, <1>2
    <3> QED
      BY <1>1, <3>4 DEF IdIssuedInv
  <2>4. ASSUME NEW u \in Thread, pc'[u] = "call", base'[u] # 0
        PROVE  IdsLeft(u)' \cap issued' = {}
    <3>1. IdsLeft(u)' \subseteq IdsLeft(u)
      BY <1>1 DEF IdsLeft
    <3>2. IdsLeft(u) \cap issued = {}
      BY <2>4, <1>1 DEF IdIssuedInv
    <3>3. id \notin IdsLeft(u)'
      <4>1. CASE u = t
        BY <4>1, <1>1, IdAssumption DEF IdsLeft
      <4>2. CASE u # t
        <5> SUFFICES ASSUME NEW n \in 0..(BlockSize - 1),
                            base[u] * BlockSize + n = id
                     PROVE  FALSE
          BY <1>1 DEF IdsLeft
        <5>1. base[u] < base[t] \/ base[t] < base[u]
          BY <4>2, <1>1 DEF IdBaseInv
        <5>2. \/ (base[u] + 1) * BlockSize <= base[t] * BlockSize
              \/ (base[t] + 1) * BlockSize <= base[u] * BlockSize
          BY <5>1, IdBlocksApart, IdAssumption
        <5>3. /\ (base[u] + 1) * BlockSize = base[u] * BlockSize + BlockSize
              /\ (base[t] + 1) * BlockSize = base[t] * BlockSize + BlockSize
              /\ base[u] * BlockSize \in Nat /\ base[t] * BlockSize \in Nat
          BY IdAssumption
        <5> HIDE DEF IdInv, TypeOK
        <5>4. inner_seq[t] \in Nat /\ n \in Nat /\ n < BlockSize /\ BlockSize \in Nat
          BY IdAssumption DEF IdInv, TypeOK
        <5> QED
          BY <5>2, <5>3, <5>4, <1>1
      <4> QED
        BY <4>1, <4>2
    <3> QED
      BY <1>1, <3>1, <3>2, <3>3
  <2> QED
    BY <2>2, <2>3, <2>4 DEF IdIssuedInv
<1> QED
  BY <1>3, <1>4, <1>5, <1>6, <1>7

\* A thread whose compare-and-swap succeeds takes a word that is larger than every
\* base before it, and of a second the clock has shown.
LEMMA IdSwap ==
  ASSUME IdInv, NEW t \in Thread, NEW word \in Nat,
         seq_alloc < word, TimePart(word) <= clock,
         seq_alloc' = word,
         base' = [base EXCEPT ![t] = word],
         Goto(t, "call"),
         inner_seq' = [inner_seq EXCEPT ![t] = 0],
         UNCHANGED <<clock, res, now_time, issued, served>>
  PROVE  IdInv'
<1> USE DEF IdInv, TypeOK
<1>1. TypeOK'
  BY IdAssumption DEF Goto
<1>2. WordBehindClock'
  BY DEF WordBehindClock, TimePart
<1>3. \A u \in Thread : IdThreadInv(u)'
  BY DEF IdThreadInv, TimePart, Goto
<1>4. IdBaseInv'
  BY DEF IdBaseInv
<1>5. IdIssuedInv'
  <2>1. (seq_alloc + 1) * BlockSize <= word * BlockSize
    BY IdBlocksApart, IdAssumption
  <2>2. /\ word * BlockSize <= (word + 1) * BlockSize
        /\ word * BlockSize \in Nat /\ (word + 1) * BlockSize \in Nat
        /\ (seq_alloc + 1) * BlockSize \in Nat
    BY IdAssumption
  <2>3. \A i \in issued : i < word * BlockSize /\ i < (word + 1) * BlockSize
    BY <2>1, <2>2 DEF IdIssuedInv
  <2>4. ASSUME NEW u \in Thread, pc'[u] = "call", base'[u] # 0
        PROVE  IdsLeft(u)' \cap issued' = {}
    <3>1. CASE u = t
      <4>1. IdsLeft(u)' = {word * BlockSize + n : n \in 0..(BlockSize - 1)}
        BY <3>1, IdAssumption DEF IdsLeft
      <4>2. \A n \in 0..(BlockSize - 1) : word * BlockSize + n \notin issued
        BY <2>2, <2>3
      <4> QED
        BY <4>1, <4>2
    <3>2. CASE u # t
      <4>1. IdsLeft(u)' = IdsLeft(u)
        BY <3>2 DEF IdsLeft
      <4> QED
        BY <4>1, <3>2, <2>4 DEF IdIssuedInv, Goto
    <3> QED
      BY <3>1, <3>2
  <2> QED
    BY <2>3, <2>4 DEF IdIssuedInv
<1> QED
  BY <1>1, <1>2, <1>3, <1>4, <1>5

\* A thread that tries again keeps nothing.
LEMMA IdRetry ==
  ASSUME IdInv, NEW t \in Thread, pc[t] # "call",
         Goto(t, "load"),
         inner_seq' = [inner_seq EXCEPT ![t] = 0],
         UNCHANGED <<seq_alloc, base, clock, res, now_time, issued, served>>
  PROVE  IdInv'
<1> USE DEF IdInv, TypeOK
<1>1. TypeOK'
  BY IdAssumption DEF Goto
<1>2. WordBehindClock' /\ IdBaseInv'
  BY DEF WordBehindClock, TimePart, IdBaseInv
<1>3. \A u \in Thread : IdThreadInv(u)'
  BY DEF IdThreadInv, TimePart, Goto
<1>4. IdIssuedInv'
  <2>1. ASSUME NEW u \in Thread, pc'[u] = "call"
        PROVE  u # t /\ pc[u] = "call" /\ IdsLeft(u)' = IdsLeft(u)
    BY <2>1 DEF Goto, IdsLeft
  <2> QED
    BY <2>1 DEF IdIssuedInv
<1> QED
  BY <1>1, <1>2, <1>3, <1>4

LEMMA IdStep ==
  ASSUME IdInv, [Next]_vars
  PROVE  IdInv'
<1>1. ASSUME NEW t \in Thread, Return(t) PROVE IdInv'
  BY <1>1, IdReturn
<1>2. ASSUME NEW t \in Thread, Refill(t) PROVE IdInv'
  <2> USE <1>2 DEF Refill, At, Goto, IdInv, TypeOK
  <2>1. TypeOK' /\ WordBehindClock' /\ IdBaseInv'
    BY DEF WordBehindClock, TimePart, IdBaseInv
  <2>2. \A u \in Thread : IdThreadInv(u)'
    BY DEF IdThreadInv, TimePart
  <2>3. IdIssuedInv'
    BY DEF IdIssuedInv, IdsLeft
  <2> QED
    BY <2>1, <2>2, <2>3
<1>3. ASSUME NEW t \in Thread, Load(t) PROVE IdInv'
  <2> USE <1>3 DEF Load, At, Goto, IdInv, TypeOK
  <2>1. TypeOK' /\ WordBehindClock' /\ IdBaseInv'
    BY DEF WordBehindClock, TimePart, IdBaseInv
  <2>2. \A u \in Thread : IdThreadInv(u)'
    BY DEF IdThreadInv, NewSecond, WordBehindClock, TimePart
  <2>3. IdIssuedInv'
    BY DEF IdIssuedInv, IdsLeft
  <2> QED
    BY <2>1, <2>2, <2>3
<1>4. ASSUME NEW t \in Thread, ReadClock(t) PROVE IdInv'
  <2> USE <1>4 DEF ReadClock, At, Goto, IdInv, TypeOK
  <2>1. TypeOK' /\ WordBehindClock' /\ IdBaseInv'
    BY DEF WordBehindClock, TimePart, IdBaseInv
  <2>2. \A u \in Thread : IdThreadInv(u)'
    <3>1. TimePart(res[t]) \in Nat
      BY Seconds
    <3>2. TimePart(res[t]) < clock
      BY <3>1, IdAssumption DEF Awaited, IdThreadInv
    <3> QED
      BY <3>2, IdAssumption DEF IdThreadInv, TimePart
  <2>3. IdIssuedInv'
    BY DEF IdIssuedInv, IdsLeft
  <2> QED
    BY <2>1, <2>2, <2>3
<1>5. ASSUME NEW t \in Thread, SwapTime(t) PROVE IdInv'
  <2> DEFINE word == now_time[t] * SeqCount
  <2>1. /\ pc[t] = "time" /\ res[t] \in Nat /\ now_time[t] \in Nat
        /\ TimePart(res[t]) < now_time[t] /\ now_time[t] <= clock
    BY <1>5, IdAssumption DEF SwapTime, At, IdInv, TypeOK, IdThreadInv
  <2>2. word \in Nat /\ res[t] < word /\ TimePart(word) <= clock
    BY <2>1, Seconds
  <2>3. CASE seq_alloc = res[t] /\ seq_alloc' = word
    BY <2>2, <2>3, <1>5, IdSwap DEF SwapTime, Swap, Goto
  <2>4. CASE Goto(t, "load") /\ UNCHANGED <<seq_alloc, base>>
    BY <2>1, <2>4, <1>5, IdRetry DEF SwapTime
  <2> QED
    BY <2>3, <2>4, <1>5 DEF SwapTime, Swap
<1>6. ASSUME NEW t \in Thread, SwapNext(t) PROVE IdInv'
  <2> DEFINE word == res[t] + 1
  <2>1. /\ pc[t] = "bump" /\ res[t] \in Nat
        /\ TimePart(word) = TimePart(res[t]) /\ TimePart(res[t]) <= clock
    BY <1>6 DEF SwapNext, At, IdInv, TypeOK, IdThreadInv
  <2>2. word \in Nat /\ res[t] < word /\ TimePart(word) <= clock
    BY <2>1
  <2>3. CASE seq_alloc = res[t] /\ seq_alloc' = word
             /\ base' = [base EXCEPT ![t] = word] /\ Goto(t, "call")
    BY <2>2, <2>3, <1>6, IdSwap DEF SwapNext
  <2>4. CASE Goto(t, "load") /\ UNCHANGED <<seq_alloc, base>>
    BY <2>1, <2>4, <1>6, IdRetry DEF SwapNext
  <2> QED
    BY <2>3, <2>4, <1>6 DEF SwapNext, Swap
<1>7. CASE Tick
  <2> USE <1>7, IdAssumption DEF Tick, IdInv, TypeOK
  <2>1. TypeOK' /\ IdBaseInv'
    BY DEF IdBaseInv
  <2>2. TimePart(seq_alloc) \in Nat /\ \A u \in Thread : TimePart(res[u]) \in Nat
    BY Seconds
  <2>3. WordBehindClock'
    BY <2>2 DEF WordBehindClock, TimePart
  <2>4. \A u \in Thread : IdThreadInv(u)'
    BY <2>2 DEF IdThreadInv, TimePart
  <2>5. IdIssuedInv'
    BY DEF IdIssuedInv, IdsLeft
  <2> QED
    BY <2>1, <2>3, <2>4, <2>5
<1>8. CASE UNCHANGED vars
  BY <1>8 DEF vars, IdInv, TypeOK, WordBehindClock, IdThreadInv, TimePart, IdBaseInv, IdIssuedInv, IdsLeft
<1> QED
  BY <1>1, <1>2, <1>3, <1>4, <1>5, <1>6, <1>7, <1>8 DEF Next, Step, TimeIsUp

\* The inductive invariant: the blocks that were handed out lie behind the shared word,
\* apart from one another (uint64_id_allocator.cpp:28-57).
THEOREM IdInvariant == Spec => []IdInv
<1>1. Init => IdInv
  BY IdInitially
<1>2. IdInv /\ [Next]_vars => IdInv'
  BY IdStep
<1> QED
  BY <1>1, <1>2, PTL DEF Spec

-----------------------------------------------------------------------------

\* No two calls of allocate() return the same id, on any threads: the number of
\* ids is the number of calls that returned one.
THEOREM UniqueIds == Spec => []IdsAreUnique
<1>1. IdInv => IdsAreUnique
  BY DEF IdInv, IdIssuedInv, IdsAreUnique
<1> QED
  BY <1>1, IdInvariant, PTL

\* The word never runs ahead of the clock, so waiting for the next second ends.
THEOREM BehindClock == Spec => []WordBehindClock
<1>1. IdInv => WordBehindClock
  BY DEF IdInv
<1> QED
  BY <1>1, IdInvariant, PTL

\* The atomic word, the bases and the counts keep their types.
THEOREM IdsTyped == Spec => []TypeOK
<1>1. IdInv => TypeOK
  BY DEF IdInv
<1> QED
  BY <1>1, IdInvariant, PTL

-----------------------------------------------------------------------------
(* FutureStorage: each step of a storage is a step, or a stutter, of what   *)
(* its cells show.                                                          *)

Values == {"success", "error"} \X (Datum \cup {Zero})

\* A pointer into a storage points into its own, and the blocks that pointers own are in
\* use and belong to one pointer each (storage.h:51-138).
PointsToItself == type \in {"void", "small"} => \A c \in Cell : second[c] \in {c, Pending}

OwnsItsBlock ==
  type = "pointer" =>
    /\ \A c \in Cell : second[c] \in Block \cup {Pending}
    /\ \A c \in Cell : second[c] # Pending => heap[second[c]] # Pending
    /\ \A c, d \in Cell : second[c] = second[d] /\ second[c] # Pending => c = d

StorageInv == StorageTypeOK /\ PointsToItself /\ OwnsItsBlock

LEMMA StorageInitially == StorageInit => StorageInv
BY DEF StorageInit, StorageInv, StorageTypeOK, PointsToItself, OwnsItsBlock

LEMMA StorageStep == StorageInv /\ [StorageNext]_storageVars => StorageInv'
<1> SUFFICES ASSUME StorageInv, [StorageNext]_storageVars PROVE StorageInv'
  OBVIOUS
<1> USE StorageAssumption DEF StorageInv, StorageTypeOK, PointsToItself, OwnsItsBlock, Pollers, Results
<1>1. ASSUME NEW c \in Cell, NEW v \in Datum, Construct(c, v) PROVE StorageInv'
  <2>1. CASE type = "pointer"
    <3>1. PICK b \in Block : /\ heap[b] = Pending
                            /\ second' = [second EXCEPT ![c] = b]
                            /\ heap' = [[p \in Block |-> IF p = second[c] THEN Pending ELSE heap[p]]
                                        EXCEPT ![b] = v]
                            /\ UNCHANGED <<type, first, error, mode>>
      BY <1>1, <2>1 DEF Construct, Point, Deleted
    <3>2. StorageTypeOK'
      BY <3>1
    <3>3. \A d \in Cell \ {c} : second'[d] = second[d] /\ second[d] # b
                               /\ second[d] # Pending => second[d] # second[c]
      BY <2>1, <3>1
    <3> QED
      BY <2>1, <3>1, <3>2, <3>3
  <2>2. CASE type \in {"void", "small"}
    BY <1>1, <2>2 DEF Construct, Point
  <2> QED
    BY <1>1, <2>1, <2>2 DEF Construct
<1>2. ASSUME NEW c \in Cell, NEW v \in Datum, MakeSuccess(c, v) PROVE StorageInv'
  BY <1>2 DEF MakeSuccess
<1>3. ASSUME NEW c \in Cell, NEW v \in Datum, MakeError(c, v) PROVE StorageInv'
  BY <1>3 DEF MakeError
<1>4. ASSUME NEW c \in Cell, NEW zeroed \in BOOLEAN, ResetStorage(c, zeroed) PROVE StorageInv'
  BY <1>4 DEF ResetStorage, Point, Deleted
<1>5. ASSUME NEW c \in Cell, ResetResult(c) PROVE StorageInv'
  BY <1>5 DEF ResetResult
<1>6. ASSUME NEW l \in Cell, NEW r \in Cell, MoveStorage(l, r) PROVE StorageInv'
  BY <1>6 DEF MoveStorage, MovedPointer, Deleted
<1>7. ASSUME NEW l \in Cell, NEW r \in Cell, SwapStorages(l, r) PROVE StorageInv'
  BY <1>7 DEF SwapStorages, SwappedPointer
<1>8. ASSUME NEW l \in Cell, NEW r \in Cell, MoveResult(l, r) PROVE StorageInv'
  BY <1>8 DEF MoveResult, Exchanged, SwappedMode
<1>9. ASSUME NEW l \in Cell, NEW r \in Cell, SwapResults(l, r) PROVE StorageInv'
  BY <1>9 DEF SwapResults, Exchanged, SwappedMode
<1>10. CASE UNCHANGED storageVars
  BY <1>10 DEF storageVars
<1> QED
  BY <1>1, <1>2, <1>3, <1>4, <1>5, <1>6, <1>7, <1>8, <1>9, <1>10 DEF StorageNext

-----------------------------------------------------------------------------
(* What a step shows. *)

\* Cell d shows afterwards what cell e shows now.
Keeps(d, e) ==
  /\ IsReady(d)' <=> IsReady(e)
  /\ IsReady(e) => Kind(d)' = Kind(e) /\ Data(d)' = Data(e)

LEMMA KeptIsShown == ASSUME NEW d \in Cell, NEW e \in Cell, Keeps(d, e) PROVE Shown(d)' = Shown(e)
BY DEF Keeps, Shown

\* Cell d is ready afterwards with a value.
GetsValue(d) == IsReady(d)' /\ Kind(d)' \in {"success", "error"} /\ Data(d)' \in Datum \cup {Zero}

LEMMA ConstructShows ==
  ASSUME StorageInv, NEW c \in Cell, NEW v \in Datum, Construct(c, v)
  PROVE GetsValue(c) /\ \A d \in Cell \ {c} : Keeps(d, d)
<1> USE StorageAssumption DEF StorageInv, StorageTypeOK, PointsToItself, OwnsItsBlock, Pollers, Results,
                              IsReady, Kind, Data, Keeps, GetsValue, Construct, Point, Deleted
<1>1. CASE type = "void"
  BY <1>1
<1>2. CASE type = "small"
  BY <1>2
<1>3. CASE type = "pointer"
  <2>1. PICK b \in Block : /\ heap[b] = Pending
                          /\ second' = [second EXCEPT ![c] = b]
                          /\ heap' = [[p \in Block |-> IF p = second[c] THEN Pending ELSE heap[p]]
                                      EXCEPT ![b] = v]
                          /\ UNCHANGED <<type, first, error, mode>>
    BY <1>3
  <2>2. second'[c] = b /\ heap'[b] = v
    BY <2>1
  <2>3. ASSUME NEW d \in Cell \ {c} PROVE Keeps(d, d)
    <3>1. second'[d] = second[d]
      BY <2>1
    <3>2. second[d] # Pending => second[d] \in Block /\ second[d] # b /\ second[d] # second[c]
      BY <1>3, <2>1
    <3>3. second[d] # Pending => heap'[second[d]] = heap[second[d]]
      BY <2>1, <3>2
    <3> QED
      BY <1>3, <2>1, <3>1, <3>3
  <2> QED
    BY <1>3, <2>1, <2>2, <2>3
<1> QED
  BY <1>1, <1>2, <1>3

LEMMA MakeShows ==
  ASSUME StorageInv, NEW c \in Cell, NEW v \in Datum, MakeSuccess(c, v) \/ MakeError(c, v)
  PROVE GetsValue(c) /\ \A d \in Cell \ {c} : Keeps(d, d)
<1> USE DEF StorageInv, StorageTypeOK, Pollers, Results, IsReady, Kind, Data, Keeps, GetsValue
<1>1. CASE MakeSuccess(c, v)
  BY <1>1 DEF MakeSuccess
<1>2. CASE MakeError(c, v)
  BY <1>2 DEF MakeError
<1> QED
  BY <1>1, <1>2

LEMMA ResetShows ==
  ASSUME StorageInv, NEW c \in Cell, NEW zeroed \in BOOLEAN, ResetStorage(c, zeroed) \/ ResetResult(c)
  PROVE ~IsReady(c)' /\ \A d \in Cell \ {c} : Keeps(d, d)
<1> USE StorageAssumption DEF StorageInv, StorageTypeOK, PointsToItself, OwnsItsBlock, Pollers, Results,
                              IsReady, Kind, Data, Keeps, Point, Deleted
<1>1. CASE ResetStorage(c, zeroed)
  <2>1. CASE type = "pointer"
    BY <1>1, <2>1 DEF ResetStorage
  <2>2. CASE type \in {"void", "small"}
    BY <1>1, <2>2 DEF ResetStorage
  <2> QED
    BY <1>1, <2>1, <2>2 DEF ResetStorage
<1>2. CASE ResetResult(c)
  BY <1>2 DEF ResetResult
<1> QED
  BY <1>1, <1>2

LEMMA MoveShows ==
  ASSUME StorageInv, NEW l \in Cell, NEW r \in Cell, MoveStorage(l, r) \/ MoveResult(l, r)
  PROVE l # r /\ Keeps(l, r) /\ ~IsReady(r)' /\ \A d \in Cell \ {l, r} : Keeps(d, d)
<1> USE StorageAssumption DEF StorageInv, StorageTypeOK, PointsToItself, OwnsItsBlock, Pollers, Results,
                              IsReady, Kind, Data, Keeps
<1>1. CASE MoveStorage(l, r)
  <2>1. CASE type = "pointer"
    BY <1>1, <2>1 DEF MoveStorage, MovedPointer, Deleted
  <2>2. CASE type = "void"
    BY <1>1, <2>2 DEF MoveStorage, MovedPointer
  <2>3. CASE type = "small"
    BY <1>1, <2>3 DEF MoveStorage, MovedPointer
  <2> QED
    BY <1>1, <2>1, <2>2, <2>3 DEF MoveStorage
<1>2. CASE MoveResult(l, r)
  BY <1>2 DEF MoveResult, Exchanged, SwappedMode
<1> QED
  BY <1>1, <1>2

LEMMA SwapShows ==
  ASSUME StorageInv, NEW l \in Cell, NEW r \in Cell, SwapStorages(l, r) \/ SwapResults(l, r)
  PROVE l # r /\ Keeps(l, r) /\ Keeps(r, l) /\ \A d \in Cell \ {l, r} : Keeps(d, d)
<1> USE StorageAssumption DEF StorageInv, StorageTypeOK, PointsToItself, OwnsItsBlock, Pollers, Results,
                              IsReady, Kind, Data, Keeps
<1>1. CASE SwapStorages(l, r)
  <2>1. CASE type = "pointer"
    BY <1>1, <2>1 DEF SwapStorages, SwappedPointer
  <2>2. CASE type = "void"
    BY <1>1, <2>2 DEF SwapStorages, SwappedPointer
  <2>3. CASE type = "small"
    BY <1>1, <2>3 DEF SwapStorages, SwappedPointer
  <2> QED
    BY <1>1, <2>1, <2>2, <2>3 DEF SwapStorages
<1>2. CASE SwapResults(l, r)
  BY <1>2 DEF SwapResults, Exchanged, SwappedMode
<1> QED
  BY <1>1, <1>2

-----------------------------------------------------------------------------
(* The refinement. *)

LEMMA StepImplements == StorageInv /\ [StorageNext]_storageVars => [Promised!ValueNext]_([c \in Cell |-> Shown(c)])
<1> SUFFICES ASSUME StorageInv, [StorageNext]_storageVars
             PROVE [Promised!ValueNext]_([c \in Cell |-> Shown(c)])
  OBVIOUS
<1>1. ASSUME NEW c \in Cell, NEW x \in Values \cup {Pending}, Shown(c)' = x,
             \A d \in Cell \ {c} : Shown(d)' = Shown(d)
      PROVE Promised!ValueNext
  <2>1. Promised!SetValue(c, x)
    BY <1>1 DEF Promised!SetValue
  <2> QED
    BY <2>1 DEF Promised!ValueNext, Values
<1>2. ASSUME NEW c \in Cell, NEW v \in Datum, Construct(c, v) \/ MakeSuccess(c, v) \/ MakeError(c, v)
      PROVE Promised!ValueNext
  <2>1. GetsValue(c) /\ \A d \in Cell \ {c} : Keeps(d, d)
    BY <1>2, ConstructShows, MakeShows
  <2>2. Shown(c)' = <<Kind(c)', Data(c)'>>
    BY <2>1 DEF GetsValue, Shown
  <2>3. Shown(c)' \in Values
    BY <2>1, <2>2 DEF GetsValue, Values
  <2> QED
    BY <1>1, <2>1, <2>3, KeptIsShown
<1>3. ASSUME NEW c \in Cell, NEW zeroed \in BOOLEAN, ResetStorage(c, zeroed) \/ ResetResult(c)
      PROVE Promised!ValueNext
  <2>1. Shown(c)' = Pending
    BY <1>3, ResetShows DEF Shown
  <2> QED
    BY <1>1, <1>3, <2>1, ResetShows, KeptIsShown
<1>4. ASSUME NEW l \in Cell, NEW r \in Cell, MoveStorage(l, r) \/ MoveResult(l, r)
      PROVE Promised!ValueNext
  <2>1. Shown(r)' = Pending
    BY <1>4, MoveShows DEF Shown
  <2>2. l # r /\ Shown(l)' = Shown(r) /\ \A d \in Cell \ {l, r} : Shown(d)' = Shown(d)
    BY <1>4, MoveShows, KeptIsShown
  <2>3. Promised!MoveValue(l, r)
    BY <2>1, <2>2 DEF Promised!MoveValue
  <2> QED
    BY <2>3 DEF Promised!ValueNext
<1>5. ASSUME NEW l \in Cell, NEW r \in Cell, SwapStorages(l, r) \/ SwapResults(l, r)
      PROVE Promised!ValueNext
  <2>1. l # r /\ Shown(l)' = Shown(r) /\ Shown(r)' = Shown(l)
    BY <1>5, SwapShows, KeptIsShown
  <2>2. \A d \in Cell \ {l, r} : Shown(d)' = Shown(d)
    BY <1>5, SwapShows, KeptIsShown
  <2>3. Promised!SwapValues(l, r)
    BY <2>1, <2>2 DEF Promised!SwapValues
  <2> QED
    BY <2>3 DEF Promised!ValueNext
<1>6. CASE UNCHANGED storageVars
  <2>1. \A d \in Cell : Shown(d)' = Shown(d)
    BY <1>6 DEF storageVars, Shown, IsReady, Kind, Data
  <2> QED
    BY <2>1
<1> QED
  BY <1>2, <1>3, <1>4, <1>5, <1>6 DEF StorageNext

LEMMA InitImplements == StorageInit => Promised!ValueInit
BY DEF StorageInit, Promised!ValueInit, Shown, IsReady, Pollers, Results

\* Whatever is behind a future, a poller or a result: its cells keep what FutureValue
\* promises, for values and storages of any number.
THEOREM StoragesAreFutures == StorageSpec => ImplementsFuture
BY StorageInitially, StorageStep, StepImplements, InitImplements, PTL
   DEF StorageSpec, ImplementsFuture, Promised!ValueSpec

-----------------------------------------------------------------------------
(* StackPool: sums *)

\* Of a family of finite sets one is smallest.
LEMMA SmallestSet ==
  ASSUME NEW S, IsFiniteSet(S), NEW B, B \subseteq SUBSET S, B # {}
  PROVE  \E T \in B : \A U \in B : U \subseteq T => U = T
<1>1. IsWellFoundedOn(StrictSubsetOrdering(S), SUBSET S)
  BY FS_StrictSubsetOrderingWellFounded, FS_FiniteSubsetsOfFinite
<1>2. PICK T \in B : \A U \in B : <<U, T>> \notin StrictSubsetOrdering(S)
  BY <1>1, WFMin
<1> QED
  BY <1>2 DEF StrictSubsetOrdering

\* Of a set of numbers one is smallest.
LEMMA SmallestNumber ==
  ASSUME NEW N, N \subseteq Nat, N # {}
  PROVE  Min(N) \in N /\ \A n \in N : Min(N) <= n
<1>1. PICK m \in N : TRUE
  OBVIOUS
<1> DEFINE B == {0..n : n \in {x \in N : x <= m}}
<1>2. IsFiniteSet(0..m)
  BY FS_Interval
<1>3. B \subseteq SUBSET (0..m) /\ B # {}
  BY <1>1
<1>4. PICK T \in B : \A U \in B : U \subseteq T => U = T
  <2> DEFINE S == 0..m
  <2>1. IsFiniteSet(S) /\ B \subseteq SUBSET S /\ B # {}
    BY <1>2, <1>3
  <2> HIDE DEF B, S
  <2> QED
    BY <2>1, SmallestSet
<1>5. PICK k \in N : k <= m /\ T = 0..k
  BY <1>4
<1>6. ASSUME NEW n \in N PROVE k <= n
  <2>1. CASE n >= k
    BY <2>1
  <2>2. CASE n < k
    <3>1. 0..n \in B
      BY <2>2, <1>5
    <3>2. 0..n \subseteq T
      BY <2>2, <1>5
    <3>3. 0..n = 0..k
      BY <3>1, <3>2, <1>4, <1>5
    <3>4. k \in 0..n
      BY <3>3
    <3> QED
      BY <3>4
  <2> QED
    BY <2>1, <2>2
<1> QED
  BY <1>6 DEF Min

\* What MapThenSumSet() is defined by: any element is taken off the set, and so on.
One(T) == CHOOSE c \in T : TRUE

Unfolds(g, S) ==
  g = [T \in SUBSET S |-> IF T = {} THEN 0 ELSE One(T).size + g[T \ {One(T)}]]

LEMMA FoldAgrees ==
  ASSUME NEW S, NEW Z, IsFiniteSet(S), NEW g, NEW h, Unfolds(g, S), Unfolds(h, Z),
         NEW T, T \subseteq S, T \subseteq Z
  PROVE  g[T] = h[T]
<1> DEFINE B == {U \in SUBSET S : U \subseteq Z /\ g[U] # h[U]}
<1>1. SUFFICES ASSUME B # {} PROVE FALSE
  OBVIOUS
<1>2. PICK U \in B : \A W \in B : W \subseteq U => W = U
  <2>1. B \subseteq SUBSET S
    OBVIOUS
  <2> HIDE DEF B
  <2> QED
    BY <1>1, <2>1, SmallestSet
<1>3. U # {}
  BY DEF Unfolds
<1> DEFINE c == One(U)
<1>4. c \in U
  BY <1>3 DEF One
<1>5. g[U \ {c}] = h[U \ {c}]
  BY <1>2, <1>4
<1>6. g[U] = c.size + g[U \ {c}] /\ h[U] = c.size + h[U \ {c}]
  BY <1>3 DEF Unfolds
<1> QED
  BY <1>5, <1>6

LEMMA FoldExists ==
  ASSUME NEW S, IsFiniteSet(S)
  PROVE  \E g : Unfolds(g, S)
<1> DEFINE B == {T \in SUBSET S : ~\E g : Unfolds(g, T)}
<1>1. SUFFICES ASSUME B # {} PROVE FALSE
  OBVIOUS
<1>2. PICK T \in B : \A U \in B : U \subseteq T => U = T
  <2>1. B \subseteq SUBSET S
    OBVIOUS
  <2> HIDE DEF B
  <2> QED
    BY <1>1, <2>1, SmallestSet
<1> DEFINE fold(U) == CHOOSE g : Unfolds(g, U)
           g == [U \in SUBSET T |->
                   IF U = {} THEN 0 ELSE One(U).size + fold(U \ {One(U)})[U \ {One(U)}]]
<1>3. \A U \in SUBSET T : U # T => Unfolds(fold(U), U)
  BY <1>2
<1>4. ASSUME NEW U \in SUBSET T, U # T PROVE g[U] = fold(U)[U]
  <2>1. CASE U = {}
    <3>1. Unfolds(fold(U), U)
      BY <1>3, <1>4
    <3> HIDE DEF fold
    <3> QED
      BY <2>1, <3>1 DEF Unfolds
  <2>2. CASE U # {}
    <3> DEFINE c == One(U)
    <3>1. c \in U
      BY <2>2 DEF One
    <3>2. Unfolds(fold(U), U) /\ Unfolds(fold(U \ {c}), U \ {c})
      BY <1>3, <1>4, <3>1
    <3>3. fold(U)[U] = c.size + fold(U)[U \ {c}]
      <4> HIDE DEF fold
      <4> QED
        BY <2>2, <3>2 DEF Unfolds
    <3>4. fold(U)[U \ {c}] = fold(U \ {c})[U \ {c}]
      <4>1. IsFiniteSet(U)
        BY FS_Subset
      <4> HIDE DEF fold, c
      <4> QED
        BY <3>2, <4>1, FoldAgrees
    <3> QED
      BY <2>2, <3>3, <3>4
  <2> QED
    BY <2>1, <2>2
<1>5. Unfolds(g, T)
  <2>1. ASSUME NEW U \in SUBSET T, U # {}
        PROVE  fold(U \ {One(U)})[U \ {One(U)}] = g[U \ {One(U)}]
    <3>1. One(U) \in U
      BY <2>1 DEF One
    <3>2. U \ {One(U)} # T /\ U \ {One(U)} \in SUBSET T
      BY <3>1
    <3> HIDE DEF g, fold
    <3> QED
      BY <3>2, <1>4
  <2>2. \A U \in SUBSET T : g[U] = IF U = {} THEN 0 ELSE One(U).size + g[U \ {One(U)}]
    <3>1. ASSUME NEW U \in SUBSET T, U = {} PROVE g[U] = 0
      BY <3>1
    <3>2. ASSUME NEW U \in SUBSET T, U # {} PROVE g[U] = One(U).size + g[U \ {One(U)}]
      <4>1. g[U] = One(U).size + fold(U \ {One(U)})[U \ {One(U)}]
        BY <3>2
      <4> HIDE DEF g, fold
      <4> QED
        BY <4>1, <3>2, <2>1
    <3> HIDE DEF g, fold
    <3> QED
      BY <3>1, <3>2
  <2>3. g = [U \in SUBSET T |-> g[U]]
    OBVIOUS
  <2> HIDE DEF g
  <2> QED
    BY <2>2, <2>3 DEF Unfolds
<1> QED
  BY <1>5

LEMMA FoldOfStacks ==
  ASSUME NEW S, IsFiniteSet(S), NEW g, Unfolds(g, S)
  PROVE  Pages(S) = g[S]
<1> DEFINE iter == CHOOSE h : Unfolds(h, S)
<1>1. Unfolds(iter, S)
  OBVIOUS
<1>2. Pages(S) = iter[S]
  BY DEF Pages, MapThenSumSet, MapThenFoldSet, Unfolds, One
<1> HIDE DEF iter
<1> QED
  BY <1>1, <1>2, FoldAgrees

LEMMA FoldSize ==
  ASSUME NEW S, IsFiniteSet(S), S \subseteq Context, NEW g, Unfolds(g, S)
  PROVE  \A T \in SUBSET S : g[T] \in Nat
<1> DEFINE B == {T \in SUBSET S : g[T] \notin Nat}
<1>1. SUFFICES ASSUME B # {} PROVE FALSE
  OBVIOUS
<1>2. PICK T \in B : \A U \in B : U \subseteq T => U = T
  <2>1. B \subseteq SUBSET S
    OBVIOUS
  <2> HIDE DEF B
  <2> QED
    BY <1>1, <2>1, SmallestSet
<1>3. T # {}
  BY DEF Unfolds
<1>4. PICK c \in T : g[T] = c.size + g[T \ {c}]
  BY <1>3 DEF Unfolds, One
<1>5. g[T \ {c}] \in Nat
  BY <1>2, <1>4
<1>6. c.size \in Nat
  BY DEF Context
<1> QED
  BY <1>4, <1>5, <1>6

\* The sum does not depend on the order in which elements are chosen.
LEMMA FoldAnyOrder ==
  ASSUME NEW S, IsFiniteSet(S), S \subseteq Context, NEW g, Unfolds(g, S)
  PROVE  \A T \in SUBSET S : \A c \in T : g[T] = c.size + g[T \ {c}]
<1> DEFINE B == {T \in SUBSET S : \E c \in T : g[T] # c.size + g[T \ {c}]}
<1>1. SUFFICES ASSUME B # {} PROVE FALSE
  OBVIOUS
<1>2. PICK T \in B : \A U \in B : U \subseteq T => U = T
  <2>1. B \subseteq SUBSET S
    OBVIOUS
  <2> HIDE DEF B
  <2> QED
    BY <1>1, <2>1, SmallestSet
<1>3. PICK c \in T : g[T] # c.size + g[T \ {c}]
  OBVIOUS
<1>4. PICK d \in T : g[T] = d.size + g[T \ {d}]
  BY <1>3 DEF Unfolds, One
<1>5. c # d
  BY <1>3, <1>4
<1>6. g[T \ {d}] = c.size + g[(T \ {d}) \ {c}] /\ g[T \ {c}] = d.size + g[(T \ {c}) \ {d}]
  <2>1. T \ {d} \notin B /\ T \ {c} \notin B
    BY <1>2, <1>3, <1>4
  <2> QED
    BY <2>1, <1>5
<1>7. (T \ {d}) \ {c} = (T \ {c}) \ {d}
  OBVIOUS
<1>8. c.size \in Nat /\ d.size \in Nat /\ g[(T \ {d}) \ {c}] \in Nat
  <2>1. (T \ {d}) \ {c} \in SUBSET S
    OBVIOUS
  <2>2. c.size \in Nat /\ d.size \in Nat
    BY DEF Context
  <2> QED
    BY <2>1, <2>2, FoldSize
<1> DEFINE x == g[(T \ {d}) \ {c}]
<1>9. g[T] = d.size + (c.size + x) /\ c.size + g[T \ {c}] = c.size + (d.size + x)
  BY <1>4, <1>6, <1>7
<1>10. c.size \in Nat /\ d.size \in Nat /\ x \in Nat
  BY <1>8
<1> HIDE DEF x
<1>11. d.size + (c.size + x) = c.size + (d.size + x)
  BY <1>10
<1> QED
  BY <1>3, <1>9, <1>11

\* What a stack adds to the pages of a set, and takes from them
LEMMA PagesWithout ==
  ASSUME NEW S, IsFiniteSet(S), S \subseteq Context, NEW c \in S
  PROVE  /\ Pages(S) \in Nat
         /\ Pages(S) = Pages(S \ {c}) + c.size
         /\ Pages(S \ {c}) \in Nat
<1>1. PICK g : Unfolds(g, S)
  BY FoldExists
<1>2. IsFiniteSet(S \ {c})
  BY FS_Subset
<1>3. PICK h : Unfolds(h, S \ {c})
  BY <1>2, FoldExists
<1>4. Pages(S) = g[S] /\ Pages(S \ {c}) = h[S \ {c}]
  BY <1>1, <1>2, <1>3, FoldOfStacks
<1>5. h[S \ {c}] = g[S \ {c}]
  <2> DEFINE R == S \ {c}
  <2>1. Unfolds(h, R) /\ R \subseteq S /\ R \subseteq R
    BY <1>3
  <2> HIDE DEF R
  <2>2. g[R] = h[R]
    BY <1>1, <2>1, FoldAgrees
  <2> QED
    BY <2>2 DEF R
<1>6. g[S] = c.size + g[S \ {c}]
  BY <1>1, FoldAnyOrder
<1>7. g[S] \in Nat /\ g[S \ {c}] \in Nat
  BY <1>1, FoldSize
<1>8. c.size \in Nat
  BY DEF Context
<1> QED
  BY <1>4, <1>5, <1>6, <1>7, <1>8

LEMMA PagesWith ==
  ASSUME NEW S, IsFiniteSet(S), S \subseteq Context, NEW c \in Context, c \notin S
  PROVE  Pages(S \cup {c}) = Pages(S) + c.size /\ Pages(S) \in Nat
<1>1. IsFiniteSet(S \cup {c})
  BY FS_AddElement
<1>2. (S \cup {c}) \ {c} = S
  OBVIOUS
<1> DEFINE Z == S \cup {c}
<1>3. IsFiniteSet(Z) /\ Z \subseteq Context /\ c \in Z /\ Z \ {c} = S
  BY <1>1, <1>2
<1> HIDE DEF Z
<1>4. Pages(Z) = Pages(Z \ {c}) + c.size /\ Pages(Z \ {c}) \in Nat
  BY <1>3, PagesWithout
<1> QED
  BY <1>3, <1>4 DEF Z

LEMMA NoPages == Pages({}) = 0
<1>1. IsFiniteSet({})
  BY FS_EmptySet
<1>2. PICK g : Unfolds(g, {})
  BY <1>1, FoldExists
<1>3. Pages({}) = g[{}]
  BY <1>1, <1>2, FoldOfStacks
<1> QED
  BY <1>2, <1>3 DEF Unfolds

LEMMA PagesOfPart ==
  ASSUME NEW S, IsFiniteSet(S), S \subseteq Context, NEW Z, Z \subseteq S
  PROVE  Pages(Z) <= Pages(S)
<1> DEFINE B == {T \in SUBSET S : Z \subseteq T /\ ~(Pages(Z) <= Pages(T))}
<1>1. SUFFICES ASSUME B # {} PROVE FALSE
  OBVIOUS
<1>2. PICK T \in B : \A U \in B : U \subseteq T => U = T
  <2>1. B \subseteq SUBSET S
    OBVIOUS
  <2> HIDE DEF B
  <2> QED
    BY <1>1, <2>1, SmallestSet
<1>3. IsFiniteSet(T) /\ IsFiniteSet(Z) /\ T \subseteq Context /\ Z \subseteq Context /\ Z \subseteq T
  BY FS_Subset
<1>4. Pages(Z) \in Nat
  <2>1. CASE Z = {}
    BY <2>1, NoPages
  <2>2. CASE Z # {}
    BY <1>3, <2>2, PagesWithout
  <2> QED
    BY <2>1, <2>2
<1>5. T # Z
  BY <1>4
<1>6. PICK c \in T : c \notin Z
  BY <1>3, <1>5
<1>7. Pages(Z) <= Pages(T \ {c})
  BY <1>2, <1>3, <1>6
<1>8. Pages(T) = Pages(T \ {c}) + c.size /\ Pages(T \ {c}) \in Nat /\ c.size \in Nat
  BY <1>3, PagesWithout DEF Context
<1>9. Pages(Z) <= Pages(T)
  BY <1>4, <1>7, <1>8
<1> QED
  BY <1>9

-----------------------------------------------------------------------------
(* The free list *)

Distinct(list) == \A i, j \in DOMAIN list : list[i].sp = list[j].sp => i = j

LEMMA WithoutLast ==
  ASSUME NEW list \in Seq(Context), list # <<>>, Distinct(list)
  PROVE  /\ Last(list) \in ToSet(list) /\ ToSet(list) \subseteq Context
         /\ Popped(list) \in Seq(Context) /\ Len(Popped(list)) = Len(list) - 1
         /\ Distinct(Popped(list))
         /\ ToSet(Popped(list)) = ToSet(list) \ {Last(list)}
<1> DEFINE n == Len(list)
<1>1. n \in Nat \ {0} /\ \A i \in 1..n : list[i] \in Context
  OBVIOUS
<1>2. /\ Popped(list) \in Seq(Context) /\ Len(Popped(list)) = n - 1
      /\ \A i \in 1..(n - 1) : Popped(list)[i] = list[i]
  <2>1. \A i \in 1..(n - 1) : list[i] \in Context
    BY <1>1
  <2>2. Popped(list) = SubSeq(list, 1, n - 1)
    BY DEF Popped, Front
  <2> HIDE DEF n
  <2>3. /\ n - 1 \in Int /\ (1 <= n - 1 => (n - 1) - 1 + 1 = n - 1) /\ (~(1 <= n - 1) => n - 1 = 0)
        /\ (n - 1) - 1 + 1 = n - 1 /\ \A i \in Int : 1 + i - 1 = i
    BY <1>1
  <2>4. /\ SubSeq(list, 1, n - 1) \in Seq(Context)
        /\ Len(SubSeq(list, 1, n - 1)) = IF 1 <= n - 1 THEN (n - 1) - 1 + 1 ELSE 0
        /\ \A i \in 1..((n - 1) - 1 + 1) : SubSeq(list, 1, n - 1)[i] = list[1 + i - 1]
    BY <2>1, <2>3, SubSeqProperties
  <2> QED
    BY <2>2, <2>3, <2>4
<1>3. Last(list) = list[n] /\ DOMAIN list = 1..n /\ DOMAIN Popped(list) = 1..(n - 1)
  BY <1>1, <1>2 DEF Last
<1> HIDE DEF n
<1>4. ASSUME NEW i \in 1..(n - 1) PROVE i \in 1..n /\ list[i] # list[n]
  BY <1>1, <1>3, <1>4 DEF Distinct
<1>5. \A i \in 1..n : i = n \/ i \in 1..(n - 1)
  BY <1>1
<1>6. n \in 1..n
  BY <1>1
<1>7. Last(list) \in ToSet(list) /\ ToSet(list) \subseteq Context
  BY <1>1, <1>3, <1>6 DEF ToSet
<1>8. ToSet(Popped(list)) = ToSet(list) \ {Last(list)}
  BY <1>2, <1>3, <1>4, <1>5 DEF ToSet
<1>9. Distinct(Popped(list))
  BY <1>2, <1>3, <1>4 DEF Distinct
<1> QED
  BY <1>2, <1>7, <1>8, <1>9 DEF n

LEMMA WithAnother ==
  ASSUME NEW list \in Seq(Context), Distinct(list), NEW c \in Context,
         \A d \in ToSet(list) : d.sp # c.sp
  PROVE  /\ Append(list, c) \in Seq(Context) /\ Len(Append(list, c)) = Len(list) + 1
         /\ Distinct(Append(list, c))
         /\ ToSet(Append(list, c)) = ToSet(list) \cup {c}
<1> DEFINE n == Len(list)
           longer == Append(list, c)
<1>1. n \in Nat /\ DOMAIN list = 1..n
  OBVIOUS
<1>2. /\ longer \in Seq(Context) /\ Len(longer) = n + 1 /\ DOMAIN longer = 1..(n + 1)
      /\ \A i \in 1..n : longer[i] = list[i]
      /\ longer[n + 1] = c
  OBVIOUS
<1> HIDE DEF n, longer
<1>3. \A i \in 1..(n + 1) : i = n + 1 \/ i \in 1..n
  BY <1>1
<1>4. \A i \in 1..n : i \in 1..(n + 1)
  BY <1>1
<1>5. n + 1 \in 1..(n + 1)
  BY <1>1
<1>6. ToSet(longer) = ToSet(list) \cup {c}
  BY <1>1, <1>2, <1>3, <1>4, <1>5 DEF ToSet
<1>7. \A i \in 1..n : list[i].sp # c.sp
  BY <1>1 DEF ToSet
<1>8. Distinct(longer)
  BY <1>1, <1>2, <1>3, <1>7 DEF Distinct
<1> QED
  BY <1>2, <1>6, <1>8 DEF n, longer

LEMMA WithoutFirst ==
  ASSUME NEW list \in Seq(Context), Distinct(list), NEW k \in 0..Len(list)
  PROVE  /\ Collected(list, k) \in Seq(Context) /\ Len(Collected(list, k)) = Len(list) - k
         /\ Distinct(Collected(list, k))
         /\ ToSet(Collected(list, k)) = {list[i] : i \in (k + 1)..Len(list)}
<1> DEFINE n == Len(list)
           rest == Collected(list, k)
<1>1. n \in Nat /\ DOMAIN list = 1..n /\ k \in 0..n /\ \A i \in 1..n : list[i] \in Context
  OBVIOUS
<1>2. /\ rest \in Seq(Context) /\ Len(rest) = n - k
      /\ \A i \in 1..(n - k) : rest[i] = list[k + i]
  <2>1. \A i \in (k + 1)..n : list[i] \in Context
    BY <1>1
  <2>2. n - (k + 1) + 1 = n - k /\ \A i \in Int : (k + 1) + i - 1 = k + i
    BY <1>1
  <2>3. k + 1 \in Int /\ n \in Int
    BY <1>1
  <2>4. /\ SubSeq(list, k + 1, n) \in Seq(Context)
        /\ Len(SubSeq(list, k + 1, n)) = IF k + 1 <= n THEN n - (k + 1) + 1 ELSE 0
        /\ \A i \in 1..(n - (k + 1) + 1) : SubSeq(list, k + 1, n)[i] = list[k + 1 + i - 1]
    BY <2>1, <2>3, SubSeqProperties
  <2>5. rest = SubSeq(list, k + 1, n)
    BY DEF Collected
  <2> HIDE DEF n, rest
  <2>6. (IF k + 1 <= n THEN n - (k + 1) + 1 ELSE 0) = n - k
    BY <1>1
  <2>7. \A i \in 1..(n - k) : k + 1 + i - 1 = k + i
    BY <1>1
  <2> QED
    BY <2>2, <2>4, <2>5, <2>6, <2>7
<1> HIDE DEF n, rest
<1>3. DOMAIN rest = 1..(n - k)
  BY <1>2
<1>4. \A i \in 1..(n - k) : k + i \in (k + 1)..n /\ k + i \in 1..n
  BY <1>1
<1>5. \A i \in (k + 1)..n : i - k \in 1..(n - k) /\ k + (i - k) = i
  BY <1>1
<1>6. ToSet(rest) = {list[i] : i \in (k + 1)..n}
  <2>1. ASSUME NEW i \in 1..(n - k) PROVE rest[i] \in {list[j] : j \in (k + 1)..n}
    BY <1>2, <1>4
  <2>2. ASSUME NEW i \in (k + 1)..n PROVE list[i] \in {rest[j] : j \in 1..(n - k)}
    <3>1. i - k \in 1..(n - k) /\ rest[i - k] = list[i]
      BY <1>2, <1>5
    <3> QED
      BY <3>1
  <2> QED
    BY <1>3, <2>1, <2>2 DEF ToSet
<1>7. \A i, j \in 1..(n - k) : k + i = k + j => i = j
  BY <1>1
<1>8. Distinct(rest)
  <2>1. ASSUME NEW i \in 1..(n - k), NEW j \in 1..(n - k), rest[i].sp = rest[j].sp PROVE i = j
    <3>1. rest[i] = list[k + i] /\ rest[j] = list[k + j]
      BY <1>2
    <3>2. k + i \in 1..n /\ k + j \in 1..n
      BY <1>4
    <3>3. k + i = k + j
      BY <1>1, <2>1, <3>1, <3>2 DEF Distinct
    <3> QED
      BY <1>7, <3>3
  <2> QED
    BY <1>3, <2>1 DEF Distinct
<1> QED
  BY <1>2, <1>6, <1>8 DEF n, rest

LEMMA CachedIsFinite ==
  ASSUME NEW list \in Seq(Context)
  PROVE  IsFiniteSet(ToSet(list)) /\ ToSet(list) \subseteq Context
<1>1. IsFiniteSet(DOMAIN list) /\ \A i \in DOMAIN list : list[i] \in Context
  BY FS_Interval
<1>2. list \in Surjection(DOMAIN list, ToSet(list))
  BY DEF Surjection, ToSet
<1> QED
  BY <1>1, <1>2, FS_Surjection DEF ToSet

-----------------------------------------------------------------------------
(* The stacks *)

Cached == ToSet(free_list)

\* Each stack is one client's or is cached once, and the origin allocator holds it with
\* its size, until the pool is destroyed.
StacksLive ==
  /\ Distinct(free_list)
  /\ used \cap Cached = {}
  /\ \A c, d \in used \cup Cached : c.sp = d.sp => c = d
  /\ \A c \in used \cup Cached : mapped[c.sp] = c.size

LiveInv ==
  /\ conf \in Config
  /\ stack_size \in Sizes
  /\ stack_offset \in {0, Offset}
  /\ free_list \in Seq(Context)
  /\ used \subseteq Context
  /\ mapped \in [Stack -> Nat]
  /\ pool_pc \in [Client -> {"client", "gc_used", "gc_free", "gc_lock", "resize"}]
  /\ new_size \in [Client -> Sizes \cup {0}]
  /\ \A t \in Client : pool_pc[t] = "resize" => new_size[t] \in Sizes
  /\ resizes \in 0..MaxResize
  /\ destroyed \in BOOLEAN
  /\ freed_twice = {}
  /\ IF destroyed THEN used = {} ELSE StacksLive

LEMMA UsedStacksLive == LiveInv => UsedIsLive
<1> SUFFICES ASSUME LiveInv PROVE UsedIsLive
  OBVIOUS
<1>1. CASE destroyed
  BY <1>1 DEF LiveInv, UsedIsLive
<1>2. CASE ~destroyed
  <2>1. \A i \in DOMAIN free_list : free_list[i] \in Cached
    BY DEF Cached, ToSet
  <2> QED
    BY <1>2, <2>1 DEF LiveInv, StacksLive, UsedIsLive
<1> QED
  BY <1>1, <1>2 DEF LiveInv

\* What is given back was mapped.
LEMMA GiveBackLive ==
  ASSUME LiveInv, ~destroyed, NEW S, S \subseteq used \cup Cached, GiveBack(S)
  PROVE  /\ mapped' \in [Stack -> Nat]
         /\ freed_twice' = {}
         /\ \A c \in (used \cup Cached) \ S : mapped'[c.sp] = c.size
<1>1. \A c \in used \cup Cached : c \in Context /\ mapped[c.sp] = c.size
  BY CachedIsFinite DEF LiveInv, StacksLive, Cached
<1> DEFINE sps == {c.sp : c \in S}
<1>2. mapped' = [s \in Stack |-> IF s \in sps THEN 0 ELSE mapped[s]]
  BY DEF GiveBack
<1>3. freed_twice' = freed_twice \cup {s \in sps : mapped[s] = 0}
  BY DEF GiveBack
<1>4. \A c \in Context : c.sp \in Stack /\ c.size \in Nat \ {0}
  BY DEF Context
<1>5. \A s \in sps : mapped[s] # 0
  BY <1>1, <1>4
<1>6. \A c \in (used \cup Cached) \ S : c.sp \notin sps
  BY DEF LiveInv, StacksLive
<1> HIDE DEF sps
<1>7. mapped' \in [Stack -> Nat]
  BY <1>2 DEF LiveInv
<1>8. freed_twice' = {}
  BY <1>3, <1>5 DEF LiveInv
<1>9. ASSUME NEW c \in (used \cup Cached) \ S PROVE mapped'[c.sp] = c.size
  BY <1>1, <1>2, <1>4, <1>6
<1> QED
  BY <1>7, <1>8, <1>9

\* The collector gives stacks back from the front of the list, and then the free limits
\* are what these leave, or nothing when the list is empty.
LEMMA CollectedFree ==
  ASSUME NEW t \in Client, GcCollect(t), free_list \in Seq(Context)
  PROVE  \E k \in 0..Len(free_list) :
           /\ GiveBack({free_list[i] : i \in 1..k})
           /\ free_list' = Collected(free_list, k)
           /\ \/ SetFree(FreeAfter[k])
              \/ k = Len(free_list) /\ SetFree([number |-> 0, size |-> 0])
<1> DEFINE len == Len(free_list)
           More(n) == FreeAfter[n].size > Kept(free_size) \/ FreeAfter[n].number > Kept(free_number)
           Leashed(n) == n > 0 /\ n = conf.gc_number
           stops == {n \in 0..len : n = len \/ ~More(n) \/ Leashed(n)}
           k == Min(stops)
<1>1. stops \subseteq Nat /\ len \in stops
  OBVIOUS
<1>2. /\ GiveBack({free_list[i] : i \in 1..k}) /\ free_list' = Collected(free_list, k)
      /\ SetFree(IF More(k) /\ ~Leashed(k) THEN [number |-> 0, size |-> 0] ELSE FreeAfter[k])
  BY DEF GcCollect
<1>3. k \in 0..len /\ (k = len \/ ~More(k) \/ Leashed(k))
  <2>1. \A n \in stops : n \in 0..len /\ (n = len \/ ~More(n) \/ Leashed(n))
    OBVIOUS
  <2> HIDE DEF stops, More, Leashed
  <2> QED
    BY <1>1, <2>1, SmallestNumber
<1> HIDE DEF k, More, Leashed
<1> QED
  BY <1>2, <1>3

\* The stack that is taken off the list, if any, is cached no more.
LEMMA PopSmallLive ==
  ASSUME LiveInv, ~destroyed, PopSmall
  PROVE  /\ free_list' \in Seq(Context)
         /\ Distinct(free_list')
         /\ Cached' \subseteq Cached
<1>1. CASE free_list = <<>>
  BY <1>1 DEF PopSmall, LiveInv, StacksLive, Cached, Distinct
<1>2. CASE free_list # <<>>
  BY <1>2, WithoutLast DEF PopSmall, LiveInv, StacksLive, Cached
<1> QED
  BY <1>1, <1>2

LEMMA LiveStep == LiveInv /\ [PoolNext]_poolVars => LiveInv'
<1> SUFFICES ASSUME LiveInv, [PoolNext]_poolVars PROVE LiveInv'
  OBVIOUS
<1> USE StackPoolAssumption
<1>cached. Cached \subseteq Context
  BY CachedIsFinite DEF LiveInv, Cached
<1>1. ASSUME NEW t \in Client, Reuse(t) PROVE LiveInv'
  <2>1. ~destroyed /\ free_list # <<>> /\ free_list' = Popped(free_list) /\ used' = used \cup {Last(free_list)}
    BY <1>1 DEF Reuse, AtPool, Use
  <2>2. /\ free_list' \in Seq(Context) /\ Distinct(free_list') /\ Last(free_list) \in Cached
        /\ Cached' = Cached \ {Last(free_list)}
    BY <2>1, WithoutLast DEF LiveInv, StacksLive, Cached
  <2>3. StacksLive'
    BY <1>1, <2>1, <2>2 DEF Reuse, LiveInv, StacksLive
  <2> QED
    BY <1>1, <1>cached, <2>1, <2>2, <2>3 DEF Reuse, LiveInv
<1>2. ASSUME NEW t \in Client, Allocate(t) PROVE LiveInv'
  <2>1. ~destroyed /\ ~destroyed' /\ free_list' \in Seq(Context) /\ Distinct(free_list') /\ Cached' \subseteq Cached
    BY <1>2, PopSmallLive DEF Allocate, AtPool
  <2>2. CASE UNCHANGED <<mapped, used, used_number, used_size, stack_offset>>
    <3>1. StacksLive'
      BY <2>1, <2>2 DEF LiveInv, StacksLive
    <3> QED
      BY <1>2, <2>1, <2>2, <3>1 DEF Allocate, LiveInv
  <2>3. ASSUME NEW s \in Stack, NEW c, c = [sp |-> s, size |-> stack_size + Offset],
               mapped[s] = 0, mapped' = [mapped EXCEPT ![s] = c.size], Use(c),
               stack_offset' = c.size - stack_size
        PROVE  LiveInv'
    <3>1. stack_size \in Nat \ {0} /\ Offset \in Nat /\ stack_size + Offset \in Nat \ {0}
      BY DEF LiveInv, StackPoolAssumption
    <3>2. c \in Context /\ c.sp = s /\ c.size = stack_size + Offset /\ stack_offset' = Offset
      BY <2>3, <3>1 DEF Context
    <3>3. \A d \in used \cup Cached : d \in Context /\ d.sp # s
      BY <2>1, <2>3, <1>cached DEF LiveInv, StacksLive, Context
    <3>4. used' = used \cup {c}
      BY <2>3 DEF Use
    <3>5. mapped' \in [Stack -> Nat] /\ mapped'[s] = c.size /\ \A x \in Stack \ {s} : mapped'[x] = mapped[x]
      BY <2>3, <3>1, <3>2 DEF LiveInv
    <3>6. StacksLive'
      <4>1. \A d \in used \cup Cached : mapped'[d.sp] = d.size
        BY <2>1, <3>3, <3>5 DEF LiveInv, StacksLive, Context
      <4> QED
        BY <2>1, <3>2, <3>3, <3>4, <3>5, <4>1 DEF LiveInv, StacksLive
    <3> QED
      BY <1>2, <2>1, <3>2, <3>4, <3>5, <3>6 DEF Allocate, LiveInv
  <2> QED
    BY <1>2, <2>2, <2>3 DEF Allocate
<1>3. ASSUME NEW t \in Client, NEW c \in used, Deallocate(t, c) PROVE LiveInv'
  <2>1. ~destroyed /\ ~destroyed' /\ used' = used \ {c} /\ c \in Context
    BY <1>3 DEF Deallocate, AtPool, Unused, LiveInv
  <2>2. CASE Fits(c)
    <3>1. free_list' = Append(free_list, c) /\ UNCHANGED <<mapped, freed_twice>>
      BY <1>3, <2>2 DEF Deallocate
    <3>2. \A d \in Cached : d.sp # c.sp
      BY <2>1 DEF LiveInv, StacksLive
    <3>3. free_list' \in Seq(Context) /\ Distinct(free_list') /\ Cached' = Cached \cup {c}
      BY <2>1, <3>1, <3>2, WithAnother DEF LiveInv, StacksLive, Cached
    <3>4. StacksLive'
      BY <2>1, <3>1, <3>3 DEF LiveInv, StacksLive
    <3> QED
      BY <1>3, <2>1, <3>1, <3>3, <3>4 DEF Deallocate, GotoPool, LiveInv
  <2>3. CASE ~Fits(c)
    <3>1. GiveBack({c}) /\ UNCHANGED free_list
      BY <1>3, <2>3 DEF Deallocate
    <3>2. /\ mapped' \in [Stack -> Nat] /\ freed_twice' = {}
          /\ \A d \in (used \cup Cached) \ {c} : mapped'[d.sp] = d.size
      BY <2>1, <3>1, GiveBackLive
    <3>3. c \notin Cached /\ Cached' = Cached
      BY <2>1, <3>1 DEF LiveInv, StacksLive, Cached
    <3>4. StacksLive'
      BY <2>1, <3>1, <3>2, <3>3 DEF LiveInv, StacksLive
    <3> QED
      BY <1>3, <2>1, <3>1, <3>2, <3>4 DEF Deallocate, GotoPool, LiveInv
  <2> QED
    BY <2>2, <2>3
<1>4. ASSUME NEW t \in Client, Gc(t) \/ GcReadUsed(t) \/ GcReadFree(t) PROVE LiveInv'
  BY <1>4 DEF Gc, GcReadUsed, GcReadFree, GotoPool, AtPool, LiveInv, StacksLive, Cached
<1>5. ASSUME NEW t \in Client, GcCollect(t) PROVE LiveInv'
  <2>1. PICK k \in 0..Len(free_list) :
          GiveBack({free_list[i] : i \in 1..k}) /\ free_list' = Collected(free_list, k)
    BY <1>5, CollectedFree DEF LiveInv
  <2>2. ~destroyed /\ ~destroyed' /\ used' = used
    BY <1>5 DEF GcCollect, AtPool
  <2> DEFINE gone == {free_list[i] : i \in 1..k}
  <2>3. gone \subseteq Cached
    BY DEF Cached, ToSet, LiveInv
  <2>4. /\ mapped' \in [Stack -> Nat] /\ freed_twice' = {}
        /\ \A d \in (used \cup Cached) \ gone : mapped'[d.sp] = d.size
    BY <2>1, <2>2, <2>3, GiveBackLive
  <2>5. free_list' \in Seq(Context) /\ Distinct(free_list') /\ Cached' = {free_list[i] : i \in (k + 1)..Len(free_list)}
    BY <2>1, <2>2, WithoutFirst DEF LiveInv, StacksLive, Cached
  <2>6. Cached' \subseteq Cached \ gone
    <3>1. ASSUME NEW i \in (k + 1)..Len(free_list), NEW j \in 1..k
          PROVE  free_list[i] # free_list[j] /\ i \in DOMAIN free_list
      BY <2>2 DEF LiveInv, StacksLive, Distinct
    <3>2. ASSUME NEW d \in Cached' PROVE d \in Cached /\ d \notin gone
      <4>1. PICK i \in (k + 1)..Len(free_list) : d = free_list[i]
        BY <2>5
      <4>2. i \in DOMAIN free_list
        BY <2>2 DEF LiveInv
      <4> QED
        BY <3>1, <4>1, <4>2 DEF Cached, ToSet
    <3> QED
      BY <3>2
  <2> HIDE DEF gone
  <2>7. StacksLive'
    BY <2>2, <2>3, <2>4, <2>5, <2>6 DEF LiveInv, StacksLive
  <2> QED
    BY <1>5, <2>2, <2>4, <2>5, <2>7 DEF GcCollect, GotoPool, LiveInv
<1>6. ASSUME NEW t \in Client, StoreStackSize(t) PROVE LiveInv'
  BY <1>6 DEF StoreStackSize, GotoPool, AtPool, LiveInv, StacksLive, Cached
<1>7. ASSUME NEW t \in Client, free_list = <<>>, Configure(t) PROVE LiveInv'
  <2>1. ~destroyed /\ GiveBack({}) /\ UNCHANGED <<free_list, used, destroyed>>
    <3>1. ToSet(free_list) = {}
      BY <1>7 DEF ToSet
    <3> QED
      BY <1>7, <3>1 DEF Configure, Clear, SetStackSize, ClearList, AtPool
  <2>2. mapped' = mapped /\ freed_twice' = {}
    BY <2>1 DEF GiveBack, LiveInv
  <2>3. StacksLive'
    BY <2>1, <2>2 DEF LiveInv, StacksLive, Cached
  <2>4. CASE Clear(t)
    BY <1>7, <2>1, <2>2, <2>3, <2>4 DEF Clear, LiveInv, StackPoolAssumption
  <2>5. ASSUME NEW size \in Sizes, SetStackSize(t, size) PROVE LiveInv'
    BY <1>7, <2>1, <2>2, <2>3, <2>5 DEF SetStackSize, GotoPool, LiveInv, StackPoolAssumption
  <2> QED
    BY <1>7, <2>4, <2>5 DEF Configure
<1>8. CASE Destroy
  <2>1. ~destroyed /\ GiveBack(Cached) /\ used = {} /\ UNCHANGED <<free_list, used>> /\ destroyed'
    BY <1>8 DEF Destroy, ClearList, Cached
  <2>2. mapped' \in [Stack -> Nat] /\ freed_twice' = {}
    BY <2>1, GiveBackLive
  <2> QED
    BY <1>8, <2>1, <2>2 DEF Destroy, LiveInv
<1>9. CASE Destroyed \/ UNCHANGED poolVars
  BY <1>9 DEF Destroyed, poolVars, LiveInv, StacksLive, Cached
<1> QED
  BY <1>1, <1>2, <1>3, <1>4, <1>5, <1>6, <1>7, <1>8, <1>9 DEF PoolNext, PoolStep, MayConfigure

-----------------------------------------------------------------------------
(* The limits *)

\* limits_ count what is there, so that none of their subtractions saturates.
LimitsCounted ==
  /\ used_number = Cardinality(used)
  /\ used_size = Pages(used)
  /\ free_number = Len(free_list)
  /\ free_size = Pages(Cached)

CountInv ==
  /\ used_number \in Nat /\ used_size \in Nat /\ free_number \in Nat /\ free_size \in Nat
  /\ used_seen \in [Client -> Nat \X Nat]
  /\ IsFiniteSet(used)
  /\ ~destroyed => LimitsCounted

LEMMA UsedCounts ==
  ASSUME LiveInv, CountInv, ~destroyed, NEW c \in Context, c \notin used, Use(c)
  PROVE  /\ IsFiniteSet(used') /\ used_number' \in Nat /\ used_size' \in Nat
         /\ used_number' = Cardinality(used') /\ used_size' = Pages(used')
         /\ used_number' = used_number + 1 /\ used_size' = used_size + c.size
<1>1. used' = used \cup {c} /\ used_number' = used_number + 1 /\ used_size' = used_size + c.size
  BY DEF Use
<1>2. IsFiniteSet(used) /\ used \subseteq Context /\ used_number = Cardinality(used) /\ used_size = Pages(used)
  BY DEF CountInv, LimitsCounted, LiveInv
<1>3. IsFiniteSet(used \cup {c}) /\ Cardinality(used \cup {c}) = Cardinality(used) + 1
  BY <1>2, FS_AddElement
<1>4. Pages(used \cup {c}) = Pages(used) + c.size
  BY <1>2, PagesWith
<1>5. used_number \in Nat /\ used_size \in Nat /\ c.size \in Nat
  BY DEF CountInv, Context
<1> QED
  BY <1>1, <1>2, <1>3, <1>4, <1>5

LEMMA UnusedCounts ==
  ASSUME LiveInv, CountInv, ~destroyed, NEW c \in used, Unused(c)
  PROVE  /\ IsFiniteSet(used') /\ used_number' \in Nat /\ used_size' \in Nat
         /\ used_number' = Cardinality(used') /\ used_size' = Pages(used')
         /\ used_number' <= used_number /\ used_size' = used_size - c.size
<1>1. /\ used' = used \ {c}
      /\ used_size' = IF used_size >= c.size THEN used_size - c.size ELSE 0
      /\ used_number' = IF used_number > 0 THEN used_number - 1 ELSE used_number
  BY DEF Unused
<1>2. IsFiniteSet(used) /\ used \subseteq Context /\ used_number = Cardinality(used) /\ used_size = Pages(used)
  BY DEF CountInv, LimitsCounted, LiveInv
<1>3. IsFiniteSet(used \ {c}) /\ Cardinality(used \ {c}) = Cardinality(used) - 1
  BY <1>2, FS_RemoveElement
<1>4. Pages(used) = Pages(used \ {c}) + c.size /\ Pages(used \ {c}) \in Nat
  BY <1>2, PagesWithout
<1>5. Cardinality(used \ {c}) \in Nat /\ used_number \in Nat /\ used_size \in Nat /\ c.size \in Nat
  BY <1>2, <1>3, FS_CardinalityType DEF CountInv, Context
<1>6. used_number > 0 /\ used_size >= c.size
  BY <1>2, <1>3, <1>4, <1>5
<1> QED
  BY <1>1, <1>2, <1>3, <1>4, <1>5, <1>6

\* The limits after the last context was popped
LEMMA PoppedCounts ==
  ASSUME LiveInv, CountInv, ~destroyed, free_list # <<>>
  PROVE  /\ Dropped(Free, Last(free_list), Len(free_list) - 1)
              = [number |-> Len(free_list) - 1, size |-> Pages(Cached \ {Last(free_list)})]
         /\ Len(free_list) - 1 \in Nat /\ Pages(Cached \ {Last(free_list)}) \in Nat
         /\ free_size = Pages(Cached \ {Last(free_list)}) + Last(free_list).size
<1> DEFINE c == Last(free_list)
<1>1. Len(free_list) \in Nat \ {0}
  BY DEF LiveInv
<1>2. IsFiniteSet(Cached) /\ Cached \subseteq Context /\ c \in Cached
  BY CachedIsFinite, WithoutLast DEF LiveInv, StacksLive, Cached
<1> HIDE DEF c
<1>3. Pages(Cached) = Pages(Cached \ {c}) + c.size /\ Pages(Cached \ {c}) \in Nat
  BY <1>2, PagesWithout
<1>4. c.size \in Nat
  BY <1>2 DEF Context
<1>5. free_number = Len(free_list) /\ free_size = Pages(Cached)
  BY DEF CountInv, LimitsCounted
<1>6. Dropped(Free, c, Len(free_list) - 1)
        = [number |-> Len(free_list) - 1, size |-> Pages(Cached \ {c})]
  BY <1>1, <1>3, <1>4, <1>5 DEF Dropped, Free
<1> QED
  BY <1>1, <1>3, <1>5, <1>6 DEF c

\* ... and after n were popped from the front
Behind(n) == {free_list[i] : i \in (n + 1)..Len(free_list)}

LEMMA BehindShrinks ==
  ASSUME LiveInv, ~destroyed, NEW n \in 1..Len(free_list)
  PROVE  /\ IsFiniteSet(Behind(n - 1)) /\ Behind(n - 1) \subseteq Context
         /\ free_list[n] \in Behind(n - 1)
         /\ Behind(n - 1) \ {free_list[n]} = Behind(n)
<1> DEFINE len == Len(free_list)
<1>1. len \in Nat /\ DOMAIN free_list = 1..len /\ n \in 1..len /\ \A i \in 1..len : free_list[i] \in Context
  BY DEF LiveInv
<1> HIDE DEF len
<1>2. (n - 1) + 1 = n /\ n..len \subseteq 1..len /\ n \in n..len
  BY <1>1
<1>3. \A i \in n..len : i = n \/ i \in (n + 1)..len
  BY <1>1
<1>4. \A i \in (n + 1)..len : i \in n..len /\ i # n
  BY <1>1
<1>5. Behind(n - 1) = {free_list[i] : i \in n..len} /\ Behind(n) = {free_list[i] : i \in (n + 1)..len}
  BY <1>2 DEF Behind, len
<1>6. Behind(n - 1) \subseteq Cached /\ Behind(n - 1) \subseteq Context
  BY <1>1, <1>2, <1>5 DEF Cached, ToSet
<1>7. IsFiniteSet(Behind(n - 1))
  BY <1>6, CachedIsFinite, FS_Subset DEF LiveInv, Cached
<1>8. \A i \in (n + 1)..len : free_list[i] # free_list[n]
  BY <1>1, <1>2, <1>4 DEF LiveInv, StacksLive, Distinct
<1>9. Behind(n - 1) \ {free_list[n]} = Behind(n)
  BY <1>3, <1>4, <1>5, <1>8
<1> QED
  BY <1>2, <1>5, <1>6, <1>7, <1>9

LEMMA CollectedCounts ==
  ASSUME LiveInv, CountInv, ~destroyed
  PROVE  /\ \A n \in 0..Len(free_list) :
              FreeAfter[n] = [number |-> Len(free_list) - n, size |-> Pages(Behind(n))]
         /\ \A n \in 0..Len(free_list) : Pages(Behind(n)) \in Nat
<1> DEFINE len == Len(free_list)
           left == [n \in 0..len |-> [number |-> len - n, size |-> Pages(Behind(n))]]
           Pops(f) == f = [n \in 0..len |-> IF n = 0 THEN Free ELSE Dropped(f[n - 1], free_list[n], len - n)]
<1>1. len \in Nat /\ free_number = len /\ free_size = Pages(Cached) /\ free_size \in Nat
  BY DEF LiveInv, CountInv, LimitsCounted
<1>2. Behind(0) = Cached
  <2>1. DOMAIN free_list = 1..len
    BY DEF LiveInv
  <2> QED
    BY <2>1 DEF Behind, Cached, ToSet
<1>3. ASSUME NEW n \in 1..len
      PROVE  Pages(Behind(n - 1)) = Pages(Behind(n)) + free_list[n].size /\ Pages(Behind(n)) \in Nat
  BY BehindShrinks, PagesWithout
<1>4. \A n \in 1..len : free_list[n].size \in Nat
  <2>1. \A n \in 1..len : free_list[n] \in Context
    BY DEF LiveInv
  <2> QED
    BY <2>1 DEF Context
<1>5. \A n \in 0..len : n = 0 \/ (n \in 1..len /\ n - 1 \in 0..len /\ len - (n - 1) > 0 /\ (len - (n - 1)) - 1 = len - n)
  BY <1>1
<1>6. \A n \in 0..len : Pages(Behind(n)) \in Nat
  BY <1>1, <1>2, <1>3, <1>5
<1>7. FreeAfter = CHOOSE f : Pops(f)
  BY DEF FreeAfter
<1> HIDE DEF len
<1>8. ASSUME NEW n \in 1..len
      PROVE  left[n] = Dropped(left[n - 1], free_list[n], len - n)
  <2>1. n \in 0..len /\ n - 1 \in 0..len /\ len - (n - 1) > 0 /\ (len - (n - 1)) - 1 = len - n
    BY <1>1
  <2>2. left[n - 1] = [number |-> len - (n - 1), size |-> Pages(Behind(n - 1))]
    BY <2>1
  <2>3. Dropped(left[n - 1], free_list[n], len - n)
          = [number |-> len - n, size |-> Pages(Behind(n - 1)) - free_list[n].size]
    <3>1. Pages(Behind(n - 1)) >= free_list[n].size
      BY <1>3, <1>4
    <3> HIDE DEF left
    <3> QED
      BY <2>1, <2>2, <3>1 DEF Dropped
  <2>4. Pages(Behind(n - 1)) - free_list[n].size = Pages(Behind(n))
    BY <1>3, <1>4
  <2>5. left[n] = [number |-> len - n, size |-> Pages(Behind(n))]
    BY <2>1
  <2> QED
    BY <2>3, <2>4, <2>5
<1>9. left[0] = Free
  BY <1>1, <1>2 DEF Free
<1>10. Pops(left)
  <2>1. left = [n \in 0..len |-> left[n]]
    OBVIOUS
  <2> HIDE DEF left
  <2>2. \A n \in 0..len : n # 0 => n \in 1..len
    BY <1>1
  <2>3. \A n \in 0..len : left[n] = IF n = 0 THEN Free ELSE Dropped(left[n - 1], free_list[n], len - n)
    BY <1>8, <1>9, <2>2
  <2> QED
    BY <2>1, <2>3
<1>11. Pops(FreeAfter)
  BY <1>7, <1>10
<1>12. \A n \in 0..len : FreeAfter[n] = left[n]
  <2> DEFINE wrong == {n \in 0..len : FreeAfter[n] # left[n]}
  <2>1. SUFFICES ASSUME wrong # {} PROVE FALSE
    OBVIOUS
  <2>2. wrong \subseteq Nat /\ \A n \in wrong : n \in 0..len /\ FreeAfter[n] # left[n]
    BY <1>1
  <2>3. \A n \in 0..len : n \notin wrong => FreeAfter[n] = left[n]
    OBVIOUS
  <2> DEFINE n == Min(wrong)
  <2> HIDE DEF wrong, left
  <2>4. n \in wrong /\ \A m \in wrong : n <= m
    BY <2>1, <2>2, SmallestNumber
  <2> HIDE DEF n
  <2>5. n # 0
    BY <1>1, <1>9, <1>11, <2>2, <2>4
  <2>6. n \in 1..len /\ n - 1 \in 0..len /\ ~(n <= n - 1)
    BY <1>1, <2>2, <2>4, <2>5
  <2>7. FreeAfter[n - 1] = left[n - 1]
    BY <2>3, <2>4, <2>6
  <2>8. FreeAfter[n] = Dropped(FreeAfter[n - 1], free_list[n], len - n)
    BY <1>11, <2>2, <2>4, <2>5
  <2> QED
    BY <1>8, <2>2, <2>4, <2>6, <2>7, <2>8
<1> QED
  BY <1>6, <1>12 DEF len

LEMMA PopSmallCounts ==
  ASSUME LiveInv, CountInv, ~destroyed, PopSmall
  PROVE  /\ free_number' \in Nat /\ free_size' \in Nat
         /\ free_number' = Len(free_list') /\ free_size' = Pages(Cached')
         /\ free_size' <= free_size
<1>1. CASE free_list = <<>>
  <2>1. UNCHANGED <<free_list, free_number, free_size>>
    BY <1>1 DEF PopSmall
  <2> QED
    BY <2>1 DEF CountInv, LimitsCounted, Cached
<1>2. CASE free_list # <<>>
  <2>1. /\ SetFree(Dropped(Free, Last(free_list), Len(free_list) - 1))
        /\ free_list' = Popped(free_list)
    BY <1>2 DEF PopSmall
  <2>2. Len(free_list') = Len(free_list) - 1 /\ Cached' = Cached \ {Last(free_list)} /\ Last(free_list) \in Cached
    BY <1>2, <2>1, WithoutLast DEF LiveInv, StacksLive, Cached
  <2>3. Last(free_list).size \in Nat
    BY <2>2, CachedIsFinite DEF LiveInv, Cached, Context
  <2>4. SetFree([number |-> Len(free_list) - 1, size |-> Pages(Cached \ {Last(free_list)})])
    BY <1>2, <2>1, PoppedCounts
  <2>5. free_number' = Len(free_list) - 1 /\ free_size' = Pages(Cached \ {Last(free_list)})
    BY <2>4 DEF SetFree
  <2> QED
    BY <1>2, <2>2, <2>3, <2>5, PoppedCounts
<1> QED
  BY <1>1, <1>2

LEMMA CountStep == LiveInv /\ CountInv /\ [PoolNext]_poolVars => CountInv'
<1> SUFFICES ASSUME LiveInv, CountInv, [PoolNext]_poolVars PROVE CountInv'
  OBVIOUS
<1>1. ASSUME NEW t \in Client, Reuse(t) PROVE CountInv'
  <2>1. ~destroyed /\ free_list # <<>> /\ free_list' = Popped(free_list) /\ Use(Last(free_list))
        /\ SetFree(Dropped(Free, Last(free_list), Len(free_list) - 1)) /\ UNCHANGED <<used_seen, destroyed>>
    BY <1>1 DEF Reuse, AtPool
  <2>2. /\ Last(free_list) \in Cached /\ Len(free_list') = Len(free_list) - 1
        /\ Cached' = Cached \ {Last(free_list)} /\ Cached \subseteq Context
    BY <2>1, WithoutLast DEF LiveInv, StacksLive, Cached
  <2>3. Last(free_list) \in Context /\ Last(free_list) \notin used
    BY <2>1, <2>2 DEF LiveInv, StacksLive
  <2>4. /\ IsFiniteSet(used') /\ used_number' \in Nat /\ used_size' \in Nat
        /\ used_number' = Cardinality(used') /\ used_size' = Pages(used')
    BY <2>1, <2>3, UsedCounts
  <2>5. /\ free_number' = Len(free_list') /\ free_number' \in Nat
        /\ free_size' = Pages(Cached') /\ free_size' \in Nat
    <3>1. SetFree([number |-> Len(free_list) - 1, size |-> Pages(Cached \ {Last(free_list)})])
      BY <2>1, PoppedCounts
    <3>2. free_number' = Len(free_list) - 1 /\ free_size' = Pages(Cached \ {Last(free_list)})
      BY <3>1 DEF SetFree
    <3> QED
      BY <2>1, <2>2, <3>2, PoppedCounts
  <2> QED
    BY <2>1, <2>4, <2>5 DEF CountInv, LimitsCounted
<1>2. ASSUME NEW t \in Client, Allocate(t) PROVE CountInv'
  <2>1. ~destroyed /\ PopSmall /\ UNCHANGED <<used_seen, destroyed>>
    BY <1>2 DEF Allocate, AtPool
  <2>2. /\ free_number' \in Nat /\ free_size' \in Nat
        /\ free_number' = Len(free_list') /\ free_size' = Pages(Cached')
    BY <2>1, PopSmallCounts
  <2>3. CASE UNCHANGED <<mapped, used, used_number, used_size, stack_offset>>
    BY <2>1, <2>2, <2>3 DEF CountInv, LimitsCounted
  <2>4. ASSUME NEW c, c \in Context, c \notin used, Use(c) PROVE CountInv'
    BY <2>1, <2>2, <2>4, UsedCounts DEF CountInv, LimitsCounted
  <2>5. ASSUME NEW s \in Stack, mapped[s] = 0, Use([sp |-> s, size |-> stack_size + Offset])
        PROVE  CountInv'
    <3> DEFINE c == [sp |-> s, size |-> stack_size + Offset]
    <3>1. c \in Context /\ c.sp = s
      BY StackPoolAssumption DEF LiveInv, Context
    <3>2. c \notin used
      BY <2>1, <2>5, <3>1 DEF LiveInv, StacksLive, Context
    <3> QED
      BY <2>4, <2>5, <3>1, <3>2
  <2> QED
    BY <1>2, <2>3, <2>5 DEF Allocate
<1>3. ASSUME NEW t \in Client, NEW c \in used, Deallocate(t, c) PROVE CountInv'
  <2>1. ~destroyed /\ Unused(c) /\ c \in Context /\ UNCHANGED <<used_seen, destroyed>>
    BY <1>3 DEF Deallocate, AtPool, LiveInv
  <2>2. /\ IsFiniteSet(used') /\ used_number' \in Nat /\ used_size' \in Nat
        /\ used_number' = Cardinality(used') /\ used_size' = Pages(used')
    BY <2>1, UnusedCounts
  <2>3. CASE Fits(c)
    <3>1. /\ free_list' = Append(free_list, c)
          /\ free_number' = free_number + 1 /\ free_size' = free_size + c.size
      BY <1>3, <2>3 DEF Deallocate, SetFree
    <3>2. (\A d \in Cached : d.sp # c.sp) /\ c \notin Cached
      BY <2>1 DEF LiveInv, StacksLive
    <3>3. Len(free_list') = Len(free_list) + 1 /\ Cached' = Cached \cup {c}
      BY <2>1, <3>1, <3>2, WithAnother DEF LiveInv, StacksLive, Cached
    <3>4. IsFiniteSet(Cached) /\ Cached \subseteq Context
      BY CachedIsFinite DEF LiveInv, Cached
    <3>5. Pages(Cached \cup {c}) = Pages(Cached) + c.size
      BY <2>1, <3>2, <3>4, PagesWith
    <3>6. c.size \in Nat
      BY <2>1 DEF Context
    <3> QED
      BY <2>1, <2>2, <3>1, <3>3, <3>5, <3>6 DEF CountInv, LimitsCounted
  <2>4. CASE ~Fits(c)
    <3>1. UNCHANGED <<free_list, free_number, free_size>>
      BY <1>3, <2>4 DEF Deallocate
    <3> QED
      BY <2>1, <2>2, <3>1 DEF CountInv, LimitsCounted, Cached
  <2> QED
    BY <2>3, <2>4
<1>4. ASSUME NEW t \in Client, Gc(t) \/ GcReadFree(t) PROVE CountInv'
  BY <1>4 DEF Gc, GcReadFree, limits, CountInv, LimitsCounted, Cached
<1>5. ASSUME NEW t \in Client, GcReadUsed(t) PROVE CountInv'
  BY <1>5 DEF GcReadUsed, limits, CountInv, LimitsCounted, Cached
<1>6. ASSUME NEW t \in Client, GcCollect(t) PROVE CountInv'
  <2>1. PICK k \in 0..Len(free_list) :
          /\ free_list' = Collected(free_list, k)
          /\ SetFree(FreeAfter[k]) \/ (k = Len(free_list) /\ SetFree([number |-> 0, size |-> 0]))
    BY <1>6, CollectedFree DEF LiveInv
  <2>2. ~destroyed /\ UNCHANGED <<used, used_number, used_size, used_seen, destroyed>>
    BY <1>6 DEF GcCollect, AtPool
  <2>3. Len(free_list') = Len(free_list) - k /\ Cached' = Behind(k)
    BY <2>1, <2>2, WithoutFirst DEF LiveInv, StacksLive, Cached, Behind
  <2>4. FreeAfter[k] = [number |-> Len(free_list) - k, size |-> Pages(Behind(k))] /\ Pages(Behind(k)) \in Nat
    BY <2>2, CollectedCounts
  <2>5. Len(free_list) - k \in Nat
    BY DEF LiveInv
  <2>6. k = Len(free_list) => Len(free_list) - k = 0 /\ Pages(Behind(k)) = 0
    <3>1. Len(free_list) \in Nat /\ (k = Len(free_list) => Behind(k) = {})
      BY DEF LiveInv, Behind
    <3>2. k = Len(free_list) => Pages(Behind(k)) = 0
      BY <3>1, NoPages
    <3>3. k = Len(free_list) => Len(free_list) - k = 0
      BY <3>1
    <3> QED
      BY <3>2, <3>3
  <2>7. free_number' = Len(free_list) - k /\ free_size' = Pages(Behind(k))
    BY <2>1, <2>4, <2>6 DEF SetFree
  <2> QED
    BY <2>2, <2>3, <2>4, <2>5, <2>7 DEF CountInv, LimitsCounted
<1>7. ASSUME NEW t \in Client, StoreStackSize(t) PROVE CountInv'
  BY <1>7 DEF StoreStackSize, limits, CountInv, LimitsCounted, Cached
<1>8. ASSUME NEW t \in Client, free_list = <<>>, Configure(t) PROVE CountInv'
  <2>1. /\ UNCHANGED <<free_list, used, used_number, used_size, used_seen, destroyed>>
        /\ free_number' = 0 /\ free_size' = 0
    BY <1>8 DEF Configure, Clear, SetStackSize, ClearList, SetFree
  <2>2. Len(free_list') = 0 /\ Cached' = {}
    BY <1>8, <2>1 DEF Cached, ToSet
  <2> QED
    BY <2>1, <2>2, NoPages DEF CountInv, LimitsCounted
<1>9. CASE Destroy
  BY <1>9 DEF Destroy, ClearList, SetFree, CountInv
<1>10. CASE Destroyed \/ UNCHANGED poolVars
  BY <1>10 DEF Destroyed, poolVars, limits, CountInv, LimitsCounted, Cached
<1> QED
  BY <1>1, <1>2, <1>3, <1>4, <1>5, <1>6, <1>7, <1>8, <1>9, <1>10 DEF PoolNext, PoolStep, MayConfigure

-----------------------------------------------------------------------------
(* The maximum *)

\* A stack that was cached before the size changed may be larger than the size that
\* allocate() checks the maximum with.  Then nothing is taken from the origin allocator
\* while it is there, so that the free stacks are within the maximum with the used ones.
SizeBound ==
  conf.max_size # 0 =>
    \/ \A c \in Cached : c.size <= stack_size + Offset
    \/ /\ \A c \in Cached : LargeEnough(c)
       /\ used_size + free_size <= conf.max_size + Offset

\* Between clear() and the store of set_stack_size() all that is cached has the old size,
\* and nobody else changes it.
Resizing(t) ==
  /\ \A u \in Client : pool_pc[u] = "resize" => u = t
  /\ \A c \in Cached : LargeEnough(c) /\ c.size <= stack_size + Offset
  /\ conf.max_size # 0 => used_size + free_size <= conf.max_size + Offset

BoundInv ==
  ~destroyed =>
    /\ WithinMax
    /\ SizeBound
    /\ \A t \in Client : pool_pc[t] = "resize" => Resizing(t)

LEMMA SizesAreNumbers ==
  ASSUME LiveInv, CountInv
  PROVE  /\ stack_size \in Nat /\ Offset \in Nat /\ stack_offset \in Nat /\ stack_offset <= Offset
         /\ conf.max_size \in Nat /\ conf.max_number \in Nat
         /\ used_size \in Nat /\ free_size \in Nat /\ used_number \in Nat
         /\ \A c \in used \cup Cached : c.size \in Nat
<1>1. \A c \in used \cup Cached : c \in Context
  BY CachedIsFinite DEF LiveInv, Cached
<1>2. conf \in Setting /\ stack_size \in Nat /\ Offset \in Nat
  BY StackPoolAssumption DEF LiveInv
<1> QED
  BY <1>1, <1>2 DEF LiveInv, CountInv, Context, Setting

\* Less is used and cached than before, of the stacks that were cached before.
LEMMA BoundShrinks ==
  ASSUME LiveInv, CountInv, CountInv', ~destroyed, BoundInv,
         UNCHANGED <<conf, stack_size>>,
         \A t \in Client : pool_pc'[t] = "resize" => pool_pc[t] = "resize",
         Cached' \subseteq Cached, used_number' <= used_number, used_size' <= used_size,
         used_size' + free_size' <= used_size + free_size
  PROVE  BoundInv'
<1>1. used_number' \in Nat /\ used_size' \in Nat /\ free_size' \in Nat
  BY DEF CountInv
<1>2. WithinMax'
  BY <1>1, SizesAreNumbers DEF BoundInv, WithinMax
<1>3. conf.max_size # 0 /\ used_size + free_size <= conf.max_size + Offset
        => used_size' + free_size' <= conf.max_size + Offset
  BY <1>1, SizesAreNumbers
<1>4. SizeBound'
  BY <1>3 DEF BoundInv, SizeBound, LargeEnough
<1>5. ASSUME NEW t \in Client, pool_pc'[t] = "resize" PROVE Resizing(t)'
  BY <1>3, <1>5 DEF BoundInv, Resizing, LargeEnough
<1> QED
  BY <1>2, <1>4, <1>5 DEF BoundInv

LEMMA BoundStep == LiveInv /\ CountInv /\ BoundInv /\ [PoolNext]_poolVars => BoundInv'
<1> SUFFICES ASSUME LiveInv, CountInv, BoundInv, [PoolNext]_poolVars PROVE BoundInv'
  OBVIOUS
<1>counts. CountInv'
  BY CountStep
<1>numbers. /\ stack_size \in Nat /\ Offset \in Nat /\ stack_offset \in Nat /\ stack_offset <= Offset
            /\ conf.max_size \in Nat /\ conf.max_number \in Nat
            /\ used_size \in Nat /\ free_size \in Nat /\ used_number \in Nat
            /\ \A c \in used \cup Cached : c.size \in Nat
  BY SizesAreNumbers
<1>1. ASSUME NEW t \in Client, Reuse(t) PROVE BoundInv'
  <2> DEFINE c == Last(free_list)
  <2>1. ~destroyed /\ ~Refused /\ free_list # <<>> /\ LargeEnough(c) /\ Use(c)
        /\ SetFree(Dropped(Free, c, Len(free_list) - 1)) /\ free_list' = Popped(free_list)
        /\ UNCHANGED <<conf, stack_size, pool_pc, destroyed>>
    BY <1>1 DEF Reuse, AtPool
  <2>2. c \in Cached /\ Cached' = Cached \ {c}
    BY <2>1, WithoutLast DEF LiveInv, StacksLive, Cached
  <2>3. used_number' = used_number + 1 /\ used_size' = used_size + c.size
    BY <2>1 DEF Use
  <2>4. free_size = free_size' + c.size /\ free_size' \in Nat
    <3>1. free_size' = Pages(Cached \ {c})
      <4>1. SetFree([number |-> Len(free_list) - 1, size |-> Pages(Cached \ {c})])
        BY <2>1, PoppedCounts
      <4> QED
        BY <4>1 DEF SetFree
    <3> QED
      BY <2>1, <3>1, PoppedCounts
  <2>5. c.size \in Nat
    BY <1>numbers, <2>2
  <2> HIDE DEF c
  <2>6. used_size' + free_size' = used_size + free_size
    BY <1>numbers, <2>3, <2>4, <2>5
  <2>7. conf.max_number # 0 => used_number' <= conf.max_number
    BY <1>numbers, <2>1, <2>3 DEF Refused
  <2>8. conf.max_size # 0 => used_size' <= conf.max_size + Offset
    <3>1. SUFFICES ASSUME conf.max_size # 0 PROVE used_size' <= conf.max_size + Offset
      OBVIOUS
    <3>2. CASE c.size <= stack_size + Offset
      BY <1>numbers, <2>1, <2>3, <2>5, <3>1, <3>2 DEF Refused
    <3>3. CASE used_size + free_size <= conf.max_size + Offset
      BY <1>numbers, <2>3, <2>4, <2>5, <2>6, <3>3
    <3> QED
      BY <2>1, <2>2, <3>1, <3>2, <3>3 DEF BoundInv, SizeBound
  <2>9. WithinMax' /\ SizeBound'
    BY <2>1, <2>2, <2>6, <2>7, <2>8 DEF BoundInv, WithinMax, SizeBound, LargeEnough
  <2>10. ASSUME NEW u \in Client, pool_pc'[u] = "resize" PROVE Resizing(u)'
    BY <2>1, <2>2, <2>6, <2>10 DEF BoundInv, Resizing, LargeEnough
  <2> QED
    BY <2>9, <2>10 DEF BoundInv
<1>2. ASSUME NEW t \in Client, Allocate(t) PROVE BoundInv'
  <2>1. ~destroyed /\ ~Refused /\ PopSmall /\ UNCHANGED <<conf, stack_size, pool_pc, destroyed>>
    BY <1>2 DEF Allocate, AtPool
  <2>2. Cached' \subseteq Cached /\ free_size' <= free_size /\ free_size' \in Nat
    BY <2>1, PopSmallLive, PopSmallCounts
  <2>3. CASE UNCHANGED <<mapped, used, used_number, used_size, stack_offset>>
    <3>1. \A u \in Client : pool_pc'[u] = "resize" => pool_pc[u] = "resize"
      BY <2>1
    <3>2. used_number' = used_number /\ used_size' = used_size
      BY <2>3
    <3>3. used_number <= used_number /\ used_size <= used_size /\ used_size + free_size' <= used_size + free_size
      <4>1. used_number \in Nat /\ used_size \in Nat /\ free_size \in Nat
        BY <1>numbers
      <4>2. free_size' \in Nat /\ free_size' <= free_size
        BY <2>2
      <4>3. \A x, y, z \in Nat : y <= z => x <= x /\ x + y <= x + z
        OBVIOUS
      <4> QED
        BY <4>1, <4>2, <4>3
    <3> QED
      BY <1>counts, <2>1, <2>2, <3>1, <3>2, <3>3, BoundShrinks
  <2>4. ASSUME NEW s \in Stack, Use([sp |-> s, size |-> stack_size + Offset]) PROVE BoundInv'
    <3>1. used_number' = used_number + 1 /\ used_size' = used_size + (stack_size + Offset)
      BY <2>4 DEF Use
    <3>2. conf.max_number # 0 => used_number' <= conf.max_number
      BY <1>numbers, <2>1, <3>1 DEF Refused
    <3>3. conf.max_size # 0 => used_size' <= conf.max_size + Offset
      BY <1>numbers, <2>1, <3>1 DEF Refused
    <3>4. (\A c \in Cached : LargeEnough(c)) => free_size' = 0
      <4>1. SUFFICES ASSUME \A c \in Cached : LargeEnough(c) PROVE free_size' = 0
        OBVIOUS
      <4>2. free_list = <<>>
        BY <2>1, <4>1, WithoutLast DEF PopSmall, LiveInv, StacksLive, Cached
      <4>3. free_list' = <<>>
        BY <2>1, <4>2 DEF PopSmall
      <4>4. Cached' = {}
        BY <4>3 DEF Cached, ToSet
      <4> QED
        BY <2>1, <4>4, PopSmallCounts, NoPages
    <3>5. conf.max_size # 0 /\ (\A c \in Cached : LargeEnough(c))
            => used_size' + free_size' <= conf.max_size + Offset
      BY <1>numbers, <3>1, <3>3, <3>4
    <3>6. WithinMax' /\ SizeBound'
      BY <2>1, <2>2, <3>2, <3>3, <3>5 DEF BoundInv, WithinMax, SizeBound, LargeEnough
    <3>7. ASSUME NEW u \in Client, pool_pc'[u] = "resize" PROVE Resizing(u)'
      BY <2>1, <2>2, <3>5, <3>7 DEF BoundInv, Resizing, LargeEnough
    <3> QED
      BY <3>6, <3>7 DEF BoundInv
  <2> QED
    BY <1>2, <2>3, <2>4 DEF Allocate
<1>3. ASSUME NEW t \in Client, NEW c \in used, Deallocate(t, c) PROVE BoundInv'
  <2>1. /\ ~destroyed /\ Unused(c) /\ UNCHANGED <<conf, stack_size, destroyed>>
        /\ \A u \in Client : pool_pc'[u] = "resize" => pool_pc[u] = "resize"
    BY <1>3 DEF Deallocate, AtPool, GotoPool, LiveInv
  <2>2. used_number' <= used_number /\ used_size' = used_size - c.size /\ used_size' \in Nat /\ used_number' \in Nat
    BY <2>1, UnusedCounts
  <2>3. c.size \in Nat
    BY <1>numbers
  <2>4. CASE Fits(c)
    <3>1. free_list' = Append(free_list, c) /\ free_size' = free_size + c.size
      BY <1>3, <2>4 DEF Deallocate, SetFree
    <3>2. Cached' = Cached \cup {c}
      BY <2>1, <3>1, WithAnother DEF LiveInv, StacksLive, Cached
    <3>3. c.size <= stack_size + Offset /\ LargeEnough(c)
      BY <1>numbers, <2>4 DEF Fits, LargeEnough
    <3>4. used_size' + free_size' = used_size + free_size
      BY <1>numbers, <2>2, <2>3, <3>1
    <3>5. WithinMax'
      BY <1>numbers, <2>1, <2>2, <2>3 DEF BoundInv, WithinMax
    <3>6. SizeBound'
      BY <2>1, <3>2, <3>3, <3>4 DEF BoundInv, SizeBound, LargeEnough
    <3>7. ASSUME NEW u \in Client, pool_pc'[u] = "resize" PROVE Resizing(u)'
      BY <2>1, <3>2, <3>3, <3>4, <3>7 DEF BoundInv, Resizing, LargeEnough
    <3> QED
      BY <3>5, <3>6, <3>7 DEF BoundInv
  <2>5. CASE ~Fits(c)
    <3>1. UNCHANGED <<free_list, free_number, free_size>>
      BY <1>3, <2>5 DEF Deallocate
    <3>2. Cached' = Cached
      BY <3>1 DEF Cached
    <3>3. used_size' <= used_size /\ used_size' + free_size' <= used_size + free_size
      BY <1>numbers, <2>2, <2>3, <3>1
    <3> QED
      BY <1>counts, <2>1, <2>2, <3>2, <3>3, BoundShrinks
  <2> QED
    BY <2>4, <2>5
<1>4. ASSUME NEW t \in Client, Gc(t) \/ GcReadUsed(t) \/ GcReadFree(t) PROVE BoundInv'
  <2>1. ~destroyed /\ UNCHANGED <<conf, stack_size, free_list, used_number, used_size, free_size>>
        /\ \A u \in Client : pool_pc'[u] = "resize" => pool_pc[u] = "resize"
    BY <1>4 DEF Gc, GcReadUsed, GcReadFree, limits, AtPool, GotoPool, LiveInv
  <2> QED
    BY <1>counts, <1>numbers, <2>1, BoundShrinks DEF Cached
<1>5. ASSUME NEW t \in Client, GcCollect(t) PROVE BoundInv'
  <2>1. PICK k \in 0..Len(free_list) : free_list' = Collected(free_list, k)
    BY <1>5, CollectedFree DEF LiveInv
  <2>2. ~destroyed /\ ~destroyed' /\ UNCHANGED <<conf, stack_size, used_number, used_size>>
        /\ \A u \in Client : pool_pc'[u] = "resize" => pool_pc[u] = "resize"
    BY <1>5 DEF GcCollect, AtPool, GotoPool, LiveInv
  <2>3. Cached' = Behind(k) /\ Behind(k) \subseteq Cached
    <3>1. Cached' = Behind(k)
      BY <2>1, <2>2, WithoutFirst DEF LiveInv, StacksLive, Cached, Behind
    <3>2. \A i \in (k + 1)..Len(free_list) : i \in DOMAIN free_list
      BY DEF LiveInv
    <3> QED
      BY <3>1, <3>2 DEF Behind, Cached, ToSet
  <2>4. free_size' <= free_size
    BY <1>counts, <2>2, <2>3, PagesOfPart, CachedIsFinite DEF CountInv, LimitsCounted, LiveInv, Cached
  <2>5. Cached' \subseteq Cached
    BY <2>3
  <2>6. used_size' <= used_size /\ used_number' <= used_number
    BY <1>numbers, <2>2
  <2>7. used_size' + free_size' <= used_size + free_size
    <3>1. used_size \in Nat /\ free_size \in Nat /\ free_size' \in Nat /\ used_size' = used_size
      BY <1>counts, <1>numbers, <2>2 DEF CountInv
    <3>2. \A x, y, z \in Nat : y <= z => x + y <= x + z
      OBVIOUS
    <3> QED
      BY <2>4, <3>1, <3>2
  <2> QED
    BY <1>counts, <2>2, <2>5, <2>6, <2>7, BoundShrinks
<1>6. ASSUME NEW t \in Client, StoreStackSize(t) PROVE BoundInv'
  <2>1. /\ ~destroyed /\ pool_pc[t] = "resize" /\ pool_pc' = [pool_pc EXCEPT ![t] = "client"]
        /\ stack_size' = new_size[t] /\ UNCHANGED <<conf, limits, free_list, destroyed>>
    BY <1>6 DEF StoreStackSize, AtPool, GotoPool
  <2>2. Resizing(t)
    BY <2>1 DEF BoundInv
  <2>3. \A u \in Client : pool_pc'[u] # "resize"
    BY <2>1, <2>2 DEF Resizing, LiveInv
  <2>4. stack_size' \in Nat
    BY <2>1, StackPoolAssumption DEF LiveInv
  <2>5. WithinMax'
    BY <2>1 DEF BoundInv, WithinMax, limits
  <2>6. Cached' = Cached /\ UNCHANGED <<used_size, free_size>>
    BY <2>1 DEF Cached, limits
  <2>7. CASE stack_size <= stack_size'
    <3>1. \A c \in Cached : c.size <= stack_size' + Offset
      BY <1>numbers, <2>2, <2>4, <2>7 DEF Resizing
    <3> QED
      BY <2>3, <2>5, <2>6, <3>1 DEF BoundInv, SizeBound
  <2>8. CASE stack_size' <= stack_size
    <3>1. \A c \in Cached : LargeEnough(c)'
      BY <1>numbers, <2>2, <2>4, <2>8 DEF Resizing, LargeEnough
    <3>2. SizeBound'
      BY <2>1, <2>2, <2>6, <3>1 DEF SizeBound, Resizing
    <3> QED
      BY <2>3, <2>5, <3>2 DEF BoundInv
  <2> QED
    BY <1>numbers, <2>4, <2>7, <2>8
<1>7. ASSUME NEW t \in Client, MayConfigure, Configure(t) PROVE BoundInv'
  <2>1. /\ ~destroyed /\ UNCHANGED <<conf, stack_size, free_list, used_number, used_size, destroyed>>
        /\ free_size' = 0
        /\ \A u \in Client : pool_pc'[u] = "resize" => u = t
    BY <1>7 DEF Configure, MayConfigure, Clear, SetStackSize, ClearList, SetFree, AtPool, GotoPool, LiveInv
  <2>2. Cached' = {}
    BY <1>7, <2>1 DEF MayConfigure, Cached, ToSet
  <2>3. WithinMax'
    BY <2>1 DEF BoundInv, WithinMax
  <2>4. conf.max_size # 0 => used_size' + free_size' <= conf.max_size + Offset
    BY <1>numbers, <2>1 DEF BoundInv, WithinMax
  <2>5. SizeBound'
    BY <2>2 DEF SizeBound
  <2>6. ASSUME NEW u \in Client, pool_pc'[u] = "resize" PROVE Resizing(u)'
    BY <2>1, <2>2, <2>4, <2>6 DEF Resizing
  <2> QED
    BY <2>3, <2>5, <2>6 DEF BoundInv
<1>8. CASE Destroy
  BY <1>8 DEF Destroy, BoundInv
<1>9. CASE Destroyed \/ UNCHANGED poolVars
  BY <1>9 DEF Destroyed, poolVars, limits, BoundInv, WithinMax, SizeBound, Resizing, LargeEnough, Cached
<1> QED
  BY <1>1, <1>2, <1>3, <1>4, <1>5, <1>6, <1>7, <1>8, <1>9 DEF PoolNext, PoolStep

-----------------------------------------------------------------------------

LEMMA PoolInitially == PoolInit => LiveInv /\ CountInv /\ BoundInv
<1> SUFFICES ASSUME PoolInit PROVE LiveInv /\ CountInv /\ BoundInv
  OBVIOUS
<1>1. Cached = {} /\ free_list \in Seq(Context) /\ Len(free_list) = 0 /\ Distinct(free_list)
  BY DEF PoolInit, Cached, ToSet, Distinct
<1>2. LiveInv
  <2>1. used = {} /\ freed_twice = {} /\ destroyed = FALSE
    BY DEF PoolInit
  <2>2. StacksLive
    BY <1>1, <2>1 DEF StacksLive
  <2>3. \A t \in Client : pool_pc[t] = "client"
    BY DEF PoolInit
  <2>4. stack_offset \in {0, Offset} /\ resizes \in 0..MaxResize
    BY StackPoolAssumption DEF PoolInit
  <2> QED
    BY <1>1, <2>1, <2>2, <2>3, <2>4 DEF PoolInit, LiveInv
<1>3. IsFiniteSet({}) /\ Cardinality({}) = 0
  BY FS_EmptySet
<1>4. CountInv
  BY <1>1, <1>3, NoPages DEF PoolInit, CountInv, LimitsCounted
<1>5. conf.max_size \in Nat /\ conf.max_number \in Nat /\ Offset \in Nat
  BY <1>2, <1>4, SizesAreNumbers
<1>6. BoundInv
  BY <1>1, <1>5 DEF PoolInit, BoundInv, WithinMax, SizeBound
<1> QED
  BY <1>2, <1>4, <1>6

LEMMA PoolInvariant == PoolSpec => [](LiveInv /\ CountInv /\ BoundInv)
<1>1. LiveInv /\ CountInv /\ BoundInv /\ [PoolNext]_poolVars => (LiveInv /\ CountInv /\ BoundInv)'
  BY LiveStep, CountStep, BoundStep
<1> QED
  BY PoolInitially, <1>1, PTL DEF PoolSpec

\* Whatever the threads of a pool do at once, allocate() hands out only stacks that the
\* origin allocator still holds, each to one client, and none is given back twice.
THEOREM PoolStacksLive == PoolSpec => []UsedIsLive
  BY PoolInvariant, UsedStacksLive, PTL

\* limits_ say what is used and what is cached, in stacks and in pages, although each of
\* them is added to and subtracted from in another place, with saturation, and gc()
\* halves them; and the configured maximum holds, also while the stack size changes.
THEOREM PoolLimitsExact == PoolSpec => []LimitsExact
<1>1. LiveInv /\ CountInv /\ BoundInv => LimitsExact
  BY DEF CountInv, LimitsCounted, BoundInv, LimitsExact, Cached
<1> QED
  BY PoolInvariant, <1>1, PTL

\* The variables of the pool are of their types.
THEOREM PoolTypes == PoolSpec => []PoolTypeOK
<1>1. LiveInv /\ CountInv => PoolTypeOK
  BY DEF LiveInv, CountInv, PoolTypeOK, limits
<1> QED
  BY PoolInvariant, <1>1, PTL

LEMMA InList ==
  ASSUME NEW list, NEW s
  PROVE  (\A i \in DOMAIN list : list[i].sp # s) <=> (\A c \in ToSet(list) : c.sp # s)
  BY DEF ToSet

\* A stack that is given back is mapped no more, and the others are as they were.
LEMMA GiveBackMapped ==
  ASSUME NEW S, GiveBack(S), NEW s \in Stack
  PROVE  /\ (\E c \in S : c.sp = s) => mapped'[s] = 0
         /\ (\A c \in S : c.sp # s) => mapped'[s] = mapped[s]
  BY DEF GiveBack

LEMMA LeakStep ==
  LiveInv /\ [PoolNext]_poolVars => \A s \in Stack : Lost(s)' => Lost(s) \/ mapped[s] < stack_size
<1> SUFFICES ASSUME LiveInv, [PoolNext]_poolVars, NEW s \in Stack, Lost(s)', ~Lost(s),
                    ~(mapped[s] < stack_size)
             PROVE  FALSE
  OBVIOUS
<1>lost. mapped'[s] # 0 /\ (\A c \in used' : c.sp # s) /\ (destroyed' \/ \A c \in Cached' : c.sp # s)
  BY InList DEF Lost, Cached
<1>kept. mapped[s] = 0 \/ (\E c \in used : c.sp = s) \/ (~destroyed /\ \E c \in Cached : c.sp = s)
  BY InList DEF Lost, Cached
<1>1. ASSUME NEW t \in Client, Reuse(t) PROVE FALSE
  <2>1. ~destroyed /\ ~destroyed' /\ free_list # <<>> /\ free_list' = Popped(free_list)
        /\ used' = used \cup {Last(free_list)} /\ mapped' = mapped
    BY <1>1 DEF Reuse, AtPool, Use
  <2>2. Cached' = Cached \ {Last(free_list)}
    BY <2>1, WithoutLast DEF LiveInv, StacksLive, Cached
  <2> QED
    BY <1>lost, <1>kept, <2>1, <2>2
<1>2. ASSUME NEW t \in Client, Allocate(t) PROVE FALSE
  <2>1. ~destroyed /\ ~destroyed' /\ PopSmall
    BY <1>2 DEF Allocate, AtPool
  <2>2. ASSUME NEW c \in Cached, c \notin Cached' PROVE c.sp # s
    <3>1. free_list # <<>> /\ ~LargeEnough(Last(free_list)) /\ free_list' = Popped(free_list)
      BY <2>1, <2>2 DEF PopSmall, Cached
    <3>2. c = Last(free_list)
      BY <2>1, <2>2, <3>1, WithoutLast DEF LiveInv, StacksLive, Cached
    <3>3. mapped[c.sp] = c.size /\ ~(c.size >= stack_size)
      BY <2>1, <3>1, <3>2 DEF LiveInv, StacksLive, LargeEnough
    <3>4. c.size \in Nat /\ stack_size \in Nat
      BY StackPoolAssumption, CachedIsFinite DEF LiveInv, Cached, Context
    <3> QED
      BY <3>3, <3>4
  <2>3. used \subseteq used' /\ (mapped'[s] = mapped[s] \/ \E c \in used' : c.sp = s)
    <3>1. CASE UNCHANGED <<mapped, used, used_number, used_size, stack_offset>>
      BY <3>1
    <3>2. ASSUME NEW x \in Stack, NEW c, c = [sp |-> x, size |-> stack_size + Offset],
                 mapped' = [mapped EXCEPT ![x] = c.size], Use(c)
          PROVE  used \subseteq used' /\ (mapped'[s] = mapped[s] \/ \E d \in used' : d.sp = s)
      <4>1. used' = used \cup {c} /\ c.sp = x
        BY <3>2 DEF Use
      <4>2. s # x => mapped'[s] = mapped[s]
        BY <3>2 DEF LiveInv
      <4> QED
        BY <4>1, <4>2
    <3> QED
      BY <1>2, <3>1, <3>2 DEF Allocate
  <2> QED
    BY <1>lost, <1>kept, <2>1, <2>2, <2>3
<1>3. ASSUME NEW t \in Client, NEW c \in used, Deallocate(t, c) PROVE FALSE
  <2>1. ~destroyed /\ ~destroyed' /\ used' = used \ {c} /\ c \in Context
    BY <1>3 DEF Deallocate, AtPool, Unused, LiveInv
  <2>2. CASE Fits(c)
    <3>1. free_list' = Append(free_list, c) /\ mapped' = mapped
      BY <1>3, <2>2 DEF Deallocate
    <3>2. Cached' = Cached \cup {c}
      BY <2>1, <3>1, WithAnother DEF LiveInv, StacksLive, Cached
    <3> QED
      BY <1>lost, <1>kept, <2>1, <3>1, <3>2
  <2>3. CASE ~Fits(c)
    <3>1. GiveBack({c}) /\ Cached' = Cached
      BY <1>3, <2>3 DEF Deallocate, Cached
    <3> QED
      BY <1>lost, <1>kept, <2>1, <3>1, GiveBackMapped
  <2> QED
    BY <2>2, <2>3
<1>4. ASSUME NEW t \in Client, Gc(t) \/ GcReadUsed(t) \/ GcReadFree(t) \/ StoreStackSize(t) PROVE FALSE
  <2>1. UNCHANGED <<used, free_list, mapped, destroyed>>
    BY <1>4 DEF Gc, GcReadUsed, GcReadFree, StoreStackSize
  <2> QED
    BY <1>lost, <1>kept, <2>1 DEF Cached
<1>5. ASSUME NEW t \in Client, GcCollect(t) PROVE FALSE
  <2>1. PICK k \in 0..Len(free_list) :
          GiveBack({free_list[i] : i \in 1..k}) /\ free_list' = Collected(free_list, k)
    BY <1>5, CollectedFree DEF LiveInv
  <2>2. ~destroyed /\ ~destroyed' /\ used' = used
    BY <1>5 DEF GcCollect, AtPool
  <2> DEFINE gone == {free_list[i] : i \in 1..k}
  <2>3. Cached' = {free_list[i] : i \in (k + 1)..Len(free_list)}
    BY <2>1, <2>2, WithoutFirst DEF LiveInv, StacksLive, Cached
  <2>4. Cached \subseteq gone \cup Cached'
    <3>1. \A i \in DOMAIN free_list : i \in 1..k \/ i \in (k + 1)..Len(free_list)
      BY DEF LiveInv
    <3> QED
      BY <2>3, <3>1 DEF Cached, ToSet
  <2> HIDE DEF gone
  <2>5. (\E c \in gone : c.sp = s) \/ mapped'[s] = mapped[s]
    BY <2>1, GiveBackMapped DEF gone
  <2>6. (\E c \in gone : c.sp = s) => mapped'[s] = 0
    BY <2>1, GiveBackMapped DEF gone
  <2> QED
    BY <1>lost, <1>kept, <2>2, <2>4, <2>5, <2>6
<1>6. ASSUME NEW t \in Client, MayConfigure, Configure(t) PROVE FALSE
  <2>1. GiveBack({}) /\ UNCHANGED <<free_list, used, destroyed>>
    <3>1. ToSet(free_list) = {}
      BY <1>6 DEF MayConfigure, ToSet
    <3> QED
      BY <1>6, <3>1 DEF Configure, Clear, SetStackSize, ClearList
  <2>2. mapped'[s] = mapped[s]
    BY <2>1, GiveBackMapped
  <2> QED
    BY <1>lost, <1>kept, <2>1, <2>2 DEF Cached
<1>7. CASE Destroy
  <2>1. GiveBack(Cached) /\ used = {}
    BY <1>7 DEF Destroy, ClearList, Cached
  <2> QED
    BY <1>lost, <1>kept, <2>1, GiveBackMapped
<1>8. CASE Destroyed \/ UNCHANGED poolVars
  <2>1. UNCHANGED <<used, free_list, mapped, destroyed>>
    BY <1>8 DEF Destroyed, poolVars
  <2> QED
    BY <1>lost, <1>kept, <2>1 DEF Cached
<1> QED
  BY <1>1, <1>2, <1>3, <1>4, <1>5, <1>6, <1>7, <1>8 DEF PoolNext, PoolStep

\* No step of the pool loses a stack but allocate(), which takes one off the list that
\* has become too small, and does not give it back.
THEOREM PoolKeepsStacks == PoolSpec => NothingLeaks
<1>1. LiveInv /\ [PoolNext]_poolVars
        => [\A s \in Stack : Lost(s)' => Lost(s) \/ mapped[s] < stack_size]_poolVars
  BY LeakStep
<1> QED
  BY PoolInvariant, <1>1, PTL DEF PoolSpec, NothingLeaks

-----------------------------------------------------------------------------
(* StackAllocator: rounding *)

Multiple(n, unit) == \E k \in Nat : n = k * unit

\* Rounding up gives the smallest multiple that is large enough.
LEMMA AlignedUp ==
  ASSUME NEW size \in Nat, NEW unit \in Nat \ {0}
  PROVE  /\ Aligned(size, unit) \in Nat /\ size <= Aligned(size, unit)
         /\ Aligned(size, unit) < size + unit
         /\ Multiple(Aligned(size, unit), unit)
<1> DEFINE q == (size + unit - 1) \div unit
<1>1. q \in Nat
  OBVIOUS
<1>2. q * unit <= size + unit - 1 /\ size + unit - 1 < q * unit + unit
  OBVIOUS
<1>3. Aligned(size, unit) = q * unit
  BY DEF Aligned
<1> HIDE DEF q
<1>4. q * unit \in Nat
  BY <1>1
<1>5. size <= q * unit /\ q * unit < size + unit
  BY <1>2, <1>4
<1> QED
  BY <1>1, <1>3, <1>4, <1>5 DEF Multiple

LEMMA AlignedLeast ==
  ASSUME NEW size \in Nat, NEW unit \in Nat \ {0}, NEW n \in Nat, Multiple(n, unit), size <= n
  PROVE  Aligned(size, unit) <= n
<1>1. PICK k \in Nat : n = k * unit
  BY DEF Multiple
<1>2. PICK q \in Nat : Aligned(size, unit) = q * unit
  BY AlignedUp DEF Multiple
<1>3. q * unit < n + unit
  BY <1>2, AlignedUp
<1>4. CASE q <= k
  <2>1. PICK d \in Nat : k = q + d
    BY <1>4
  <2>2. k * unit = q * unit + d * unit /\ d * unit \in Nat /\ q * unit \in Nat
    BY <2>1
  <2> QED
    BY <1>1, <1>2, <2>2
<1>5. CASE k < q
  <2>1. PICK d \in Nat : q = (k + 1) + d
    BY <1>5
  <2>2. q * unit = k * unit + unit + d * unit /\ d * unit \in Nat /\ k * unit \in Nat
    BY <2>1
  <2> QED
    BY <1>1, <1>3, <2>2
<1> QED
  BY <1>4, <1>5

LEMMA MultipleOfPage ==
  ASSUME NEW n \in Nat, Multiple(n, Page)
  PROVE  Multiple(n, StackUnit)
<1>1. Page \in Nat \ {0} /\ StackUnit \in Nat \ {0} /\ Page % StackUnit = 0
  BY StackAllocatorAssumption
<1> DEFINE q == Page \div StackUnit
<1>2. q \in Nat /\ Page = q * StackUnit
  BY <1>1
<1> HIDE DEF q
<1>3. PICK k \in Nat : n = k * Page
  BY DEF Multiple
<1>4. n = (k * q) * StackUnit /\ k * q \in Nat
  BY <1>1, <1>2, <1>3
<1> QED
  BY <1>4 DEF Multiple

LEMMA MinOfTwo ==
  ASSUME NEW m \in Nat, NEW n \in Nat
  PROVE  Min({m, n}) = IF m <= n THEN m ELSE n
  BY DEF Min

LEMMA MaxOfTwo ==
  ASSUME NEW m \in Nat, NEW n \in Nat
  PROVE  Max({m, n}) = IF m <= n THEN n ELSE m
  BY DEF Max

-----------------------------------------------------------------------------
(* StackAllocator: the invariant *)

\* What the clients of these allocators see to: a buffer is a number of pages (which
\* allocate() asserts, stack_allocator_memory.cpp:104), and the parts above the machine
\* stack are no more than the largest stack there may be.
WholePages == \A b \in Buffer : Multiple(BufferSize[b], Page)

WithinMaximum == \A request \in Request : Private(request) + Below(request) <= Maximum

\* The parts of each stack lie below one another, in a block that is long enough.
PartsFit ==
  \A c \in Container :
    Live(c) =>
      /\ parts[c].private + parts[c].object <= parts[c].offset
      /\ parts[c].offset + Guard <= context[c].size
      /\ context[c].size # 0

\* Each block is one container's, of the kind that is allocated from.
BlocksApart ==
  \A c \in Container :
    Live(c) =>
      /\ context[c].block \in IF kind = "memory" THEN Buffer ELSE Heap
      /\ \A d \in Container : Live(d) /\ context[d].block = context[c].block => d = c

\* The system holds what is in use.
HeldInUse ==
  /\ \A c \in Container :
       Live(c) /\ context[c].block \in Heap => held[context[c].block] = context[c].size
  /\ \A b \in Heap : held[b] # 0 => InUse(b)

\* Memory that an allocator may still hand out is nobody's, and no other one hands it out.
AttachedUnused ==
  \A a \in Allocator :
    LET b == attached[a].start IN
    b # NoMemory =>
      /\ attached[a].size = BufferSize[b]
      /\ ~attached[a].used =>
           /\ ~InUse(b)
           /\ \A x \in Allocator \ {a} : attached[x].start = b => attached[x].used

StackInv ==
  StackTypeOK /\ PartsFit /\ BlocksApart /\ HeldInUse /\ WithinMemory /\ AttachedUnused

LEMMA InUseByLive ==
  ASSUME StackInv, NEW b \in Buffer \cup Heap
  PROVE  InUse(b) <=> \E c \in Container : Live(c) /\ context[c].block = b
<1>1. NoMemory # b
  BY StackAllocatorAssumption
<1> QED
  BY <1>1 DEF InUse, Live, NoStack, StackInv, StackTypeOK

LEMMA StackInvFits == StackInv => StacksFit
<1> SUFFICES ASSUME StackInv PROVE StacksFit
  OBVIOUS
<1>1. ASSUME NEW c \in Container, Live(c), NEW d \in Container \ {c}
      PROVE  context[d].block # context[c].block
  <2>1. context[c].block # NoMemory
    BY <1>1, StackAllocatorAssumption DEF StackInv, BlocksApart
  <2>2. ~Live(d) => context[d].block = NoMemory
    BY DEF Live, NoStack
  <2> QED
    BY <1>1, <2>1, <2>2 DEF StackInv, BlocksApart
<1> QED
  BY <1>1 DEF StackInv, StacksFit, PartsFit, HeldInUse

-----------------------------------------------------------------------------
(* StackAllocator: sizes *)

LEMMA PartsOfRequest ==
  ASSUME NEW request \in Request, StackTypeOK
  PROVE  /\ Private(request) \in Nat /\ Below(request) \in Nat
         /\ Parts(request).offset \in Nat
         /\ Private(request) + Below(request) <= Parts(request).offset
         /\ Parts(request) = [private |-> Private(request), object |-> Below(request),
                              offset |-> Parts(request).offset]
<1>1. /\ request.private \in Nat /\ request.extra \in Nat /\ ThisSize \in Nat
      /\ Unit \in Nat \ {0} /\ StackUnit \in Nat \ {0}
  BY StackAllocatorAssumption
<1>2. /\ Aligned(request.private, Unit) \in Nat /\ Aligned(request.extra, Unit) \in Nat
      /\ Aligned(ThisSize, Unit) \in Nat
  BY <1>1, AlignedUp
<1>3. Private(request) \in Nat /\ Below(request) \in Nat
  BY <1>2 DEF Private, Below
<1> DEFINE sum == Private(request) + Below(request)
<1>4. sum \in Nat
  BY <1>3
<1>5. Parts(request).offset = IF native = "fiber" THEN sum ELSE Aligned(sum, StackUnit)
  BY DEF Parts, StackOffset
<1> HIDE DEF sum
<1>6. Aligned(sum, StackUnit) \in Nat /\ sum <= Aligned(sum, StackUnit)
  BY <1>1, <1>4, AlignedUp
<1>7. Parts(request).offset \in Nat /\ sum <= Parts(request).offset
  BY <1>4, <1>5, <1>6
<1>8. Parts(request) = [private |-> Private(request), object |-> Below(request),
                        offset |-> Parts(request).offset]
  BY DEF Parts
<1> QED
  BY <1>3, <1>7, <1>8 DEF sum

\* A stack of the system has room for its parts and the guard page: what was asked for is
\* more than the parts, and a page is a multiple of what they are rounded to.
LEMMA RoomForParts ==
  ASSUME NEW request \in Request, StackTypeOK, NEW memory \in Nat, WithinMaximum,
         native = "fcontext" => LeavesRoom(request),
         Taken(Asked(request), memory) > Parts(request).offset
  PROVE  /\ Taken(Asked(request), memory) \in Nat
         /\ Parts(request).offset + Guard <= Taken(Asked(request), memory)
<1> DEFINE sum == Private(request) + Below(request)
           asked == Asked(request)
           clamped == Min({Max({asked, Minimum}), Maximum})
           limit == IF kind = "memory" THEN Min({clamped, memory}) ELSE clamped
           offset == Parts(request).offset
<1>1. /\ Minimum \in Nat /\ Maximum \in Nat /\ 8 * Minimum \in Nat /\ Minimum <= Maximum
      /\ Page \in Nat \ {0} /\ StackUnit \in Nat \ {0} /\ request.stack_size \in Nat
  BY StackAllocatorAssumption
<1>2. sum \in Nat /\ offset \in Nat
  BY PartsOfRequest
<1>3. asked \in Nat /\ sum <= asked
  <2>1. DefaultSize \in Nat
    BY <1>1, MinOfTwo DEF DefaultSize
  <2>2. asked \in Nat
    BY <1>1, <1>2, <2>1 DEF Asked
  <2>3. CASE native = "fiber"
    <3>1. asked = sum
      BY <2>3 DEF Asked
    <3> HIDE DEF asked, sum
    <3> QED
      BY <1>2, <3>1
  <2>4. CASE native = "fcontext"
    BY <1>2, <2>2, <2>4 DEF LeavesRoom
  <2> QED
    BY <2>2, <2>3, <2>4 DEF StackTypeOK
<1>4. Taken(asked, memory) = Aligned(limit, Page) + Guard
  BY DEF Taken
<1>5. sum <= Maximum
  BY DEF WithinMaximum
<1>6. offset = IF native = "fiber" THEN sum ELSE Aligned(sum, StackUnit)
  BY DEF Parts, StackOffset
<1>7. Taken(asked, memory) > offset
  OBVIOUS
<1>8. Guard = IF kind = "posix" THEN Page ELSE 0
  BY DEF Guard
<1> HIDE DEF sum, asked, offset
<1>9. clamped \in Nat /\ sum <= clamped
  <2>1. Max({asked, Minimum}) = IF asked <= Minimum THEN Minimum ELSE asked
    BY <1>1, <1>3, MaxOfTwo
  <2>2. Max({asked, Minimum}) \in Nat /\ asked <= Max({asked, Minimum})
    BY <1>1, <1>3, <2>1
  <2>3. clamped = IF Max({asked, Minimum}) <= Maximum THEN Max({asked, Minimum}) ELSE Maximum
    BY <1>1, <2>2, MinOfTwo
  <2> HIDE DEF clamped
  <2> QED
    BY <1>1, <1>2, <1>3, <1>5, <2>2, <2>3
<1> HIDE DEF clamped
<1>10. limit \in Nat /\ (kind # "memory" => limit = clamped)
  BY <1>9, MinOfTwo
<1> HIDE DEF limit
<1>11. /\ Aligned(limit, Page) \in Nat /\ limit <= Aligned(limit, Page)
       /\ Multiple(Aligned(limit, Page), Page)
  BY <1>1, <1>10, AlignedUp
<1>12. CASE kind = "memory"
  BY <1>1, <1>2, <1>4, <1>7, <1>8, <1>11, <1>12 DEF asked, offset
<1>13. CASE kind # "memory"
  <2>1. sum <= Aligned(limit, Page)
    BY <1>2, <1>9, <1>10, <1>11, <1>13
  <2>2. Aligned(sum, StackUnit) <= Aligned(limit, Page)
    BY <1>1, <1>2, <1>11, <2>1, MultipleOfPage, AlignedLeast
  <2>3. offset <= Aligned(limit, Page)
    BY <1>6, <2>1, <2>2
  <2> QED
    BY <1>1, <1>2, <1>4, <1>8, <1>11, <2>3 DEF asked, offset
<1> QED
  BY <1>12, <1>13

\* A stack in a buffer of whole pages ends where the buffer does, or before.
LEMMA BufferIsEnough ==
  ASSUME NEW request \in Request, StackTypeOK, NEW b \in Buffer, WholePages, kind = "memory"
  PROVE  Taken(Asked(request), BufferSize[b]) <= BufferSize[b]
<1> DEFINE size == BufferSize[b]
           asked == Asked(request)
           clamped == Min({Max({asked, Minimum}), Maximum})
           limit == Min({clamped, size})
<1>1. size \in Nat /\ Minimum \in Nat /\ Maximum \in Nat /\ 8 * Minimum \in Nat /\ Page \in Nat \ {0}
      /\ request.stack_size \in Nat
  BY StackAllocatorAssumption
<1>2. asked \in Nat
  <2>1. DefaultSize \in Nat
    BY <1>1, MinOfTwo DEF DefaultSize
  <2>2. Private(request) + Below(request) \in Nat
    BY PartsOfRequest
  <2> QED
    BY <1>1, <2>1, <2>2 DEF Asked
<1>3. Taken(asked, size) = Aligned(limit, Page) + 0
  BY DEF Taken, Guard
<1>4. Multiple(size, Page)
  BY DEF WholePages
<1> HIDE DEF size, asked
<1>5. clamped \in Nat
  BY <1>1, <1>2, MaxOfTwo, MinOfTwo
<1> HIDE DEF clamped
<1>6. limit \in Nat /\ limit <= size
  BY <1>1, <1>5, MinOfTwo
<1> HIDE DEF limit
<1>7. Aligned(limit, Page) <= size /\ Aligned(limit, Page) \in Nat
  BY <1>1, <1>4, <1>6, AlignedLeast, AlignedUp
<1> QED
  BY <1>3, <1>7 DEF size, asked

-----------------------------------------------------------------------------
(* StackAllocator: the steps *)

\* The memory of a container that is placed: that of a free buffer, or a block of the
\* system that is not mapped.
LEMMA PlacedInv ==
  ASSUME StackInv, WholePages, WithinMaximum,
         NEW c \in Container, NEW a \in Allocator, NEW b \in Buffer \cup Heap, NEW request \in Request,
         native = "fcontext" => LeavesRoom(request), Placed(c, a, b, request)
  PROVE  StackInv'
<1> DEFINE size == Taken(Asked(request), attached[a].size)
           needed == Parts(request)
           inUse == [attached[a] EXCEPT !.used = TRUE]
<1>1. /\ ~Live(c) /\ size > needed.offset
      /\ IF kind = "memory" THEN MemoryTaken(a, b) ELSE SystemTaken(b, size)
      /\ context' = [context EXCEPT ![c] = [block |-> b, size |-> size]]
      /\ parts' = [parts EXCEPT ![c] = needed]
      /\ kept' = [kept EXCEPT ![c] = IF kind = "memory" /\ Movable(inUse) THEN inUse ELSE Empty]
      /\ UNCHANGED <<kind, native>>
  BY DEF Placed
<1>2. StackTypeOK /\ attached[a] \in Memory /\ attached[a].size \in Nat
  BY DEF StackInv, StackTypeOK, Memory
<1>3. size \in Nat /\ needed.offset + Guard <= size
  BY <1>1, <1>2, RoomForParts DEF StackInv
<1>4. /\ needed.private \in Nat /\ needed.object \in Nat /\ needed.offset \in Nat
      /\ needed.private + needed.object <= needed.offset
      /\ needed \in [private : Nat, object : Nat, offset : Nat]
  <2> DEFINE offset == needed.offset
  <2>1. Private(request) \in Nat /\ Below(request) \in Nat /\ offset \in Nat
        /\ Private(request) + Below(request) <= offset
    BY <1>2, PartsOfRequest
  <2>2. needed = [private |-> Private(request), object |-> Below(request), offset |-> offset]
    BY <1>2, PartsOfRequest
  <2> HIDE DEF offset, needed
  <2> QED
    BY <2>1, <2>2
<1>5. size # 0
  BY <1>1, <1>3, <1>4
<1>6. inUse \in Memory /\ ~Movable(inUse) /\ inUse.used /\ inUse.start = attached[a].start
      /\ inUse.size = attached[a].size
  BY <1>2 DEF Memory, Movable
<1>7. b # NoMemory
  BY StackAllocatorAssumption
<1>8. ~InUse(b)
  <2>1. CASE kind = "memory"
    BY <1>1, <1>7, <2>1 DEF MemoryTaken, HandsOut, StackInv, AttachedUnused
  <2>2. CASE kind # "memory"
    <3>1. b \in Heap /\ held[b] = 0
      BY <1>1, <2>2 DEF SystemTaken
    <3>2. ASSUME NEW d \in Container, Live(d), context[d].block = b PROVE FALSE
      BY <3>1, <3>2 DEF StackInv, HeldInUse, PartsFit
    <3> QED
      BY <3>2, InUseByLive
  <2> QED
    BY <2>1, <2>2
<1>9. kind = "memory" => b \in Buffer /\ size <= BufferSize[b]
  <2>1. SUFFICES ASSUME kind = "memory" PROVE b \in Buffer /\ size <= BufferSize[b]
    OBVIOUS
  <2>2. attached[a].start = b
    BY <1>1, <2>1 DEF MemoryTaken
  <2>3. b \in Buffer /\ attached[a].size = BufferSize[b]
    BY <1>2, <1>7, <2>2 DEF Memory, StackInv, AttachedUnused
  <2> QED
    BY <1>2, <2>1, <2>3, BufferIsEnough
<1>10. kind # "memory" => b \in Heap /\ b \notin Buffer
  BY <1>1, StackAllocatorAssumption DEF SystemTaken
<1>11. kind = "memory" => b \notin Heap
  BY <1>9, StackAllocatorAssumption
<1> HIDE DEF size, needed, inUse
<1>12. /\ context'[c] = [block |-> b, size |-> size] /\ parts'[c] = needed
       /\ \A d \in Container \ {c} : context'[d] = context[d] /\ parts'[d] = parts[d]
  BY <1>1, <1>2 DEF StackTypeOK
<1>13. Live(c)' /\ \A d \in Container \ {c} : Live(d)' <=> Live(d)
  <2>1. [block |-> b, size |-> size] # NoStack
    BY <1>7 DEF NoStack
  <2> QED
    BY <1>12, <2>1 DEF Live
<1>14. held' = IF kind = "memory" THEN held ELSE [held EXCEPT ![b] = size]
  BY <1>1 DEF MemoryTaken, SystemTaken
<1>15. attached' = IF kind = "memory" THEN [attached EXCEPT ![a] = inUse] ELSE attached
  BY <1>1, <1>6 DEF MemoryTaken, SystemTaken, inUse
<1>16. StackTypeOK'
  <2>1. kept' \in [Container -> Memory]
    BY <1>1, <1>2, <1>6 DEF StackTypeOK, Empty, Memory
  <2>2. context' \in [Container -> [block : Buffer \cup Heap \cup {NoMemory}, size : Nat]]
    BY <1>1, <1>2, <1>3 DEF StackTypeOK
  <2>3. parts' \in [Container -> [private : Nat, object : Nat, offset : Nat]]
    BY <1>1, <1>2, <1>4 DEF StackTypeOK
  <2>4. held' \in [Heap -> Nat]
    BY <1>2, <1>3, <1>14 DEF StackTypeOK
  <2>5. attached' \in [Allocator -> Memory]
    BY <1>2, <1>6, <1>15 DEF StackTypeOK
  <2> QED
    BY <1>1, <1>2, <2>1, <2>2, <2>3, <2>4, <2>5 DEF StackTypeOK
<1>17. PartsFit'
  <2>1. Guard' = Guard
    BY <1>1 DEF Guard
  <2> QED
    BY <1>3, <1>4, <1>5, <1>12, <1>13, <2>1 DEF StackInv, PartsFit
<1>18. \A d \in Container : Live(d) => context[d].block # b
  BY <1>8 DEF InUse
<1>19. BlocksApart'
  BY <1>1, <1>9, <1>10, <1>12, <1>13, <1>18 DEF StackInv, BlocksApart
<1>20. HeldInUse'
  <2>1. ASSUME NEW d \in Container, Live(d)', context'[d].block \in Heap
        PROVE  held'[context'[d].block] = context'[d].size
    <3>1. CASE d = c
      BY <1>2, <1>11, <1>12, <1>14, <2>1, <3>1 DEF StackTypeOK
    <3>2. CASE d # c
      <4>1. context[d].block # b /\ Live(d) /\ context'[d] = context[d]
        BY <1>12, <1>13, <1>18, <2>1, <3>2
      <4> QED
        BY <1>2, <1>14, <2>1, <4>1 DEF StackTypeOK, StackInv, HeldInUse
    <3> QED
      BY <3>1, <3>2
  <2>2. ASSUME NEW x \in Heap, held'[x] # 0 PROVE InUse(x)'
    <3>1. CASE x = b
      BY <1>12, <3>1 DEF InUse
    <3>2. CASE x # b
      <4>1. held[x] # 0
        BY <1>2, <1>14, <2>2, <3>2 DEF StackTypeOK
      <4>2. PICK d \in Container : Live(d) /\ context[d].block = x
        BY <4>1, InUseByLive DEF StackInv, HeldInUse
      <4>3. d # c
        BY <1>1, <4>2
      <4> QED
        BY <1>12, <4>2, <4>3 DEF InUse
    <3> QED
      BY <3>1, <3>2
  <2> QED
    BY <2>1, <2>2 DEF HeldInUse
<1>21. WithinMemory'
  BY <1>9, <1>10, <1>12 DEF StackInv, WithinMemory
<1>22. AttachedUnused'
  <2>1. ASSUME NEW x \in Allocator, attached'[x].start # NoMemory, ~attached'[x].used
        PROVE  x # a \/ kind # "memory"
    BY <1>2, <1>6, <1>15, <2>1 DEF StackTypeOK
  <2>2. ASSUME NEW x \in Allocator, attached'[x].start # NoMemory, ~attached'[x].used
        PROVE  ~InUse(attached[x].start)'
    <3>1. attached'[x] = attached[x]
      BY <1>2, <1>15, <2>1, <2>2 DEF StackTypeOK
    <3>2. ~InUse(attached[x].start)
      BY <2>2, <3>1 DEF StackInv, AttachedUnused
    <3>3. attached[x].start # b
      <4>1. CASE kind = "memory"
        <5>1. x # a /\ attached[a].start = b /\ ~attached[a].used
          BY <1>1, <2>1, <2>2, <4>1 DEF MemoryTaken, HandsOut
        <5> QED
          BY <1>7, <2>2, <3>1, <5>1 DEF StackInv, AttachedUnused
      <4>2. CASE kind # "memory"
        BY <1>2, <1>10, <2>2, <3>1, <4>2 DEF StackTypeOK, Memory
      <4> QED
        BY <4>1, <4>2
    <3>4. \A d \in Container : context'[d].block # attached[x].start
      BY <1>12, <3>2, <3>3 DEF InUse
    <3> QED
      BY <3>1, <3>4 DEF InUse
  <2>3. \A x \in Allocator :
          /\ attached'[x].start = attached[x].start /\ attached'[x].size = attached[x].size
          /\ attached[x].used => attached'[x].used
    BY <1>2, <1>6, <1>15 DEF StackTypeOK
  <2> HIDE DEF Live
  <2>4. ASSUME NEW x \in Allocator, attached'[x].start # NoMemory
        PROVE  attached'[x].size = BufferSize[attached'[x].start]
    BY <2>3, <2>4 DEF StackInv, AttachedUnused
  <2>5. ASSUME NEW x \in Allocator, attached'[x].start # NoMemory, ~attached'[x].used,
               NEW y \in Allocator \ {x}, attached'[y].start = attached'[x].start
        PROVE  attached'[y].used
    <3>1. attached[x].start # NoMemory /\ ~attached[x].used /\ attached[y].start = attached[x].start
      BY <2>3, <2>5
    <3>2. attached[y].used
      BY <3>1 DEF StackInv, AttachedUnused
    <3> QED
      BY <2>3, <3>2
  <2> QED
    BY <2>2, <2>4, <2>5 DEF AttachedUnused
<1> QED
  BY <1>16, <1>17, <1>19, <1>20, <1>21, <1>22 DEF StackInv

\* The client attaches memory that is in no use.
LEMMA AttachInv ==
  ASSUME StackInv, NEW a \in Allocator, NEW b \in Buffer, Attach(a, b)
  PROVE  StackInv'
<1> DEFINE memory == [start |-> b, size |-> BufferSize[b], used |-> FALSE]
<1>1. /\ kind = "memory" /\ ~InUse(b)
      /\ \A x \in Allocator \ {a} : attached[x].start = b => attached[x].used
      /\ attached' = [attached EXCEPT ![a] = memory]
      /\ UNCHANGED <<kind, native, kept, context, parts, held>>
  BY DEF Attach
<1>2. b # NoMemory /\ BufferSize[b] \in Nat
  BY StackAllocatorAssumption
<1>3. memory \in Memory /\ memory.start = b /\ memory.size = BufferSize[b] /\ ~memory.used
  BY <1>2 DEF Memory
<1> HIDE DEF memory
<1>4. StackTypeOK'
  BY <1>1, <1>3 DEF StackInv, StackTypeOK
<1>5. PartsFit' /\ BlocksApart' /\ HeldInUse' /\ WithinMemory'
  <2>1. Guard' = Guard /\ \A c \in Container : Live(c)' <=> Live(c)
    BY <1>1 DEF Guard, Live
  <2>2. \A x \in Heap : InUse(x)' <=> InUse(x)
    BY <1>1 DEF InUse
  <2>3. PartsFit'
    BY <1>1, <2>1 DEF StackInv, PartsFit
  <2>4. BlocksApart'
    BY <1>1, <2>1 DEF StackInv, BlocksApart
  <2>5. HeldInUse'
    BY <1>1, <2>1, <2>2 DEF StackInv, HeldInUse
  <2>6. WithinMemory'
    BY <1>1 DEF StackInv, WithinMemory
  <2> QED
    BY <2>3, <2>4, <2>5, <2>6
<1>6. attached'[a] = memory /\ \A x \in Allocator \ {a} : attached'[x] = attached[x]
  BY <1>1 DEF StackInv, StackTypeOK
<1>7. AttachedUnused'
  <2>1. ASSUME NEW x \in Allocator, attached'[x].start # NoMemory
        PROVE  attached'[x].size = BufferSize[attached'[x].start]
    BY <1>3, <1>6, <2>1 DEF StackInv, AttachedUnused
  <2>2. ASSUME NEW x \in Allocator, attached'[x].start # NoMemory, ~attached'[x].used
        PROVE  \A d \in Container : context'[d].block # attached'[x].start
    <3>1. CASE x = a
      BY <1>1, <1>3, <1>6, <3>1 DEF InUse
    <3>2. CASE x # a
      <4>1. ~InUse(attached[x].start)
        BY <1>6, <2>2, <3>2 DEF StackInv, AttachedUnused
      <4> QED
        BY <1>1, <1>6, <3>2, <4>1 DEF InUse
    <3> QED
      BY <3>1, <3>2
  <2>3. ASSUME NEW x \in Allocator, attached'[x].start # NoMemory, ~attached'[x].used,
               NEW y \in Allocator \ {x}, attached'[y].start = attached'[x].start
        PROVE  attached'[y].used
    <3>1. CASE x = a
      BY <1>1, <1>3, <1>6, <2>3, <3>1
    <3>2. CASE y = a
      BY <1>1, <1>3, <1>6, <2>3, <3>2
    <3>3. CASE x # a /\ y # a
      BY <1>6, <2>3, <3>3 DEF StackInv, AttachedUnused
    <3> QED
      BY <3>1, <3>2, <3>3
  <2> QED
    BY <2>1, <2>2, <2>3 DEF AttachedUnused, InUse
<1> QED
  BY <1>4, <1>5, <1>7 DEF StackInv

\* What one allocator may hand out is moved, whole, to another.
LEMMA MoveInv ==
  ASSUME StackInv, NEW a \in Allocator, NEW x \in Allocator, Move(a, x)
  PROVE  StackInv'
<1>1. /\ a # x /\ attached' = [attached EXCEPT ![a] = attached[x], ![x] = attached[a]]
      /\ UNCHANGED <<kind, native, kept, context, parts, held>>
  BY DEF Move
<1>2. StackTypeOK'
  BY <1>1 DEF StackInv, StackTypeOK
<1>3. PartsFit' /\ BlocksApart' /\ HeldInUse' /\ WithinMemory'
  <2>1. Guard' = Guard /\ \A c \in Container : Live(c)' <=> Live(c)
    BY <1>1 DEF Guard, Live
  <2>2. \A b \in Heap : InUse(b)' <=> InUse(b)
    BY <1>1 DEF InUse
  <2>3. PartsFit'
    BY <1>1, <2>1 DEF StackInv, PartsFit
  <2>4. BlocksApart'
    BY <1>1, <2>1 DEF StackInv, BlocksApart
  <2>5. HeldInUse'
    BY <1>1, <2>1, <2>2 DEF StackInv, HeldInUse
  <2>6. WithinMemory'
    BY <1>1 DEF StackInv, WithinMemory
  <2> QED
    BY <2>3, <2>4, <2>5, <2>6
<1> DEFINE from(y) == IF y = a THEN x ELSE IF y = x THEN a ELSE y
<1>4. \A y \in Allocator : from(y) \in Allocator /\ attached'[y] = attached[from(y)]
  BY <1>1 DEF StackInv, StackTypeOK
<1>5. \A y, z \in Allocator : y # z => from(y) # from(z)
  BY <1>1
<1> HIDE DEF from
<1>6. AttachedUnused'
  <2>1. ASSUME NEW y \in Allocator, attached'[y].start # NoMemory
        PROVE  attached'[y].size = BufferSize[attached'[y].start]
    BY <1>4, <2>1 DEF StackInv, AttachedUnused
  <2>2. ASSUME NEW y \in Allocator, attached'[y].start # NoMemory, ~attached'[y].used
        PROVE  \A d \in Container : context'[d].block # attached'[y].start
    <3>1. ~InUse(attached[from(y)].start)
      BY <1>4, <2>2 DEF StackInv, AttachedUnused
    <3> QED
      BY <1>1, <1>4, <3>1 DEF InUse
  <2>3. ASSUME NEW y \in Allocator, attached'[y].start # NoMemory, ~attached'[y].used,
               NEW z \in Allocator \ {y}, attached'[z].start = attached'[y].start
        PROVE  attached'[z].used
    <3>1. from(z) \in Allocator \ {from(y)} /\ from(y) \in Allocator
      BY <1>4, <1>5
    <3>2. attached[from(z)].start = attached[from(y)].start /\ ~attached[from(y)].used
          /\ attached[from(y)].start # NoMemory
      BY <1>4, <2>3
    <3>3. attached[from(z)].used
      BY <3>1, <3>2 DEF StackInv, AttachedUnused
    <3> QED
      BY <1>4, <3>3
  <2> QED
    BY <2>1, <2>2, <2>3 DEF AttachedUnused, InUse
<1> QED
  BY <1>2, <1>3, <1>6 DEF StackInv

\* A buffer that was too small stays with its allocator, in use.
LEMMA CreateFailsInv ==
  ASSUME StackInv, NEW a \in Allocator, NEW b \in Buffer, NEW request \in Request,
         CreateFails(a, b, request)
  PROVE  StackInv'
<1> DEFINE inUse == [attached[a] EXCEPT !.used = TRUE]
<1>1. /\ attached[a].start = b
      /\ attached' = [attached EXCEPT ![a] = IF Movable(inUse) THEN Empty ELSE inUse]
      /\ UNCHANGED <<kind, native, kept, context, parts, held>>
  BY DEF CreateFails, MemoryTaken
<1>2. attached[a] \in Memory
  BY DEF StackInv, StackTypeOK
<1>3. inUse \in Memory /\ ~Movable(inUse) /\ inUse.used /\ inUse.start = attached[a].start
      /\ inUse.size = attached[a].size
  BY <1>2 DEF Memory, Movable
<1> HIDE DEF inUse
<1>4. attached' = [attached EXCEPT ![a] = inUse]
  BY <1>1, <1>3
<1>5. StackTypeOK'
  BY <1>1, <1>3, <1>4 DEF StackInv, StackTypeOK
<1>6. PartsFit' /\ BlocksApart' /\ HeldInUse' /\ WithinMemory'
  <2>1. Guard' = Guard /\ \A c \in Container : Live(c)' <=> Live(c)
    BY <1>1 DEF Guard, Live
  <2>2. \A x \in Heap : InUse(x)' <=> InUse(x)
    BY <1>1 DEF InUse
  <2>3. PartsFit'
    BY <1>1, <2>1 DEF StackInv, PartsFit
  <2>4. BlocksApart'
    BY <1>1, <2>1 DEF StackInv, BlocksApart
  <2>5. HeldInUse'
    BY <1>1, <2>1, <2>2 DEF StackInv, HeldInUse
  <2>6. WithinMemory'
    BY <1>1 DEF StackInv, WithinMemory
  <2> QED
    BY <2>3, <2>4, <2>5, <2>6
<1>7. \A x \in Allocator :
        /\ attached'[x].start = attached[x].start /\ attached'[x].size = attached[x].size
        /\ attached[x].used => attached'[x].used
  BY <1>3, <1>4 DEF StackInv, StackTypeOK
<1>8. AttachedUnused'
  <2>1. ASSUME NEW x \in Allocator, attached'[x].start # NoMemory
        PROVE  attached'[x].size = BufferSize[attached'[x].start]
    BY <1>7, <2>1 DEF StackInv, AttachedUnused
  <2>2. ASSUME NEW x \in Allocator, attached'[x].start # NoMemory, ~attached'[x].used
        PROVE  \A d \in Container : context'[d].block # attached'[x].start
    <3>1. ~InUse(attached[x].start)
      BY <1>7, <2>2 DEF StackInv, AttachedUnused
    <3> QED
      BY <1>1, <1>7, <3>1 DEF InUse
  <2>3. ASSUME NEW x \in Allocator, attached'[x].start # NoMemory, ~attached'[x].used,
               NEW y \in Allocator \ {x}, attached'[y].start = attached'[x].start
        PROVE  attached'[y].used
    <3>1. attached[x].start # NoMemory /\ ~attached[x].used /\ attached[y].start = attached[x].start
      BY <1>7, <2>3
    <3>2. attached[y].used
      BY <3>1 DEF StackInv, AttachedUnused
    <3> QED
      BY <1>7, <3>2
  <2> QED
    BY <2>1, <2>2, <2>3 DEF AttachedUnused, InUse
<1> QED
  BY <1>5, <1>6, <1>8 DEF StackInv

\* What is given back is what was taken, so that no more of the block is mapped.
LEMMA ReleaseInv ==
  ASSUME StackInv, NEW c \in Container, ReleaseContainer(c)
  PROVE  StackInv'
<1> DEFINE b == context[c].block
<1>1. /\ Live(c)
      /\ held' = [x \in Heap |-> IF x = b THEN held[x] - Returned(c) ELSE held[x]]
      /\ context' = [context EXCEPT ![c] = NoStack]
      /\ parts' = [parts EXCEPT ![c] = NoParts]
      /\ kept' = [kept EXCEPT ![c] = Empty]
      /\ UNCHANGED <<kind, native, attached>>
  BY DEF ReleaseContainer
<1>2. StackTypeOK
  BY DEF StackInv
<1>3. b \in Heap => held[b] = context[c].size /\ Returned(c) = held[b]
  BY <1>1 DEF StackInv, HeldInUse, Returned
<1>4. b # NoMemory
  BY <1>1, StackAllocatorAssumption DEF StackInv, BlocksApart
<1> HIDE DEF b
<1>5. held' = [x \in Heap |-> IF x = b THEN 0 ELSE held[x]]
  <2>1. \A x \in Heap : held[x] \in Nat
    BY <1>2 DEF StackTypeOK
  <2> QED
    BY <1>1, <1>3, <2>1
<1>6. context'[c] = NoStack /\ parts'[c] = NoParts
      /\ \A d \in Container \ {c} : context'[d] = context[d] /\ parts'[d] = parts[d]
  BY <1>1, <1>2 DEF StackTypeOK
<1>7. ~Live(c)' /\ \A d \in Container \ {c} : Live(d)' <=> Live(d)
  BY <1>6 DEF Live
<1>8. StackTypeOK'
  <2>1. held' \in [Heap -> Nat]
    BY <1>2, <1>5 DEF StackTypeOK
  <2>2. kept' \in [Container -> Memory]
    BY <1>1, <1>2 DEF StackTypeOK, Empty, Memory
  <2>3. context' \in [Container -> [block : Buffer \cup Heap \cup {NoMemory}, size : Nat]]
    BY <1>1, <1>2 DEF StackTypeOK, NoStack
  <2>4. parts' \in [Container -> [private : Nat, object : Nat, offset : Nat]]
    BY <1>1, <1>2 DEF StackTypeOK, NoParts
  <2> QED
    BY <1>1, <1>2, <2>1, <2>2, <2>3, <2>4 DEF StackTypeOK
<1>9. PartsFit'
  <2>1. Guard' = Guard
    BY <1>1 DEF Guard
  <2> QED
    BY <1>6, <1>7, <2>1 DEF StackInv, PartsFit
<1>10. BlocksApart'
  BY <1>1, <1>6, <1>7 DEF StackInv, BlocksApart
<1>11. \A d \in Container \ {c} : context[d].block # b
  <2>1. ASSUME NEW d \in Container \ {c}, context[d].block = b PROVE FALSE
    <3>1. Live(d)
      BY <1>4, <2>1 DEF Live, NoStack
    <3> QED
      BY <1>1, <2>1, <3>1 DEF StackInv, BlocksApart, b
  <2> QED
    BY <2>1
<1>12. HeldInUse'
  <2>1. ASSUME NEW d \in Container, Live(d)', context'[d].block \in Heap
        PROVE  held'[context'[d].block] = context'[d].size
    <3>1. d # c /\ Live(d) /\ context'[d] = context[d] /\ context[d].block # b
      BY <1>6, <1>7, <1>11, <2>1
    <3> QED
      BY <1>5, <2>1, <3>1 DEF StackInv, HeldInUse
  <2>2. ASSUME NEW x \in Heap, held'[x] # 0 PROVE InUse(x)'
    <3>1. x # b /\ held[x] # 0
      BY <1>5, <2>2
    <3>2. PICK d \in Container : context[d].block = x
      BY <3>1 DEF StackInv, HeldInUse, InUse
    <3>3. d # c
      BY <3>1, <3>2 DEF b
    <3> QED
      BY <1>6, <3>2, <3>3 DEF InUse
  <2> QED
    BY <2>1, <2>2 DEF HeldInUse
<1>13. \A d \in Container : context'[d] = context[d] \/ context'[d].block = NoMemory
  BY <1>6 DEF NoStack
<1>14. WithinMemory'
  BY <1>13, StackAllocatorAssumption DEF StackInv, WithinMemory
<1>15. AttachedUnused'
  <2>1. ASSUME NEW x \in Allocator, attached[x].start # NoMemory, ~attached[x].used
        PROVE  \A d \in Container : context'[d].block # attached[x].start
    <3>1. ~InUse(attached[x].start)
      BY <2>1 DEF StackInv, AttachedUnused
    <3> QED
      BY <1>13, <2>1, <3>1 DEF InUse
  <2>2. \A x \in Allocator : attached'[x] = attached[x]
    BY <1>1
  <2>3. ASSUME NEW x \in Allocator, attached'[x].start # NoMemory
        PROVE  attached'[x].size = BufferSize[attached'[x].start]
    BY <2>2, <2>3 DEF StackInv, AttachedUnused
  <2>4. ASSUME NEW x \in Allocator, attached'[x].start # NoMemory, ~attached'[x].used,
               NEW y \in Allocator \ {x}, attached'[y].start = attached'[x].start
        PROVE  attached'[y].used
    BY <2>2, <2>4 DEF StackInv, AttachedUnused
  <2> QED
    BY <2>1, <2>2, <2>3, <2>4 DEF AttachedUnused, InUse
<1> QED
  BY <1>8, <1>9, <1>10, <1>12, <1>14, <1>15 DEF StackInv

LEMMA StackInitially == StackInit => StackInv
<1> SUFFICES ASSUME StackInit PROVE StackInv
  OBVIOUS
<1>1. \A c \in Container : ~Live(c) /\ context[c].block = NoMemory
  BY DEF StackInit, Live, NoStack
<1>2. \A a \in Allocator : attached[a].start = NoMemory
  BY DEF StackInit, Empty
<1>3. \A b \in Heap : held[b] = 0
  BY DEF StackInit
<1>4. StackTypeOK
  BY DEF StackInit, StackTypeOK, Empty, Memory, NoStack, NoParts
<1>5. NoMemory \notin Buffer
  BY StackAllocatorAssumption
<1> QED
  BY <1>1, <1>2, <1>3, <1>4, <1>5
  DEF StackInv, PartsFit, BlocksApart, HeldInUse, WithinMemory, AttachedUnused

LEMMA StackStep ==
  ASSUME StackInv, WholePages, WithinMaximum, [StackNext]_stackVars
  PROVE  StackInv'
<1>1. ASSUME NEW a \in Allocator, NEW b \in Buffer, Attach(a, b) PROVE StackInv'
  BY <1>1, AttachInv
<1>2. ASSUME NEW a \in Allocator, NEW x \in Allocator, Move(a, x) PROVE StackInv'
  BY <1>2, MoveInv
<1>3. ASSUME NEW c \in Container, NEW a \in Allocator, NEW b \in Buffer \cup Heap,
             NEW request \in Request, CreateContainer(c, a, b, request)
      PROVE  StackInv'
  BY <1>3, PlacedInv DEF CreateContainer
<1>4. ASSUME NEW c \in Container, NEW a \in Allocator, NEW b \in Buffer \cup Heap,
             NEW request \in Request, CreateFiberContainer(c, a, b, request)
      PROVE  StackInv'
  <2>1. native = "fiber" /\ Placed(c, a, b, request)
    BY <1>4 DEF CreateFiberContainer
  <2> QED
    BY <2>1, PlacedInv
<1>5. ASSUME NEW a \in Allocator, NEW b \in Buffer, NEW request \in Request,
             CreateFails(a, b, request)
      PROVE  StackInv'
  BY <1>5, CreateFailsInv
<1>6. ASSUME NEW c \in Container, ReleaseContainer(c) PROVE StackInv'
  BY <1>6, ReleaseInv
<1>7. CASE UNCHANGED stackVars
  BY <1>7
  DEF stackVars, StackInv, StackTypeOK, PartsFit, BlocksApart, HeldInUse, WithinMemory,
      AttachedUnused, Live, InUse, Guard
<1> QED
  BY <1>1, <1>2, <1>3, <1>4, <1>5, <1>6, <1>7 DEF StackNext

\* Whatever is asked for, by any number of containers, from any buffers of whole pages or
\* from the system: the parts of a stack lie below one another and above its guard page,
\* no two coroutines share a block, and the system holds the stacks that are in use and
\* nothing else (coroutine_context_container.h:72-116).
THEOREM StacksAlwaysFit ==
  ASSUME WholePages, WithinMaximum
  PROVE  StackSpec => []StacksFit
<1>1. StackInv /\ [StackNext]_stackVars => StackInv'
  BY StackStep
<1> QED
  BY <1>1, StackInitially, StackInvFits, PTL DEF StackSpec

\* The variables of the allocators and the containers have their types.
THEOREM StackTypes ==
  ASSUME WholePages, WithinMaximum
  PROVE  StackSpec => []StackTypeOK
<1>1. StackInv /\ [StackNext]_stackVars => StackInv'
  BY StackStep
<1>2. StackInv => StackTypeOK
  BY DEF StackInv
<1> QED
  BY <1>1, <1>2, StackInitially, PTL DEF StackSpec

=============================================================================
