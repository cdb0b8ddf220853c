------------------------------ MODULE IntrusivePtr ------------------------------
(***************************************************************************)
(* util::intrusive_ptr and the counter in the object it points to          *)
(* (include/libcopp/utils/intrusive_ptr.h), as the stackful task and the   *)
(* coroutine container use it: threads with pointer variables of their own *)
(* that they copy to one another, move, swap and let go.                   *)
(*                                                                         *)
(* A pointer variable is only touched by its thread; what threads share is *)
(* the counter.  An assignment makes a temporary, swaps it with the        *)
(* variable and destroys it, and it is the temporary that lets go.         *)
(***************************************************************************)
EXTENDS Integers, FiniteSets

CONSTANTS
  User,      \* the threads
  Object,
  Variable,  \* the pointer variables
  UserOf,    \* whose variable each is
  Nil

ASSUME PtrAssumption ==
  /\ IsFiniteSet(User) /\ IsFiniteSet(Variable)
  /\ UserOf \in [Variable -> User]
  /\ Nil \notin Object

VARIABLES
  px,       \* of each variable
  counter,  \* intrusive_ref_counter_ of each object
  state,    \* of each object: "none", "live", "destroyed"
  letting,  \* of each thread: the object that its temporary lets go, after the decrement
  seen,     \* and what the decrement returned
  raw       \* of each thread: what detach() returned to it

ptrVars == <<px, counter, state, letting, seen, raw>>

PtrTypeOK ==
  /\ px \in [Variable -> Object \cup {Nil}]
  /\ counter \in [Object -> 0..(Cardinality(Variable) + Cardinality(User))]
  /\ state \in [Object -> {"none", "live", "destroyed"}]
  /\ letting \in [User -> Object \cup {Nil}]
  /\ seen \in [User -> Nat]
  /\ raw \in [User -> Object \cup {Nil}]

PtrInit ==
  /\ px = [v \in Variable |-> Nil]
  /\ counter = [o \in Object |-> 0]
  /\ state = [o \in Object |-> "none"]
  /\ letting = [t \in User |-> Nil]
  /\ seen = [t \in User |-> 0]
  /\ raw = [t \in User |-> Nil]

ReadyVariable(v) == letting[UserOf[v]] = Nil

\* intrusive_ptr_add_ref() and the decrement of intrusive_ptr_release().
Counted(o, n) == IF o = Nil THEN counter ELSE [counter EXCEPT ![o] = @ + n]
AddRef(c, o) == IF o = Nil THEN c ELSE [c EXCEPT ![o] = @ + 1]

\* The variable v gets o, counted in c; a temporary has what was in v.
SwapPtr(v, o, c) ==
  LET old == px[v]
  IN  /\ px' = [px EXCEPT ![v] = o]
      /\ letting' = [letting EXCEPT ![UserOf[v]] = old]
      /\ counter' = IF old = Nil THEN c ELSE [c EXCEPT ![old] = @ - 1]
      /\ seen' = [seen EXCEPT ![UserOf[v]] = IF old = Nil THEN 0 ELSE c[old] - 1]

\* intrusive_ptr(new T): the counter starts at 0.  An address may be used again.
NewPtr(v, o) ==
  /\ ReadyVariable(v) /\ state[o] # "live"
  /\ state' = [state EXCEPT ![o] = "live"]
  /\ SwapPtr(v, o, AddRef([counter EXCEPT ![o] = 0], o))
  /\ UNCHANGED raw

\* A copy: from a variable of the same thread, or of another one that waits for it.
CopyPtr(v, w) ==
  /\ v # w /\ ReadyVariable(v) /\ ReadyVariable(w) /\ px[w] # Nil
  /\ SwapPtr(v, px[w], AddRef(counter, px[w]))
  /\ UNCHANGED <<state, raw>>

\* A move: `w' is empty afterwards, and nothing is counted.
MovedFrom(w) == Nil

MovePtr(v, w) ==
  /\ v # w /\ UserOf[v] = UserOf[w] /\ ReadyVariable(v) /\ px[w] # Nil
  /\ LET old == px[v]
     IN  /\ px' = [px EXCEPT ![v] = px[w], ![w] = MovedFrom(w)]
         /\ letting' = [letting EXCEPT ![UserOf[v]] = old]
         /\ counter' = Counted(old, -1)
         /\ seen' = [seen EXCEPT ![UserOf[v]] = IF old = Nil THEN 0 ELSE counter[old] - 1]
  /\ UNCHANGED <<state, raw>>

\* reset() and the destructor
ResetPtr(v) ==
  /\ ReadyVariable(v) /\ px[v] # Nil
  /\ SwapPtr(v, Nil, counter)
  /\ UNCHANGED <<state, raw>>

\* detach() gives the reference away, and intrusive_ptr(p, false) takes it over.
DetachPtr(v) ==
  /\ ReadyVariable(v) /\ px[v] # Nil /\ raw[UserOf[v]] = Nil
  /\ raw' = [raw EXCEPT ![UserOf[v]] = px[v]]
  /\ px' = [px EXCEPT ![v] = Nil]
  /\ UNCHANGED <<counter, state, letting, seen>>

AdoptPtr(v) ==
  /\ ReadyVariable(v) /\ raw[UserOf[v]] # Nil
  /\ SwapPtr(v, raw[UserOf[v]], counter)
  /\ raw' = [raw EXCEPT ![UserOf[v]] = Nil]
  /\ UNCHANGED state

\* The second half of intrusive_ptr_release(): what the decrement returned decides.
\* (MUTANT: the counter is read again)
LastGone_Reload(t) == counter[letting[t]] = 0
LastGone(t) == seen[t] = 0

ReleasePtr(t) ==
  /\ letting[t] # Nil
  /\ state' = IF LastGone(t) THEN [state EXCEPT ![letting[t]] = "destroyed"] ELSE state
  /\ letting' = [letting EXCEPT ![t] = Nil]
  /\ seen' = [seen EXCEPT ![t] = 0]
  /\ UNCHANGED <<px, counter, raw>>

PtrNext ==
  \/ \E v \in Variable : ResetPtr(v) \/ DetachPtr(v) \/ AdoptPtr(v)
  \/ \E v \in Variable, o \in Object : NewPtr(v, o)
  \/ \E v, w \in Variable : CopyPtr(v, w) \/ MovePtr(v, w)
  \/ \E t \in User : ReleasePtr(t)

PtrSpec == PtrInit /\ [][PtrNext]_ptrVars

-----------------------------------------------------------------------------
(* Properties. *)

References(o) ==
  Cardinality({v \in Variable : px[v] = o}) + Cardinality({t \in User : raw[t] = o})

\* Somebody is about to delete o.
Doomed(o) == {t \in User : letting[t] = o /\ LastGone(t)}

\* The counter is the number of references; an object is there as long as it has one,
\* and when the last is gone exactly one thread destroys it (intrusive_ptr.h:411).
CountedExactly ==
  \A o \in Object :
    /\ counter[o] = References(o)
    /\ References(o) > 0 => state[o] = "live"
    /\ References(o) = 0 /\ state[o] = "live" => Cardinality(Doomed(o)) = 1
    /\ state[o] = "destroyed" => Doomed(o) = {}

=============================================================================
