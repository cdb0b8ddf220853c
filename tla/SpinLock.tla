-------------------------------- MODULE SpinLock --------------------------------
(***************************************************************************)
(* util::lock::spin_lock and lock_holder (include/libcopp/utils/           *)
(* spin_lock.h, lock_holder.h): threads that take one lock through holders *)
(* of their own, wait for it, try it, hand it from holder to holder and    *)
(* give it up.  A step is one access to lock_status_.                      *)
(***************************************************************************)
EXTENDS Naturals

CONSTANTS
  Holder,
  OwnerOf   \* the thread that has each holder in a local variable

UNLOCKED == 0
LOCKED == 1

VARIABLES
  lock_status,  \* lock_status_
  lock_flag,    \* lock_flag_ of each holder: does it name the lock?
  doing         \* of each holder: "idle", "lock" in lock(), "unlock" before unlock()

lockVars == <<lock_status, lock_flag, doing>>

SpinTypeOK ==
  /\ lock_status \in {UNLOCKED, LOCKED}
  /\ lock_flag \in [Holder -> BOOLEAN]
  /\ doing \in [Holder -> {"idle", "lock", "unlock"}]

SpinInit ==
  /\ lock_status = UNLOCKED
  /\ lock_flag = [h \in Holder |-> FALSE]
  /\ doing = [h \in Holder |-> "idle"]

\* A thread is in one call at a time.
IdleThread(t) == \A h \in Holder : OwnerOf[h] = t => doing[h] = "idle"
FreeHolder(h) == IdleThread(OwnerOf[h]) /\ ~lock_flag[h]

\* lock_holder(lock) calls lock(), which exchanges until the lock was free.
\* A thread that holds the lock does not ask for it again: it would wait for itself.
TakeLock(h) ==
  /\ FreeHolder(h)
  /\ \A g \in Holder : OwnerOf[g] = OwnerOf[h] => ~lock_flag[g]
  /\ doing' = [doing EXCEPT ![h] = "lock"]
  /\ UNCHANGED <<lock_status, lock_flag>>

\* exchange(LOCKED): what was there before decides.
WasUnlocked == lock_status = UNLOCKED

Exchange(h) ==
  /\ doing[h] = "lock" /\ WasUnlocked
  /\ lock_status' = LOCKED
  /\ lock_flag' = [lock_flag EXCEPT ![h] = TRUE]
  /\ doing' = [doing EXCEPT ![h] = "idle"]

\* try_lock(): the holder is not available if the lock was not free.
TryLock(h) ==
  /\ FreeHolder(h) /\ WasUnlocked
  /\ lock_status' = LOCKED
  /\ lock_flag' = [lock_flag EXCEPT ![h] = TRUE]
  /\ UNCHANGED doing

\* reset(): the holder forgets the lock and then unlocks it; the destructor too.
ResetHolder(h) ==
  /\ IdleThread(OwnerOf[h]) /\ lock_flag[h]
  /\ lock_flag' = [lock_flag EXCEPT ![h] = FALSE]
  /\ doing' = [doing EXCEPT ![h] = "unlock"]
  /\ UNCHANGED lock_status

Unlock(h) ==
  /\ doing[h] = "unlock"
  /\ lock_status' = UNLOCKED
  /\ doing' = [doing EXCEPT ![h] = "idle"]
  /\ UNCHANGED lock_flag

\* The move constructor leaves nothing behind.  (MUTANT: the lock stays in `from')
LeftBehind_Lock(from) == TRUE
LeftBehind(from) == FALSE

MoveHolder(from, to) ==
  /\ OwnerOf[from] = OwnerOf[to] /\ from # to
  /\ lock_flag[from] /\ FreeHolder(to)
  /\ lock_flag' = [lock_flag EXCEPT ![to] = TRUE, ![from] = LeftBehind(from)]
  /\ UNCHANGED <<lock_status, doing>>

\* operator=(lock_holder&&) does not clear `from', and both give the lock up.
AssignHolder(from, to) ==
  /\ OwnerOf[from] = OwnerOf[to] /\ from # to
  /\ lock_flag[from] /\ FreeHolder(to)
  /\ lock_flag' = [lock_flag EXCEPT ![to] = TRUE]
  /\ UNCHANGED <<lock_status, doing>>

SpinNext ==
  \/ \E h \in Holder : TakeLock(h) \/ Exchange(h) \/ TryLock(h) \/ ResetHolder(h) \/ Unlock(h)
  \/ \E from, to \in Holder : MoveHolder(from, to)

\* Client contract: a holder is not assigned to, which nothing in the library does.
SpinSpec == SpinInit /\ [][SpinNext]_lockVars

\* Without it no lock is safe.
AssignNext == SpinNext \/ \E from, to \in Holder : AssignHolder(from, to)
AssignSpec == SpinInit /\ [][AssignNext]_lockVars

-----------------------------------------------------------------------------
(* Properties. *)

\* The holders that are inside: they name the lock, or are about to give it up.
Inside == {h \in Holder : lock_flag[h] \/ doing[h] = "unlock"}

\* There is one holder inside at most, and lock_status_ says whether there is one: no
\* thread enters while another is inside, none gives up what another one has taken,
\* and the lock is never left behind (spin_lock.h:205, lock_holder.h:98).
MutualExclusion ==
  /\ \A g, h \in Inside : g = h
  /\ lock_status = LOCKED <=> Inside # {}

=============================================================================
