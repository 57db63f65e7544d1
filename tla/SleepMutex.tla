----------------------------- MODULE SleepMutex -----------------------------
(***************************************************************************)
(* The sleeping Mutex<T> of src/sync/sync.rs, used by threads that the     *)
(* scheduler may switch at any point at which interrupts are enabled.      *)
(*                                                                         *)
(* One attempt of the loop in lock() runs with interrupts disabled and is  *)
(* one step.  Dropping the guard is two steps, the store to is_locked and  *)
(* wake_one, with interrupts enabled in between, so another thread may     *)
(* take the lock before the oldest waiter is even woken.                   *)
(***************************************************************************)
EXTENDS Scheduler

CONSTANT Mutexes   \* the wait queues that belong to mutexes

ASSUME MutexAssumption == Mutexes \subseteq Objects /\ None \notin Mutexes

VARIABLES
  locked,   \* Mutex.is_locked
  place,    \* where a thread is in lock() / MutexGuard::drop
  using     \* the mutex it is there for, or None

mutexVars == <<locked, place, using>>
allVars == <<schedVars, mutexVars>>

Place == {"out", "retry", "held", "waking"}

MutexTypeOK ==
  /\ SchedTypeOK
  /\ locked \in [Mutexes -> BOOLEAN]
  /\ place \in [Tids -> Place]
  /\ using \in [Tids -> Mutexes \cup {None}]
  /\ \A t \in Tids : place[t] = "out" <=> using[t] = None

----------------------------------------------------------------------------
(* Operations. *)

\* The current thread is about to make an attempt at m: a fresh call of
\* lock(), or the next turn of its loop.
Attempting(m) ==
  /\ Running(current)
  /\ \/ place[current] = "out"
     \/ place[current] = "retry" /\ using[current] = m

\* (Mutant: compare_exchange always succeeds.)
FreeAlways(m) == TRUE

\* compare_exchange(false, true) on is_locked succeeds.
Free(m) == ~locked[m]

\* lock() takes the mutex.
LockAcquire(m) ==
  /\ Attempting(m)
  /\ Free(m)
  /\ locked' = [locked EXCEPT ![m] = TRUE]
  /\ place' = [place EXCEPT ![current] = "held"]
  /\ using' = [using EXCEPT ![current] = m]
  /\ UNCHANGED schedVars

\* (Mutant: lock() returns after the sleep instead of trying again.)
LockSleepOnce(m) ==
  /\ Attempting(m)
  /\ ~Free(m)
  /\ BlockOn(m)
  /\ UNCHANGED mutexVars

\* lock() finds the mutex taken and sleeps in its queue.
LockSleep(m) ==
  /\ Attempting(m)
  /\ ~Free(m)
  /\ BlockOn(m)
  /\ place' = [place EXCEPT ![current] = "retry"]
  /\ using' = [using EXCEPT ![current] = m]
  /\ UNCHANGED locked

\* MutexGuard::drop, first half: the store.
GuardRelease(m) ==
  /\ Running(current)
  /\ place[current] = "held" /\ using[current] = m
  /\ locked' = [locked EXCEPT ![m] = FALSE]
  /\ place' = [place EXCEPT ![current] = "waking"]
  /\ UNCHANGED <<schedVars, using>>

\* (Mutant: drop wakes nobody.)
WakeNextNone(m) == UNCHANGED schedVars

\* wake_one on the queue of the mutex.
WakeNext(m) == IF waitq[m] = <<>> THEN UNCHANGED schedVars ELSE WakeOne(m)

\* MutexGuard::drop, second half: wake_one.
GuardWake(m) ==
  /\ Running(current)
  /\ place[current] = "waking" /\ using[current] = m
  /\ WakeNext(m)
  /\ place' = [place EXCEPT ![current] = "out"]
  /\ using' = [using EXCEPT ![current] = None]
  /\ UNCHANGED locked

\* A thread returns from its entry function; its guards are dropped by then.
ThreadExit ==
  /\ current # None /\ place[current] = "out"
  /\ Exit({})
  /\ UNCHANGED mutexVars

\* A thread that is not inside the primitive joins another.
ThreadJoin(x) ==
  /\ current # None /\ place[current] \in {"out", "held"}
  /\ Join(x)
  /\ UNCHANGED mutexVars

\* The rest of the scheduler does not touch the mutexes.
Background ==
  /\ \/ \E t \in Tids : BootSpawn(t)
     \/ \E t \in Tids : Spawn(t)
     \/ \E next \in Tids : Yield(next)
     \/ \E next \in Tids : Tick(next)
  /\ UNCHANGED mutexVars

MutexInit ==
  /\ SchedInit
  /\ locked = [m \in Mutexes |-> FALSE]
  /\ place = [t \in Tids |-> "out"]
  /\ using = [t \in Tids |-> None]

MutexNext ==
  \/ \E m \in Mutexes : LockAcquire(m)
  \/ \E m \in Mutexes : LockSleep(m)
  \/ \E m \in Mutexes : GuardRelease(m)
  \/ \E m \in Mutexes : GuardWake(m)
  \/ ThreadExit
  \/ \E x \in Tids : ThreadJoin(x)
  \/ Background

MutexSpec == MutexInit /\ [][MutexNext]_allVars

----------------------------------------------------------------------------
(* Properties. *)

\* At most one thread holds the guard of a mutex, and the lock word says so.
MutualExclusion ==
  \A m \in Mutexes :
    /\ locked[m] <=> \E t \in Tids : place[t] = "held" /\ using[t] = m
    /\ \A t, u \in Tids :
         /\ place[t] = "held" /\ using[t] = m
         /\ place[u] = "held" /\ using[u] = m
         => t = u

\* No wake-up is lost: while a thread sleeps on a mutex, either the mutex is
\* held (and its release will wake one), or a release is about to call
\* wake_one, or a woken thread is on its way to try again.
NoLostWakeup ==
  \A m \in Mutexes : waitq[m] # <<>> =>
    \/ locked[m]
    \/ \E t \in Tids : place[t] = "waking" /\ using[t] = m
    \/ \E t \in Tids : place[t] = "retry" /\ using[t] = m /\ state[t] = "Ready"

\* The threads queued on a mutex are exactly those that sleep inside lock():
\* a wake_one never goes to a thread that waits for something else.
WaitersAreRetrying ==
  \A m \in Mutexes, t \in Tids :
    t \in Waiters(m) <=> place[t] = "retry" /\ using[t] = m /\ state[t] = "Blocked"

\* The inductive invariant: NoLostWakeup needs WaitersAreRetrying (the thread
\* that wake_one wakes will try again), which needs BlockedOnce of SchedInv.
MutexInv ==
  /\ SchedInv
  /\ MutexTypeOK
  /\ MutualExclusion
  /\ NoLostWakeup
  /\ WaitersAreRetrying

=============================================================================
