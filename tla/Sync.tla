-------------------------------- MODULE Sync --------------------------------
(***************************************************************************)
(* Mutexes and a mailbox used by the same threads under one scheduler: a   *)
(* thread may receive or send while it holds a mutex, and be switched out  *)
(* in the middle of either primitive.                                      *)
(***************************************************************************)
EXTENDS SleepMutex, Mailbox

ASSUME SyncAssumption == Box \notin Mutexes

syncVars == <<schedVars, mutexVars, boxVars>>

\* The two primitives do not nest: neither calls the other.
InMutex == place[current] \in {"retry", "waking"}

InMailbox == boxPlace[current] # "out"

\* A step of Mutex<T> or of its guard.
MutexStepOf ==
  /\ \E m \in Mutexes :
       LockAcquire(m) \/ LockSleep(m) \/ GuardRelease(m) \/ GuardWake(m)
  /\ ~InMailbox
  /\ UNCHANGED boxVars

\* A step of Mailbox<T> in a thread.
MailboxStepOf ==
  /\ SendPush \/ SendCount \/ SendWake \/ AcquirePermit \/ AcquireSleep \/ ReceivePop
  /\ ~InMutex
  /\ UNCHANGED mutexVars

\* A thread returns from its entry function, or joins another.
SyncExit ==
  /\ ThreadExit
  /\ ~InMailbox
  /\ UNCHANGED boxVars

SyncJoin(x) ==
  /\ ThreadJoin(x)
  /\ ~InMailbox
  /\ UNCHANGED boxVars

SyncInit == MutexInit /\ MailboxInit

SyncNext ==
  \/ MutexStepOf
  \/ MailboxStepOf
  \/ IsrSend /\ UNCHANGED mutexVars
  \/ SyncExit
  \/ \E x \in Tids : SyncJoin(x)
  \/ Background /\ UNCHANGED boxVars

SyncSpec == SyncInit /\ [][SyncNext]_syncVars

----------------------------------------------------------------------------
(* Properties. *)

\* The two primitives do not disturb each other: each keeps its inductive
\* invariant while the other blocks and wakes threads of the same scheduler.
SyncInv == MutexInv /\ BoxInv

=============================================================================
