------------------------------ MODULE Mailbox ------------------------------
(***************************************************************************)
(* Mailbox<T> (src/sync/ipc.rs) on its Semaphore (src/sync/sync.rs).       *)
(*                                                                         *)
(* Interrupt handlers (the keyboard handler, the serial poll of the timer  *)
(* handler) send with interrupts disabled, in one step.  A thread sends in *)
(* three: push_back, fetch_add, wake_one, and receives in two: acquire,    *)
(* pop_front; it may be switched out between them.  The messages are only  *)
(* counted: their contents matter to nobody here.                          *)
(***************************************************************************)
EXTENDS Scheduler

CONSTANTS
  Box,      \* the wait queue of the mailbox's semaphore
  MaxLen    \* bound on the queue (the code's VecDeque is unbounded)

ASSUME MailboxAssumption ==
  /\ Box \in Objects
  /\ MaxLen \in Nat
  /\ IsFiniteSet(Tids)

VARIABLES
  count,    \* Semaphore.count
  qlen,     \* the number of messages in Mailbox.queue
  boxPlace,    \* where a thread is in send() / receive()
  missed    \* receive() returned None

boxVars == <<count, qlen, boxPlace, missed>>
boxAllVars == <<schedVars, boxVars>>

BoxPlace == {"out", "pushed", "counted", "retry", "permit"}

MailboxTypeOK ==
  /\ SchedTypeOK
  /\ count \in Nat
  /\ qlen \in Nat
  /\ boxPlace \in [Tids -> BoxPlace]
  /\ missed \in BOOLEAN

At(p) == {t \in Tids : boxPlace[t] = p}

\* The receivers that were woken and have not yet tried again.
Returning == {t \in At("retry") : state[t] = "Ready"}

----------------------------------------------------------------------------
(* Operations. *)

\* (Mutant: nobody is woken.)
WakeReceiverNone == UNCHANGED schedVars

\* WaitQueue::wake_one on the semaphore's queue.
WakeReceiver == IF waitq[Box] = <<>> THEN UNCHANGED schedVars ELSE WakeOne(Box)

\* send() in an interrupt handler.
IsrSend ==
  /\ qlen < MaxLen
  /\ qlen' = qlen + 1
  /\ count' = count + 1
  /\ WakeReceiver
  /\ UNCHANGED <<boxPlace, missed>>

\* send() in a thread: push_back under the queue's lock ...
SendPush ==
  /\ Running(current) /\ boxPlace[current] = "out"
  /\ qlen < MaxLen
  /\ qlen' = qlen + 1
  /\ boxPlace' = [boxPlace EXCEPT ![current] = "pushed"]
  /\ UNCHANGED <<schedVars, count, missed>>

\* ... Semaphore::release, fetch_add ...
SendCount ==
  /\ Running(current) /\ boxPlace[current] = "pushed"
  /\ count' = count + 1
  /\ boxPlace' = [boxPlace EXCEPT ![current] = "counted"]
  /\ UNCHANGED <<schedVars, qlen, missed>>

\* ... and wake_one.
SendWake ==
  /\ Running(current) /\ boxPlace[current] = "counted"
  /\ WakeReceiver
  /\ boxPlace' = [boxPlace EXCEPT ![current] = "out"]
  /\ UNCHANGED <<count, qlen, missed>>

Acquiring == Running(current) /\ boxPlace[current] \in {"out", "retry"}

\* The test of the count in acquire().
PermitFree == count > 0

\* (Mutant: acquire does not take the permit it saw.)
AcquirePermitKept ==
  /\ Acquiring
  /\ PermitFree
  /\ boxPlace' = [boxPlace EXCEPT ![current] = "permit"]
  /\ UNCHANGED <<schedVars, count, qlen, missed>>

\* Semaphore::acquire takes a permit.
AcquirePermit ==
  /\ Acquiring
  /\ PermitFree
  /\ count' = count - 1
  /\ boxPlace' = [boxPlace EXCEPT ![current] = "permit"]
  /\ UNCHANGED <<schedVars, qlen, missed>>

\* Semaphore::acquire finds the count 0 and sleeps.
AcquireSleep ==
  /\ Acquiring
  /\ ~PermitFree
  /\ BlockOn(Box)
  /\ boxPlace' = [boxPlace EXCEPT ![current] = "retry"]
  /\ UNCHANGED <<count, qlen, missed>>

\* receive() pops the front of the queue after acquire() returned.
ReceivePop ==
  /\ Running(current) /\ boxPlace[current] = "permit"
  /\ IF qlen = 0 THEN missed' = TRUE /\ UNCHANGED qlen
                 ELSE qlen' = qlen - 1 /\ UNCHANGED missed
  /\ boxPlace' = [boxPlace EXCEPT ![current] = "out"]
  /\ UNCHANGED <<schedVars, count>>

\* A thread returns from its entry function.
BoxExit ==
  /\ current # None /\ boxPlace[current] = "out"
  /\ Exit({})
  /\ UNCHANGED boxVars

\* The rest of the scheduler does not touch the mailbox.
BoxBackground ==
  /\ \/ \E t \in Tids : BootSpawn(t)
     \/ \E t \in Tids : Spawn(t)
     \/ \E next \in Tids : Yield(next)
     \/ \E next \in Tids : Tick(next)
  /\ UNCHANGED boxVars

MailboxInit ==
  /\ SchedInit
  /\ count = 0
  /\ qlen = 0
  /\ boxPlace = [t \in Tids |-> "out"]
  /\ missed = FALSE

MailboxNext ==
  \/ IsrSend
  \/ SendPush
  \/ SendCount
  \/ SendWake
  \/ AcquirePermit
  \/ AcquireSleep
  \/ ReceivePop
  \/ BoxExit
  \/ BoxBackground

MailboxSpec == MailboxInit /\ [][MailboxNext]_boxAllVars

----------------------------------------------------------------------------
(* Properties. *)

\* Every message is accounted for: it is available as a permit, or promised
\* to a receiver that holds a permit, or pushed by a sender that has not yet
\* released the semaphore.
Accounting ==
  qlen = count + Cardinality(At("permit")) + Cardinality(At("pushed"))

\* receive() never returns None: a permit always finds a message.
NeverMissed == ~missed

\* No wake-up is lost: while threads sleep on the mailbox, every permit has a
\* woken receiver on its way, or a sender about to wake one.
NoLostSend ==
  waitq[Box] # <<>> =>
    count <= Cardinality(Returning) + Cardinality(At("counted"))

\* The threads queued on the semaphore are exactly those that sleep inside
\* acquire() and will look at the count again.
ReceiversQueued ==
  \A t \in Tids :
    t \in Waiters(Box) <=> boxPlace[t] = "retry" /\ state[t] = "Blocked"

\* The inductive invariant: Accounting makes the permit of ReceivePop find a
\* message; NoLostSend needs ReceiversQueued and BlockedOnce of SchedInv.
BoxInv ==
  /\ SchedInv
  /\ MailboxTypeOK
  /\ Accounting
  /\ NeverMissed
  /\ NoLostSend
  /\ ReceiversQueued

\* "The semaphore count always equals the number of messages in the queue."
CountIsLength == count = qlen

=============================================================================
