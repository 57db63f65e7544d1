----------------------------- MODULE SyncProofs -----------------------------
(***************************************************************************)
(* Proofs that the mailbox hands out no permit without a message and loses *)
(* no wake-up, for every number of threads and every queue length; that    *)
(* the sleeping mutex excludes and loses no wake-up, for every number of   *)
(* threads and mutexes; and that mutexes and a mailbox keep their promises *)
(* when the same threads use both.                                         *)
(***************************************************************************)
EXTENDS Sync, SchedulerProofs, FiniteSetTheorems

----------------------------------------------------------------------------
(* The mailbox. *)

\* Every step of the mailbox is a step of the scheduler, or leaves it alone.
LEMMA BoxStep == [MailboxNext]_boxAllVars => [SchedNext]_schedVars
  <1>1. WakeReceiver => [SchedNext]_schedVars
    BY MailboxAssumption, Zenon DEF WakeReceiver, SchedNext
  <1>2. AcquireSleep => SchedNext
    BY MailboxAssumption, Zenon DEF AcquireSleep, SchedNext
  <1>3. BoxExit => SchedNext
    BY Zenon DEF BoxExit, SchedNext
  <1>4. BoxBackground => SchedNext
    BY Zenon DEF BoxBackground, SchedNext
  <1> QED
    BY <1>1, <1>2, <1>3, <1>4, Zenon DEF MailboxNext, boxAllVars, IsrSend, SendPush, SendCount,
       SendWake, AcquirePermit, ReceivePop

\* The sets the properties count are finite.
LEMMA Counts ==
  /\ \A p \in BoxPlace : IsFiniteSet(At(p)) /\ Cardinality(At(p)) \in Nat
  /\ IsFiniteSet(Returning) /\ Cardinality(Returning) \in Nat
  <1>1. \A S \in SUBSET Tids : IsFiniteSet(S) /\ Cardinality(S) \in Nat
    BY FS_Subset, FS_CardinalityType, MailboxAssumption, Zenon
  <1> QED
    BY <1>1, Zenon DEF At, Returning

\* The same in the next state.
LEMMA NextCounts ==
  /\ \A p \in BoxPlace : IsFiniteSet(At(p)') /\ Cardinality(At(p)') \in Nat
  /\ IsFiniteSet(Returning') /\ Cardinality(Returning') \in Nat
  <1>1. \A S \in SUBSET Tids : IsFiniteSet(S) /\ Cardinality(S) \in Nat
    BY FS_Subset, FS_CardinalityType, MailboxAssumption, Zenon
  <1> QED
    BY <1>1, Zenon DEF At, Returning

\* A thread that moves to p leaves one set and joins another.
LEMMA Moved ==
  ASSUME MailboxTypeOK, NEW t \in Tids, NEW p \in BoxPlace, boxPlace[t] # p,
         boxPlace' = [boxPlace EXCEPT ![t] = p]
  PROVE  \A q \in BoxPlace :
           Cardinality(At(q)') = IF q = p THEN Cardinality(At(q)) + 1
                                 ELSE IF q = boxPlace[t] THEN Cardinality(At(q)) - 1
                                 ELSE Cardinality(At(q))
  <1>1. \A q \in BoxPlace : At(q)' = IF q = p THEN At(q) \cup {t} ELSE At(q) \ {t}
    BY Zenon DEF At, MailboxTypeOK
  <1>2. \A q \in BoxPlace : t \in At(q) <=> q = boxPlace[t]
    BY Zenon DEF At
  <1>3. ASSUME NEW q \in BoxPlace, q = p
        PROVE  Cardinality(At(q)') = Cardinality(At(q)) + 1
    BY <1>1, <1>2, <1>3, Counts, FS_AddElement
  <1>4. ASSUME NEW q \in BoxPlace, q # p
        PROVE  Cardinality(At(q)') = IF q = boxPlace[t] THEN Cardinality(At(q)) - 1
                                     ELSE Cardinality(At(q))
    BY <1>1, <1>2, <1>4, Counts, FS_RemoveElement
  <1> QED
    BY <1>3, <1>4, Zenon

\* The initial state satisfies the inductive invariant.
LEMMA BoxInitInv == MailboxInit => BoxInv
  <1> SUFFICES ASSUME MailboxInit
               PROVE  BoxInv
    OBVIOUS
  <1>1. SchedInv
    BY InitInv, Zenon DEF MailboxInit
  <1>2. waitq[Box] = <<>> /\ Waiters(Box) = {}
    BY MailboxAssumption DEF MailboxInit, SchedInit, Waiters
  <1>3. MailboxTypeOK
    BY <1>1, Zenon DEF MailboxInit, MailboxTypeOK, SchedInv, BoxPlace
  <1>4. At("permit") = {} /\ At("pushed") = {}
    BY Zenon DEF MailboxInit, At
  <1>5. Accounting
    BY <1>4, FS_EmptySet DEF MailboxInit, Accounting
  <1>6. NeverMissed /\ NoLostSend
    BY <1>2, Zenon DEF MailboxInit, NeverMissed, NoLostSend
  <1>7. ReceiversQueued
    BY <1>2, Zenon DEF MailboxInit, ReceiversQueued
  <1> QED
    BY <1>1, <1>3, <1>5, <1>6, <1>7, Zenon DEF BoxInv

\* What waking the oldest receiver does to the queue and to the receivers.
LEMMA WakeReceiverFacts ==
  ASSUME BoxInv, WakeReceiver
  PROVE  /\ waitq'[Box] # <<>> =>
              \E h \in Tids :
                /\ boxPlace[h] = "retry" /\ state[h] = "Blocked"
                /\ \A u \in Tids : state'[u] = IF u = h THEN "Ready" ELSE state[u]
         /\ \A u \in Tids :
              \/ /\ u \in Waiters(Box)' <=> u \in Waiters(Box)
                 /\ state'[u] = state[u]
              \/ /\ u \notin Waiters(Box)' /\ u \in Waiters(Box)
                 /\ state'[u] = "Ready"
  <1> USE DEF BoxInv
  <1>1. CASE waitq[Box] = <<>>
    <2>1. UNCHANGED <<state, waitq>>
      BY <1>1, Zenon DEF WakeReceiver, schedVars
    <2>2. Waiters(Box)' = Waiters(Box)
      BY <2>1, Zenon DEF Waiters
    <2> QED
      BY <1>1, <2>1, <2>2, Zenon
  <1>2. CASE waitq[Box] # <<>>
    <2> DEFINE h == Head(waitq[Box])
    <2>1. WakeOne(Box) /\ Box \in Objects
      BY <1>2, MailboxAssumption, Zenon DEF WakeReceiver
    <2>2. h \in Tids /\ h \in Waiters(Box)
      <3>1. waitq[Box] \in Seq(Tids)
        BY <2>1, Zenon DEF SchedInv, SchedTypeOK
      <3>2. h = waitq[Box][1] /\ h \in Tids /\ 1 \in 1..Len(waitq[Box])
        BY <1>2, <3>1
      <3> QED
        BY <3>2, Zenon DEF Waiters
    <2>3. boxPlace[h] = "retry" /\ state[h] = "Blocked"
      BY <2>2, Zenon DEF ReceiversQueued
    <2>4. \A u \in Tids : state'[u] = IF u = h THEN "Ready" ELSE state[u]
      BY <2>1, <2>3, Zenon DEF WakeOne, Woken
    <2>5. \A u \in Tids : u \in Waiters(Box)' <=> u \in Waiters(Box) /\ u # h
      BY <2>1, WakeOneWaiters, Zenon
    <2> QED
      BY <2>2, <2>3, <2>4, <2>5, Zenon
  <1> QED
    BY <1>1, <1>2, Zenon

\* One more receiver is on its way, unless the queue is now empty.
LEMMA WakeReceiverCounts ==
  ASSUME BoxInv, WakeReceiver, waitq'[Box] # <<>>,
         \A u \in Tids : boxPlace'[u] = "retry" <=> boxPlace[u] = "retry"
  PROVE  /\ Cardinality(Returning') = Cardinality(Returning) + 1
         /\ waitq[Box] # <<>>
  <1>1. PICK h \in Tids :
          /\ boxPlace[h] = "retry" /\ state[h] = "Blocked"
          /\ \A u \in Tids : state'[u] = IF u = h THEN "Ready" ELSE state[u]
    BY WakeReceiverFacts, Zenon
  <1>2. Returning' = Returning \cup {h} /\ h \notin Returning
    BY <1>1, Zenon DEF Returning, At
  <1>3. waitq[Box] # <<>>
    BY Zenon DEF WakeReceiver, schedVars
  <1> QED
    BY <1>2, <1>3, Counts, FS_AddElement, Zenon

\* send() in an interrupt handler preserves the invariant.
LEMMA IsrSendInv ==
  ASSUME BoxInv, SchedInv', IsrSend
  PROVE  BoxInv'
  <1> USE DEF BoxInv, IsrSend
  <1>1. MailboxTypeOK'
    BY DEF MailboxTypeOK, SchedInv
  <1>2. \A q \in BoxPlace : At(q)' = At(q)
    BY Zenon DEF At
  <1>3. Accounting'
    BY <1>2, Counts DEF Accounting, MailboxTypeOK, BoxPlace
  <1>4. NeverMissed'
    BY Zenon DEF NeverMissed
  <1>5. NoLostSend'
    <2> SUFFICES ASSUME waitq'[Box] # <<>>
                 PROVE  count' <= Cardinality(Returning') + Cardinality(At("counted")')
      BY Zenon DEF NoLostSend
    <2>1. /\ Cardinality(Returning') = Cardinality(Returning) + 1
          /\ waitq[Box] # <<>>
      BY WakeReceiverCounts, Zenon
    <2>2. count <= Cardinality(Returning) + Cardinality(At("counted"))
      BY <2>1, Zenon DEF NoLostSend
    <2> QED
      BY <1>2, <2>1, <2>2, Counts DEF MailboxTypeOK, BoxPlace
  <1>6. ReceiversQueued'
    BY WakeReceiverFacts, Zenon DEF ReceiversQueued
  <1> QED
    BY <1>1, <1>3, <1>4, <1>5, <1>6, Zenon

\* The two halves of send() in a thread that wake nobody, and the pop of
\* receive(): the scheduler does not move, the thread does.
LEMMA PlaceStepInv ==
  ASSUME BoxInv, SchedInv', SendPush \/ SendCount \/ ReceivePop
  PROVE  BoxInv'
  <1> USE DEF BoxInv
  <1>1. current \in Tids /\ UNCHANGED <<state, waitq>>
    BY RunningReady, Zenon DEF SendPush, SendCount, ReceivePop, schedVars
  <1>2. PICK p \in {"pushed", "counted", "out"} :
          /\ boxPlace' = [boxPlace EXCEPT ![current] = p]
          /\ boxPlace[current] \notin {p, "retry"}
    BY Zenon DEF SendPush, SendCount, ReceivePop
  <1>3. \A u \in Tids : boxPlace'[u] = "retry" <=> boxPlace[u] = "retry"
    BY <1>1, <1>2, Zenon DEF MailboxTypeOK
  <1>4. Returning' = Returning /\ Waiters(Box)' = Waiters(Box)
    BY <1>1, <1>3, Zenon DEF Returning, At, Waiters
  <1>5. ReceiversQueued'
    BY <1>1, <1>3, <1>4, SMTT(20) DEF ReceiversQueued
  <1>6. \A q \in BoxPlace :
          Cardinality(At(q)') = IF q = p THEN Cardinality(At(q)) + 1
                                ELSE IF q = boxPlace[current] THEN Cardinality(At(q)) - 1
                                ELSE Cardinality(At(q))
    BY <1>1, <1>2, Moved, Zenon DEF BoxPlace
  <1>7. \A q \in BoxPlace : Cardinality(At(q)) \in Nat /\ Cardinality(At(q)') \in Nat
    BY Counts, NextCounts, Zenon
  <1>8. {"permit", "pushed", "counted", "out"} \subseteq BoxPlace
    BY Zenon DEF BoxPlace
  <1>9. ASSUME NEW q \in BoxPlace, boxPlace[current] = q
        PROVE  Cardinality(At(q)) > 0
    <2>1. Cardinality(At(q)') = Cardinality(At(q)) - 1
      BY <1>2, <1>6, <1>9, Zenon
    <2> QED
      BY <1>7, <2>1
  <1>10. CASE SendPush
    <2>1. MailboxTypeOK'
      BY <1>1, <1>10 DEF SendPush, MailboxTypeOK, SchedInv, BoxPlace
    <2>2. p = "pushed" /\ boxPlace[current] = "out"
      BY <1>1, <1>2, <1>10, Zenon DEF SendPush, MailboxTypeOK
    <2>3. Accounting'
      BY <1>6, <1>7, <1>8, <1>10, <2>2 DEF SendPush, Accounting, MailboxTypeOK
    <2>4. NoLostSend'
      BY <1>1, <1>4, <1>6, <1>8, <1>10, <2>2, Zenon DEF SendPush, NoLostSend
    <2> QED
      BY <1>5, <1>10, <2>1, <2>3, <2>4, Zenon DEF SendPush, NeverMissed
  <1>11. CASE SendCount
    <2>1. MailboxTypeOK'
      BY <1>1, <1>11 DEF SendCount, MailboxTypeOK, SchedInv, BoxPlace
    <2>2. p = "counted" /\ boxPlace[current] = "pushed"
      BY <1>1, <1>2, <1>11, SMTT(20) DEF SendCount, MailboxTypeOK
    <2>3. Accounting'
      BY <1>6, <1>7, <1>8, <1>11, <2>2, SMTT(20) DEF SendCount, Accounting, MailboxTypeOK
    <2>4. NoLostSend'
      BY <1>1, <1>4, <1>6, <1>7, <1>8, <1>11, <2>2, Counts, SMTT(20) DEF SendCount, NoLostSend,
         MailboxTypeOK
    <2> QED
      BY <1>5, <1>11, <2>1, <2>3, <2>4, SMTT(20) DEF SendCount, NeverMissed
  <1>12. CASE ReceivePop
    <2>2. p = "out" /\ boxPlace[current] = "permit"
      BY <1>1, <1>2, <1>12, Zenon DEF ReceivePop, MailboxTypeOK
    <2>3. qlen > 0
      BY <1>7, <1>8, <1>9, <2>2, SMTT(20) DEF Accounting, MailboxTypeOK
    <2>4. qlen' = qlen - 1 /\ missed' = missed /\ count' = count
      BY <1>12, <2>3 DEF ReceivePop, MailboxTypeOK
    <2>1. MailboxTypeOK'
      BY <1>1, <1>12, <2>3, <2>4, SMTT(20) DEF ReceivePop, MailboxTypeOK, SchedInv, BoxPlace
    <2>5. Accounting'
      BY <1>6, <1>7, <1>8, <2>2, <2>4, SMTT(20) DEF Accounting, MailboxTypeOK
    <2>6. NoLostSend'
      BY <1>1, <1>4, <1>6, <1>8, <2>2, <2>4, Zenon DEF NoLostSend
    <2> QED
      BY <1>5, <2>1, <2>4, <2>5, <2>6, Zenon DEF NeverMissed
  <1> QED
    BY <1>10, <1>11, <1>12, Zenon

\* wake_one at the end of send() preserves it: the permit the sender stood
\* for is now stood for by the receiver it woke.
LEMMA SendWakeInv ==
  ASSUME BoxInv, SchedInv', SendWake
  PROVE  BoxInv'
  <1> USE DEF BoxInv, SendWake
  <1>1. current \in Tids /\ state[current] = "Ready"
    BY RunningReady, Zenon
  <1>2. \A u \in Tids : boxPlace'[u] = "retry" <=> boxPlace[u] = "retry"
    BY <1>1, Zenon DEF MailboxTypeOK
  <1>3. \A q \in BoxPlace :
          Cardinality(At(q)') = IF q = "out" THEN Cardinality(At(q)) + 1
                                ELSE IF q = "counted" THEN Cardinality(At(q)) - 1
                                ELSE Cardinality(At(q))
    BY <1>1, Moved, Zenon DEF BoxPlace
  <1>4. {"permit", "pushed", "counted"} \subseteq BoxPlace
    BY Zenon DEF BoxPlace
  <1>5. MailboxTypeOK'
    BY <1>1, Zenon DEF MailboxTypeOK, SchedInv, BoxPlace
  <1>6. Accounting' /\ NeverMissed'
    BY <1>3, <1>4, Zenon DEF Accounting, NeverMissed
  <1>7. NoLostSend'
    <2> SUFFICES ASSUME waitq'[Box] # <<>>
                 PROVE  count' <= Cardinality(Returning') + Cardinality(At("counted")')
      BY Zenon DEF NoLostSend
    <2>1. /\ Cardinality(Returning') = Cardinality(Returning) + 1
          /\ waitq[Box] # <<>>
      BY <1>2, WakeReceiverCounts, Zenon
    <2>2. count <= Cardinality(Returning) + Cardinality(At("counted"))
      BY <2>1, Zenon DEF NoLostSend
    <2> QED
      BY <1>3, <1>4, <2>1, <2>2, Counts DEF MailboxTypeOK
  <1>8. ReceiversQueued'
    BY <1>2, WakeReceiverFacts, Zenon DEF ReceiversQueued
  <1> QED
    BY <1>5, <1>6, <1>7, <1>8, Zenon

\* Taking a permit preserves it: one permit less, and at most one woken
\* receiver less.
LEMMA AcquirePermitInv ==
  ASSUME BoxInv, SchedInv', AcquirePermit
  PROVE  BoxInv'
  <1> USE DEF BoxInv, AcquirePermit, Acquiring, PermitFree
  <1>1. /\ current \in Tids /\ state[current] = "Ready"
        /\ UNCHANGED <<state, waitq>>
    BY RunningReady, Zenon DEF schedVars
  <1>2. \A q \in BoxPlace :
          Cardinality(At(q)') = IF q = "permit" THEN Cardinality(At(q)) + 1
                                ELSE IF q = boxPlace[current] THEN Cardinality(At(q)) - 1
                                ELSE Cardinality(At(q))
    BY <1>1, Moved, Zenon DEF BoxPlace
  <1>3. {"permit", "pushed", "counted"} \subseteq BoxPlace
    BY Zenon DEF BoxPlace
  <1>4. MailboxTypeOK'
    BY <1>1 DEF MailboxTypeOK, SchedInv, BoxPlace
  <1>5. Accounting' /\ NeverMissed'
    BY <1>2, <1>3, Counts DEF Accounting, NeverMissed, MailboxTypeOK
  <1>6. Cardinality(Returning') >= Cardinality(Returning) - 1
    <2>1. Returning' = Returning \ {current}
      BY <1>1, Zenon DEF Returning, At, MailboxTypeOK
    <2> QED
      BY <2>1, Counts, FS_RemoveElement
  <1>7. NoLostSend'
    <2>1. Cardinality(At("counted")') = Cardinality(At("counted"))
      BY <1>2, <1>3, Zenon
    <2>2. /\ Cardinality(Returning) \in Nat /\ Cardinality(Returning') \in Nat
          /\ Cardinality(At("counted")) \in Nat
      BY <1>3, Counts, NextCounts, Zenon
    <2>3. count' = count - 1 /\ count \in Nat
      BY Zenon DEF MailboxTypeOK
    <2> QED
      BY <1>1, <1>6, <2>1, <2>2, <2>3, SMTT(20) DEF NoLostSend
  <1>8. ReceiversQueued'
    <2>1. Waiters(Box)' = Waiters(Box)
      BY <1>1, Zenon DEF Waiters
    <2> QED
      BY <1>1, <2>1, Zenon DEF ReceiversQueued, MailboxTypeOK
  <1> QED
    BY <1>4, <1>5, <1>7, <1>8, Zenon

\* Going to sleep preserves it: there is no permit to wait for.
LEMMA AcquireSleepInv ==
  ASSUME BoxInv, SchedInv', AcquireSleep
  PROVE  BoxInv'
  <1> USE DEF BoxInv, AcquireSleep, Acquiring, PermitFree
  <1>1. current \in Tids /\ state[current] = "Ready"
    BY RunningReady, SMTT(20)
  <1>2. \A u \in Tids : state'[u] = IF u = current THEN "Blocked" ELSE state[u]
    BY Zenon DEF BlockOn, GoToSleep, SchedInv, SchedTypeOK
  <1>3. \A u \in Tids : boxPlace'[u] = IF u = current THEN "retry" ELSE boxPlace[u]
    BY <1>1, Zenon DEF MailboxTypeOK
  <1>4. Waiters(Box)' = Waiters(Box) \cup {current}
    BY BlockOnWaiters, MailboxAssumption, Zenon
  <1>5. MailboxTypeOK'
    BY <1>1, Zenon DEF MailboxTypeOK, SchedInv, BoxPlace
  <1>6. At("permit")' = At("permit") /\ At("pushed")' = At("pushed")
    BY <1>3 DEF At
  <1>7. Accounting' /\ NeverMissed'
    BY <1>6, Zenon DEF Accounting, NeverMissed
  <1>8. NoLostSend'
    <2>1. count' = 0
      BY DEF MailboxTypeOK
    <2>2. Cardinality(Returning') \in Nat /\ Cardinality(At("counted")') \in Nat
      BY NextCounts, Zenon DEF BoxPlace
    <2> QED
      BY <2>1, <2>2 DEF NoLostSend
  <1>9. ReceiversQueued'
    BY <1>2, <1>3, <1>4, SMTT(20) DEF ReceiversQueued
  <1> QED
    BY <1>5, <1>7, <1>8, <1>9, SMTT(20)

\* A step of the scheduler that leaves the mailbox's queue and sleepers alone.
LEMMA BoxNeutralInv ==
  ASSUME BoxInv, SchedInv', UNCHANGED boxVars, waitq'[Box] = waitq[Box],
         \A t \in Tids : boxPlace[t] = "retry" =>
           (state'[t] = "Blocked" <=> state[t] = "Blocked")
           /\ (state[t] = "Ready" => state'[t] = "Ready")
  PROVE  BoxInv'
  <1> USE DEF BoxInv, boxVars
  <1>1. Waiters(Box)' = Waiters(Box) /\ \A q \in BoxPlace : At(q)' = At(q)
    BY Zenon DEF Waiters, At
  <1>2. MailboxTypeOK'
    BY Zenon DEF MailboxTypeOK, SchedInv
  <1>3. Accounting' /\ NeverMissed'
    BY <1>1, Zenon DEF Accounting, NeverMissed, BoxPlace
  <1>4. Cardinality(Returning) <= Cardinality(Returning')
    <2>1. Returning \subseteq Returning'
      BY Zenon DEF Returning, At
    <2> QED
      BY <2>1, NextCounts, FS_Subset, Zenon
  <1>5. NoLostSend'
    BY <1>1, <1>4, Counts, NextCounts, SMTT(20) DEF NoLostSend, BoxPlace, MailboxTypeOK
  <1>6. ReceiversQueued'
    BY <1>1, Zenon DEF ReceiversQueued
  <1> QED
    BY <1>2, <1>3, <1>5, <1>6, Zenon

\* Exits, spawns and switches are such steps.
LEMMA BoxOtherInv ==
  ASSUME BoxInv, SchedInv', BoxExit \/ BoxBackground
  PROVE  BoxInv'
  <1> USE DEF BoxInv
  <1>1. CASE BoxExit
    <2>1. /\ current \in Tids /\ state[current] = "Ready" /\ boxPlace[current] = "out"
          /\ UNCHANGED boxVars
      BY <1>1, RunningReady, SMTT(20) DEF BoxExit, Exit
    <2>2. waitq' = waitq
      BY <1>1, SMTT(20) DEF BoxExit, Exit, SchedInv, SchedTypeOK
    <2>3. \A t \in Tids : boxPlace[t] = "retry" => t \notin Woken(joinq[current])
      <3> SUFFICES ASSUME NEW t \in Tids, boxPlace[t] = "retry", state[t] = "Blocked",
                          t \in joinq[current]
                   PROVE  FALSE
        BY Zenon DEF Woken
      <3>1. t \in Waiters(Box)
        BY SMTT(20) DEF ReceiversQueued
      <3> QED
        BY <2>1, <3>1, MailboxAssumption, SMTT(20) DEF SchedInv, BlockedOnce
    <2>4. \A t \in Tids : boxPlace[t] = "retry" => state'[t] = state[t]
      <3>1. joinq[current] \cup UNION {Waiters(o) : o \in {}} = joinq[current]
        OBVIOUS
      <3> QED
        BY <1>1, <2>1, <2>3, <3>1, Zenon DEF BoxExit, Exit
    <2> QED
      BY <2>1, <2>2, <2>4, BoxNeutralInv, SMTT(20)
  <1>2. ASSUME NEW t \in Tids, AddTask(t), UNCHANGED boxVars
        PROVE  BoxInv'
    <2>1. \A u \in Tids : state'[u] = IF u = t THEN "Ready" ELSE state[u]
      BY <1>2, SMTT(20) DEF AddTask, SchedInv, SchedTypeOK
    <2> QED
      BY <1>2, <2>1, BoxNeutralInv, SMTT(20) DEF AddTask
  <1>3. ASSUME NEW next \in Tids, Schedule(next), UNCHANGED boxVars
        PROVE  BoxInv'
    <2>1. state' = [t \in Tids |-> IF t \in graveyard THEN "Empty" ELSE state[t]]
      BY <1>3, ReapedFacts, Zenon DEF Schedule, Removed
    <2>2. \A t \in Tids : t \in graveyard => state[t] = "Zombie"
      BY ReapedFacts, Zenon
    <2> QED
      BY <1>3, <2>1, <2>2, BoxNeutralInv, Zenon DEF Schedule
  <1> QED
    BY <1>1, <1>2, <1>3, SMTT(20) DEF BoxBackground, BootSpawn, Spawn, Yield, Tick

\* The mailbox keeps its inductive invariant.
THEOREM MailboxInvariant == MailboxSpec => []BoxInv
  <1>1. BoxInv /\ [MailboxNext]_boxAllVars => BoxInv'
    <2> SUFFICES ASSUME BoxInv, [MailboxNext]_boxAllVars
                 PROVE  BoxInv'
      OBVIOUS
    <2>1. SchedInv'
      BY BoxStep, NextInv, Zenon DEF BoxInv
    <2>2. CASE UNCHANGED boxAllVars
      <3>1. UNCHANGED <<boxVars, state, waitq>>
        BY <2>2, Zenon DEF boxAllVars, schedVars
      <3> QED
        BY <2>1, <3>1, BoxNeutralInv, Zenon
    <2> QED
      BY <2>1, <2>2, IsrSendInv, PlaceStepInv, SendWakeInv, AcquirePermitInv, AcquireSleepInv,
         BoxOtherInv, SMTT(20) DEF MailboxNext
  <1> QED
    BY <1>1, BoxInitInv, PTL DEF MailboxSpec

\* receive() never returns None: whoever got past the semaphore finds a
\* message, however its send and receive steps interleave with others.
THEOREM MailboxDelivers == MailboxSpec => []NeverMissed
  <1>1. BoxInv => NeverMissed
    BY Zenon DEF BoxInv
  <1> QED
    BY <1>1, MailboxInvariant, PTL

\* While threads sleep on the mailbox, every permit has a woken receiver on
\* its way to it, or a sender about to wake one.
THEOREM MailboxWakes == MailboxSpec => []NoLostSend
  <1>1. BoxInv => NoLostSend
    BY Zenon DEF BoxInv
  <1> QED
    BY <1>1, MailboxInvariant, PTL

----------------------------------------------------------------------------
(* The mutex. *)

\* Every step of the mutex is a step of the scheduler, or leaves it alone.
LEMMA MutexStep == [MutexNext]_allVars => [SchedNext]_schedVars
  <1>1. ASSUME NEW m \in Mutexes, LockSleep(m)
        PROVE  SchedNext
    BY <1>1, MutexAssumption, Zenon DEF LockSleep, SchedNext
  <1>2. ASSUME NEW m \in Mutexes, GuardWake(m)
        PROVE  [SchedNext]_schedVars
    BY <1>2, MutexAssumption, Zenon DEF GuardWake, WakeNext, SchedNext
  <1>3. ASSUME ThreadExit
        PROVE  SchedNext
    BY <1>3, Zenon DEF ThreadExit, SchedNext
  <1>4. ASSUME NEW x \in Tids, ThreadJoin(x)
        PROVE  SchedNext
    BY <1>4, Zenon DEF ThreadJoin, SchedNext
  <1>5. ASSUME Background
        PROVE  SchedNext
    BY <1>5, Zenon DEF Background, SchedNext
  <1> QED
    BY <1>1, <1>2, <1>3, <1>4, <1>5, Zenon DEF MutexNext, allVars, LockAcquire, GuardRelease

\* The initial state satisfies the inductive invariant.
LEMMA MutexInitInv == MutexInit => MutexInv
  <1> SUFFICES ASSUME MutexInit
               PROVE  MutexInv
    OBVIOUS
  <1>1. SchedInv
    BY InitInv, Zenon DEF MutexInit
  <1>2. \A m \in Mutexes : waitq[m] = <<>> /\ Waiters(m) = {}
    BY MutexAssumption DEF MutexInit, SchedInit, Waiters
  <1>3. MutexTypeOK
    BY <1>1, Zenon DEF MutexInit, MutexTypeOK, SchedInv, Place
  <1>4. MutualExclusion
    BY Zenon DEF MutexInit, MutualExclusion
  <1>5. NoLostWakeup
    BY <1>2, Zenon DEF NoLostWakeup
  <1>6. WaitersAreRetrying
    BY <1>2, Zenon DEF MutexInit, WaitersAreRetrying
  <1> QED
    BY <1>1, <1>3, <1>4, <1>5, <1>6, Zenon DEF MutexInv

\* Taking the lock preserves the invariant.
LEMMA LockAcquireInv ==
  ASSUME MutexInv, SchedInv', NEW m \in Mutexes, LockAcquire(m)
  PROVE  MutexInv'
  <1> USE DEF MutexInv, LockAcquire, Attempting, Free
  <1>1. current \in Tids /\ state[current] = "Ready"
    BY RunningReady, Zenon
  <1>2. UNCHANGED <<state, waitq>>
    BY Zenon DEF schedVars
  <1>3. MutexTypeOK'
    BY <1>1, MutexAssumption, SchedAssumption, Zenon DEF MutexTypeOK, Place, SchedInv
  <1>4. MutualExclusion'
    BY <1>1 DEF MutualExclusion, MutexTypeOK
  <1>5. NoLostWakeup'
    BY <1>1, <1>2 DEF NoLostWakeup, MutexTypeOK
  <1>6. WaitersAreRetrying'
    <2>1. \A n \in Mutexes : Waiters(n)' = Waiters(n)
      BY <1>2, Zenon DEF Waiters
    <2> QED
      BY <1>1, <1>2, <2>1 DEF WaitersAreRetrying, MutexTypeOK
  <1> QED
    BY <1>3, <1>4, <1>5, <1>6, Zenon

\* Storing false in is_locked preserves it: the releaser is about to wake.
LEMMA GuardReleaseInv ==
  ASSUME MutexInv, SchedInv', NEW m \in Mutexes, GuardRelease(m)
  PROVE  MutexInv'
  <1> USE DEF MutexInv, GuardRelease
  <1>1. current \in Tids /\ state[current] = "Ready"
    BY RunningReady, Zenon
  <1>2. UNCHANGED <<state, waitq>>
    BY Zenon DEF schedVars
  <1>3. MutexTypeOK'
    BY <1>1, MutexAssumption, Zenon DEF MutexTypeOK, Place, SchedInv
  <1>4. MutualExclusion'
    BY <1>1 DEF MutualExclusion, MutexTypeOK
  <1>5. NoLostWakeup'
    BY <1>1, <1>2 DEF NoLostWakeup, MutexTypeOK
  <1>6. WaitersAreRetrying'
    <2>1. \A n \in Mutexes : Waiters(n)' = Waiters(n)
      BY <1>2, Zenon DEF Waiters
    <2> QED
      BY <1>1, <1>2, <2>1 DEF WaitersAreRetrying, MutexTypeOK
  <1> QED
    BY <1>3, <1>4, <1>5, <1>6, Zenon

\* Going to sleep preserves it: the mutex is held by another thread.
LEMMA LockSleepInv ==
  ASSUME MutexInv, SchedInv', NEW m \in Mutexes, LockSleep(m)
  PROVE  MutexInv'
  <1> USE DEF MutexInv, LockSleep, Attempting, Free
  <1>1. /\ current \in Tids /\ state[current] = "Ready"
        /\ \A p \in Objects : current \notin Waiters(p)
    BY RunningReady, Zenon
  <1>2. \A u \in Tids : state'[u] = IF u = current THEN "Blocked" ELSE state[u]
    BY Zenon DEF BlockOn, GoToSleep, SchedInv, SchedTypeOK
  <1>3. \A n \in Mutexes : Waiters(n)' = IF n = m THEN Waiters(n) \cup {current}
                                                 ELSE Waiters(n)
    BY BlockOnWaiters, MutexAssumption, Zenon
  <1>4. MutexTypeOK'
    BY <1>1, MutexAssumption, Zenon DEF MutexTypeOK, Place, SchedInv
  <1>5. MutualExclusion'
    BY <1>1 DEF MutualExclusion, MutexTypeOK
  <1>6. NoLostWakeup'
    <2>1. \A n \in Mutexes \ {m} : waitq'[n] = waitq[n]
      BY MutexAssumption, Zenon DEF BlockOn, SchedInv, SchedTypeOK
    <2> QED
      BY <1>1, <1>2, <2>1 DEF NoLostWakeup, MutexTypeOK
  <1>7. WaitersAreRetrying'
    BY <1>1, <1>2, <1>3, MutexAssumption DEF WaitersAreRetrying, MutexTypeOK
  <1> QED
    BY <1>4, <1>5, <1>6, <1>7, Zenon

\* wake_one preserves it: the thread it wakes is going to try again.
LEMMA GuardWakeInv ==
  ASSUME MutexInv, SchedInv', NEW m \in Mutexes, GuardWake(m)
  PROVE  MutexInv'
  <1> USE DEF MutexInv, GuardWake
  <1>1. /\ current \in Tids /\ state[current] = "Ready" /\ m \in Objects
        /\ locked' = locked
    BY RunningReady, MutexAssumption, Zenon
  <1>2. \A u \in Tids : /\ place'[u] = IF u = current THEN "out" ELSE place[u]
                        /\ using'[u] = IF u = current THEN None ELSE using[u]
    BY <1>1, Zenon DEF MutexTypeOK
  <1>3. MutexTypeOK'
    BY <1>1, Zenon DEF MutexTypeOK, Place, SchedInv
  <1>4. MutualExclusion'
    BY <1>1, <1>2 DEF MutualExclusion
  <1>5. CASE waitq[m] = <<>>
    <2>1. UNCHANGED <<state, waitq>>
      BY <1>5, Zenon DEF WakeNext, schedVars
    <2>2. \A n \in Mutexes : Waiters(n)' = Waiters(n)
      BY <2>1, Zenon DEF Waiters
    <2>3. NoLostWakeup'
      BY <1>1, <1>2, <1>5, <2>1 DEF NoLostWakeup
    <2>4. WaitersAreRetrying'
      BY <1>1, <1>2, <2>1, <2>2 DEF WaitersAreRetrying
    <2> QED
      BY <1>3, <1>4, <2>3, <2>4, Zenon
  <1>6. CASE waitq[m] # <<>>
    <2> DEFINE h == Head(waitq[m])
    <2>1. WakeOne(m)
      BY <1>6, SMTT(20) DEF WakeNext
    <2>2. /\ waitq[m] \in Seq(Tids) /\ h \in Tids /\ h \in Waiters(m)
          /\ state[h] = "Blocked"
      <3>1. waitq[m] \in Seq(Tids)
        BY <1>1, Zenon DEF SchedInv, SchedTypeOK
      <3>2. h = waitq[m][1] /\ h \in Tids /\ 1 \in 1..Len(waitq[m])
        BY <1>6, <3>1
      <3> QED
        BY <1>1, <3>1, <3>2 DEF Waiters, SchedInv, BlockedOnce
    <2>3. \A u \in Tids : state'[u] = IF u = h THEN "Ready" ELSE state[u]
      BY <2>1, <2>2, Zenon DEF WakeOne, Woken
    <2>4. \A n \in Mutexes \ {m} : waitq'[n] = waitq[n]
      BY <2>1, MutexAssumption, Zenon DEF WakeOne, SchedInv, SchedTypeOK
    <2>5. waitq'[m] = Tail(waitq[m])
      BY <1>1, <2>1, Zenon DEF WakeOne, SchedInv, SchedTypeOK
    <2>6. place[h] = "retry" /\ using[h] = m /\ h # current
      BY <1>1, <2>2 DEF WaitersAreRetrying
    <2>7. NoLostWakeup'
      BY <1>1, <1>2, <2>2, <2>3, <2>4, <2>6 DEF NoLostWakeup
    <2>8. \A n \in Mutexes, u \in Tids :
            u \in Waiters(n)' <=> u \in Waiters(n) /\ u # h
      BY <1>1, <2>1, <2>2, MutexAssumption, WakeOneWaiters, Zenon
    <2>9. WaitersAreRetrying'
      BY <1>1, <1>2, <2>2, <2>3, <2>8 DEF WaitersAreRetrying
    <2> QED
      BY <1>3, <1>4, <2>7, <2>9, Zenon
  <1> QED
    BY <1>5, <1>6, Zenon

\* A step of the scheduler that leaves the mutexes' queues and sleepers alone.
LEMMA NeutralStepInv ==
  ASSUME MutexInv, SchedInv', UNCHANGED mutexVars,
         \A m \in Mutexes : waitq'[m] = waitq[m],
         \A t \in Tids : place[t] = "retry" =>
           (state'[t] = "Blocked" <=> state[t] = "Blocked")
           /\ (state[t] = "Ready" => state'[t] = "Ready")
  PROVE  MutexInv'
  <1> USE DEF MutexInv, mutexVars
  <1>1. \A n \in Mutexes : Waiters(n)' = Waiters(n)
    BY Zenon DEF Waiters
  <1>2. MutexTypeOK'
    BY Zenon DEF MutexTypeOK, SchedInv
  <1>3. MutualExclusion'
    BY DEF MutualExclusion
  <1>4. NoLostWakeup'
    BY DEF NoLostWakeup
  <1>5. WaitersAreRetrying'
    BY <1>1 DEF WaitersAreRetrying
  <1> QED
    BY <1>2, <1>3, <1>4, <1>5, Zenon

\* Exits, joins, spawns and switches are such steps.
LEMMA OtherStepsInv ==
  ASSUME MutexInv, SchedInv',
         ThreadExit \/ (\E x \in Tids : ThreadJoin(x)) \/ Background
  PROVE  MutexInv'
  <1> USE DEF MutexInv
  <1>1. CASE ThreadExit
    <2>1. /\ current \in Tids /\ state[current] = "Ready" /\ place[current] = "out"
          /\ UNCHANGED mutexVars
      BY <1>1, RunningReady, Zenon DEF ThreadExit, Exit
    <2>2. waitq' = waitq
      BY <1>1, Zenon DEF ThreadExit, Exit, SchedInv, SchedTypeOK
    <2>3. \A t \in Tids : place[t] = "retry" => t \notin Woken(joinq[current])
      <3> SUFFICES ASSUME NEW t \in Tids, place[t] = "retry", state[t] = "Blocked",
                          t \in joinq[current]
                   PROVE  FALSE
        BY Zenon DEF Woken
      <3>1. using[t] \in Mutexes
        BY Zenon DEF MutexTypeOK
      <3>2. t \in Waiters(using[t])
        BY <3>1, Zenon DEF WaitersAreRetrying
      <3> QED
        BY <2>1, <3>1, <3>2, MutexAssumption, Zenon DEF SchedInv, BlockedOnce
    <2>4. \A t \in Tids : place[t] = "retry" => state'[t] = state[t]
      <3>1. joinq[current] \cup UNION {Waiters(o) : o \in {}} = joinq[current]
        OBVIOUS
      <3> QED
        BY <1>1, <2>1, <2>3, <3>1, Zenon DEF ThreadExit, Exit
    <2> QED
      BY <2>1, <2>2, <2>4, NeutralStepInv, Zenon
  <1>2. ASSUME NEW x \in Tids, ThreadJoin(x)
        PROVE  MutexInv'
    <2>1. current \in Tids /\ place[current] # "retry" /\ UNCHANGED mutexVars
      BY <1>2, RunningReady, Zenon DEF ThreadJoin, Join
    <2>2. \A t \in Tids : place[t] = "retry" => state'[t] = state[t]
      BY <1>2, <2>1, Zenon DEF ThreadJoin, Join, GoToSleep, SchedInv, SchedTypeOK
    <2> QED
      BY <1>2, <2>1, <2>2, NeutralStepInv, Zenon DEF ThreadJoin, Join
  <1>3. ASSUME NEW t \in Tids, AddTask(t), UNCHANGED mutexVars
        PROVE  MutexInv'
    <2>1. \A u \in Tids : state'[u] = IF u = t THEN "Ready" ELSE state[u]
      BY <1>3, Zenon DEF AddTask, SchedInv, SchedTypeOK
    <2> QED
      BY <1>3, <2>1, NeutralStepInv DEF AddTask
  <1>4. ASSUME NEW next \in Tids, Schedule(next), UNCHANGED mutexVars
        PROVE  MutexInv'
    <2>1. \A t \in Tids : \/ state'[t] = state[t]
                          \/ state[t] = "Zombie" /\ state'[t] = "Empty"
      <3>1. state' = [t \in Tids |-> IF t \in graveyard THEN "Empty" ELSE state[t]]
        BY <1>4, ReapedFacts, Zenon DEF Schedule, Removed
      <3>2. \A t \in Tids : t \in graveyard => state[t] = "Zombie"
        BY ReapedFacts, Zenon
      <3> QED
        BY <3>1, <3>2, Zenon
    <2> QED
      BY <1>4, <2>1, NeutralStepInv, Zenon DEF Schedule
  <1> QED
    BY <1>1, <1>2, <1>3, <1>4, Zenon DEF Background, BootSpawn, Spawn, Yield, Tick

\* Every step preserves the inductive invariant.
LEMMA MutexNextInv ==
  ASSUME MutexInv, [MutexNext]_allVars
  PROVE  MutexInv'
  <1>1. SchedInv'
    BY MutexStep, NextInv, Zenon DEF MutexInv
  <1>2. CASE UNCHANGED allVars
    <2>1. UNCHANGED <<mutexVars, state, waitq>>
      BY <1>2, Zenon DEF allVars, schedVars
    <2> QED
      BY <1>1, <2>1, NeutralStepInv, Zenon
  <1> QED
    BY <1>1, <1>2, LockAcquireInv, LockSleepInv, GuardReleaseInv, GuardWakeInv, OtherStepsInv,
       Zenon DEF MutexNext

\* The mutex keeps its inductive invariant.
THEOREM MutexInvariant == MutexSpec => []MutexInv
  <1>1. MutexInv /\ [MutexNext]_allVars => MutexInv'
    BY MutexNextInv, Zenon
  <1> QED
    BY <1>1, MutexInitInv, PTL DEF MutexSpec

\* lock() excludes: at most one thread holds a MutexGuard, and is_locked is
\* set exactly while one does.
THEOREM MutexExcludes == MutexSpec => []MutualExclusion
  <1>1. MutexInv => MutualExclusion
    BY Zenon DEF MutexInv
  <1> QED
    BY <1>1, MutexInvariant, PTL

\* No sleeper is forgotten, although drop() stores false and wakes in two
\* steps between which any thread may take or release the lock again.
THEOREM MutexWakes == MutexSpec => []NoLostWakeup
  <1>1. MutexInv => NoLostWakeup
    BY Zenon DEF MutexInv
  <1> QED
    BY <1>1, MutexInvariant, PTL

----------------------------------------------------------------------------
(* The mutex and the mailbox. *)

\* Every step of the composition is a step of the scheduler, or leaves it alone.
LEMMA SyncStep == [SyncNext]_syncVars => [SchedNext]_schedVars
  <1>1. MutexStepOf => [SchedNext]_schedVars
    <2>1. MutexStepOf => MutexNext
      BY Zenon DEF MutexStepOf, MutexNext
    <2> QED
      BY <2>1, MutexStep, Zenon
  <1>2. MailboxStepOf \/ IsrSend => [SchedNext]_schedVars
    <2>1. MailboxStepOf \/ IsrSend => MailboxNext
      BY Zenon DEF MailboxStepOf, MailboxNext
    <2> QED
      BY <2>1, BoxStep, Zenon
  <1>3. SyncExit \/ (\E x \in Tids : SyncJoin(x)) \/ Background => [SchedNext]_schedVars
    <2>1. SyncExit \/ (\E x \in Tids : SyncJoin(x)) \/ Background => MutexNext
      BY Zenon DEF SyncExit, SyncJoin, MutexNext
    <2> QED
      BY <2>1, MutexStep, Zenon
  <1> QED
    BY <1>1, <1>2, <1>3, Zenon DEF SyncNext, syncVars

\* A thread queued on one object is queued on no other.
LEMMA QueuedOnce ==
  ASSUME SchedInv, NEW o \in Objects, NEW p \in Objects, o # p, NEW t \in Waiters(o)
  PROVE  t \notin Waiters(p)
  BY DEF SchedInv, BlockedOnce, Waiters

\* What waking the head of a queue changes.
LEMMA WokenHead ==
  ASSUME SchedInv, NEW o \in Objects, waitq[o] # <<>>, WakeOne(o)
  PROVE  /\ \A p \in Objects \ {o} : waitq'[p] = waitq[p]
         /\ \A t \in Tids : t \notin Waiters(o) => state'[t] = state[t]
  <1>1. Head(waitq[o]) \in Waiters(o)
    <2>1. Len(waitq[o]) \in Nat /\ Len(waitq[o]) > 0
      BY DEF SchedInv, SchedTypeOK
    <2>2. 1 \in 1..Len(waitq[o]) /\ Head(waitq[o]) = waitq[o][1]
      BY <2>1 DEF SchedInv, SchedTypeOK
    <2> QED
      BY <2>2, Zenon DEF Waiters
  <1>2. \A p \in Objects \ {o} : waitq'[p] = waitq[p]
    BY Zenon DEF WakeOne, SchedInv, SchedTypeOK
  <1>3. \A t \in Tids : t \notin Waiters(o) => state'[t] = state[t]
    BY <1>1, Zenon DEF WakeOne, Woken
  <1> QED
    BY <1>2, <1>3, Zenon

\* The mailbox is left alone by a step of a mutex.
LEMMA MutexKeepsBox ==
  ASSUME SyncInv, SchedInv', MutexStepOf
  PROVE  BoxInv'
  <1> USE DEF SyncInv
  <1>0. PICK m \in Mutexes :
          LockAcquire(m) \/ LockSleep(m) \/ GuardRelease(m) \/ GuardWake(m)
    BY Zenon DEF MutexStepOf
  <1>1. UNCHANGED boxVars /\ boxPlace[current] = "out" /\ Box # m
        /\ m \in Objects /\ Box \in Objects
    BY SyncAssumption, MutexAssumption, MailboxAssumption, Zenon DEF MutexStepOf, InMailbox
  <1>2. CASE UNCHANGED schedVars
    BY <1>1, <1>2, BoxNeutralInv, Zenon DEF schedVars
  <1>3. CASE LockSleep(m)
    <2>1. waitq'[Box] = waitq[Box]
      BY <1>1, <1>3, Zenon DEF LockSleep, BlockOn, MutexInv, SchedInv, SchedTypeOK
    <2>2. \A t \in Tids : boxPlace[t] = "retry" => state'[t] = state[t]
      BY <1>1, <1>3, Zenon DEF LockSleep, BlockOn, GoToSleep, MutexInv, SchedInv, SchedTypeOK
    <2> QED
      BY <1>1, <2>1, <2>2, BoxNeutralInv, Zenon
  <1>4. CASE GuardWake(m) /\ waitq[m] # <<>>
    <2>1. WakeOne(m) /\ SchedInv
      BY <1>4, Zenon DEF GuardWake, WakeNext, MutexInv
    <2>2. /\ waitq'[Box] = waitq[Box]
          /\ \A t \in Tids : t \notin Waiters(m) => state'[t] = state[t]
      BY <1>1, <1>4, <2>1, WokenHead, Zenon
    <2>3. \A t \in Tids : boxPlace[t] = "retry" /\ state[t] = "Blocked" => t \notin Waiters(m)
      BY <1>1, <2>1, QueuedOnce, Zenon DEF BoxInv, ReceiversQueued
    <2>4. \A t \in Waiters(m) : state[t] = "Blocked"
      BY <1>1, <2>1 DEF SchedInv, BlockedOnce, Waiters
    <2>5. \A t \in Tids : boxPlace[t] = "retry" => state'[t] = state[t]
      BY <2>2, <2>3, <2>4, Zenon
    <2> QED
      BY <1>1, <2>2, <2>5, BoxNeutralInv, Zenon
  <1> QED
    BY <1>0, <1>2, <1>3, <1>4, Zenon DEF LockAcquire, GuardRelease, GuardWake, WakeNext

\* A wake-up on the mailbox leaves the mutexes alone.
LEMMA ReceiverNotRetrying ==
  ASSUME SyncInv, SchedInv', UNCHANGED mutexVars, WakeReceiver
  PROVE  MutexInv'
  <1> USE DEF SyncInv
  <1>1. SchedInv /\ Box \in Objects /\ \A m \in Mutexes : m \in Objects /\ m # Box
    BY SyncAssumption, MutexAssumption, MailboxAssumption, Zenon DEF MutexInv
  <1>2. CASE waitq[Box] = <<>>
    <2>1. UNCHANGED <<state, waitq>>
      BY <1>2, Zenon DEF WakeReceiver, schedVars
    <2> QED
      BY <2>1, NeutralStepInv, Zenon
  <1>3. CASE waitq[Box] # <<>>
    <2>1. WakeOne(Box)
      BY <1>3, Zenon DEF WakeReceiver
    <2>2. /\ \A m \in Mutexes : waitq'[m] = waitq[m]
          /\ \A t \in Tids : t \notin Waiters(Box) => state'[t] = state[t]
      BY <1>1, <1>3, <2>1, WokenHead, Zenon
    <2>3. ASSUME NEW t \in Tids, place[t] = "retry", state[t] = "Blocked"
          PROVE  t \notin Waiters(Box)
      <3>1. using[t] \in Mutexes
        BY <2>3, Zenon DEF MutexInv, MutexTypeOK
      <3>2. t \in Waiters(using[t])
        BY <2>3, <3>1, Zenon DEF MutexInv, WaitersAreRetrying
      <3> QED
        BY <1>1, <3>1, <3>2, QueuedOnce, Zenon
    <2>4. \A t \in Waiters(Box) : state[t] = "Blocked"
      BY <1>1 DEF SchedInv, BlockedOnce, Waiters
    <2>5. \A t \in Tids : place[t] = "retry" => state'[t] = state[t]
      BY <2>2, <2>3, <2>4, Zenon
    <2> QED
      BY <2>2, <2>5, NeutralStepInv, Zenon
  <1> QED
    BY <1>2, <1>3, Zenon

\* The mutexes are left alone by a step of the mailbox.
LEMMA BoxKeepsMutex ==
  ASSUME SyncInv, SchedInv', MailboxStepOf \/ (IsrSend /\ UNCHANGED mutexVars)
  PROVE  MutexInv'
  <1> USE DEF SyncInv
  <1>1. UNCHANGED mutexVars
    BY Zenon DEF MailboxStepOf
  <1>2. CASE UNCHANGED schedVars
    BY <1>1, <1>2, NeutralStepInv, Zenon DEF schedVars
  <1>3. CASE SendWake \/ IsrSend
    BY <1>1, <1>3, ReceiverNotRetrying, Zenon DEF SendWake, IsrSend
  <1>4. CASE AcquireSleep /\ ~InMutex
    <2>1. place[current] # "retry" /\ BlockOn(Box)
      BY <1>4, Zenon DEF InMutex, AcquireSleep
    <2>2. \A m \in Mutexes : waitq'[m] = waitq[m]
      BY <2>1, SyncAssumption, MutexAssumption, MailboxAssumption, Zenon DEF BlockOn, MutexInv,
         SchedInv, SchedTypeOK
    <2>3. \A t \in Tids : place[t] = "retry" => state'[t] = state[t]
      BY <2>1, Zenon DEF BlockOn, GoToSleep, MutexInv, SchedInv, SchedTypeOK
    <2> QED
      BY <1>1, <2>2, <2>3, NeutralStepInv, Zenon
  <1> QED
    BY <1>2, <1>3, <1>4, Zenon DEF MailboxStepOf, SendPush, SendCount, AcquirePermit, ReceivePop

\* Joining another thread leaves the mailbox alone.
LEMMA JoinKeepsBox ==
  ASSUME SyncInv, SchedInv', NEW x \in Tids, SyncJoin(x)
  PROVE  BoxInv'
  <1>1. Join(x) /\ boxPlace[current] = "out" /\ UNCHANGED boxVars
    BY Zenon DEF SyncJoin, ThreadJoin, InMailbox
  <1>2. \A t \in Tids : boxPlace[t] = "retry" => state'[t] = state[t]
    BY <1>1, Zenon DEF Join, GoToSleep, SyncInv, MutexInv, SchedInv, SchedTypeOK
  <1> QED
    BY <1>1, <1>2, BoxNeutralInv, Zenon DEF Join, SyncInv

\* Every step preserves both invariants.
LEMMA SyncNextInv ==
  ASSUME SyncInv, [SyncNext]_syncVars
  PROVE  SyncInv'
  <1> USE DEF SyncInv
  <1>1. SchedInv'
    BY SyncStep, NextInv, Zenon DEF MutexInv
  <1>2. CASE MutexStepOf
    <2>1. MutexInv'
      BY <1>1, <1>2, LockAcquireInv, LockSleepInv, GuardReleaseInv, GuardWakeInv, Zenon
         DEF MutexStepOf
    <2> QED
      BY <1>1, <1>2, <2>1, MutexKeepsBox, Zenon
  <1>3. CASE MailboxStepOf \/ (IsrSend /\ UNCHANGED mutexVars)
    <2>1. BoxInv'
      BY <1>1, <1>3, IsrSendInv, PlaceStepInv, SendWakeInv, AcquirePermitInv, AcquireSleepInv,
         SMTT(20) DEF MailboxStepOf
    <2> QED
      BY <1>1, <1>3, <2>1, BoxKeepsMutex, Zenon
  <1>4. CASE SyncExit
    <2>1. ThreadExit /\ BoxExit
      BY <1>4, Zenon DEF SyncExit, ThreadExit, BoxExit, InMailbox
    <2> QED
      BY <1>1, <2>1, OtherStepsInv, BoxOtherInv, Zenon
  <1>5. ASSUME NEW x \in Tids, SyncJoin(x)
        PROVE  SyncInv'
    <2>1. ThreadJoin(x)
      BY <1>5, Zenon DEF SyncJoin
    <2> QED
      BY <1>1, <1>5, <2>1, OtherStepsInv, JoinKeepsBox, Zenon
  <1>6. CASE Background /\ UNCHANGED boxVars
    <2>1. BoxBackground
      BY <1>6, Zenon DEF Background, BoxBackground
    <2> QED
      BY <1>1, <1>6, <2>1, OtherStepsInv, BoxOtherInv, Zenon
  <1>7. CASE UNCHANGED syncVars
    <2>1. UNCHANGED <<mutexVars, boxVars, state, waitq>>
      BY <1>7, Zenon DEF syncVars, schedVars
    <2> QED
      BY <1>1, <2>1, NeutralStepInv, BoxNeutralInv, Zenon
  <1> QED
    BY <1>2, <1>3, <1>4, <1>5, <1>6, <1>7, Zenon DEF SyncNext

\* Threads that use mutexes and a mailbox together keep the promises of both:
\* exclusion, no message missed, no wake-up lost on either.
THEOREM SyncInvariant == SyncSpec => []SyncInv
  <1>1. SyncInit => SyncInv
    BY MutexInitInv, BoxInitInv, Zenon DEF SyncInit, SyncInv
  <1>2. SyncInv /\ [SyncNext]_syncVars => SyncInv'
    BY SyncNextInv, Zenon
  <1> QED
    BY <1>1, <1>2, PTL DEF SyncSpec

=============================================================================
