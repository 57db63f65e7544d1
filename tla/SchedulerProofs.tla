--------------------------- MODULE SchedulerProofs ---------------------------
(***************************************************************************)
(* Proofs that the scheduler keeps its invariants, for every number of     *)
(* threads and wait queues and for every picking policy.                   *)
(***************************************************************************)
EXTENDS Scheduler, TLAPS

\* The initial state satisfies the inductive invariant.
LEMMA InitInv == SchedInit => SchedInv
  BY SchedAssumption DEF SchedInit, SchedInv, SchedTypeOK, ThreadState,
     ReadyTree, NodesLive, GraveyardExact, BlockedOnce, OffCpuSoon,
     NoStrandedJoiner, Waiters

\* A thread that may call a primitive is Ready, and therefore in no queue.
LEMMA RunningReady ==
  ASSUME SchedInv, Running(current)
  PROVE  /\ current \in Tids \ {Idle}
         /\ state[current] = "Ready"
         /\ current \notin tree
         /\ \A x \in Tids : current \notin joinq[x]
         /\ \A o \in Objects : current \notin Waiters(o)
  BY DEF SchedInv, SchedTypeOK, Running, OffCpuSoon, BlockedOnce, ReadyTree,
     Waiters

\* add_task preserves the invariant, whoever calls it.
LEMMA AddTaskInv ==
  ASSUME SchedInv, NEW t \in Tids, AddTask(t), t # current
  PROVE  SchedInv'
  <1> USE DEF SchedInv, AddTask
  <1>1. t # Idle
    BY DEF GraveyardExact
  <1>2. SchedTypeOK'
    BY DEF SchedTypeOK, ThreadState
  <1>3. joinq[t] = {} /\ joinq' = joinq
    BY DEF NoStrandedJoiner, SchedTypeOK
  <1>4. ReadyTree'
    BY <1>1 DEF ReadyTree, SchedTypeOK
  <1>5. NodesLive'
    BY <1>1 DEF NodesLive, SchedTypeOK
  <1>6. GraveyardExact'
    BY <1>1 DEF GraveyardExact, SchedTypeOK
  <1>7. BlockedOnce'
    BY <1>3, SMTT(20) DEF BlockedOnce, SchedTypeOK, Waiters
  <1>8. OffCpuSoon'
    BY DEF OffCpuSoon, SchedTypeOK
  <1>9. NoStrandedJoiner'
    BY <1>3 DEF NoStrandedJoiner, SchedTypeOK
  <1> QED
    BY <1>2, <1>4, <1>5, <1>6, <1>7, <1>8, <1>9

\* join preserves the invariant.
LEMMA JoinInv ==
  ASSUME SchedInv, NEW x \in Tids, Join(x)
  PROVE  SchedInv'
  <1> USE DEF SchedInv, Join, Joinable, GoToSleep
  <1>1. /\ current \in Tids \ {Idle} /\ state[current] = "Ready"
        /\ current \notin tree
        /\ \A y \in Tids : current \notin joinq[y]
        /\ \A o \in Objects : current \notin Waiters(o)
    BY RunningReady
  <1>2. SchedTypeOK'
    BY <1>1 DEF SchedTypeOK, ThreadState
  <1>3. ReadyTree'
    BY <1>1 DEF ReadyTree, SchedTypeOK
  <1>4. NodesLive'
    BY <1>1 DEF NodesLive, SchedTypeOK
  <1>5. GraveyardExact'
    BY <1>1 DEF GraveyardExact, SchedTypeOK
  <1>6. BlockedOnce'
    BY <1>1 DEF BlockedOnce, SchedTypeOK, Waiters
  <1>7. OffCpuSoon'
    BY <1>1 DEF OffCpuSoon, SchedTypeOK
  <1>8. NoStrandedJoiner'
    BY <1>1 DEF NoStrandedJoiner, SchedTypeOK, ThreadState
  <1> QED
    BY <1>2, <1>3, <1>4, <1>5, <1>6, <1>7, <1>8

\* Going to sleep adds the caller to the queue, and changes no other.
LEMMA BlockOnWaiters ==
  ASSUME SchedInv, NEW o \in Objects, BlockOn(o)
  PROVE  \A p \in Objects :
           Waiters(p)' = IF p = o THEN Waiters(p) \cup {current} ELSE Waiters(p)
  <1>1. current \in Tids
    BY RunningReady DEF BlockOn
  <1>2. waitq[o] \in Seq(Tids)
    BY DEF SchedInv, SchedTypeOK
  <1>3. waitq' = [waitq EXCEPT ![o] = Append(@, current)]
    BY DEF BlockOn
  <1>4. /\ Len(waitq'[o]) = Len(waitq[o]) + 1
        /\ waitq'[o][Len(waitq[o]) + 1] = current
        /\ \A i \in 1..Len(waitq[o]) : waitq'[o][i] = waitq[o][i]
        /\ Len(waitq[o]) \in Nat
    BY <1>1, <1>2, <1>3 DEF SchedInv, SchedTypeOK
  <1>5. \A p \in Objects \ {o} : waitq'[p] = waitq[p]
    BY <1>3 DEF SchedInv, SchedTypeOK
  <1>6. Waiters(o)' = Waiters(o) \cup {current}
    <2>1. \A u \in Waiters(o)' : u \in Waiters(o) \cup {current}
      BY <1>4 DEF Waiters
    <2>2. Waiters(o) \subseteq Waiters(o)'
      BY <1>4 DEF Waiters
    <2>3. current \in Waiters(o)'
      <3>1. Len(waitq[o]) + 1 \in 1..Len(waitq'[o])
        BY <1>4
      <3> QED
        BY <1>4, <3>1 DEF Waiters
    <2> QED
      BY <2>1, <2>2, <2>3
  <1>7. ASSUME NEW p \in Objects \ {o}
        PROVE  Waiters(p)' = Waiters(p)
    BY <1>5, Zenon DEF Waiters
  <1> QED
    BY <1>6, <1>7, Zenon

\* Going to sleep on a mutex, a semaphore or a process preserves it.
LEMMA BlockOnInv ==
  ASSUME SchedInv, NEW o \in Objects, BlockOn(o)
  PROVE  SchedInv'
  <1> USE DEF SchedInv, BlockOn, GoToSleep
  <1>1. /\ current \in Tids \ {Idle} /\ state[current] = "Ready"
        /\ current \notin tree
        /\ \A y \in Tids : current \notin joinq[y]
        /\ \A p \in Objects : current \notin Waiters(p)
    BY RunningReady
  <1>2. SchedTypeOK'
    BY <1>1 DEF SchedTypeOK, ThreadState
  <1>3. ReadyTree'
    BY <1>1 DEF ReadyTree, SchedTypeOK
  <1>4. NodesLive'
    BY <1>1 DEF NodesLive, SchedTypeOK
  <1>5. GraveyardExact'
    BY <1>1 DEF GraveyardExact, SchedTypeOK
  <1>6. BlockedOnce'
    <2>1. \A p \in Objects : waitq[p] \in Seq(Tids)
      BY DEF SchedTypeOK
    <2>2. /\ Len(waitq'[o]) = Len(waitq[o]) + 1
          /\ waitq'[o][Len(waitq[o]) + 1] = current
          /\ \A i \in 1..Len(waitq[o]) : waitq'[o][i] = waitq[o][i]
          /\ Len(waitq[o]) \in Nat
      BY <1>1, <2>1 DEF SchedTypeOK
    <2>3. \A p \in Objects \ {o} : waitq'[p] = waitq[p]
      BY DEF SchedTypeOK
    <2>4. \A p \in Objects : \A i \in 1..Len(waitq[p]) :
            waitq[p][i] \in Tids /\ waitq[p][i] # current
      BY <1>1, <2>1 DEF Waiters
    <2>5. Waiters(o)' = Waiters(o) \cup {current}
      BY BlockOnWaiters, Zenon
    <2>6. \A p \in Objects \ {o} : Waiters(p)' = Waiters(p)
      BY BlockOnWaiters, Zenon
    <2>7. \A u \in Tids : state'[u] = IF u = current THEN "Blocked" ELSE state[u]
      BY DEF SchedTypeOK
    <2>8. \A u \in Tids : state'[u] = "Blocked" =>
            (\E x \in Tids : u \in joinq'[x]) \/ (\E p \in Objects : u \in Waiters(p)')
      BY <1>1, <2>5, <2>6, <2>7 DEF BlockedOnce
    <2>9. \A x, u \in Tids : u \in joinq'[x] =>
            /\ state'[u] = "Blocked"
            /\ \A y \in Tids \ {x} : u \notin joinq'[y]
            /\ \A p \in Objects : u \notin Waiters(p)'
      BY <1>1, <2>5, <2>6, <2>7 DEF BlockedOnce
    <2>10. \A p \in Objects : \A i \in 1..Len(waitq'[p]) :
             /\ state'[waitq'[p][i]] = "Blocked"
             /\ \A r \in Objects : \A j \in 1..Len(waitq'[r]) :
                  waitq'[p][i] = waitq'[r][j] => p = r /\ i = j
      <3> SUFFICES ASSUME NEW p \in Objects, NEW i \in 1..Len(waitq'[p])
                   PROVE  /\ state'[waitq'[p][i]] = "Blocked"
                          /\ \A r \in Objects : \A j \in 1..Len(waitq'[r]) :
                               waitq'[p][i] = waitq'[r][j] => p = r /\ i = j
        OBVIOUS
      <3>1. \A r \in Objects : \A j \in 1..Len(waitq'[r]) :
              \/ r = o /\ j = Len(waitq[o]) + 1 /\ waitq'[r][j] = current
              \/ j \in 1..Len(waitq[r]) /\ waitq'[r][j] = waitq[r][j]
        BY <2>2, <2>3
      <3>2. state'[waitq'[p][i]] = "Blocked"
        BY <1>1, <2>4, <2>7, <3>1 DEF BlockedOnce
      <3>3. ASSUME NEW r \in Objects, NEW j \in 1..Len(waitq'[r]),
                   waitq'[p][i] = waitq'[r][j]
            PROVE  p = r /\ i = j
        BY <2>4, <3>1, <3>3 DEF BlockedOnce
      <3> QED
        BY <3>2, <3>3
    <2> QED
      BY <2>8, <2>9, <2>10 DEF BlockedOnce
  <1>7. OffCpuSoon'
    BY <1>1 DEF OffCpuSoon, SchedTypeOK
  <1>8. NoStrandedJoiner'
    BY <1>1 DEF NoStrandedJoiner, SchedTypeOK, ThreadState
  <1> QED
    BY <1>2, <1>3, <1>4, <1>5, <1>6, <1>7, <1>8

\* wake_one takes the oldest waiter, and only it, out of the queues.
LEMMA WakeOneWaiters ==
  ASSUME SchedInv, NEW o \in Objects, WakeOne(o)
  PROVE  \A p \in Objects, u \in Tids :
           u \in Waiters(p)' <=> u \in Waiters(p) /\ u # Head(waitq[o])
  <1> USE DEF SchedInv, WakeOne
  <1> DEFINE h == Head(waitq[o])
  <1>1. \A p \in Objects : waitq[p] \in Seq(Tids)
    BY DEF SchedTypeOK
  <1>2. /\ h \in Tids /\ h = waitq[o][1] /\ 1 \in 1..Len(waitq[o])
        /\ Len(waitq'[o]) = Len(waitq[o]) - 1
        /\ \A i \in 1..Len(waitq'[o]) : waitq'[o][i] = waitq[o][i + 1]
        /\ Len(waitq[o]) \in Nat \ {0}
    BY <1>1 DEF SchedTypeOK
  <1>3. \A p \in Objects \ {o} : waitq'[p] = waitq[p]
    BY DEF SchedTypeOK
  <1>4. \A p \in Objects : \A i \in 1..Len(waitq'[p]) :
          \E k \in 1..Len(waitq[p]) :
            /\ waitq'[p][i] = waitq[p][k]
            /\ k = (IF p = o THEN i + 1 ELSE i)
    BY <1>2, <1>3
  <1>5. \A p \in Objects : \A i \in 1..Len(waitq'[p]) : waitq'[p][i] # h
    <2> SUFFICES ASSUME NEW p \in Objects, NEW i \in 1..Len(waitq'[p]),
                        waitq'[p][i] = h
                 PROVE  FALSE
      OBVIOUS
    <2>1. PICK k \in 1..Len(waitq[p]) :
            waitq[p][k] = waitq[o][1] /\ k = (IF p = o THEN i + 1 ELSE i)
      BY <1>2, <1>4
    <2>2. p = o /\ k = 1
      BY <1>2, <2>1 DEF BlockedOnce
    <2> QED
      BY <1>2, <2>1, <2>2
  <1>6. \A p \in Objects : \A u \in Waiters(p)' : u \in Waiters(p) /\ u # h
    <2> SUFFICES ASSUME NEW p \in Objects, NEW i \in 1..Len(waitq'[p])
                 PROVE  waitq'[p][i] \in Waiters(p) /\ waitq'[p][i] # h
      BY Zenon DEF Waiters
    <2>1. PICK k \in 1..Len(waitq[p]) : waitq'[p][i] = waitq[p][k]
      BY <1>4
    <2> QED
      BY <1>5, <2>1, Zenon DEF Waiters
  <1>7. \A p \in Objects : \A u \in Waiters(p) : u # h => u \in Waiters(p)'
    <2> SUFFICES ASSUME NEW p \in Objects, NEW k \in 1..Len(waitq[p]),
                        waitq[p][k] # h
                 PROVE  waitq[p][k] \in Waiters(p)'
      BY Zenon DEF Waiters
    <2>1. CASE p = o
      <3>1. k - 1 \in 1..Len(waitq'[o]) /\ waitq'[o][k - 1] = waitq[o][k]
        BY <1>2, <2>1
      <3> QED
        BY <2>1, <3>1, Zenon DEF Waiters
    <2>2. CASE p # o
      BY <1>3, <2>2 DEF Waiters
    <2> QED
      BY <2>1, <2>2
  <1> QED
    BY <1>6, <1>7

\* Waking the oldest waiter of a queue preserves the invariant.
LEMMA WakeOneInv ==
  ASSUME SchedInv, NEW o \in Objects, WakeOne(o)
  PROVE  SchedInv'
  <1> USE DEF SchedInv, WakeOne
  <1> DEFINE h == Head(waitq[o])
  <1>1. \A p \in Objects : waitq[p] \in Seq(Tids)
    BY DEF SchedTypeOK
  <1>2. /\ h \in Tids /\ h = waitq[o][1] /\ 1 \in 1..Len(waitq[o])
        /\ Len(waitq'[o]) = Len(waitq[o]) - 1
        /\ \A i \in 1..Len(waitq'[o]) : waitq'[o][i] = waitq[o][i + 1]
        /\ Len(waitq[o]) \in Nat \ {0}
    BY <1>1 DEF SchedTypeOK
  <1>3. \A p \in Objects \ {o} : waitq'[p] = waitq[p]
    BY DEF SchedTypeOK
  <1>4. state[h] = "Blocked"
    BY <1>2 DEF BlockedOnce
  <1>5. \A u \in Tids : state'[u] = IF u = h THEN "Ready" ELSE state[u]
    BY <1>4 DEF Woken
  <1>6. tree' = tree \cup ({h} \ {current})
    BY <1>4 DEF Linked, Woken
  <1>7. h # Idle
    BY <1>4 DEF GraveyardExact
  <1>8. SchedTypeOK'
    <2>1. waitq' \in [Objects -> Seq(Tids)]
      BY <1>1 DEF SchedTypeOK
    <2>2. state' \in [Tids -> ThreadState]
      BY DEF SchedTypeOK, ThreadState
    <2>3. tree' \subseteq Tids
      BY <1>2, <1>6, Zenon DEF SchedTypeOK
    <2> QED
      BY <2>1, <2>2, <2>3, Zenon DEF SchedTypeOK
  <1>9. ReadyTree'
    BY <1>2, <1>4, <1>5, <1>6, <1>7, Zenon DEF ReadyTree
  <1>10. NodesLive'
    BY <1>2, <1>4, <1>5, Zenon DEF NodesLive
  <1>11. GraveyardExact'
    BY <1>2, <1>4, <1>5, <1>7, SchedAssumption, Zenon DEF GraveyardExact
  <1>12. OffCpuSoon'
    BY <1>5 DEF OffCpuSoon, SchedTypeOK
  <1>13. NoStrandedJoiner'
    BY <1>5 DEF NoStrandedJoiner
  <1>14. BlockedOnce'
    <2>1. \A p \in Objects : \A i \in 1..Len(waitq'[p]) :
            \E k \in 1..Len(waitq[p]) :
              /\ waitq'[p][i] = waitq[p][k]
              /\ k = (IF p = o THEN i + 1 ELSE i)
      BY <1>2, <1>3
    <2>2. \A p \in Objects : \A i \in 1..Len(waitq'[p]) :
            waitq'[p][i] \in Tids /\ waitq'[p][i] # h
      BY <1>1, <1>2, <2>1 DEF BlockedOnce
    <2>3. \A p \in Objects, u \in Tids : u \in Waiters(p)' <=> u \in Waiters(p) /\ u # h
      BY WakeOneWaiters, Zenon
    <2>5. \A u \in Tids : state'[u] = "Blocked" =>
            (\E x \in Tids : u \in joinq'[x]) \/ (\E p \in Objects : u \in Waiters(p)')
      BY <1>5, <2>3, Zenon DEF BlockedOnce
    <2>6. \A x, u \in Tids : u \in joinq'[x] =>
            /\ state'[u] = "Blocked"
            /\ \A y \in Tids \ {x} : u \notin joinq'[y]
            /\ \A p \in Objects : u \notin Waiters(p)'
      <3>1. h \in Waiters(o)
        BY <1>2 DEF Waiters
      <3>2. \A x, u \in Tids : u \in joinq[x] => u # h
        BY <3>1 DEF BlockedOnce
      <3>3. joinq' = joinq
        OBVIOUS
      <3> HIDE DEF WakeOne, h
      <3> QED
        BY <1>5, <2>3, <3>2, <3>3 DEF BlockedOnce
    <2>7. \A p \in Objects : \A i \in 1..Len(waitq'[p]) :
            /\ state'[waitq'[p][i]] = "Blocked"
            /\ \A r \in Objects : \A j \in 1..Len(waitq'[r]) :
                 waitq'[p][i] = waitq'[r][j] => p = r /\ i = j
      <3> SUFFICES ASSUME NEW p \in Objects, NEW i \in 1..Len(waitq'[p])
                   PROVE  /\ state'[waitq'[p][i]] = "Blocked"
                          /\ \A r \in Objects : \A j \in 1..Len(waitq'[r]) :
                               waitq'[p][i] = waitq'[r][j] => p = r /\ i = j
        BY Zenon
      <3>1. state'[waitq'[p][i]] = "Blocked"
        <4>1. PICK k \in 1..Len(waitq[p]) : waitq'[p][i] = waitq[p][k]
          BY <2>1
        <4>2. state[waitq[p][k]] = "Blocked"
          BY DEF BlockedOnce
        <4> HIDE DEF WakeOne, h
        <4> QED
          BY <1>5, <2>2, <4>1, <4>2
      <3>2. ASSUME NEW r \in Objects, NEW j \in 1..Len(waitq'[r]),
                   waitq'[p][i] = waitq'[r][j]
            PROVE  p = r /\ i = j
        BY <2>1, <3>2 DEF BlockedOnce
      <3> QED
        BY <3>1, <3>2, Zenon
    <2> QED
      BY <2>5, <2>6, <2>7, Zenon DEF BlockedOnce
  <1> QED
    BY <1>8, <1>9, <1>10, <1>11, <1>12, <1>13, <1>14

\* exit_thread, with or without the wake-up of the parent, preserves it.
LEMMA ExitInv ==
  ASSUME SchedInv, NEW os \in SUBSET Objects, Exit(os)
  PROVE  SchedInv'
  <1> USE DEF SchedInv
  <1> DEFINE w == joinq[current] \cup UNION {Waiters(o) : o \in os}
  <1>1. /\ current \in Tids \ {Idle} /\ state[current] = "Ready"
        /\ current \notin tree
        /\ \A y \in Tids : current \notin joinq[y]
        /\ \A o \in Objects : current \notin Waiters(o)
    BY RunningReady DEF Exit
  <1>2. \A o \in Objects : \A u \in Waiters(o) : u \in Tids /\ state[u] = "Blocked"
    BY DEF Waiters, SchedTypeOK, BlockedOnce
  <1>3. \A u \in joinq[current] : u \in Tids /\ state[u] = "Blocked"
    BY <1>1 DEF SchedTypeOK, BlockedOnce
  <1>4. w \subseteq Tids /\ (\A u \in w : state[u] = "Blocked") /\ current \notin w
    BY <1>1, <1>2, <1>3
  <1>5. Woken(w) = w /\ Linked(w) = w
    BY <1>4 DEF Woken, Linked
  <1>6. /\ state' = [t \in Tids |-> IF t = current THEN "Zombie"
                                    ELSE IF t \in w THEN "Ready" ELSE state[t]]
        /\ tree' = tree \cup w
        /\ joinq' = [joinq EXCEPT ![current] = {}]
        /\ waitq' = [o \in Objects |-> IF o \in os THEN <<>> ELSE waitq[o]]
        /\ yielding' = yielding \cup {current}
        /\ UNCHANGED <<nodes, current, graveyard>>
    BY <1>5 DEF Exit
  <1>7. \A x, u \in Tids : u \in joinq[x] /\ x # current => u \notin w
    <2> SUFFICES ASSUME NEW x \in Tids, NEW u \in Tids, u \in joinq[x], x # current,
                        u \in w
                 PROVE  FALSE
      OBVIOUS
    <2>1. u \notin joinq[current]
      BY <1>1 DEF BlockedOnce
    <2>2. \A o \in Objects : u \notin Waiters(o)
      BY DEF BlockedOnce
    <2> QED
      BY <2>1, <2>2
  <1>8. \A o \in Objects \ os : \A u \in Waiters(o) : u \notin w
    <2> SUFFICES ASSUME NEW o \in Objects \ os, NEW u \in Waiters(o), u \in w
                 PROVE  FALSE
      OBVIOUS
    <2>1. u \notin joinq[current]
      BY <1>1, <1>2 DEF BlockedOnce
    <2>2. PICK p \in os : u \in Waiters(p)
      BY <2>1
    <2> QED
      BY <2>2 DEF BlockedOnce, Waiters
  <1> HIDE DEF w
  <1>9. SchedTypeOK'
    <2>1. waitq' \in [Objects -> Seq(Tids)]
      BY <1>6 DEF SchedTypeOK
    <2>2. state' \in [Tids -> ThreadState]
      BY <1>6 DEF SchedTypeOK, ThreadState
    <2> QED
      BY <1>1, <1>4, <1>6, <2>1, <2>2 DEF SchedTypeOK
  <1>10. ReadyTree'
    <2>1. \A u \in w : u # Idle
      BY <1>4 DEF GraveyardExact
    <2> QED
      BY <1>1, <1>4, <1>6, <2>1 DEF ReadyTree
  <1>11. NodesLive'
    BY <1>1, <1>4, <1>6 DEF NodesLive
  <1>12. GraveyardExact'
    BY <1>1, <1>4, <1>6, SchedAssumption DEF GraveyardExact
  <1>13. OffCpuSoon'
    BY <1>6 DEF OffCpuSoon
  <1>14. NoStrandedJoiner'
    BY <1>1, <1>6, SMTT(20) DEF NoStrandedJoiner, SchedTypeOK
  <1>15. BlockedOnce'
    <2>1. \A o \in Objects : Waiters(o)' = IF o \in os THEN {} ELSE Waiters(o)
      BY <1>6 DEF Waiters
    <2>2. \A x \in Tids : joinq'[x] = IF x = current THEN {} ELSE joinq[x]
      BY <1>6 DEF SchedTypeOK
    <2>3. \A u \in Tids : state'[u] = "Blocked" =>
            (\E x \in Tids : u \in joinq'[x]) \/ (\E p \in Objects : u \in Waiters(p)')
      <3> SUFFICES ASSUME NEW u \in Tids, state'[u] = "Blocked"
                   PROVE  \/ \E x \in Tids : u \in joinq'[x]
                          \/ \E p \in Objects : u \in Waiters(p)'
        OBVIOUS
      <3>1. state[u] = "Blocked" /\ u \notin w
        BY <1>6
      <3>2. CASE \E x \in Tids : u \in joinq[x]
        BY <2>2, <3>1, <3>2 DEF w
      <3>3. CASE \E p \in Objects : u \in Waiters(p)
        BY <2>1, <3>1, <3>3 DEF w
      <3> QED
        BY <3>1, <3>2, <3>3 DEF BlockedOnce
    <2>4. \A x, u \in Tids : u \in joinq'[x] =>
            /\ state'[u] = "Blocked"
            /\ \A y \in Tids \ {x} : u \notin joinq'[y]
            /\ \A p \in Objects : u \notin Waiters(p)'
      BY <1>1, <1>6, <1>7, <2>1, <2>2, SMTT(20) DEF BlockedOnce
    <2>5. \A p \in Objects : \A i \in 1..Len(waitq'[p]) :
            /\ state'[waitq'[p][i]] = "Blocked"
            /\ \A r \in Objects : \A j \in 1..Len(waitq'[r]) :
                 waitq'[p][i] = waitq'[r][j] => p = r /\ i = j
      <3>1. \A p \in Objects : \A i \in 1..Len(waitq'[p]) :
              p \notin os /\ waitq'[p] = waitq[p]
        BY <1>6
      <3>2. \A p \in Objects : \A i \in 1..Len(waitq'[p]) :
              state'[waitq'[p][i]] = "Blocked"
        <4> SUFFICES ASSUME NEW p \in Objects, NEW i \in 1..Len(waitq'[p])
                     PROVE  state'[waitq'[p][i]] = "Blocked"
          OBVIOUS
        <4>1. p \notin os /\ waitq'[p] = waitq[p]
          BY <3>1
        <4>2. waitq[p][i] \in Waiters(p)
          BY <4>1 DEF Waiters
        <4> QED
          BY <1>1, <1>2, <1>6, <1>8, <4>1, <4>2
      <3> QED
        BY <3>1, <3>2, SMTT(20) DEF BlockedOnce
    <2> QED
      BY <2>3, <2>4, <2>5 DEF BlockedOnce
  <1> QED
    BY <1>9, <1>10, <1>11, <1>12, <1>13, <1>14, <1>15

\* Removing the reaped threads from the arena disturbs no queue.
LEMMA ReapedFacts ==
  ASSUME SchedInv
  PROVE  /\ Reaped = graveyard
         /\ \A t \in Tids : t \in graveyard <=> state[t] = "Zombie" /\ t # current
         /\ Idle \notin graveyard
         /\ DroppedQueues(Reaped) = joinq
  <1> USE DEF SchedInv
  <1>1. Reaped = graveyard
    BY DEF Reaped, GraveyardExact
  <1>2. \A t \in Tids : t \in graveyard <=> state[t] = "Zombie" /\ t # current
    BY DEF GraveyardExact
  <1>3. Idle \notin graveyard
    BY DEF GraveyardExact
  <1>4. DroppedQueues(Reaped) = joinq
    BY <1>1, <1>2 DEF DroppedQueues, NoStrandedJoiner, SchedTypeOK
  <1> QED
    BY <1>1, <1>2, <1>3, <1>4

\* The monitor's reap_zombies preserves the invariant.
LEMMA ReapZombiesInv ==
  ASSUME SchedInv, ReapZombies
  PROVE  SchedInv'
  <1> USE DEF SchedInv
  <1>1. /\ state' = [t \in Tids |-> IF t \in graveyard THEN "Empty" ELSE state[t]]
        /\ joinq' = joinq
        /\ yielding' = yielding \ graveyard
        /\ graveyard' = {}
        /\ UNCHANGED <<tree, nodes, current, waitq>>
    BY ReapedFacts DEF ReapZombies, Removed
  <1>2. \A t \in Tids : t \in graveyard <=> state[t] = "Zombie" /\ t # current
    BY ReapedFacts
  <1>3. Idle \notin graveyard
    BY ReapedFacts
  <1>4. SchedTypeOK'
    BY <1>1 DEF SchedTypeOK, ThreadState
  <1>5. ReadyTree'
    BY <1>1, <1>2 DEF ReadyTree
  <1>6. NodesLive'
    BY <1>1, <1>2 DEF NodesLive
  <1>7. GraveyardExact'
    BY <1>1, <1>2, <1>3, SchedAssumption, SMTT(20) DEF GraveyardExact
  <1>8. BlockedOnce'
    BY <1>1, <1>2, SMTT(20) DEF BlockedOnce, Waiters, SchedTypeOK
  <1>9. OffCpuSoon'
    BY <1>1, <1>2 DEF OffCpuSoon, SchedTypeOK
  <1>10. NoStrandedJoiner'
    BY <1>1, <1>2 DEF NoStrandedJoiner, SchedTypeOK
  <1> QED
    BY <1>4, <1>5, <1>6, <1>7, <1>8, <1>9, <1>10

\* A context switch, whether by int 0x20 or by the timer, preserves it.
LEMMA ScheduleInv ==
  ASSUME SchedInv, NEW next \in Tids, Schedule(next), yielding' \subseteq Tids
  PROVE  SchedInv'
  <1> USE DEF SchedInv
  <1>1. /\ state' = [t \in Tids |-> IF t \in graveyard THEN "Empty" ELSE state[t]]
        /\ joinq' = joinq
        /\ nodes' = nodes \ Buried
        /\ graveyard' = Buried
        /\ current' = next
        /\ waitq' = waitq
    BY ReapedFacts DEF Schedule, Removed
  <1>2. \A t \in Tids : t \in graveyard <=> state[t] = "Zombie" /\ t # current
    BY ReapedFacts
  <1>3. \A t \in Tids : t \in Buried <=> state[t] = "Zombie" /\ t = current
    BY DEF Buried
  <1>4. tree \cup Requeued = {t \in Tids \ {Idle} : state[t] = "Ready"}
    BY DEF Requeued, ReadyTree
  <1>5. /\ tree' = {t \in Tids \ {Idle} : state[t] = "Ready"} \ {next}
        /\ state[next] = "Ready"
    BY <1>4 DEF Schedule, GraveyardExact
  <1>6. Buried \subseteq Tids
    BY DEF Buried
  <1>7. SchedTypeOK'
    BY <1>1, <1>5, <1>6 DEF SchedTypeOK, ThreadState
  <1>8. ReadyTree'
    BY <1>1, <1>2, <1>5 DEF ReadyTree
  <1>9. NodesLive'
    BY <1>1, <1>2, <1>3, <1>5 DEF NodesLive
  <1>10. GraveyardExact'
    BY <1>1, <1>2, <1>3, <1>5, <1>6, SchedAssumption, SMTT(20) DEF GraveyardExact
  <1>11. BlockedOnce'
    BY <1>1, <1>2 DEF BlockedOnce, Waiters, SchedTypeOK
  <1>12. OffCpuSoon'
    BY <1>1, <1>2, <1>5 DEF OffCpuSoon
  <1>13. NoStrandedJoiner'
    BY <1>1, <1>2 DEF NoStrandedJoiner, SchedTypeOK
  <1> QED
    BY <1>7, <1>8, <1>9, <1>10, <1>11, <1>12, <1>13

\* Every step of the scheduler preserves the inductive invariant.
LEMMA NextInv ==
  ASSUME SchedInv, [SchedNext]_schedVars
  PROVE  SchedInv'
  <1>1. ASSUME NEW t \in Tids, BootSpawn(t)
        PROVE  SchedInv'
    BY <1>1, AddTaskInv, SchedAssumption DEF BootSpawn
  <1>2. ASSUME NEW t \in Tids, Spawn(t)
        PROVE  SchedInv'
    <2>1. t # current
      BY <1>2, RunningReady DEF Spawn, AddTask
    <2> QED
      BY <1>2, <2>1, AddTaskInv DEF Spawn
  <1>3. ASSUME NEW next \in Tids, Yield(next)
        PROVE  SchedInv'
    <2>1. yielding' \subseteq Tids
      BY <1>3 DEF Yield, SchedInv, SchedTypeOK
    <2> QED
      BY <1>3, <2>1, ScheduleInv DEF Yield
  <1>4. ASSUME NEW next \in Tids, Tick(next)
        PROVE  SchedInv'
    <2>1. yielding' \subseteq Tids
      BY <1>4, SMTT(20) DEF Tick, SchedInv, SchedTypeOK
    <2> QED
      BY <1>4, <2>1, ScheduleInv DEF Tick
  <1>5. CASE UNCHANGED schedVars
    BY <1>5 DEF schedVars, SchedInv, SchedTypeOK, ReadyTree, NodesLive,
       GraveyardExact, BlockedOnce, OffCpuSoon, NoStrandedJoiner, Waiters
  <1> QED
    BY <1>1, <1>2, <1>3, <1>4, <1>5, JoinInv, BlockOnInv, WakeOneInv, ExitInv,
       ReapZombiesInv DEF SchedNext

\* The scheduler keeps SchedInv: the ready tree, the node ownership, the
\* graveyard and the wait queues of process.rs agree with the thread states
\* in every reachable state, for any number of threads and wait queues.
THEOREM SchedulerInvariant == SchedSpec => []SchedInv
  <1>1. SchedInit => SchedInv
    BY InitInv
  <1>2. SchedInv /\ [SchedNext]_schedVars => SchedInv'
    BY NextInv
  <1> QED
    BY <1>1, <1>2, PTL DEF SchedSpec

\* The variables of the scheduler keep their types.
THEOREM SchedulerTypes == SchedSpec => []SchedTypeOK
  <1>1. SchedInv => SchedTypeOK
    BY DEF SchedInv
  <1> QED
    BY <1>1, SchedulerInvariant, PTL

\* No wake-up is lost between marking a thread Blocked and switching it out:
\* the tree always holds exactly the runnable threads that are off the CPU.
THEOREM TreeExact == SchedSpec => []ReadyTree
  <1>1. SchedInv => ReadyTree
    BY DEF SchedInv
  <1> QED
    BY <1>1, SchedulerInvariant, PTL

\* A thread leaves the join queue of x only in the step in which x exits, and
\* is then runnable: no join returns early.
THEOREM JoinTheorem == SchedSpec => JoinEndsAtExit
  <1> DEFINE JoinStep ==
        \A x, t \in Tids : t \in joinq[x] /\ t \notin joinq'[x] =>
          state[x] # "Zombie" /\ state'[x] = "Zombie" /\ state'[t] = "Ready"
  <1>1. SchedInv /\ [SchedNext]_schedVars => [JoinStep]_schedVars
    <2> SUFFICES ASSUME SchedInv, SchedNext
                 PROVE  JoinStep
      BY DEF schedVars
    <2> SUFFICES ASSUME NEW x \in Tids, NEW t \in Tids,
                        t \in joinq[x], t \notin joinq'[x]
                 PROVE  /\ state[x] # "Zombie"
                        /\ state'[x] = "Zombie"
                        /\ state'[t] = "Ready"
      OBVIOUS
    <2>1. joinq \in [Tids -> SUBSET Tids]
      BY DEF SchedInv, SchedTypeOK
    <2>2. ASSUME NEW u \in Tids, AddTask(u)
          PROVE  FALSE
      BY <2>1, <2>2 DEF AddTask, SchedInv, NoStrandedJoiner
    <2>3. ASSUME NEW u \in Tids, Join(u)
          PROVE  FALSE
      BY <2>1, <2>3 DEF Join
    <2>4. ASSUME joinq' = DroppedQueues(Reaped)
          PROVE  FALSE
      BY <2>4, ReapedFacts
    <2>5. ASSUME NEW os \in SUBSET Objects, Exit(os)
          PROVE  /\ state[x] # "Zombie"
                 /\ state'[x] = "Zombie"
                 /\ state'[t] = "Ready"
      <3>1. x = current
        BY <2>1, <2>5 DEF Exit
      <3>2. state[x] = "Ready" /\ t # current
        BY <2>5, <3>1, RunningReady DEF Exit
      <3>3. state[t] = "Blocked"
        BY DEF SchedInv, BlockedOnce
      <3> QED
        BY <2>5, <3>1, <3>2, <3>3, SMTT(20) DEF Exit, Woken
    <2> QED
      BY <2>2, <2>3, <2>4, <2>5, Zenon DEF SchedNext, BootSpawn, Spawn, BlockOn,
         WakeOne, ReapZombies, Yield, Tick, Schedule
  <1> QED
    BY <1>1, SchedulerInvariant, PTL DEF SchedSpec, JoinEndsAtExit

=============================================================================
