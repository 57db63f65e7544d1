--------------------------- MODULE ProcessesProofs ---------------------------
(***************************************************************************)
(* Proofs about the process table, continued: new processes, exits,        *)
(* reaping and switches keep the inductive invariant, and the invariants   *)
(* of Processes hold, the exit of the monitor thread and the reuse of its  *)
(* pid included, for programs that either wait for their children or leave *)
(* them behind.                                                            *)
(***************************************************************************)
EXTENDS ProcessStepProofs

----------------------------------------------------------------------------
(* The inductive invariant: new processes, exits, reaping and switches. *)

\* What a new process changes: the first free pid is nobody's, neither a live thread's
\* nor a parent's, and the slot of its thread was empty.
LEMMA NewProcessFacts ==
  ASSUME ProcInv, NEW t \in Tids, NEW parent, NEW pt, NewProcess(t, parent, pt)
  PROVE  /\ Running(current) /\ t # current /\ t # Idle /\ state[t] = "Empty"
         /\ pidOf[t] = 0 /\ phase[t] = "kernel"
         /\ \A u \in Tids : state'[u] = IF u = t THEN "Ready" ELSE state[u]
         /\ UNCHANGED <<current, waitq, waitFor, cr3, bounds, habits>>
         /\ \E p \in Pids :
              /\ ~Present(p) /\ (MonitorThere => p # 0)
              /\ \A u \in Tids : pidOf'[u] = IF u = t THEN p ELSE pidOf[u]
              /\ \A q \in Pids : procs'[q] = IF q = p
                   THEN [ppid |-> parent, zombie |-> FALSE, pt |-> pt] ELSE procs[q]
  <1>1. /\ Running(current) /\ state[t] = "Empty"
        /\ state' = [state EXCEPT ![t] = "Ready"]
        /\ UNCHANGED <<current, waitq, waitFor, cr3, bounds, habits>>
    BY Zenon DEF NewProcess, Spawn, AddTask
  <1>2. t # current /\ t # Idle
    BY <1>1, RunnerFacts, Zenon DEF ProcInv, SchedInv, GraveyardExact
  <1>3. \A u \in Tids : state'[u] = IF u = t THEN "Ready" ELSE state[u]
    BY <1>1, Zenon DEF ProcInv, SchedInv, SchedTypeOK
  <1>4. PICK p \in Pids :
          /\ FirstFree(p)
          /\ pidOf' = [pidOf EXCEPT ![t] = p]
          /\ procs' = [procs EXCEPT ![p] = [ppid |-> parent, zombie |-> FALSE, pt |-> pt]]
    BY Zenon DEF NewProcess
  <1>5. ~Present(p) /\ (MonitorThere => p # 0)
    BY <1>4, KernelProcess, Zenon DEF FirstFree
  <1>6. /\ \A u \in Tids : pidOf'[u] = IF u = t THEN p ELSE pidOf[u]
        /\ \A q \in Pids : procs'[q] = IF q = p
                   THEN [ppid |-> parent, zombie |-> FALSE, pt |-> pt] ELSE procs[q]
    BY <1>4, Zenon DEF ProcInv, OneOwner, ProcTypeOK
  <1>7. pidOf[t] = 0 /\ phase[t] = "kernel"
    BY <1>1, Zenon DEF ProcInv, Roles
  <1> QED
    BY <1>1, <1>2, <1>3, <1>5, <1>6, <1>7, Zenon DEF ProcInv

\* What a new process, a child of the caller's, keeps.
LEMMA NewProcessKeeps ==
  ASSUME ProcInv, NEW t \in Tids, NEW pt \in PageTables,
         NewProcess(t, Me, pt), live \cup {pt} = live', phase'[t] = "user",
         \A u \in Tids : u # t =>
           /\ phase'[u] \in MonitorPhase <=> phase[u] \in MonitorPhase
           /\ phase'[u] = "kernel" <=> phase[u] = "kernel"
  PROVE  /\ KernelFirst' /\ Ancestry' /\ OneThread' /\ RunnableHasProcess' /\ ParentAlive'
         /\ WaiterNotForgotten' /\ OwnSpace' /\ WaitedIsReclaimable' /\ Quiet'
  <1>1. /\ Running(current) /\ t # current /\ t # Idle /\ state[t] = "Empty"
        /\ pidOf[t] = 0 /\ phase[t] = "kernel"
        /\ \A u \in Tids : state'[u] = IF u = t THEN "Ready" ELSE state[u]
        /\ UNCHANGED <<current, waitq, waitFor, cr3, bounds, habits>>
    BY NewProcessFacts, Zenon
  <1>2. PICK p \in Pids :
          /\ ~Present(p) /\ (MonitorThere => p # 0)
          /\ \A u \in Tids : pidOf'[u] = IF u = t THEN p ELSE pidOf[u]
          /\ \A q \in Pids : procs'[q] = IF q = p
               THEN [ppid |-> Me, zombie |-> FALSE, pt |-> pt] ELSE procs[q]
    BY NewProcessFacts
  <1>3. /\ current \in Tids \ {Idle} /\ current # None
        /\ Me \in Pids /\ Waiters(Me) = {} /\ Present(Me) /\ ~procs[Me].zombie
        /\ bounds = Me /\ (Me # 0 \/ phase[current] \in MonitorPhase => cr3 = procs[Me].pt)
    BY <1>1, RunnerFacts, SchedAssumption, Zenon
  <1>4. Me # p
    BY <1>2, <1>3, Zenon
  <1>5. \A q \in Pids : Present(q)' <=> Present(q) \/ q = p
    <2>1. [ppid |-> Me, zombie |-> FALSE, pt |-> pt]
            \in [ppid : Pids, zombie : BOOLEAN, pt : PageTables]
      BY <1>3, Zenon
    <2> QED
      BY <1>2, <2>1, ProcAssumption, Zenon DEF Present
  <1>6. \A u \in Tids : pidOf[u] \in Pids
    BY Zenon DEF ProcInv, OneOwner, ProcTypeOK
  <1>7. \A u \in Tids \ {Idle} : Alive(u) => pidOf[u] # p
    BY <1>2, Zenon DEF ProcInv, RunnableHasProcess, Alive
  <1>8. Ancestry'
    BY <1>2, <1>4, <1>5 DEF ProcInv, Ancestry
  <1>9. OneThread'
    BY <1>1, <1>2, <1>7 DEF ProcInv, OneThread, Alive
  <1>10. RunnableHasProcess'
    BY <1>1, <1>2, <1>5, <1>6, <1>7 DEF ProcInv, RunnableHasProcess, Alive
  <1>11. ParentAlive'
    <2>1. \A q \in Pids : Present(q) => procs[q].ppid \in Pids
      BY Zenon DEF ProcInv, OneOwner, ProcTypeOK, Process, Present
    <2> QED
      BY <1>2, <1>3, <1>4, <1>5, <2>1 DEF ProcInv, ParentAlive
  <1>12. WaiterNotForgotten'
    <2> SUFFICES ASSUME NEW q \in Pids, NEW u \in Waiters(q)
                 PROVE  /\ pidOf'[u] = q /\ Present(q)'
                        /\ \E d \in Pids : /\ Present(d)' /\ procs'[d].ppid = q
                                           /\ waitFor[u] \in {AnyChild, d}
                        /\ \A d \in Pids :
                             Present(d)' /\ procs'[d].ppid = q /\ waitFor[u] \in {AnyChild, d} =>
                               ~procs'[d].zombie
      BY <1>1 DEF ProcInv, WaiterNotForgotten, Waiters
    <2>1. u \in Tids /\ u # t /\ pidOf[u] = q /\ Present(q)
      BY <1>1, WaiterFacts DEF ProcInv, WaiterNotForgotten
    <2>2. PICK d \in Pids : Present(d) /\ procs[d].ppid = q /\ waitFor[u] \in {AnyChild, d}
      BY Zenon DEF ProcInv, WaiterNotForgotten
    <2>3. Present(d)' /\ procs'[d].ppid = q
      BY <1>2, <1>5, <2>2, Zenon
    <2> QED
      BY <1>2, <1>3, <1>5, <2>1, <2>2, <2>3 DEF ProcInv, WaiterNotForgotten
  <1>13. OwnSpace'
    BY <1>1, <1>2, <1>3, <1>4, Zenon DEF OwnSpace, Me
  <1>14. WaitedIsReclaimable'
    BY <1>1, <1>2, <1>5 DEF ProcInv, WaitedIsReclaimable, ExitedIsReclaimable
  <1>15. Quiet'
    BY <1>1, <1>3, Zenon DEF ProcInv, Quiet
  <1>16. KernelFirst'
    <2> SUFFICES ASSUME MonitorThere'
                 PROVE  KernelFirst'
      BY Zenon DEF KernelFirst
    <2>1. phase'[t] \notin MonitorPhase
      BY Zenon DEF MonitorPhase
    <2>2. MonitorThere
      BY <1>1, <1>3, <2>1, Zenon DEF MonitorThere
    <2>3. p # 0 /\ procs'[0] = procs[0]
      BY <1>2, <2>2, ProcAssumption, Zenon
    <2>4. \A u \in Tids : pidOf'[u] = 0 => u # t /\ pidOf[u] = 0
      BY <1>2, <2>3, Zenon
    <2> QED
      BY <2>1, <2>2, <2>3, <2>4 DEF ProcInv, KernelFirst
  <1> QED
    BY <1>8, <1>9, <1>10, <1>11, <1>12, <1>13, <1>14, <1>15, <1>16, Zenon

\* The loaded address space goes from the loading thread to the new process.
LEMMA ExecInsertInv ==
  ASSUME ProcInv, NEW t \in Tids, ExecInsert(t), SchedInv', ProcTypeOK'
  PROVE  ProcInv'
  <1> DEFINE pt == inHand[current]
  <1>1. /\ phase[current] \in {"load", "loadShell"} /\ Me = 0 /\ current \in Tids \ {Idle} /\ pt \in PageTables
        /\ NewProcess(t, 0, pt) /\ live' = live /\ pt \in live
    <2>1. current \in Tids \ {Idle}
      BY RunnerFacts, Zenon DEF ExecInsert, NewProcess, Spawn
    <2>2. phase[current] \in {"load", "loadShell"} /\ NewProcess(t, 0, pt) /\ live' = live
      BY Zenon DEF ExecInsert
    <2>3. pt \in live
      BY <2>1, <2>2, Zenon DEF ProcInv, OneOwner, Holding
    <2>4. pt \in PageTables
      BY <2>1, Zenon DEF ProcInv, OneOwner, ProcTypeOK
    <2>5. Me = 0
      BY <2>1, <2>2, Zenon DEF ProcInv, Roles, MonitorPhase, Me
    <2> QED
      BY <2>1, <2>2, <2>3, <2>4, <2>5, Zenon
  <1> HIDE DEF pt
  <1>2. /\ t # current /\ t # Idle /\ state[t] = "Empty" /\ phase[t] = "kernel"
        /\ \A u \in Tids : state'[u] = IF u = t THEN "Ready" ELSE state[u]
        /\ UNCHANGED <<current, waitq, waitFor, cr3, bounds, habits>>
    BY <1>1, NewProcessFacts, Zenon
  <1>3. PICK p \in Pids :
          /\ ~Present(p)
          /\ \A u \in Tids : pidOf'[u] = IF u = t THEN p ELSE pidOf[u]
          /\ \A q \in Pids : procs'[q] = IF q = p
               THEN [ppid |-> 0, zombie |-> FALSE, pt |-> pt] ELSE procs[q]
    BY <1>1, NewProcessFacts
  <1>4. /\ \E to \in {"reap", "last"} : \A u \in Tids :
             phase'[u] = IF u = t THEN "user" ELSE IF u = current THEN to ELSE phase[u]
        /\ \A u \in Tids : u # current => inHand'[u] = inHand[u]
    BY <1>1, <1>2 DEF ExecInsert, OneOwner, ProcTypeOK
  <1>5. /\ KernelFirst' /\ Ancestry' /\ OneThread' /\ RunnableHasProcess' /\ ParentAlive'
        /\ WaiterNotForgotten' /\ OwnSpace' /\ WaitedIsReclaimable' /\ Quiet'
    <2>1. /\ phase'[t] = "user"
          /\ \A u \in Tids : u # t => /\ phase'[u] \in MonitorPhase <=> phase[u] \in MonitorPhase
                                      /\ phase'[u] = "kernel" <=> phase[u] = "kernel"
      BY <1>1, <1>2, <1>4 DEF MonitorPhase
    <2>2. live \cup {pt} = live'
      BY <1>1, Zenon
    <2> QED
      BY <1>1, <2>1, <2>2, NewProcessKeeps, Zenon
  <1>6. Roles'
    <2>1. \A q \in Pids \cup {Console} : Waiters(q)' = Waiters(q)
      BY <1>2, Zenon DEF Waiters
    <2>2. \A q \in Pids : \A u \in Waiters(q) :
            phase[u] = "wait" /\ u \in Tids /\ u # t /\ u # current
      BY <1>1, <1>2, WaiterFacts
    <2>3. \A u \in Waiters(Console) : phase[u] = "user" /\ u \in Tids /\ u # t /\ u # current
      BY <1>1, <1>2, ReaderFacts
    <2>4. \A u \in Tids :
            /\ phase'[u] \in {"kernel"} \cup MonitorPhase => pidOf'[u] = 0
            /\ phase'[u] = "kernel" <=> u = Idle \/ state'[u] = "Empty"
            /\ phase'[u] \in MonitorPhase \ {"last"} => state'[u] = "Ready"
            /\ phase'[u] = "last" => state'[u] \in {"Ready", "Zombie"}
            /\ phase'[u] \in {"wait", "harvest"} => state'[u] # "Zombie" /\ "waits" \in habits'
      BY <1>1, <1>2, <1>3, <1>4 DEF ProcInv, Roles, MonitorPhase
    <2> QED
      BY <1>4, <2>1, <2>2, <2>3, <2>4 DEF Roles
  <1>7. DeadProcess'
    <2>1. \A u \in Tids : state[u] = "Zombie" =>
            \/ phase[u] = "last"
            \/ pidOf[u] \in Pids /\ Present(pidOf[u]) /\ procs[pidOf[u]].zombie
      <3>1. current = None \/ phase[current] \in {"kernel"} \cup MonitorPhase
        BY <1>1, Zenon DEF MonitorPhase
      <3> QED
        BY <3>1, DeadUnlessHarvested, Zenon
    <2>2. state[current] = "Ready"
      BY <1>1, RunnerFacts, Zenon DEF NewProcess, Spawn
    <2> QED
      BY <1>2, <1>3, <1>4, <2>1, <2>2 DEF DeadProcess, Present
  <1>8. OneOwner'
    <2>1. \A q \in Pids : Present(q)' <=> Present(q) \/ q = p
      <3>1. [ppid |-> 0, zombie |-> FALSE, pt |-> pt]
              \in [ppid : Pids, zombie : BOOLEAN, pt : PageTables]
        BY <1>1, ProcAssumption, Zenon
      <3> QED
        BY <1>3, <3>1, ProcAssumption, Zenon DEF Present
    <2>2. \A u \in Tids : phase'[u] \in Holding <=>
            u # current /\ phase[u] \in Holding
      BY <1>2, <1>4, Zenon DEF Holding
    <2>3. \A q \in Pids : Present(q) => procs[q].pt # pt
      BY <1>1, Zenon DEF ProcInv, OneOwner, Holding, pt
    <2>4. \A u \in Tids : u # current /\ phase[u] \in Holding => inHand[u] # pt
      BY <1>1, Zenon DEF ProcInv, OneOwner, Holding, pt
    <2>5. /\ \A x : x \in live <=> \/ \E q \in Pids : Present(q) /\ x = procs[q].pt
                                  \/ \E u \in Tids : phase[u] \in Holding /\ x = inHand[u]
          /\ \A q, r \in Pids : Present(q) /\ Present(r) /\ procs[q].pt = procs[r].pt => q = r
          /\ \A t1, u \in Tids :
               phase[t1] \in Holding /\ phase[u] \in Holding /\ inHand[t1] = inHand[u] => t1 = u
          /\ \A q \in Pids, u \in Tids :
               Present(q) /\ phase[u] \in Holding => procs[q].pt # inHand[u]
      BY OwnerForm, Zenon DEF ProcInv
    <2> HIDE DEF Present
    <2>6. \A x : x \in live' <=> \/ \E q \in Pids : Present(q)' /\ x = procs'[q].pt
                                \/ \E u \in Tids : phase'[u] \in Holding /\ x = inHand'[u]
      BY <1>1, <1>3, <1>4, <2>1, <2>2, <2>5 DEF pt
    <2>7. /\ \A q, r \in Pids : Present(q)' /\ Present(r)' /\ procs'[q].pt = procs'[r].pt => q = r
          /\ \A q \in Pids, u \in Tids :
               Present(q)' /\ phase'[u] \in Holding => procs'[q].pt # inHand'[u]
      BY <1>3, <1>4, <2>1, <2>2, <2>3, <2>4, <2>5
    <2>8. \A t1, u \in Tids :
            phase'[t1] \in Holding /\ phase'[u] \in Holding /\ inHand'[t1] = inHand'[u] => t1 = u
      BY <1>4, <2>2, <2>5
    <2> QED
      BY <2>6, <2>7, <2>8, OwnerPrimed, Zenon
  <1> QED
    BY <1>5, <1>6, <1>7, <1>8, Zenon DEF ProcInv

\* A child of the caller may take the pid of a child it has just waited for, whose dead
\* thread is still in the graveyard.
LEMMA SysSpawnInv ==
  ASSUME Tame, ProcInv, NEW t \in Tids, NEW pt \in PageTables, SysSpawn(t, pt),
         SchedInv', ProcTypeOK'
  PROVE  ProcInv'
  <1>1. /\ phase[current] = "user" /\ current \in Tids \ {Idle} /\ Me \in Pids
        /\ NewProcess(t, Me, pt) /\ live' = live \cup {pt} /\ pt \notin live
        /\ inHand' = inHand /\ current # None
    BY RunnerFacts, Zenon DEF SysSpawn, NewProcess, Spawn
  <1>2. /\ t # current /\ t # Idle /\ state[t] = "Empty" /\ phase[t] = "kernel"
        /\ \A u \in Tids : state'[u] = IF u = t THEN "Ready" ELSE state[u]
        /\ UNCHANGED <<current, waitq, waitFor, cr3, bounds, habits>>
    BY <1>1, NewProcessFacts, Zenon
  <1>3. PICK p \in Pids :
          /\ ~Present(p)
          /\ \A u \in Tids : pidOf'[u] = IF u = t THEN p ELSE pidOf[u]
          /\ \A q \in Pids : procs'[q] = IF q = p
               THEN [ppid |-> Me, zombie |-> FALSE, pt |-> pt] ELSE procs[q]
    BY <1>1, NewProcessFacts
  <1>4. \A u \in Tids : phase'[u] = IF u = t THEN "user" ELSE phase[u]
    BY Zenon DEF SysSpawn, OneOwner, ProcTypeOK
  <1>5. /\ KernelFirst' /\ Ancestry' /\ OneThread' /\ RunnableHasProcess' /\ ParentAlive'
        /\ WaiterNotForgotten' /\ OwnSpace' /\ WaitedIsReclaimable' /\ Quiet'
    <2>1. /\ phase'[t] = "user"
          /\ \A u \in Tids : u # t => /\ phase'[u] \in MonitorPhase <=> phase[u] \in MonitorPhase
                                      /\ phase'[u] = "kernel" <=> phase[u] = "kernel"
      BY <1>4, Zenon
    <2> QED
      BY <1>1, <2>1, NewProcessKeeps, Zenon
  <1>6. Roles'
    <2>1. \A q \in Pids \cup {Console} : Waiters(q)' = Waiters(q)
      BY <1>2, Zenon DEF Waiters
    <2>2. \A q \in Pids : \A u \in Waiters(q) : phase[u] = "wait" /\ u \in Tids /\ u # t
      BY <1>2, WaiterFacts
    <2>3. \A u \in Waiters(Console) : phase[u] = "user" /\ u \in Tids /\ u # t
      BY <1>2, ReaderFacts
    <2>4. \A u \in Tids :
            /\ phase'[u] \in {"kernel"} \cup MonitorPhase => pidOf'[u] = 0
            /\ phase'[u] = "kernel" <=> u = Idle \/ state'[u] = "Empty"
            /\ phase'[u] \in MonitorPhase \ {"last"} => state'[u] = "Ready"
            /\ phase'[u] = "last" => state'[u] \in {"Ready", "Zombie"}
            /\ phase'[u] \in {"wait", "harvest"} => state'[u] # "Zombie" /\ "waits" \in habits'
      BY <1>1, <1>2, <1>3, <1>4 DEF ProcInv, Roles, MonitorPhase
    <2> QED
      BY <1>4, <2>1, <2>2, <2>3, <2>4 DEF Roles
  <1>7. DeadProcess'
    <2>1. Me' = Me /\ current' = current /\ phase'[current] = "user" /\ habits' = habits
      BY <1>1, <1>2, <1>3, <1>4, Zenon DEF Me
    <2>2. ASSUME NEW u \in Tids, state'[u] = "Zombie"
          PROVE  \/ phase'[u] = "last"
                 \/ procs'[pidOf'[u]] # NoProc /\ procs'[pidOf'[u]].zombie
                 \/ /\ u # current /\ "waits" \in habits
                    /\ procs'[pidOf'[u]] # NoProc => procs'[pidOf'[u]].ppid = Me /\ Me # 0
      <3>1. /\ u # t /\ state[u] = "Zombie" /\ pidOf'[u] = pidOf[u] /\ pidOf[u] \in Pids
            /\ phase'[u] = phase[u]
        BY <2>2, <1>2, <1>3, <1>4, Zenon DEF ProcTypeOK
      <3>2. "waits" \in habits => Me # 0
        BY Zenon DEF SysSpawn, Tame, ProcInv, OneOwner, ProcTypeOK
      <3>3. CASE pidOf[u] = p
        BY <3>1, <3>2, <3>3, <1>3 DEF ProcInv, DeadProcess
      <3>4. CASE pidOf[u] # p
        BY <3>1, <3>4, <1>3 DEF ProcInv, DeadProcess, Present
      <3> QED
        BY <3>3, <3>4, Zenon
    <2> QED
      BY <1>1, <2>1, <2>2, Zenon DEF DeadProcess, Present
  <1>8. OneOwner'
    <2>1. \A q \in Pids : Present(q)' <=> Present(q) \/ q = p
      <3>1. [ppid |-> Me, zombie |-> FALSE, pt |-> pt]
              \in [ppid : Pids, zombie : BOOLEAN, pt : PageTables]
        BY <1>1, ProcAssumption, Zenon
      <3> QED
        BY <1>3, <3>1, ProcAssumption, Zenon DEF Present
    <2>2. \A u \in Tids : phase'[u] \in Holding <=> phase[u] \in Holding
      BY <1>2, <1>4, Zenon DEF Holding
    <2>3. /\ \A x : x \in live <=> \/ \E q \in Pids : Present(q) /\ x = procs[q].pt
                                  \/ \E u \in Tids : phase[u] \in Holding /\ x = inHand[u]
          /\ \A q, r \in Pids : Present(q) /\ Present(r) /\ procs[q].pt = procs[r].pt => q = r
          /\ \A t1, u \in Tids :
               phase[t1] \in Holding /\ phase[u] \in Holding /\ inHand[t1] = inHand[u] => t1 = u
          /\ \A q \in Pids, u \in Tids :
               Present(q) /\ phase[u] \in Holding => procs[q].pt # inHand[u]
      BY OwnerForm, Zenon DEF ProcInv
    <2> HIDE DEF Present
    <2>4. \A x : x \in live' <=> \/ \E q \in Pids : Present(q)' /\ x = procs'[q].pt
                                \/ \E u \in Tids : phase'[u] \in Holding /\ x = inHand'[u]
      BY <1>1, <1>3, <2>1, <2>2, <2>3
    <2>5. /\ \A q, r \in Pids : Present(q)' /\ Present(r)' /\ procs'[q].pt = procs'[r].pt => q = r
          /\ \A q \in Pids, u \in Tids :
               Present(q)' /\ phase'[u] \in Holding => procs'[q].pt # inHand'[u]
      BY <1>1, <1>3, <2>1, <2>2, <2>3
    <2>6. \A t1, u \in Tids :
            phase'[t1] \in Holding /\ phase'[u] \in Holding /\ inHand'[t1] = inHand'[u] => t1 = u
      BY <1>1, <2>2, <2>3, Zenon
    <2> QED
      BY <2>4, <2>5, <2>6, OwnerPrimed, Zenon
  <1> QED
    BY <1>5, <1>6, <1>7, <1>8, Zenon DEF ProcInv

\* What SYS_EXIT changes.
LEMMA SysExitFacts ==
  ASSUME ProcInv, SysExit
  PROVE  /\ Running(current) /\ phase[current] = "user" /\ Me \in Pids
         /\ "orphans" \in habits \/ Me = 0 \/ Children(AnyChild) = {}
         /\ state'[current] = "Zombie"
         /\ \A u \in Tids : u # current =>
              \/ state'[u] = state[u]
              \/ state[u] = "Blocked" /\ state'[u] = "Ready"
         /\ \A p \in Pids \cup {Console} :
              Waiters(p)' = IF p \in ParentQueue THEN {} ELSE Waiters(p)
         /\ UNCHANGED <<current, pidOf, phase, waitFor, inHand, live, cr3, bounds, habits>>
         /\ \A p \in Pids :
              /\ Present(p)' <=> Present(p)
              /\ Present(p) => /\ procs'[p].pt = procs[p].pt
                               /\ procs'[p].zombie <=> procs[p].zombie \/ p = Me
                               /\ procs'[p].ppid = IF p # Me /\ procs[p].ppid = Me THEN 0
                                                   ELSE procs[p].ppid
  <1>1. /\ Running(current) /\ phase[current] = "user"
        /\ "orphans" \in habits \/ Me = 0 \/ Children(AnyChild) = {}
        /\ Exit(ParentQueue)
        /\ UNCHANGED <<pidOf, phase, waitFor, inHand, live, cr3, bounds, habits>>
    BY Zenon DEF SysExit, Exit
  <1>2. current \in Tids \ {Idle} /\ Me \in Pids /\ Present(Me) /\ ~procs[Me].zombie
    BY <1>1, RunnerFacts, Zenon
  <1>3. Pids \cup {Console} = Objects
    BY ProcAssumption, Zenon
  <1>4. /\ state'[current] = "Zombie" /\ current' = current
        /\ \A u \in Tids : u # current =>
              \/ state'[u] = state[u]
              \/ state[u] = "Blocked" /\ state'[u] = "Ready"
    BY <1>1, <1>2, Zenon DEF Exit, Woken
  <1>5. \A p \in Objects : Waiters(p)' = IF p \in ParentQueue THEN {} ELSE Waiters(p)
    <2>1. \A p \in Objects : waitq'[p] = IF p \in ParentQueue THEN <<>> ELSE waitq[p]
      BY <1>1, Zenon DEF Exit
    <2>2. {<<>>[i] : i \in 1..Len(<<>>)} = {}
      OBVIOUS
    <2> QED
      BY <2>1, <2>2 DEF Waiters
  <1>6. \A p \in Pids : Present(p) => procs[p] \in Process
    BY Zenon DEF ProcInv, Present, OneOwner, ProcTypeOK
  <1>7. \A p \in Pids : procs'[p] =
          IF p = Me THEN [procs[p] EXCEPT !.zombie = TRUE]
          ELSE IF Present(p) /\ procs[p].ppid = Me THEN [procs[p] EXCEPT !.ppid = 0]
          ELSE procs[p]
    BY <1>2, Zenon DEF SysExit, Children, Reparented, AnyChild
  <1>8. ASSUME NEW r \in Process
        PROVE  /\ [r EXCEPT !.zombie = TRUE] \in Process
               /\ [r EXCEPT !.zombie = TRUE].pt = r.pt
               /\ [r EXCEPT !.zombie = TRUE].ppid = r.ppid
               /\ [r EXCEPT !.zombie = TRUE].zombie = TRUE
               /\ [r EXCEPT !.ppid = 0] \in Process
               /\ [r EXCEPT !.ppid = 0].pt = r.pt
               /\ [r EXCEPT !.ppid = 0].ppid = 0
               /\ [r EXCEPT !.ppid = 0].zombie = r.zombie
    BY ProcAssumption, Zenon DEF Process
  <1>9. ASSUME NEW p \in Pids
        PROVE /\ Present(p)' <=> Present(p)
              /\ Present(p) => /\ procs'[p].pt = procs[p].pt
                               /\ procs'[p].zombie <=> procs[p].zombie \/ p = Me
                               /\ procs'[p].ppid = IF p # Me /\ procs[p].ppid = Me THEN 0
                                                   ELSE procs[p].ppid
    <2>1. CASE ~Present(p)
      BY <1>2, <1>7, <2>1, Zenon DEF Present
    <2>2. CASE Present(p)
      <3>1. procs[p] \in Process
        BY <1>6, <2>2, Zenon
      <3>2. NoProc \notin Process
        BY ProcAssumption, Zenon DEF Process
      <3>3. procs'[p] \in Process
        BY <1>7, <1>8, <3>1, Zenon
      <3>4. Present(p)'
        BY <3>2, <3>3, Zenon DEF Present
      <3>5. CASE p = Me
        <4>1. procs'[p] = [procs[p] EXCEPT !.zombie = TRUE]
          BY <1>7, <3>5, Zenon
        <4>2. procs'[p].zombie = TRUE /\ procs'[p].pt = procs[p].pt /\ procs'[p].ppid = procs[p].ppid
          BY <3>1, <4>1
        <4> QED
          BY <2>2, <3>4, <3>5, <4>2, Zenon
      <3>6. CASE p # Me /\ procs[p].ppid = Me
        <4>1. procs'[p] = [procs[p] EXCEPT !.ppid = 0]
          BY <1>7, <2>2, <3>6, Zenon
        <4>2. procs'[p].zombie = procs[p].zombie
          BY <3>1, <4>1
        <4> QED
          BY <2>2, <3>1, <3>4, <3>6, <4>1, <4>2
      <3>7. CASE p # Me /\ procs[p].ppid # Me
        <4>1. procs'[p] = procs[p]
          BY <1>7, <3>7, Zenon
        <4> QED
          BY <2>2, <3>4, <3>7, <4>1, Zenon
      <3> QED
        BY <3>5, <3>6, <3>7, Zenon
    <2> QED
      BY <2>1, <2>2, Zenon
  <1> QED
    BY <1>1, <1>2, <1>3, <1>4, <1>5, <1>9, Zenon

\* An exiting process leaves a dead thread, a zombie for its parent, and no children.
LEMMA SysExitInv ==
  ASSUME Tame, ProcInv, SysExit, SchedInv', ProcTypeOK'
  PROVE  ProcInv'
  <1>1. /\ Running(current) /\ phase[current] = "user" /\ Me \in Pids
        /\ "orphans" \in habits \/ Me = 0 \/ Children(AnyChild) = {}
        /\ state'[current] = "Zombie"
        /\ \A u \in Tids : u # current =>
              \/ state'[u] = state[u]
              \/ state[u] = "Blocked" /\ state'[u] = "Ready"
        /\ UNCHANGED <<current, pidOf, phase, waitFor, inHand, live, cr3, bounds, habits>>
    BY SysExitFacts, Zenon
  <1>2. \A p \in Pids \cup {Console} :
          Waiters(p)' = IF p \in ParentQueue THEN {} ELSE Waiters(p)
    BY SysExitFacts, Zenon
  <1>3. /\ \A p \in Pids : Present(p)' <=> Present(p)
        /\ \A p \in Pids : Present(p) => procs'[p].pt = procs[p].pt
        /\ \A p \in Pids : Present(p) => (procs'[p].zombie <=> procs[p].zombie \/ p = Me)
        /\ \A p \in Pids : Present(p) =>
             procs'[p].ppid = IF p # Me /\ procs[p].ppid = Me THEN 0 ELSE procs[p].ppid
    BY SysExitFacts, Zenon
  <1>4. /\ current \in Tids \ {Idle} /\ current # None /\ state[current] = "Ready"
        /\ Present(Me) /\ ~procs[Me].zombie /\ Waiters(Me) = {} /\ Me = pidOf[current]
        /\ \A u \in Tids \ {Idle} : Alive(u) /\ pidOf[u] = Me => u = current
    BY <1>1, RunnerFacts, SchedAssumption, Zenon DEF Me
  <1>5. /\ \A u \in Tids : pidOf[u] \in Pids
        /\ \A p \in Pids : Present(p) => procs[p].ppid \in Pids
    BY Zenon DEF ProcInv, OneOwner, ProcTypeOK, Process, Present
  <1>6. procs[Me].ppid = Me => Me = 0
    BY <1>1, <1>4, Zenon DEF ProcInv, Ancestry
  <1>7. Roles'
    <2>1. \A p \in Pids : \A u \in Waiters(p)' : phase[u] = "wait"
      BY <1>2, Zenon DEF ProcInv, Roles
    <2>2. \A u \in Waiters(Console)' : phase[u] = "user"
      BY <1>2, Zenon DEF ProcInv, Roles
    <2>3. \A u \in Tids :
            /\ phase'[u] \in {"kernel"} \cup MonitorPhase => pidOf'[u] = 0
            /\ phase'[u] = "kernel" <=> u = Idle \/ state'[u] = "Empty"
            /\ phase'[u] \in MonitorPhase \ {"last"} => state'[u] = "Ready"
            /\ phase'[u] = "last" => state'[u] \in {"Ready", "Zombie"}
            /\ phase'[u] \in {"wait", "harvest"} => state'[u] # "Zombie" /\ "waits" \in habits'
      BY <1>1, <1>4 DEF ProcInv, Roles, MonitorPhase
    <2> QED
      BY <1>1, <2>1, <2>2, <2>3 DEF Roles
  <1>8. MonitorThere => Me # 0
    BY <1>1, <1>4, Zenon DEF ProcInv, KernelFirst, MonitorPhase
  <1>9. Ancestry' /\ KernelFirst'
    <2>1. MonitorThere => procs'[0] = procs[0]
      <3>1. MonitorThere => 0 \in Pids /\ procs[0].ppid = 0
        BY KernelProcess, ProcAssumption, Zenon
      <3> QED
        BY <1>8, <3>1, Zenon DEF SysExit, Children
    <2>2. KernelFirst'
      BY <1>1, <2>1, KernelFirstKeeps, Zenon DEF ProcInv
    <2> QED
      BY <1>3, <2>2 DEF ProcInv, Ancestry
  <1>9a. \A u \in Tids : state[u] = "Zombie" => pidOf[u] # Me
    <2>1. \A u \in Tids : phase[u] = "last" => pidOf[u] = 0 /\ MonitorThere
      BY Zenon DEF ProcInv, Roles, MonitorThere, MonitorPhase
    <2> QED
      BY <1>4, <1>6, <1>8, <2>1, Zenon DEF ProcInv, DeadProcess
  <1>10. OneThread'
    <2>1. \A u \in Tids : (Alive(u)' <=> Alive(u) /\ u # current)
                          /\ (state'[u] = "Zombie" <=> state[u] = "Zombie" \/ u = current)
      BY <1>1, <1>4, Zenon DEF Alive
    <2> QED
      BY <1>1, <1>4, <1>9a, <2>1 DEF ProcInv, OneThread
  <1>11. DeadProcess'
    <2> SUFFICES ASSUME NEW u \in Tids, state'[u] = "Zombie"
                 PROVE  \/ phase[u] = "last"
                        \/ procs'[pidOf[u]] # NoProc /\ procs'[pidOf[u]].zombie
                        \/ /\ u # current /\ "waits" \in habits
                           /\ procs'[pidOf[u]] = NoProc
      BY <1>1, <1>4, Zenon DEF DeadProcess, Present
    <2>1. CASE u = current
      BY <1>1, <1>3, <1>4, <2>1, Zenon DEF Present
    <2>2. CASE u # current
      <3>1. state[u] = "Zombie" /\ pidOf[u] \in Pids
        BY <1>1, <1>5, <2>2, Zenon
      <3>2. CASE Present(pidOf[u]) /\ procs[pidOf[u]].zombie
        BY <1>3, <3>1, <3>2, Zenon DEF Present
      <3>3. CASE "waits" \in habits /\ (Present(pidOf[u]) => procs[pidOf[u]].ppid = Me /\ Me # 0)
        <4>1. "orphans" \notin habits
          BY <3>3, Zenon DEF ProcInv, Tame, OneOwner, ProcTypeOK
        <4>2. ~Present(pidOf[u])
          BY <1>1, <3>1, <3>3, <4>1, Zenon DEF Children, AnyChild
        <4> QED
          BY <1>3, <2>2, <3>1, <3>3, <4>2, Zenon DEF Present
      <3> QED
        BY <3>1, <3>2, <3>3, Zenon DEF ProcInv, DeadProcess
    <2> QED
      BY <2>1, <2>2, Zenon
  <1>12. RunnableHasProcess'
    <2> SUFFICES ASSUME NEW u \in Tids \ {Idle}, state'[u] \in {"Ready", "Blocked"}
                 PROVE  /\ procs'[pidOf[u]] # NoProc /\ ~procs'[pidOf[u]].zombie
                        /\ procs'[pidOf[u]].pt \in live
      BY <1>1, Zenon DEF RunnableHasProcess, Present
    <2>1. u # current /\ Alive(u)
      BY <1>1, Zenon DEF Alive
    <2>2. pidOf[u] # Me
      BY <1>4, <2>1, Zenon
    <2> QED
      BY <1>3, <1>5, <2>1, <2>2, Zenon DEF ProcInv, RunnableHasProcess, Alive, Present
  <1>13. OneOwner'
    BY <1>1, <1>3, OwnerKeeps, Zenon DEF ProcInv, Present
  <1>14. ParentAlive'
    <2> SUFFICES ASSUME NEW p \in Pids, Present(p), procs'[p].ppid # 0
                 PROVE  procs'[procs'[p].ppid] # NoProc /\ ~procs'[procs'[p].ppid].zombie
      BY <1>3, Zenon DEF ParentAlive, Present
    <2>1. procs'[p].ppid = procs[p].ppid /\ procs[p].ppid # Me
      BY <1>3, <1>6, Zenon
    <2> QED
      BY <1>3, <1>5, <2>1, Zenon DEF ProcInv, ParentAlive, Present
  <1>15. WaiterNotForgotten'
    <2> SUFFICES ASSUME NEW p \in Pids, NEW u \in Waiters(p), p \notin ParentQueue
                 PROVE  /\ pidOf[u] = p /\ Present(p)'
                        /\ \E d \in Pids : /\ Present(d)' /\ procs'[d].ppid = p
                                           /\ waitFor[u] \in {AnyChild, d}
                        /\ \A d \in Pids :
                             Present(d)' /\ procs'[d].ppid = p /\ waitFor[u] \in {AnyChild, d} =>
                               ~procs'[d].zombie
      BY <1>1, <1>2 DEF WaiterNotForgotten
    <2>1. pidOf[u] = p /\ Present(p) /\ p # Me /\ phase[u] = "wait" /\ u \in Tids
      BY <1>4, WaiterFacts, Zenon DEF ProcInv, WaiterNotForgotten
    <2>1a. "orphans" \notin habits
      BY <2>1, Zenon DEF ProcInv, Roles, Tame, OneOwner, ProcTypeOK
    <2>2. procs[Me].ppid # p
      BY <1>4, <2>1, Zenon DEF ParentQueue
    <2>3. \A d \in Pids : Present(d) => (procs'[d].ppid = p <=> procs[d].ppid = p)
      BY <1>1, <1>3, <2>1, <2>1a, Zenon DEF Children, AnyChild
    <2>4. PICK d \in Pids : Present(d) /\ procs[d].ppid = p /\ waitFor[u] \in {AnyChild, d}
      BY Zenon DEF ProcInv, WaiterNotForgotten
    <2>5. Present(d)' /\ procs'[d].ppid = p
      BY <1>3, <2>3, <2>4, Zenon
    <2> QED
      BY <1>3, <2>1, <2>2, <2>3, <2>4, <2>5, SMTT(30) DEF ProcInv, WaiterNotForgotten
  <1>16. OwnSpace' /\ Quiet'
    BY <1>1, <1>4 DEF OwnSpace, Quiet
  <1>17. WaitedIsReclaimable'
    <2> SUFFICES ASSUME "orphans" \notin habits, NEW p \in Pids,
                        Present(p), procs'[p].zombie, procs'[p].ppid = 0
                 PROVE  \E u \in Tids : state'[u] = "Zombie" /\ pidOf[u] = p
      BY <1>1, <1>3 DEF WaitedIsReclaimable, ExitedIsReclaimable
    <2>1. CASE p = Me
      BY <1>1, <1>4, <2>1, Zenon
    <2>2. CASE p # Me
      <3>1. procs[p].ppid = Me => Me = 0
        BY <1>1, Zenon DEF Children, AnyChild
      <3>2. procs[p].zombie /\ procs[p].ppid = 0
        BY <1>3, <2>2, <3>1, Zenon
      <3> QED
        BY <1>1, <3>2 DEF ProcInv, WaitedIsReclaimable, ExitedIsReclaimable
    <2> QED
      BY <2>1, <2>2, Zenon
  <1> QED
    BY <1>7, <1>9, <1>10, <1>11, <1>12, <1>13, <1>14, <1>15, <1>16, <1>17, Zenon DEF ProcInv

\* reap_zombies removes the dead threads that are off the CPU, and of the processes only
\* zombies and, with the monitor thread, process 0: no live thread's process.
LEMMA ReapFacts ==
  ASSUME ProcInv, ReapProcesses, state' = Removed(Reaped)
  PROVE  /\ \A u \in Tids : u \in Reaped <=> state[u] = "Zombie" /\ u # current
         /\ \A u \in Tids : state'[u] = IF u \in Reaped THEN "Empty" ELSE state[u]
         /\ \A u \in Tids : pidOf'[u] = IF u \in Reaped THEN 0 ELSE pidOf[u]
         /\ \A p \in Pids : procs'[p] = IF p \in ReapedPids THEN NoProc ELSE procs[p]
         /\ \A p \in ReapedPids : /\ p \in Pids /\ Present(p) /\ (p = 0 \/ procs[p].zombie)
                                 /\ \A u \in Tids \ {Idle} : Alive(u) => pidOf[u] # p
         /\ \A p \in Pids : Present(p)' <=> Present(p) /\ p \notin ReapedPids
         /\ \A p \in Pids : p \in ReapedPids <=>
              /\ Present(p) /\ procs[p].ppid = 0
              /\ \E u \in Tids : state[u] = "Zombie" /\ u # current /\ pidOf[u] = p
         /\ UNCHANGED <<waitFor, inHand>>
  <1>1. Reaped \subseteq Tids /\ \A u \in Tids : u \in Reaped <=> state[u] = "Zombie" /\ u # current
    BY ReapedFacts, Zenon DEF ProcInv, SchedInv, SchedTypeOK
  <1>2. /\ \A u \in Tids : state'[u] = IF u \in Reaped THEN "Empty" ELSE state[u]
        /\ \A u \in Tids : pidOf'[u] = IF u \in Reaped THEN 0 ELSE pidOf[u]
        /\ UNCHANGED <<waitFor, inHand>>
    BY Zenon DEF Removed, ReapProcesses
  <1>3. \A p \in Pids : procs'[p] = IF p \in ReapedPids THEN NoProc ELSE procs[p]
    BY Zenon DEF ReapProcesses, ReapedProcs
  <1>4. ASSUME NEW p \in ReapedPids
        PROVE  /\ p \in Pids /\ Present(p) /\ (p = 0 \/ procs[p].zombie)
               /\ \A u \in Tids \ {Idle} : Alive(u) => pidOf[u] # p
    <2>1. p \in Pids /\ Present(p) /\ procs[p].ppid = 0
      BY Zenon DEF ReapedPids
    <2>2. PICK v \in Tids : state[v] = "Zombie" /\ v # current /\ pidOf[v] = p
      BY <1>1, Zenon DEF ReapedPids
    <2>3. CASE phase[v] = "last"
      <3>1. p = 0 /\ MonitorThere /\ phase[v] \in MonitorPhase
        BY <2>2, <2>3, Zenon DEF ProcInv, Roles, MonitorThere, MonitorPhase
      <3>2. ASSUME NEW u \in Tids \ {Idle}, Alive(u), pidOf[u] = 0
            PROVE  FALSE
        <4>1. phase[u] \in MonitorPhase
          BY <3>1, <3>2, Zenon DEF ProcInv, KernelFirst, Roles, Alive
        <4>2. u = v
          BY <3>1, <4>1, Zenon DEF ProcInv, KernelFirst
        <4> QED
          BY <2>2, <3>2, <4>2 DEF Alive
      <3> QED
        BY <2>1, <3>1, <3>2, Zenon
    <2>4. CASE phase[v] # "last"
      <3>1. procs[p].zombie
        BY <2>1, <2>2, <2>4, Zenon DEF ProcInv, DeadProcess
      <3> QED
        BY <2>1, <3>1, Zenon DEF ProcInv, RunnableHasProcess, Alive
    <2> QED
      BY <2>3, <2>4, Zenon
  <1>5. \A p \in Pids : Present(p)' <=> Present(p) /\ p \notin ReapedPids
    BY <1>3, Zenon DEF Present
  <1>6. \A p \in Pids : p \in ReapedPids <=>
          /\ Present(p) /\ procs[p].ppid = 0
          /\ \E u \in Tids : state[u] = "Zombie" /\ u # current /\ pidOf[u] = p
    BY <1>1, Zenon DEF ReapedPids
  <1> QED
    BY <1>1, <1>2, <1>3, <1>4, <1>5, <1>6, Zenon

\* What reap_zombies keeps, on its own and as the first part of a switch.
LEMMA ReapKeeps ==
  ASSUME ProcInv, ReapProcesses, state' = Removed(Reaped), waitq' = waitq, habits' = habits,
         ProcTypeOK', current' # None,
         \A u \in Tids :
           \/ phase'[u] = ReapedPhase[u]
           \/ u = current /\ phase[u] = "reap" /\ phase'[u] = "execShell"
  PROVE  /\ Roles' /\ KernelFirst' /\ Ancestry' /\ OneThread' /\ RunnableHasProcess' /\ OneOwner'
         /\ ParentAlive' /\ WaiterNotForgotten' /\ WaitedIsReclaimable'
         /\ \A u \in Tids : state'[u] = "Zombie" =>
              phase'[u] = "last" \/ (Present(pidOf[u])' /\ procs'[pidOf'[u]].zombie)
  <1>1. /\ \A u \in Tids : u \in Reaped <=> state[u] = "Zombie" /\ u # current
        /\ \A u \in Tids : state'[u] = IF u \in Reaped THEN "Empty" ELSE state[u]
        /\ \A u \in Tids : pidOf'[u] = IF u \in Reaped THEN 0 ELSE pidOf[u]
        /\ \A u \in Tids : u \in Reaped => phase'[u] = "kernel"
        /\ \A u \in Tids : u \notin Reaped =>
             phase'[u] = phase[u] \/ (phase[u] = "reap" /\ phase'[u] = "execShell")
        /\ UNCHANGED <<waitFor, inHand>>
    <2>1. \A u \in Tids : ReapedPhase[u] = IF u \in Reaped THEN "kernel" ELSE phase[u]
      BY Zenon DEF ReapedPhase
    <2>2. \A u \in Tids : u \in Reaped <=> state[u] = "Zombie" /\ u # current
      BY ReapFacts, Zenon
    <2> QED
      BY <2>1, <2>2, ReapFacts
  <1>2. /\ \A p \in Pids : procs'[p] = IF p \in ReapedPids THEN NoProc ELSE procs[p]
        /\ \A p \in ReapedPids : /\ p \in Pids /\ Present(p) /\ (p = 0 \/ procs[p].zombie)
                                /\ \A u \in Tids \ {Idle} : Alive(u) => pidOf[u] # p
        /\ \A p \in Pids : Present(p)' <=> Present(p) /\ p \notin ReapedPids
    BY ReapFacts, Zenon
  <1>3. \A p \in Pids : p \in ReapedPids <=>
          /\ Present(p) /\ procs[p].ppid = 0
          /\ \E u \in Tids : state[u] = "Zombie" /\ u # current /\ pidOf[u] = p
    BY ReapFacts, Zenon
  <1>4. /\ \A u \in Tids : pidOf[u] \in Pids
        /\ \A p \in Pids : Present(p) => procs[p].ppid \in Pids
    BY Zenon DEF ProcInv, OneOwner, ProcTypeOK, Process, Present
  <1>5. \A p \in Pids \cup {Console} : Waiters(p)' = Waiters(p)
    BY Zenon DEF Waiters
  <1>6. \A p \in Pids : \A u \in Waiters(p) :
          /\ u \in Tids \ {Idle} /\ u \notin Reaped /\ state[u] = "Blocked"
          /\ phase[u] = "wait" /\ pidOf[u] = p
    BY <1>1, WaiterFacts, Zenon
  <1>7. Roles'
    <2>1. Idle \in Tids /\ Idle \notin Reaped
      BY <1>1, SchedAssumption, Zenon DEF ProcInv, SchedInv, GraveyardExact
    <2>2. \A u \in Tids :
            /\ phase'[u] \in {"kernel"} \cup MonitorPhase => pidOf'[u] = 0
            /\ phase'[u] = "kernel" <=> u = Idle \/ state'[u] = "Empty"
            /\ phase'[u] \in MonitorPhase \ {"last"} => state'[u] = "Ready"
            /\ phase'[u] = "last" => state'[u] \in {"Ready", "Zombie"}
            /\ phase'[u] \in {"wait", "harvest"} => state'[u] # "Zombie" /\ "waits" \in habits'
      BY <1>1, <2>1 DEF ProcInv, Roles, MonitorPhase
    <2>3. \A u \in Waiters(Console) : u \in Tids /\ u \notin Reaped /\ phase[u] = "user"
      BY <1>1, ReaderFacts, Zenon
    <2> QED
      BY <1>1, <1>5, <1>6, <2>2, <2>3 DEF Roles
  <1>8. Ancestry'
    BY <1>2, ProcAssumption, Zenon DEF ProcInv, Ancestry
  <1>9. OneThread'
    <2>1. \A u \in Tids : Alive(u)' \/ state'[u] = "Zombie" =>
            state'[u] = state[u] /\ pidOf'[u] = pidOf[u]
      BY <1>1 DEF Alive
    <2> QED
      BY <2>1, Zenon DEF ProcInv, OneThread, Alive
  <1>10. RunnableHasProcess'
    <2> SUFFICES ASSUME NEW u \in Tids \ {Idle}, state'[u] \in {"Ready", "Blocked"}
                 PROVE  /\ procs'[pidOf'[u]] # NoProc /\ ~procs'[pidOf'[u]].zombie
                        /\ procs'[pidOf'[u]].pt \in live'
      BY Zenon DEF RunnableHasProcess, Present
    <2>1. state[u] \in {"Ready", "Blocked"} /\ pidOf'[u] = pidOf[u]
      BY <1>1, Zenon
    <2>2. pidOf[u] \in Pids /\ pidOf[u] \notin ReapedPids /\ Present(pidOf[u])
      BY <1>2, <1>4, <2>1, Zenon DEF ProcInv, RunnableHasProcess, Alive
    <2>3. \A p \in ReapedPids : procs[p].pt # procs[pidOf[u]].pt
      BY <1>2, <2>2, Zenon DEF ProcInv, OneOwner
    <2> QED
      BY <1>2, <2>1, <2>2, <2>3 DEF ProcInv, RunnableHasProcess, ReapProcesses, ReapedLive,
         Present
  <1>11. OneOwner'
    <2>1. \A u \in Tids : phase'[u] \in Holding <=> phase[u] \in Holding
      BY <1>1 DEF ProcInv, Roles, Holding, MonitorPhase
    <2>2. \A x : x \in live' <=> x \in live /\ \A p \in ReapedPids : x # procs[p].pt
      BY Zenon DEF ReapProcesses, ReapedLive
    <2>3. /\ \A p, q \in Pids : Present(p) /\ Present(q) /\ procs[p].pt = procs[q].pt => p = q
          /\ \A p \in Pids, u \in Tids :
               Present(p) /\ phase[u] \in Holding => procs[p].pt # inHand[u]
      BY OwnerForm, Zenon DEF ProcInv
    <2> HIDE DEF Present
    <2>4. \A x : x \in live' <=>
            /\ x \in live
            /\ \A p \in Pids : Present(p) /\ x = procs[p].pt => Present(p)'
            /\ \A u \in Tids : phase[u] \in Holding /\ x = inHand[u] => phase'[u] \in Holding
      BY <1>2, <2>1, <2>2, <2>3
    <2>5. \A p \in Pids : Present(p)' => Present(p) /\ procs'[p].pt = procs[p].pt
      BY <1>2, Zenon
    <2> QED
      BY <1>1, <2>1, <2>4, <2>5, OwnerDrops, Zenon DEF ProcInv
  <1>12. ParentAlive'
    <2> SUFFICES ASSUME NEW p \in Pids, Present(p), p \notin ReapedPids, procs[p].ppid # 0
                 PROVE  Present(procs[p].ppid)' /\ ~procs'[procs[p].ppid].zombie
      BY <1>2 DEF ParentAlive
    <2>1. procs[p].ppid \in Pids /\ Present(procs[p].ppid) /\ ~procs[procs[p].ppid].zombie
      BY <1>4, ZenonT(30) DEF ProcInv, ParentAlive
    <2> QED
      BY <1>2, <2>1
  <1>13. WaiterNotForgotten'
    <2> SUFFICES ASSUME NEW p \in Pids, NEW u \in Waiters(p)
                 PROVE  /\ pidOf'[u] = p /\ Present(p)'
                        /\ \E d \in Pids : /\ Present(d)' /\ procs'[d].ppid = p
                                           /\ waitFor[u] \in {AnyChild, d}
                        /\ \A d \in Pids :
                             Present(d)' /\ procs'[d].ppid = p /\ waitFor[u] \in {AnyChild, d} =>
                               ~procs'[d].zombie
      BY <1>1, <1>5 DEF WaiterNotForgotten
    <2>1. pidOf'[u] = p
      BY <1>1, <1>6
    <2>2. Present(p) /\ p \notin ReapedPids
      BY <1>2, <1>6 DEF ProcInv, WaiterNotForgotten, Alive
    <2>3. PICK d \in Pids : Present(d) /\ procs[d].ppid = p /\ waitFor[u] \in {AnyChild, d}
      BY Zenon DEF ProcInv, WaiterNotForgotten
    <2>4. ~procs[d].zombie
      BY <2>3, Zenon DEF ProcInv, WaiterNotForgotten
    <2>5. Present(d)' /\ procs'[d].ppid = p
      <3>1. ASSUME d \in ReapedPids
            PROVE  FALSE
        <4>1. d = 0
          BY <1>2, <2>4, <3>1, Zenon
        <4>2. procs[d].ppid = 0
          BY <1>3, <3>1, Zenon
        <4> QED
          BY <2>2, <2>3, <3>1, <4>1, <4>2
      <3> QED
        BY <1>2, <2>3, <3>1, Zenon
    <2> QED
      BY <1>2, <2>1, <2>2, <2>3, <2>5, SMTT(30) DEF ProcInv, WaiterNotForgotten
  <1>14. WaitedIsReclaimable'
    <2> SUFFICES ASSUME "orphans" \notin habits, NEW p \in Pids,
                        Present(p), p \notin ReapedPids, procs[p].zombie, procs[p].ppid = 0
                 PROVE  \E u \in Tids : state'[u] = "Zombie" /\ pidOf'[u] = p
      BY <1>2, Zenon DEF WaitedIsReclaimable, ExitedIsReclaimable
    <2>1. PICK u \in Tids : state[u] = "Zombie" /\ pidOf[u] = p
      BY Zenon DEF ProcInv, WaitedIsReclaimable, ExitedIsReclaimable
    <2>2. u \notin Reaped
      BY <1>1, <1>3, <2>1, Zenon
    <2> QED
      BY <1>1, <2>1, <2>2, Zenon
  <1>15. ASSUME NEW u \in Tids, state'[u] = "Zombie"
         PROVE  phase'[u] = "last" \/ (procs'[pidOf'[u]] # NoProc /\ procs'[pidOf'[u]].zombie)
    <2>1. u = current /\ state[u] = "Zombie" /\ pidOf'[u] = pidOf[u] /\ u \in Tids \ {Idle}
      BY <1>1, <1>15, Zenon DEF ProcInv, SchedInv, GraveyardExact
    <2> SUFFICES ASSUME phase[u] # "last"
                 PROVE  procs'[pidOf'[u]] # NoProc /\ procs'[pidOf'[u]].zombie
      BY <1>1, <2>1
    <2>2. Present(pidOf[u]) /\ procs[pidOf[u]].zombie /\ pidOf[u] \in Pids
      BY <1>4, <2>1, Zenon DEF ProcInv, DeadProcess
    <2>3. pidOf[u] \notin ReapedPids
      <3>1. \A v \in Tids : state[v] = "Zombie" => v # Idle
        BY Zenon DEF ProcInv, SchedInv, GraveyardExact
      <3> QED
        BY <1>3, <2>1, <2>2, <3>1, ZenonT(30) DEF ProcInv, OneThread
    <2> QED
      BY <1>2, <2>1, <2>2, <2>3, Zenon DEF Present
  <1>16. KernelFirst'
    <2> SUFFICES ASSUME MonitorThere'
                 PROVE  KernelFirst'
      BY Zenon DEF KernelFirst
    <2>1. \A u \in Tids : phase'[u] \in MonitorPhase <=> u \notin Reaped /\ phase[u] \in MonitorPhase
      BY <1>1 DEF MonitorPhase
    <2>2. PICK m \in Tids : m \notin Reaped /\ phase[m] \in MonitorPhase
      BY <2>1, Zenon DEF MonitorThere
    <2>3. MonitorThere
      BY <2>2, Zenon DEF MonitorThere
    <2>4. \A u \in Tids : pidOf[u] = 0 => u \notin Reaped
      <3>1. \A u \in Tids : state[u] = "Zombie" => phase[u] # "kernel"
        BY SMTT(30) DEF ProcInv, Roles, SchedInv, GraveyardExact
      <3> QED
        BY <1>1, <2>2, <2>3, <3>1, Zenon DEF ProcInv, KernelFirst
    <2>5. procs'[0] = procs[0]
      BY <1>1, <1>2, <1>3, <2>4, ProcAssumption, Zenon
    <2>6. \A u \in Tids : phase[u] = "kernel" => phase'[u] = "kernel"
      BY <1>1
    <2>7. \A u \in Tids : pidOf'[u] = 0 => phase'[u] \in {"kernel"} \cup MonitorPhase
      BY <1>1, <2>1, <2>3, <2>6 DEF ProcInv, KernelFirst
    <2> QED
      BY <2>1, <2>3, <2>5, <2>7 DEF ProcInv, KernelFirst
  <1> QED
    BY <1>7, <1>8, <1>9, <1>10, <1>11, <1>12, <1>13, <1>14, <1>15, <1>16, ZenonT(30) DEF Present

\* reap_zombies called by the monitor thread, which runs in process 0.
LEMMA MonitorReapInv ==
  ASSUME ProcInv, MonitorReap, SchedInv', ProcTypeOK'
  PROVE  ProcInv'
  <1>1. /\ Running(current) /\ phase[current] = "reap"
        /\ ReapProcesses /\ state' = Removed(Reaped)
        /\ UNCHANGED <<tree, current, waitq, cr3, bounds, habits>>
    BY Zenon DEF MonitorReap, ReapZombies
  <1>2. /\ current \in Tids \ {Idle} /\ current # None /\ state[current] = "Ready"
        /\ Me \in Pids /\ bounds = Me /\ cr3 = procs[Me].pt
    BY <1>1, RunnerFacts, SchedAssumption, Zenon DEF MonitorPhase
  <1>3. \A u \in Tids : \/ phase'[u] = ReapedPhase[u]
                        \/ u = current /\ phase[u] = "reap" /\ phase'[u] = "execShell"
    <2>1. ReapedPhase[current] = "reap" /\ current \in DOMAIN ReapedPhase
      BY <1>1, <1>2, ReapFacts DEF ReapedPhase
    <2> QED
      BY <1>2, <2>1 DEF MonitorReap, ReapedPhase
  <1>4. /\ Roles' /\ KernelFirst' /\ Ancestry' /\ OneThread' /\ RunnableHasProcess' /\ OneOwner'
        /\ ParentAlive' /\ WaiterNotForgotten' /\ WaitedIsReclaimable'
        /\ \A u \in Tids : state'[u] = "Zombie" =>
             phase'[u] = "last" \/ (Present(pidOf[u])' /\ procs'[pidOf'[u]].zombie)
    BY <1>1, <1>2, <1>3, ReapKeeps
  <1>5. DeadProcess'
    BY <1>4, Zenon DEF DeadProcess
  <1>6. pidOf'[current] = pidOf[current] /\ procs'[Me] = procs[Me] /\ state'[current] = "Ready"
    <2>1. current \notin Reaped /\ Me \notin ReapedPids
      BY <1>1, <1>2, ReapFacts DEF Alive, Me
    <2> QED
      BY <1>1, <1>2, <2>1, ReapFacts, Zenon
  <1>7. OwnSpace' /\ Quiet'
    BY <1>1, <1>2, <1>6, Zenon DEF OwnSpace, Quiet, Me
  <1> QED
    BY <1>4, <1>5, <1>7, Zenon DEF ProcInv

\* The switch: CR3 is reloaded unless the next thread is the one that ran, or the idle
\* task, or a program with pid 0 after the idle task; the only dead thread left is the one
\* that has just run.
LEMMA SwitchInv ==
  ASSUME ProcInv, NEW next \in Tids, Schedule(next), SwitchProcess(next), SchedInv', ProcTypeOK'
  PROVE  ProcInv'
  <1>1. /\ ReapProcesses /\ state' = Removed(Reaped) /\ waitq' = waitq
        /\ current' = next /\ habits' = habits
    BY Zenon DEF Schedule, SwitchProcess
  <1>2. /\ Roles' /\ KernelFirst' /\ Ancestry' /\ OneThread' /\ RunnableHasProcess' /\ OneOwner'
        /\ ParentAlive' /\ WaiterNotForgotten' /\ WaitedIsReclaimable'
        /\ \A u \in Tids : state'[u] = "Zombie" =>
             phase'[u] = "last" \/ (Present(pidOf[u])' /\ procs'[pidOf'[u]].zombie)
    <2>1. phase' = ReapedPhase /\ next # None
      BY SchedAssumption, Zenon DEF SwitchProcess
    <2> QED
      BY <1>1, <2>1, ReapKeeps, Zenon
  <1>3. DeadProcess'
    BY <1>2, Zenon DEF DeadProcess
  <1>4. /\ next # None /\ Idle \notin tree /\ tree' = (tree \cup Requeued) \ {next}
        /\ IF tree \cup Requeued = {} THEN next = Idle ELSE next \in tree \cup Requeued
    BY SchedAssumption, Zenon DEF ProcInv, Schedule, SchedInv, ReadyTree
  <1>5. state[next] = "Ready" /\ state'[next] = "Ready" /\ next \notin Reaped
    <2>1. state[next] = "Ready"
      BY <1>4, Zenon DEF ProcInv, SchedInv, ReadyTree, GraveyardExact, Requeued
    <2> QED
      BY <1>1, <2>1, ReapFacts
  <1>6. Quiet'
    <2>1. ASSUME next = Idle, NEW u \in Tids, phase'[u] \in MonitorPhase
          PROVE  state'[u] = "Zombie"
      <3>1. u \notin Reaped /\ phase[u] \in MonitorPhase
        BY <2>1, Zenon DEF SwitchProcess, ReapedPhase, MonitorPhase
      <3>2. u # Idle /\ state[u] \in {"Ready", "Zombie"}
        BY <3>1, SchedAssumption DEF ProcInv, Roles, MonitorPhase
      <3>3. tree \cup Requeued = {}
        BY <1>4, <2>1, Zenon DEF Requeued
      <3>4. state[u] # "Ready"
        BY <3>2, <3>3, Zenon DEF ProcInv, SchedInv, ReadyTree, Requeued
      <3> QED
        BY <1>1, <3>1, <3>2, <3>4, ReapFacts, Zenon
    <2> QED
      BY <1>1, <1>4, <1>5, <2>1 DEF Quiet
  <1>7. OwnSpace'
    <2> DEFINE p == pidOf[next]
    <2> SUFFICES ASSUME next # Idle
                 PROVE  /\ bounds' = pidOf'[next]
                        /\ pidOf'[next] # 0 \/ phase'[next] \in MonitorPhase =>
                             cr3' = procs'[pidOf'[next]].pt
      BY <1>1, ZenonT(30) DEF OwnSpace, Me
    <2>1. /\ pidOf'[next] = p /\ phase'[next] = phase[next] /\ procs' = ReapedProcs
          /\ p \in Pids /\ Present(p) /\ ~procs[p].zombie
      BY <1>1, <1>5, ReapFacts DEF ProcInv, ReapProcesses, RunnableHasProcess, OneOwner,
         ProcTypeOK, SwitchProcess, ReapedPhase
    <2>2. p \notin ReapedPids
      BY <1>1, <1>5, ReapFacts, Zenon DEF Alive
    <2>3. ReapedProcs[p] = procs[p] /\ procs[p] # NoProc
      BY <2>1, <2>2, Zenon DEF ReapedProcs, Present
    <2>4. bounds' = p
      BY <2>3, Zenon DEF SwitchProcess, SwitchAddressSpace
    <2>5. CASE PrevPid # p
      BY <2>1, <2>4, <2>5, Zenon DEF SwitchProcess, SwitchAddressSpace
    <2>6. CASE PrevPid = p /\ current = Idle
      <3>1. p = 0
        BY <2>6, SchedAssumption, Zenon DEF PrevPid, Me, ProcInv, Roles
      <3>2. phase[next] \notin MonitorPhase
        BY <1>5, <2>6, ZenonT(30) DEF ProcInv, Quiet
      <3> QED
        BY <2>1, <2>4, <3>1, <3>2, Zenon
    <2>7. CASE PrevPid = p /\ current # Idle
      <3>1. current # None /\ Me = p
        <4>1. \A q \in Pids : q # AnyChild
          BY ProcAssumption DEF AnyChild
        <4> QED
          BY <2>1, <2>7, <4>1, Zenon DEF PrevPid
      <3>2. current \in Tids \ {Idle} /\ state[current] # "Empty"
        BY <2>7, <3>1, Zenon DEF ProcInv, SchedInv, SchedTypeOK, Quiet
      <3>3. ASSUME state[current] = "Zombie", phase[current] = "last"
            PROVE  FALSE
        <4>1. p = 0 /\ MonitorThere /\ phase[current] \in MonitorPhase
          BY <3>1, <3>2, <3>3, Zenon DEF ProcInv, Roles, MonitorThere, MonitorPhase, Me
        <4>2. phase[next] \in MonitorPhase
          BY <1>5, <4>1 DEF ProcInv, KernelFirst, Roles
        <4> QED
          BY <1>5, <3>2, <3>3, <4>1, <4>2 DEF ProcInv, KernelFirst
      <3>4. state[current] # "Zombie"
        BY <2>1, <3>1, <3>2, <3>3, Zenon DEF ProcInv, DeadProcess, Me
      <3>5. next = current
        BY <1>5, <3>1, <3>2, <3>4, Zenon DEF ProcInv, OneThread, Alive, Me, SchedInv,
           SchedTypeOK, ThreadState
      <3>6. /\ p # 0 \/ phase[next] \in MonitorPhase => cr3 = procs[p].pt
            /\ cr3' = cr3
        BY <2>7, <3>1, <3>2, <3>4, <3>5, Zenon DEF ProcInv, OwnSpace, SwitchProcess,
           SwitchAddressSpace
      <3> QED
        BY <2>1, <2>3, <2>4, <3>6, Zenon
    <2> QED
      BY <2>5, <2>6, <2>7, Zenon
  <1> QED
    BY <1>2, <1>3, <1>6, <1>7, Zenon DEF ProcInv

----------------------------------------------------------------------------
(* The theorems. *)

\* _start leaves one process and one thread.
LEMMA ProcInitInv ==
  ASSUME ProcInit
  PROVE  ProcInv
  <1>1. SchedInv /\ ProcTypeOK
    BY ProcTypesInit, Zenon
  <1>2. /\ state = [t \in Tids |-> IF t = Idle THEN "Ready" ELSE "Empty"]
        /\ tree = {} /\ current = None
        /\ waitq = [o \in Objects |-> <<>>]
        /\ pidOf = [t \in Tids |-> 0] /\ phase = [t \in Tids |-> "kernel"]
        /\ live = {KernelPT}
        /\ procs = [p \in Pids |-> IF p = 0
                     THEN [ppid |-> 0, zombie |-> FALSE, pt |-> KernelPT] ELSE NoProc]
    BY Zenon DEF ProcInit, SchedInit
  <1>3. \A o \in Objects : Waiters(o) = {}
    <2>1. {<<>>[i] : i \in 1..Len(<<>>)} = {}
      OBVIOUS
    <2> QED
      BY <1>2, <2>1 DEF Waiters
  <1>4. \A p \in Pids : Present(p) <=> p = 0
    <2>1. [ppid |-> 0, zombie |-> FALSE, pt |-> KernelPT]
            \in [ppid : Pids, zombie : BOOLEAN, pt : PageTables]
      BY ProcAssumption, Zenon
    <2> QED
      BY <1>2, <2>1, ProcAssumption
  <1>5. Roles /\ WaiterNotForgotten
    <2>1. Waiters(Console) = {} /\ \A p \in Pids : Waiters(p) = {}
      BY <1>3, ProcAssumption, Zenon
    <2>2. \A t \in Tids : phase[t] = "kernel" /\ phase[t] \notin MonitorPhase /\ pidOf[t] = 0
      BY <1>2, Zenon DEF MonitorPhase
    <2> QED
      BY <1>2, <2>1, <2>2, SchedAssumption DEF Roles, WaiterNotForgotten
  <1>6. Ancestry /\ ParentAlive /\ WaitedIsReclaimable /\ KernelFirst
    <2>1. procs[0] = [ppid |-> 0, zombie |-> FALSE, pt |-> KernelPT]
      BY <1>2, ProcAssumption, Zenon
    <2>2. KernelFirst
      BY <1>2, <2>1, Zenon DEF KernelFirst, MonitorPhase
    <2> QED
      BY <1>4, <2>1, <2>2 DEF Ancestry, ParentAlive, WaitedIsReclaimable, ExitedIsReclaimable
  <1>7. OneThread /\ DeadProcess /\ Quiet /\ OwnSpace
    BY <1>2, SchedAssumption, Zenon DEF OneThread, Alive, DeadProcess, Quiet, OwnSpace
  <1>8. RunnableHasProcess
    BY <1>2, Zenon DEF RunnableHasProcess
  <1>9. OneOwner
    <2>1. \A u \in Tids : phase[u] \notin Holding
      BY <1>2, Zenon DEF Holding
    <2>2. procs[0].pt = KernelPT
      BY <1>2, ProcAssumption
    <2>3. live = {procs[p].pt : p \in {p \in Pids : Present(p)}}
                 \cup {inHand[u] : u \in {u \in Tids : phase[u] \in Holding}}
      BY <1>2, <1>4, <2>1, <2>2, ProcAssumption, Zenon
    <2> QED
      BY <1>1, <1>4, <2>1, <2>3 DEF OneOwner
  <1> QED
    BY <1>1, <1>5, <1>6, <1>7, <1>8, <1>9, Zenon DEF ProcInv

\* Every step keeps the inductive invariant.
LEMMA ProcNextInv ==
  ASSUME Tame, ProcInv, [ProcNext]_allVars
  PROVE  ProcInv'
  <1>1. SchedInv' /\ ProcTypeOK'
    BY ProcSchedNext, Zenon DEF ProcInv, OneOwner
  <1> USE <1>1
  <1>2. ASSUME NEW t \in Tids, SpawnMonitor(t) \/ ExecInsert(t)
        PROVE  ProcInv'
    BY <1>2, SpawnMonitorInv, ExecInsertInv, Zenon
  <1>3. ASSUME NEW pt \in PageTables, ExecLoad(pt) \/ \E t \in Tids : SysSpawn(t, pt)
        PROVE  ProcInv'
    BY <1>3, ExecLoadInv, SysSpawnInv, Zenon
  <1>4. ASSUME SysExit \/ WokenScan \/ DestroyHarvested \/ MonitorReap
        PROVE  ProcInv'
    BY <1>4, SysExitInv, WokenScanInv, DestroyHarvestedInv, MonitorReapInv, Zenon
  <1>5. ASSUME ExecMissing \/ KernelExit \/ SysReadSleep \/ ConsoleInput
        PROVE  ProcInv'
    BY <1>5, ExecMissingInv, KernelExitInv, SysReadSleepInv, ConsoleInputInv, Zenon
  <1>6. ASSUME NEW w \in Pids \cup {AnyChild}, SysWaitHarvest(w) \/ SysWaitSleep(w)
        PROVE  ProcInv'
    BY <1>6, SysWaitHarvestInv, SysWaitSleepInv, Zenon
  <1>7. ASSUME NEW next \in Tids, ProcYield(next) \/ ProcTick(next)
        PROVE  ProcInv'
    BY <1>7, SwitchInv, Zenon DEF ProcYield, ProcTick, Yield, Tick
  <1>8. ASSUME UNCHANGED allVars
        PROVE  ProcInv'
    <2>1. /\ UNCHANGED <<state, tree, current, waitq, pidOf, phase, waitFor, inHand, procs>>
          /\ UNCHANGED <<live, cr3, bounds, habits>>
      BY <1>8, Zenon DEF allVars, schedVars, procVars
    <2>2. Roles'
      BY <2>1 DEF ProcInv, Roles, Waiters
    <2>3. WaiterNotForgotten'
      BY <2>1 DEF ProcInv, WaiterNotForgotten, Waiters, Present
    <2>4. KernelFirst' /\ Ancestry' /\ OneThread' /\ DeadProcess' /\ Quiet'
      <3>1. KernelFirst'
        BY <2>1, KernelFirstKeeps, Zenon DEF ProcInv
      <3> QED
        BY <2>1, <3>1, Zenon DEF ProcInv, Ancestry, OneThread, Alive, DeadProcess, Quiet,
           Present, Me
    <2>5. OneOwner'
      BY <2>1 DEF ProcInv, OneOwner, Present
    <2>6. RunnableHasProcess' /\ ParentAlive' /\ OwnSpace' /\ WaitedIsReclaimable'
      BY <2>1, Zenon DEF ProcInv, RunnableHasProcess, ParentAlive, OwnSpace,
         WaitedIsReclaimable, ExitedIsReclaimable, Present, Me
    <2> QED
      BY <2>2, <2>3, <2>4, <2>5, <2>6, Zenon DEF ProcInv
  <1> QED
    BY <1>2, <1>3, <1>4, <1>5, <1>6, <1>7, <1>8, Zenon DEF ProcNext

\* The inductive invariant holds in every reachable state, before and after the exit of
\* the monitor thread, when no program both waits for children and leaves some behind or
\* starts them under pid 0.
THEOREM ProcessInvariant ==
  ASSUME Tame
  PROVE  ProcSpec => []ProcInv
  <1>1. ProcInit => ProcInv
    BY ProcInitInv, Zenon
  <1>2. ProcInv /\ [ProcNext]_allVars => ProcInv'
    BY ProcNextInv, Zenon
  <1> QED
    BY <1>1, <1>2, PTL DEF ProcSpec

\* schedule() never switches to a thread whose process is gone: neither SYS_WAIT nor
\* reap_zombies frees a process that still has a thread to run, nor does the reaping of
\* process 0 with the monitor thread.
THEOREM RunnableTheorem ==
  ASSUME Tame
  PROVE  ProcSpec => []RunnableHasProcess
  <1>1. ProcInv => RunnableHasProcess
    BY Zenon DEF ProcInv
  <1> QED
    BY <1>1, ProcessInvariant, PTL

\* Every allocated PML4 has exactly one owner, so spawn_user_process, SYS_WAIT and
\* reap_zombies neither leak an address space nor destroy one twice.
THEOREM OneOwnerTheorem ==
  ASSUME Tame
  PROVE  ProcSpec => []OneOwner
  <1>1. ProcInv => OneOwner
    BY Zenon DEF ProcInv
  <1> QED
    BY <1>1, ProcessInvariant, PTL

\* SYS_EXIT leaves no child behind with a parent that is dead or gone.
THEOREM ParentTheorem ==
  ASSUME Tame
  PROVE  ProcSpec => []ParentAlive
  <1>1. ProcInv => ParentAlive
    BY Zenon DEF ProcInv
  <1> QED
    BY <1>1, ProcessInvariant, PTL

\* The exit of a child never slips between the scan of SYS_WAIT and its sleep.
THEOREM WaiterTheorem ==
  ASSUME Tame
  PROVE  ProcSpec => []WaiterNotForgotten
  <1>1. ProcInv => WaiterNotForgotten
    BY Zenon DEF ProcInv
  <1> QED
    BY <1>1, ProcessInvariant, PTL

\* Among programs that wait for their children, reap_zombies can still free every
\* exited process whose parent is process 0.
THEOREM ReclaimTheorem ==
  ASSUME Tame
  PROVE  ProcSpec => []WaitedIsReclaimable
  <1>1. ProcInv => WaitedIsReclaimable
    BY Zenon DEF ProcInv
  <1> QED
    BY <1>1, ProcessInvariant, PTL

\* Code of a user process runs with its bounds in CURRENT_BOUNDS and, unless it has pid 0,
\* with its page table in CR3, although schedule() reloads CR3 only when the pid changes.
THEOREM OwnSpaceTheorem ==
  ASSUME Tame
  PROVE  ProcSpec => []UserInOwnSpace
  <1>1. ASSUME ProcInv
        PROVE  UserInOwnSpace
    <2> SUFFICES ASSUME current # None, phase[current] \in {"user", "wait", "harvest"},
                        state[current] # "Zombie"
                 PROVE  Present(Me) /\ bounds = Me /\ (Me # 0 => cr3 = procs[Me].pt)
      BY Zenon DEF UserInOwnSpace
    <2>1. current \in Tids \ {Idle} /\ state[current] \in {"Ready", "Blocked"}
      BY <1>1 DEF ProcInv, SchedInv, SchedTypeOK, ThreadState, Roles
    <2>2. Present(Me)
      BY <1>1, <2>1, Zenon DEF ProcInv, RunnableHasProcess, Me
    <2> QED
      BY <1>1, <2>1, <2>2, Zenon DEF ProcInv, OwnSpace
  <1> QED
    BY <1>1, ProcessInvariant, PTL

=============================================================================
