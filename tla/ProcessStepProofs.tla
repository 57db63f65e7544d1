-------------------------- MODULE ProcessStepProofs --------------------------
(***************************************************************************)
(* Proofs about the process table, for every number of threads, pids and   *)
(* page tables: every step is a step of the scheduler, and the monitor     *)
(* thread and SYS_WAIT keep the inductive invariant of Processes.          *)
(***************************************************************************)
EXTENDS Processes, SchedulerProofs

----------------------------------------------------------------------------
(* The steps are steps of the scheduler. *)

\* The pid of a thread that is on the CPU is a pid.
LEMMA MeIsPid ==
  ASSUME ProcTypeOK, current # None
  PROVE  current \in Tids /\ Me \in Pids
  BY Zenon DEF ProcTypeOK, SchedTypeOK, Me

\* Every operation on processes is one on threads, or leaves them alone.
LEMMA ProcStepIsSchedStep ==
  ASSUME ProcTypeOK, [ProcNext]_allVars
  PROVE  [SchedNext]_schedVars
  <1>1. ASSUME NEW t \in Tids, SpawnMonitor(t)
        PROVE  SchedNext
    BY <1>1, Zenon DEF SpawnMonitor, SchedNext
  <1>2. ASSUME NEW t \in Tids, ExecInsert(t)
        PROVE  SchedNext
    BY <1>2, Zenon DEF ExecInsert, NewProcess, SchedNext
  <1>3. ASSUME NEW t \in Tids, NEW pt \in PageTables, SysSpawn(t, pt)
        PROVE  SchedNext
    BY <1>3, Zenon DEF SysSpawn, NewProcess, SchedNext
  <1>4. ASSUME SysExit
        PROVE  SchedNext
    <2>1. ParentQueue \in SUBSET Objects
      BY ProcAssumption, Zenon DEF ParentQueue
    <2> QED
      BY <1>4, <2>1, Zenon DEF SysExit, SchedNext
  <1>5. ASSUME KernelExit
        PROVE  SchedNext
    <2>1. {} \in SUBSET Objects
      OBVIOUS
    <2> QED
      BY <1>5, <2>1, Zenon DEF KernelExit, SchedNext
  <1>6. ASSUME SysReadSleep \/ ConsoleInput
        PROVE  SchedNext
    <2>1. Console \in Objects
      BY ProcAssumption, Zenon
    <2> QED
      BY <1>6, <2>1, Zenon DEF SysReadSleep, ConsoleInput, SchedNext
  <1>7. ASSUME NEW w, SysWaitSleep(w)
        PROVE  SchedNext
    <2>1. Me \in Objects
      BY <1>7, MeIsPid, ProcAssumption, Zenon DEF SysWaitSleep
    <2> QED
      BY <1>7, <2>1, Zenon DEF SysWaitSleep, SchedNext
  <1>8. ASSUME MonitorReap
        PROVE  SchedNext
    BY <1>8, Zenon DEF MonitorReap, SchedNext
  <1>9. ASSUME NEW next \in Tids, ProcYield(next)
        PROVE  SchedNext
    BY <1>9, Zenon DEF ProcYield, SchedNext
  <1>10. ASSUME NEW next \in Tids, ProcTick(next)
         PROVE  SchedNext
    BY <1>10, Zenon DEF ProcTick, SchedNext
  <1>11. ASSUME ExecMissing \/ \E pt \in PageTables : ExecLoad(pt)
         PROVE  UNCHANGED schedVars
    BY <1>11, Zenon DEF ExecLoad, ExecMissing
  <1>12. ASSUME NEW w, SysWaitHarvest(w)
         PROVE  UNCHANGED schedVars
    BY <1>12, Zenon DEF SysWaitHarvest
  <1>13. ASSUME WokenScan \/ DestroyHarvested
         PROVE  UNCHANGED schedVars
    BY <1>13, Zenon DEF WokenScan, DestroyHarvested
  <1>14. CASE UNCHANGED allVars
    BY <1>14, Zenon DEF allVars
  <1> QED
    BY <1>1, <1>2, <1>3, <1>4, <1>5, <1>6, <1>7, <1>8, <1>9, <1>10, <1>11, <1>12, <1>13, <1>14,
       Zenon DEF ProcNext

\* What a reap leaves of the table has the table's type.
LEMMA ReapTypes ==
  ASSUME ProcTypeOK, ReapProcesses
  PROVE  /\ pidOf' \in [Tids -> Pids]
         /\ ReapedPhase \in [Tids -> Phase]
         /\ ReapedProcs \in [Pids -> Process \cup {NoProc}]
         /\ procs' \in [Pids -> Process \cup {NoProc}]
         /\ live' \subseteq PageTables
         /\ UNCHANGED <<waitFor, inHand>>
  BY ProcAssumption DEF ReapProcesses, ReapedProcs, ReapedLive, ReapedPhase, Phase, ProcTypeOK

\* A switch keeps the types of the process table.
LEMMA SwitchTypes ==
  ASSUME ProcTypeOK, NEW next \in Tids, SwitchProcess(next), SchedTypeOK'
  PROVE  ProcTypeOK'
  <1>1. /\ pidOf' \in [Tids -> Pids]
        /\ phase' \in [Tids -> Phase]
        /\ ReapedProcs \in [Pids -> Process \cup {NoProc}]
        /\ procs' \in [Pids -> Process \cup {NoProc}]
        /\ live' \subseteq PageTables
        /\ UNCHANGED <<waitFor, inHand>>
    BY ReapTypes, Zenon DEF SwitchProcess
  <1>2. pidOf[next] \in Pids
    BY Zenon DEF ProcTypeOK
  <1>3. ReapedProcs[pidOf[next]] # NoProc => ReapedProcs[pidOf[next]].pt \in PageTables
    BY <1>1, <1>2, Zenon DEF Process
  <1>4. cr3' \in PageTables /\ bounds' \in Pids
    BY <1>2, <1>3, Zenon DEF SwitchProcess, SwitchAddressSpace, ProcTypeOK
  <1> QED
    BY <1>1, <1>4, Zenon DEF ProcTypeOK, SwitchProcess

\* The variables of the process table keep their types.
LEMMA ProcTypesNext ==
  ASSUME ProcTypeOK, [ProcNext]_allVars, SchedTypeOK'
  PROVE  ProcTypeOK'
  <1> USE ProcAssumption
  <1>1. ASSUME NEW t \in Tids, SpawnMonitor(t)
        PROVE  ProcTypeOK'
    BY <1>1, Zenon DEF SpawnMonitor, ProcTypeOK, Phase, MonitorPhase
  <1>2. ASSUME NEW t \in Tids, NEW parent \in Pids, NEW pt \in PageTables,
               NewProcess(t, parent, pt)
        PROVE  /\ pidOf' \in [Tids -> Pids]
               /\ procs' \in [Pids -> Process \cup {NoProc}]
               /\ UNCHANGED <<waitFor, cr3, bounds, habits>>
    BY <1>2 DEF NewProcess, ProcTypeOK, Process
  <1>3. ASSUME NEW t \in Tids, ExecInsert(t)
        PROVE  ProcTypeOK'
    <2>1. inHand[current] \in PageTables
      BY <1>3, MeIsPid, Zenon DEF ExecInsert, ProcTypeOK
    <2>2. phase' \in [Tids -> Phase]
      BY <1>3 DEF ExecInsert, ProcTypeOK, Phase, MonitorPhase
    <2> QED
      BY <1>2, <1>3, <2>1, <2>2, Zenon DEF ExecInsert, ProcTypeOK
  <1>4. ASSUME NEW t \in Tids, NEW pt \in PageTables, SysSpawn(t, pt)
        PROVE  ProcTypeOK'
    <2>1. Me \in Pids
      BY <1>4, MeIsPid, Zenon DEF SysSpawn
    <2> QED
      BY <1>2, <1>4, <2>1, Zenon DEF SysSpawn, ProcTypeOK, Phase
  <1>5. ASSUME SysExit
        PROVE  ProcTypeOK'
    <2>1. \A p \in Pids : Present(p) =>
            /\ [procs[p] EXCEPT !.zombie = TRUE] \in Process
            /\ Reparented(procs[p]) \in Process
      <3> SUFFICES ASSUME NEW p \in Pids, procs[p] \in Process
                   PROVE  /\ [procs[p] EXCEPT !.zombie = TRUE] \in Process
                          /\ [procs[p] EXCEPT !.ppid = 0] \in Process
        BY Zenon DEF ProcTypeOK, Present, Reparented
      <3> QED
        BY Zenon DEF Process
    <2>2. procs' \in [Pids -> Process \cup {NoProc}]
      BY <1>5, <2>1, Zenon DEF SysExit, Children, ProcTypeOK
    <2> QED
      BY <1>5, <2>2, Zenon DEF SysExit, ProcTypeOK
  <1>6. ASSUME KernelExit \/ SysReadSleep \/ ConsoleInput \/ UNCHANGED allVars
        PROVE  ProcTypeOK'
    BY <1>6 DEF KernelExit, SysReadSleep, ConsoleInput, procVars, allVars, ProcTypeOK
  <1>7. ASSUME ExecMissing \/ \E pt \in PageTables : ExecLoad(pt)
        PROVE  ProcTypeOK'
    BY <1>7 DEF ExecLoad, ExecMissing, ProcTypeOK, Phase, MonitorPhase
  <1>8. ASSUME NEW w, SysWaitHarvest(w)
        PROVE  ProcTypeOK'
    BY <1>8 DEF SysWaitHarvest, ProcTypeOK, Zombies, Children
  <1>9. ASSUME NEW w \in Pids \cup {AnyChild}, SysWaitSleep(w)
        PROVE  ProcTypeOK'
    BY <1>9, Zenon DEF SysWaitSleep, ProcTypeOK, Phase
  <1>10. ASSUME WokenScan
         PROVE  ProcTypeOK'
    <2>1. \A w : \A c \in Zombies(w) : c \in Pids /\ procs[c].pt \in PageTables
      BY Zenon DEF Zombies, Children, Present, ProcTypeOK, Process
    <2> DEFINE w == waitFor[current]
               first == {c \in Zombies(w) : \A d \in Zombies(w) : c <= d}
    <2>2. first # {} => procs[CHOOSE c \in first : TRUE].pt \in PageTables
      BY <2>1, Zenon
    <2>3. inHand' \in [Tids -> PageTables]
      BY <1>10, <2>2, Zenon DEF WokenScan, ProcTypeOK
    <2> QED
      BY <1>10, <2>3, Zenon DEF WokenScan, ProcTypeOK, Phase
  <1>11. ASSUME DestroyHarvested
         PROVE  ProcTypeOK'
    BY <1>11, Zenon DEF DestroyHarvested, ProcTypeOK, Phase
  <1>12. ASSUME MonitorReap
         PROVE  ProcTypeOK'
    <2>1. phase' \in [Tids -> Phase]
      BY <1>12, ReapTypes DEF MonitorReap, Phase, MonitorPhase
    <2> QED
      BY <1>12, <2>1, ReapTypes, Zenon DEF MonitorReap, ProcTypeOK
  <1>13. ASSUME NEW next \in Tids, ProcYield(next) \/ ProcTick(next)
         PROVE  ProcTypeOK'
    BY <1>13, SwitchTypes, Zenon DEF ProcYield, ProcTick
  <1> QED
    BY <1>1, <1>3, <1>4, <1>5, <1>6, <1>7, <1>8, <1>9, <1>10, <1>11, <1>12, <1>13, Zenon
       DEF ProcNext


\* The whole system of threads and processes starts like the scheduler's, and keeps
\* the scheduler's invariant and its own types.
LEMMA ProcTypesInit ==
  ASSUME ProcInit
  PROVE  SchedInit /\ SchedInv /\ ProcTypeOK
  <1>1. SchedInit /\ SchedInv
    BY InitInv, Zenon DEF ProcInit
  <1> QED
    BY <1>1, ProcAssumption, Zenon DEF ProcInit, ProcTypeOK, SchedInv, Process, Phase

\* A step of the system is a step of the scheduler and keeps the types.
LEMMA ProcSchedNext ==
  ASSUME SchedInv, ProcTypeOK, [ProcNext]_allVars
  PROVE  [SchedNext]_schedVars /\ SchedInv' /\ ProcTypeOK'
  <1>1. [SchedNext]_schedVars
    BY ProcStepIsSchedStep, Zenon
  <1>2. SchedInv'
    BY <1>1, NextInv, Zenon
  <1>3. SchedTypeOK'
    BY <1>2, Zenon DEF SchedInv
  <1> QED
    BY <1>1, <1>2, <1>3, ProcTypesNext, Zenon

----------------------------------------------------------------------------
(* The inductive invariant: what holds of the threads in a state. *)

\* A thread queued at a process is Blocked; it is asleep in SYS_WAIT, so it belongs to
\* the process whose queue it is in.
LEMMA WaiterFacts ==
  ASSUME ProcInv, NEW p \in Pids, NEW t \in Waiters(p)
  PROVE  /\ t \in Tids \ {Idle} /\ state[t] = "Blocked"
         /\ phase[t] = "wait" /\ pidOf[t] = p
  <1>1. t \in Tids /\ state[t] = "Blocked"
    BY ProcAssumption DEF ProcInv, SchedInv, SchedTypeOK, BlockedOnce, Waiters
  <1>2. t # Idle
    BY <1>1, Zenon DEF ProcInv, SchedInv, GraveyardExact
  <1>3. phase[t] = "wait" /\ pidOf[t] = p
    BY Zenon DEF ProcInv, Roles, WaiterNotForgotten
  <1> QED
    BY <1>1, <1>2, <1>3, Zenon

\* A thread queued at the console is Blocked, in a read of a user program.
LEMMA ReaderFacts ==
  ASSUME ProcInv, NEW t \in Waiters(Console)
  PROVE  t \in Tids \ {Idle} /\ state[t] = "Blocked" /\ phase[t] = "user"
  <1> Console \in Objects
    BY ProcAssumption, Zenon
  <1>1. t \in Tids /\ state[t] = "Blocked"
    BY DEF ProcInv, SchedInv, SchedTypeOK, BlockedOnce, Waiters
  <1>2. t # Idle
    BY <1>1, Zenon DEF ProcInv, SchedInv, GraveyardExact
  <1> QED
    BY <1>1, <1>2, Zenon DEF ProcInv, Roles

\* The thread on the CPU: it is Ready, it is the only live thread of its process, and
\* it is in no queue, nor is anybody in the queue of its process.
LEMMA RunnerFacts ==
  ASSUME ProcInv, Running(current)
  PROVE  /\ current \in Tids \ {Idle} /\ state[current] = "Ready" /\ Me \in Pids
         /\ Present(Me) /\ ~procs[Me].zombie /\ procs[Me] \in Process
         /\ \A t \in Tids \ {Idle} : Alive(t) /\ pidOf[t] = Me => t = current
         /\ Waiters(Me) = {}
         /\ bounds = Me
         /\ Me # 0 \/ phase[current] \in MonitorPhase => cr3 = procs[Me].pt
  <1>1. current \in Tids \ {Idle} /\ state[current] = "Ready"
    BY RunningReady, Zenon DEF ProcInv
  <1>2. Me \in Pids
    BY <1>1, Zenon DEF ProcInv, OneOwner, ProcTypeOK, Me
  <1>3. Present(Me) /\ ~procs[Me].zombie
    BY <1>1, Zenon DEF ProcInv, RunnableHasProcess, Me
  <1>4. procs[Me] \in Process
    BY <1>2, <1>3, Zenon DEF ProcInv, OneOwner, ProcTypeOK, Present
  <1>5. \A t \in Tids \ {Idle} : Alive(t) /\ pidOf[t] = Me => t = current
    BY <1>1, Zenon DEF ProcInv, OneThread, Alive, Me
  <1>6. Waiters(Me) = {}
    BY <1>1, <1>2, <1>5, WaiterFacts DEF Alive
  <1>7. bounds = Me /\ (Me # 0 \/ phase[current] \in MonitorPhase => cr3 = procs[Me].pt)
    BY <1>1, SchedAssumption, Zenon DEF ProcInv, OwnSpace
  <1> QED
    BY <1>1, <1>2, <1>3, <1>4, <1>5, <1>6, <1>7, Zenon

\* As long as the monitor thread is there process 0 exists, and KernelPT is its
\* address space.
LEMMA KernelProcess ==
  ASSUME ProcInv, MonitorThere
  PROVE  /\ Present(0) /\ ~procs[0].zombie /\ procs[0].ppid = 0
         /\ procs[0].pt = KernelPT /\ KernelPT \in live
  <1>1. procs[0] = [ppid |-> 0, zombie |-> FALSE, pt |-> KernelPT]
    BY Zenon DEF ProcInv, KernelFirst
  <1>2. procs[0] \in [ppid : Pids, zombie : BOOLEAN, pt : PageTables]
    BY <1>1, ProcAssumption
  <1>3. Present(0)
    BY <1>2, ProcAssumption, Zenon DEF Present
  <1>4. \A p \in Pids : Present(p) => procs[p].pt \in live
    BY Zenon DEF ProcInv, OneOwner
  <1> QED
    BY <1>1, <1>3, <1>4, ProcAssumption

\* A step that makes nobody the monitor thread and leaves process 0 alone as long as
\* the monitor thread is there.
LEMMA KernelFirstKeeps ==
  ASSUME KernelFirst, UNCHANGED <<current, pidOf>>,
         \A u \in Tids : /\ phase'[u] \in MonitorPhase <=> phase[u] \in MonitorPhase
                         /\ phase'[u] = "kernel" <=> phase[u] = "kernel",
         MonitorThere => procs'[0] = procs[0]
  PROVE  KernelFirst'
  <1>1. MonitorThere' <=> MonitorThere
    BY Zenon DEF MonitorThere
  <1> QED
    BY <1>1, Zenon DEF KernelFirst

\* OneOwner with quantifiers, in this state ...
LEMMA OwnerForm ==
  ASSUME OneOwner
  PROVE  /\ \A p, q \in Pids : Present(p) /\ Present(q) /\ procs[p].pt = procs[q].pt => p = q
         /\ \A t, u \in Tids :
              phase[t] \in Holding /\ phase[u] \in Holding /\ inHand[t] = inHand[u] => t = u
         /\ \A p \in Pids, t \in Tids : Present(p) /\ phase[t] \in Holding => procs[p].pt # inHand[t]
         /\ \A x : x \in live <=> \/ \E p \in Pids : Present(p) /\ x = procs[p].pt
                                  \/ \E t \in Tids : phase[t] \in Holding /\ x = inHand[t]
  <1> HIDE DEF Present
  <1>1. /\ \A p, q \in Pids : Present(p) /\ Present(q) /\ procs[p].pt = procs[q].pt => p = q
        /\ \A t, u \in Tids :
             phase[t] \in Holding /\ phase[u] \in Holding /\ inHand[t] = inHand[u] => t = u
        /\ \A p \in Pids, t \in Tids : Present(p) /\ phase[t] \in Holding => procs[p].pt # inHand[t]
    BY Zenon DEF OneOwner
  <1>2. \A x : x \in live <=> \/ \E p \in Pids : Present(p) /\ x = procs[p].pt
                              \/ \E t \in Tids : phase[t] \in Holding /\ x = inHand[t]
    BY Zenon DEF OneOwner
  <1> QED
    BY <1>1, <1>2, Zenon

\* ... and in the next.
LEMMA OwnerPrimed ==
  ASSUME ProcTypeOK',
         \A p, q \in Pids : Present(p)' /\ Present(q)' /\ procs'[p].pt = procs'[q].pt => p = q,
         \A t, u \in Tids :
           phase'[t] \in Holding /\ phase'[u] \in Holding /\ inHand'[t] = inHand'[u] => t = u,
         \A p \in Pids, t \in Tids :
           Present(p)' /\ phase'[t] \in Holding => procs'[p].pt # inHand'[t],
         \A x : x \in live' <=> \/ \E p \in Pids : Present(p)' /\ x = procs'[p].pt
                               \/ \E t \in Tids : phase'[t] \in Holding /\ x = inHand'[t]
  PROVE  OneOwner'
  <1>1. live' = {procs[p].pt : p \in {p \in Pids : Present(p)}}'
                \cup {inHand[t] : t \in {t \in Tids : phase[t] \in Holding}}'
    <2> HIDE DEF Present
    <2>1. \A x : x \in {procs[p].pt : p \in {p \in Pids : Present(p)}}' <=>
                 \E p \in Pids : Present(p)' /\ x = procs'[p].pt
      BY Zenon
    <2>2. \A x : x \in {inHand[t] : t \in {t \in Tids : phase[t] \in Holding}}' <=>
                 \E t \in Tids : phase'[t] \in Holding /\ x = inHand'[t]
      BY Zenon
    <2> QED
      BY <2>1, <2>2, Zenon
  <1> QED
    BY <1>1, Zenon DEF OneOwner

\* A step in which no page table changes hands.
LEMMA OwnerKeeps ==
  ASSUME OneOwner, ProcTypeOK', live' = live,
         \A p \in Pids : /\ Present(p)' <=> Present(p)
                         /\ Present(p) => procs'[p].pt = procs[p].pt,
         \A t \in Tids : /\ phase'[t] \in Holding <=> phase[t] \in Holding
                         /\ phase[t] \in Holding => inHand'[t] = inHand[t]
  PROVE  OneOwner'
  <1>1. /\ \A p, q \in Pids : Present(p) /\ Present(q) /\ procs[p].pt = procs[q].pt => p = q
        /\ \A t, u \in Tids :
             phase[t] \in Holding /\ phase[u] \in Holding /\ inHand[t] = inHand[u] => t = u
        /\ \A p \in Pids, t \in Tids : Present(p) /\ phase[t] \in Holding => procs[p].pt # inHand[t]
    BY OwnerForm, Zenon
  <1>2. \A x : x \in live <=> \/ \E p \in Pids : Present(p) /\ x = procs[p].pt
                              \/ \E t \in Tids : phase[t] \in Holding /\ x = inHand[t]
    BY OwnerForm, Zenon
  <1>3. /\ \A p, q \in Pids : Present(p)' /\ Present(q)' /\ procs'[p].pt = procs'[q].pt => p = q
        /\ \A t, u \in Tids :
             phase'[t] \in Holding /\ phase'[u] \in Holding /\ inHand'[t] = inHand'[u] => t = u
        /\ \A p \in Pids, t \in Tids :
             Present(p)' /\ phase'[t] \in Holding => procs'[p].pt # inHand'[t]
    BY <1>1
  <1>4. \A x : x \in live' <=> \/ \E p \in Pids : Present(p)' /\ x = procs'[p].pt
                               \/ \E t \in Tids : phase'[t] \in Holding /\ x = inHand'[t]
    BY <1>2, Zenon
  <1> QED
    BY <1>3, <1>4, OwnerPrimed, Zenon

\* A step that only frees page tables, those of the owners that go.
LEMMA OwnerDrops ==
  ASSUME OneOwner, ProcTypeOK',
         \A p \in Pids : Present(p)' => Present(p) /\ procs'[p].pt = procs[p].pt,
         \A t \in Tids : phase'[t] \in Holding => phase[t] \in Holding /\ inHand'[t] = inHand[t],
         \A x : x \in live' <=>
           /\ x \in live
           /\ \A p \in Pids : Present(p) /\ x = procs[p].pt => Present(p)'
           /\ \A t \in Tids : phase[t] \in Holding /\ x = inHand[t] => phase'[t] \in Holding
  PROVE  OneOwner'
  <1> HIDE DEF Present
  <1>1. /\ \A p, q \in Pids : Present(p) /\ Present(q) /\ procs[p].pt = procs[q].pt => p = q
        /\ \A t, u \in Tids :
             phase[t] \in Holding /\ phase[u] \in Holding /\ inHand[t] = inHand[u] => t = u
        /\ \A p \in Pids, t \in Tids : Present(p) /\ phase[t] \in Holding => procs[p].pt # inHand[t]
    BY OwnerForm, Zenon
  <1>2. \A x : x \in live <=> \/ \E p \in Pids : Present(p) /\ x = procs[p].pt
                              \/ \E t \in Tids : phase[t] \in Holding /\ x = inHand[t]
    BY OwnerForm, Zenon
  <1>3. /\ \A p, q \in Pids : Present(p)' /\ Present(q)' /\ procs'[p].pt = procs'[q].pt => p = q
        /\ \A t, u \in Tids :
             phase'[t] \in Holding /\ phase'[u] \in Holding /\ inHand'[t] = inHand'[u] => t = u
        /\ \A p \in Pids, t \in Tids :
             Present(p)' /\ phase'[t] \in Holding => procs'[p].pt # inHand'[t]
    BY <1>1
  <1>4. ASSUME NEW x \in live'
        PROVE  \/ \E p \in Pids : Present(p)' /\ x = procs'[p].pt
               \/ \E t \in Tids : phase'[t] \in Holding /\ x = inHand'[t]
    BY <1>2, <1>4
  <1>5. ASSUME NEW p \in Pids, Present(p)'
        PROVE  procs'[p].pt \in live'
    <2>1. \A q \in Pids : Present(q) /\ procs[p].pt = procs[q].pt => q = p
      BY <1>1, <1>5
    <2>2. \A t \in Tids : phase[t] \in Holding => procs[p].pt # inHand[t]
      BY <1>1, <1>5
    <2> QED
      BY <1>2, <1>5, <2>1, <2>2
  <1>6. ASSUME NEW t \in Tids, phase'[t] \in Holding
        PROVE  inHand'[t] \in live'
    <2>1. \A u \in Tids : phase[u] \in Holding /\ inHand[t] = inHand[u] => u = t
      BY <1>1, <1>6
    <2>2. \A p \in Pids : Present(p) => procs[p].pt # inHand[t]
      BY <1>1, <1>6
    <2> QED
      BY <1>2, <1>6, <2>1, <2>2
  <1>7. \A x : x \in live' <=> \/ \E p \in Pids : Present(p)' /\ x = procs'[p].pt
                               \/ \E t \in Tids : phase'[t] \in Holding /\ x = inHand'[t]
    <2> SUFFICES ASSUME NEW x
                 PROVE  x \in live' <=> \/ \E p \in Pids : Present(p)' /\ x = procs'[p].pt
                                        \/ \E t \in Tids : phase'[t] \in Holding /\ x = inHand'[t]
      OBVIOUS
    <2>1. (\E p \in Pids : Present(p)' /\ x = procs'[p].pt) => x \in live'
      BY <1>5
    <2>2. (\E t \in Tids : phase'[t] \in Holding /\ x = inHand'[t]) => x \in live'
      BY <1>6
    <2> QED
      BY <1>4, <2>1, <2>2
  <1> QED
    BY <1>3, <1>7, OwnerPrimed, Zenon

\* A dead process's page table passes into the hand of the running thread.
LEMMA OwnerHands ==
  ASSUME OneOwner, ProcTypeOK', live' = live, NEW c \in Pids, NEW me \in Tids,
         Present(c), phase[me] \notin Holding, phase'[me] \in Holding,
         inHand'[me] = procs[c].pt,
         \A p \in Pids : /\ Present(p)' <=> Present(p) /\ p # c
                         /\ p # c => procs'[p] = procs[p],
         \A t \in Tids : t # me => /\ phase'[t] \in Holding <=> phase[t] \in Holding
                                  /\ inHand'[t] = inHand[t]
  PROVE  OneOwner'
  <1> HIDE DEF Present
  <1>1. /\ \A p, q \in Pids : Present(p) /\ Present(q) /\ procs[p].pt = procs[q].pt => p = q
        /\ \A t, u \in Tids :
             phase[t] \in Holding /\ phase[u] \in Holding /\ inHand[t] = inHand[u] => t = u
        /\ \A p \in Pids, t \in Tids : Present(p) /\ phase[t] \in Holding => procs[p].pt # inHand[t]
    BY OwnerForm, Zenon
  <1>2. \A x : x \in live <=> \/ \E p \in Pids : Present(p) /\ x = procs[p].pt
                              \/ \E t \in Tids : phase[t] \in Holding /\ x = inHand[t]
    BY OwnerForm, Zenon
  <1>3. \A p, q \in Pids : Present(p)' /\ Present(q)' /\ procs'[p].pt = procs'[q].pt => p = q
    BY <1>1
  <1>4. \A t, u \in Tids :
          phase'[t] \in Holding /\ phase'[u] \in Holding /\ inHand'[t] = inHand'[u] => t = u
    BY <1>1
  <1>5. \A p \in Pids, t \in Tids :
          Present(p)' /\ phase'[t] \in Holding => procs'[p].pt # inHand'[t]
    BY <1>1
  <1>6. \A x : x \in live' <=> \/ \E p \in Pids : Present(p)' /\ x = procs'[p].pt
                               \/ \E t \in Tids : phase'[t] \in Holding /\ x = inHand'[t]
    <2>1. ASSUME NEW x \in live'
          PROVE  \/ \E p \in Pids : Present(p)' /\ x = procs'[p].pt
                 \/ \E t \in Tids : phase'[t] \in Holding /\ x = inHand'[t]
      BY <1>2, <2>1
    <2>2. ASSUME NEW p \in Pids, Present(p)'
          PROVE  procs'[p].pt \in live'
      BY <1>2, <2>2
    <2>3. ASSUME NEW t \in Tids, phase'[t] \in Holding
          PROVE  inHand'[t] \in live'
      BY <1>2, <2>3
    <2> QED
      BY <2>1, <2>2, <2>3, Zenon
  <1> QED
    BY <1>3, <1>4, <1>5, <1>6, OwnerPrimed, Zenon

\* Only the parent's thread can have waited for the process of a dead thread.
LEMMA DeadUnlessHarvested ==
  ASSUME ProcInv, NEW t \in Tids, state[t] = "Zombie",
         current = None \/ phase[current] \in {"kernel"} \cup MonitorPhase
  PROVE  \/ phase[t] = "last"
         \/ pidOf[t] \in Pids /\ Present(pidOf[t]) /\ procs[pidOf[t]].zombie
  BY Zenon DEF ProcInv, DeadProcess, OneOwner, ProcTypeOK, MonitorPhase

----------------------------------------------------------------------------
(* The inductive invariant: one lemma for each action. *)

\* The monitor thread is the first thread besides the idle task.
LEMMA SpawnMonitorInv ==
  ASSUME ProcInv, NEW t \in Tids, SpawnMonitor(t), SchedInv', ProcTypeOK'
  PROVE  ProcInv'
  <1>1. /\ current = None /\ current' = None /\ tree = {} /\ state[t] = "Empty"
        /\ state' = [state EXCEPT ![t] = "Ready"]
        /\ waitq' = waitq
        /\ UNCHANGED <<waitFor, inHand, procs, live, cr3, bounds, habits>>
    BY Zenon DEF SpawnMonitor, BootSpawn, AddTask
  <1>2. t # Idle /\ \A u \in Tids \ {Idle} : state[u] = "Empty"
    <2>1. \A u \in Tids \ {Idle} : state[u] # "Ready"
      BY <1>1, SchedAssumption, Zenon DEF ProcInv, SchedInv, ReadyTree
    <2> QED
      BY <1>1, <2>1, Zenon DEF ProcInv, SchedInv, GraveyardExact, Quiet
  <1>3. \A u \in Tids : phase[u] = "kernel" /\ pidOf[u] = 0
    BY <1>2, Zenon DEF ProcInv, Roles
  <1>4. /\ pidOf' = pidOf
        /\ \A u \in Tids : phase'[u] = IF u = t THEN "exec" ELSE "kernel"
    <2>1. pidOf'[t] = 0 /\ \A u \in Tids : u # t => pidOf'[u] = pidOf[u]
      BY DEF ProcInv, OneOwner, ProcTypeOK, SpawnMonitor
    <2> QED
      BY <1>3, <2>1 DEF ProcInv, OneOwner, ProcTypeOK, SpawnMonitor
  <1>5. \A u \in Tids : state'[u] = IF u = t THEN "Ready" ELSE state[u]
    BY <1>1, Zenon DEF SchedInv, SchedTypeOK
  <1>6. /\ \A p \in Pids : Waiters(p) = {} /\ Waiters(p)' = {}
        /\ Waiters(Console) = {} /\ Waiters(Console)' = {}
    <2>1. \A p \in Pids : \A u \in Waiters(p) : FALSE
      BY <1>3, WaiterFacts
    <2>2. \A u \in Waiters(Console) : FALSE
      BY <1>3, ReaderFacts
    <2> QED
      BY <1>1, <2>1, <2>2, Zenon DEF Waiters
  <1>7. Roles'
    BY <1>2, <1>3, <1>4, <1>5, <1>6 DEF ProcInv, Roles, MonitorPhase
  <1>8. KernelFirst'
    BY <1>1, <1>3, <1>4 DEF ProcInv, KernelFirst, MonitorThere, MonitorPhase
  <1>9. Ancestry' /\ ParentAlive' /\ WaiterNotForgotten'
    BY <1>1, <1>6 DEF ProcInv, Ancestry, ParentAlive, WaiterNotForgotten, Present
  <1>10. OneOwner'
    <2>1. \A u \in Tids : phase[u] \notin Holding /\ phase'[u] \notin Holding
      BY <1>3, <1>4, Zenon DEF Holding
    <2> QED
      BY <1>1, <2>1, OwnerKeeps, Zenon DEF ProcInv, Present
  <1>11. OneThread'
    BY <1>2, <1>4, <1>5, Zenon DEF OneThread, Alive
  <1>12. DeadProcess' /\ OwnSpace' /\ Quiet'
    BY <1>1, <1>2, <1>5, SchedAssumption DEF ProcInv, DeadProcess, OwnSpace, Quiet
  <1>13. RunnableHasProcess'
    <2>1. Present(0) /\ ~procs[0].zombie /\ procs[0].pt \in live
      BY <1>1, KernelProcess, Zenon DEF MonitorThere
    <2> QED
      BY <1>1, <1>2, <1>3, <1>4, <1>5, <2>1, Zenon DEF RunnableHasProcess, Present
  <1>14. WaitedIsReclaimable'
    BY <1>1, <1>4, <1>5 DEF ProcInv, WaitedIsReclaimable, ExitedIsReclaimable, Present
  <1> QED
    BY <1>7, <1>8, <1>9, <1>10, <1>11, <1>12, <1>13, <1>14, Zenon DEF ProcInv

\* What the monitor thread keeps when it goes on to its next phase and changes neither
\* threads nor processes.
LEMMA MonitorKeeps ==
  ASSUME ProcInv, Running(current), NEW to \in MonitorPhase, phase[current] \in MonitorPhase,
         \A u \in Tids : phase'[u] = IF u = current THEN to ELSE phase[u],
         UNCHANGED <<state, tree, current, waitq, pidOf, waitFor, procs, cr3, bounds, habits>>
  PROVE  /\ Roles' /\ KernelFirst' /\ Ancestry' /\ OneThread' /\ DeadProcess' /\ ParentAlive'
         /\ WaiterNotForgotten' /\ OwnSpace' /\ WaitedIsReclaimable' /\ Quiet'
  <1>1. current \in Tids \ {Idle} /\ state[current] = "Ready"
    BY RunnerFacts, Zenon
  <1>2. /\ \A p \in Pids : Waiters(p)' = Waiters(p)
        /\ Waiters(Console)' = Waiters(Console)
    BY Zenon DEF Waiters
  <1>3. to # "kernel" /\ to \notin {"wait", "harvest"}
    BY Zenon DEF MonitorPhase
  <1>4. Roles'
    <2>1. \A p \in Pids : \A u \in Waiters(p)' : phase'[u] = "wait"
      <3>1. \A p \in Pids : \A u \in Waiters(p) : u \in Tids /\ u # current /\ phase[u] = "wait"
        BY <1>1, WaiterFacts, Zenon
      <3> QED
        BY <1>2, <3>1, Zenon
    <2>2. \A u \in Waiters(Console)' : phase'[u] = "user"
      <3>1. \A u \in Waiters(Console) : u \in Tids /\ u # current /\ phase[u] = "user"
        BY <1>1, ReaderFacts, Zenon
      <3> QED
        BY <1>2, <3>1, Zenon
    <2>3. \A u \in Tids :
            /\ phase'[u] \in {"kernel"} \cup MonitorPhase => pidOf'[u] = 0
            /\ phase'[u] = "kernel" <=> u = Idle \/ state'[u] = "Empty"
            /\ phase'[u] \in MonitorPhase \ {"last"} => state'[u] = "Ready"
            /\ phase'[u] = "last" => state'[u] \in {"Ready", "Zombie"}
            /\ phase'[u] \in {"wait", "harvest"} => state'[u] # "Zombie" /\ "waits" \in habits'
      BY <1>1, <1>3 DEF ProcInv, Roles
    <2> QED
      BY <2>1, <2>2, <2>3, Zenon DEF Roles
  <1>5. KernelFirst'
    <2>1. \A u \in Tids : /\ phase'[u] \in MonitorPhase <=> phase[u] \in MonitorPhase
                          /\ phase'[u] = "kernel" <=> phase[u] = "kernel"
      BY <1>3, Zenon DEF MonitorPhase
    <2> QED
      BY <2>1, KernelFirstKeeps, Zenon DEF ProcInv
  <1>6. Ancestry' /\ ParentAlive' /\ OneThread'
    BY Zenon DEF ProcInv, Ancestry, ParentAlive, OneThread, Alive, Present
  <1>7. OwnSpace'
    BY RunnerFacts, Zenon DEF OwnSpace, Me
  <1>8. Quiet'
    BY <1>1, Zenon DEF ProcInv, Quiet
  <1>9. WaiterNotForgotten' /\ WaitedIsReclaimable'
    BY <1>2 DEF ProcInv, WaiterNotForgotten, WaitedIsReclaimable, ExitedIsReclaimable, Present
  <1>10. DeadProcess'
    <2>1. \A u \in Tids : state[u] = "Zombie" =>
            phase[u] = "last" \/ (Present(pidOf[u]) /\ procs[pidOf[u]].zombie)
      <3>1. current = None \/ phase[current] \in {"kernel"} \cup MonitorPhase
        OBVIOUS
      <3> QED
        BY <3>1, DeadUnlessHarvested, Zenon
    <2>2. \A u \in Tids : state[u] = "Zombie" => phase'[u] = phase[u]
      BY <1>1, Zenon
    <2> QED
      BY <2>1, <2>2 DEF DeadProcess, Present
  <1> QED
    BY <1>4, <1>5, <1>6, <1>7, <1>8, <1>9, <1>10, Zenon

\* spawn_from_vfs in the monitor thread takes a PML4 frame nobody holds.
LEMMA ExecLoadInv ==
  ASSUME ProcInv, NEW pt \in PageTables, ExecLoad(pt), SchedInv', ProcTypeOK'
  PROVE  ProcInv'
  <1>1. /\ Running(current) /\ phase[current] \in {"exec", "execShell"} /\ pt \notin live
        /\ live' = live \cup {pt}
        /\ UNCHANGED <<state, tree, current, waitq, pidOf, waitFor, procs, cr3, bounds, habits>>
    BY Zenon DEF ExecLoad, schedVars
  <1>2. current \in Tids \ {Idle}
    BY <1>1, RunnerFacts, Zenon
  <1>3. PICK to \in {"load", "loadShell"} :
          \A u \in Tids : phase'[u] = IF u = current THEN to ELSE phase[u]
    BY <1>2 DEF ExecLoad, ProcInv, OneOwner, ProcTypeOK
  <1>4. \A u \in Tids : inHand'[u] = IF u = current THEN pt ELSE inHand[u]
    BY <1>2, Zenon DEF ExecLoad, ProcInv, OneOwner, ProcTypeOK
  <1>5. to \in MonitorPhase /\ to \in Holding /\ phase[current] \in MonitorPhase
        /\ phase[current] \notin Holding
    BY <1>1, Zenon DEF MonitorPhase, Holding
  <1>6. /\ Roles' /\ KernelFirst' /\ Ancestry' /\ OneThread' /\ DeadProcess' /\ ParentAlive'
        /\ WaiterNotForgotten' /\ OwnSpace' /\ WaitedIsReclaimable' /\ Quiet'
    BY <1>1, <1>3, <1>5, MonitorKeeps, Zenon
  <1>7. OneOwner'
    <2>1. \A p \in Pids : Present(p) => procs[p].pt \in live
      BY Zenon DEF ProcInv, OneOwner
    <2>2. \A u \in Tids : phase[u] \in Holding => inHand[u] \in live
      BY Zenon DEF ProcInv, OneOwner
    <2>3. \A u \in Tids : phase'[u] \in Holding <=> u = current \/ phase[u] \in Holding
      BY <1>3, <1>5, Zenon
    <2>4. live' = {procs[p].pt : p \in {p \in Pids : Present(p)}}'
                  \cup {inHand[u] : u \in {u \in Tids : phase[u] \in Holding}}'
      BY <1>1, <1>2, <1>4, <1>5, <2>3 DEF ProcInv, OneOwner, Present
    <2> QED
      BY <1>1, <1>2, <1>4, <1>5, <2>1, <2>2, <2>3, <2>4 DEF ProcInv, OneOwner, Present
  <1>8. RunnableHasProcess'
    BY <1>1, Zenon DEF ProcInv, RunnableHasProcess, Present
  <1> QED
    BY <1>6, <1>7, <1>8, Zenon DEF ProcInv

\* Without the file the monitor thread goes on.
LEMMA ExecMissingInv ==
  ASSUME ProcInv, ExecMissing, SchedInv', ProcTypeOK'
  PROVE  ProcInv'
  <1>1. /\ Running(current) /\ phase[current] \in {"exec", "execShell"}
        /\ UNCHANGED <<state, tree, current, waitq, pidOf, waitFor, procs, cr3, bounds, habits>>
        /\ UNCHANGED <<inHand, live>>
    BY Zenon DEF ExecMissing, schedVars
  <1>2. current \in Tids \ {Idle}
    BY <1>1, RunnerFacts, Zenon
  <1>3. PICK to \in {"reap", "last"} :
          \A u \in Tids : phase'[u] = IF u = current THEN to ELSE phase[u]
    BY <1>2 DEF ExecMissing, ProcInv, OneOwner, ProcTypeOK
  <1>4. to \in MonitorPhase /\ phase[current] \in MonitorPhase
    BY <1>1, Zenon DEF MonitorPhase
  <1>5. /\ Roles' /\ KernelFirst' /\ Ancestry' /\ OneThread' /\ DeadProcess' /\ ParentAlive'
        /\ WaiterNotForgotten' /\ OwnSpace' /\ WaitedIsReclaimable' /\ Quiet'
    BY <1>1, <1>3, <1>4, MonitorKeeps, Zenon
  <1>6. OneOwner'
    <2>1. \A u \in Tids : phase'[u] \in Holding <=> phase[u] \in Holding
      BY <1>1, <1>3, Zenon DEF Holding
    <2> QED
      BY <1>1, <2>1, OwnerKeeps, Zenon DEF ProcInv, Present
  <1>7. RunnableHasProcess'
    BY <1>1, Zenon DEF ProcInv, RunnableHasProcess, Present
  <1> QED
    BY <1>5, <1>6, <1>7, Zenon DEF ProcInv

\* What is kept when some sleepers wake and nothing else happens to them, and the thread
\* on the CPU may fall asleep or die: all that is not about its own state.
LEMMA StateKeeps ==
  ASSUME ProcInv, UNCHANGED <<current, pidOf, phase, waitFor, inHand, procs, live>>,
         UNCHANGED <<cr3, bounds, habits>>,
         \A p \in Pids : Waiters(p)' = Waiters(p), ProcTypeOK',
         \A u \in Tids : \/ state'[u] = state[u]
                         \/ state[u] = "Blocked" /\ state'[u] = "Ready"
                         \/ u = current /\ state[u] = "Ready" /\ state'[u] \in {"Blocked", "Zombie"}
  PROVE  /\ KernelFirst' /\ Ancestry' /\ ParentAlive' /\ OneOwner' /\ WaiterNotForgotten'
         /\ RunnableHasProcess' /\ OwnSpace' /\ WaitedIsReclaimable' /\ Quiet'
  <1>1. current \in Tids \cup {None} /\ None \notin Tids
    BY SchedAssumption, Zenon DEF ProcInv, SchedInv, SchedTypeOK
  <1>2. \A u \in Tids : state[u] = "Zombie" => state'[u] = "Zombie"
    BY Zenon
  <1>3. KernelFirst'
    BY KernelFirstKeeps, Zenon DEF ProcInv
  <1>4. Ancestry' /\ ParentAlive'
    BY Zenon DEF ProcInv, Ancestry, ParentAlive, Present
  <1>5. WaiterNotForgotten'
    BY DEF ProcInv, WaiterNotForgotten, Present
  <1>6. OneOwner'
    BY OwnerKeeps, Zenon DEF ProcInv, Present
  <1>7. RunnableHasProcess'
    BY Zenon DEF ProcInv, RunnableHasProcess, Present
  <1>8. OwnSpace'
    BY <1>1, <1>2, Zenon DEF ProcInv, OwnSpace, Me
  <1>9. WaitedIsReclaimable'
    BY <1>2, Zenon DEF ProcInv, WaitedIsReclaimable, ExitedIsReclaimable, Present
  <1>10. Quiet'
    BY <1>1, <1>2 DEF ProcInv, Quiet
  <1> QED
    BY <1>3, <1>4, <1>5, <1>6, <1>7, <1>8, <1>9, <1>10, Zenon

\* The monitor thread exits; process 0 stays until the thread is reaped.
LEMMA KernelExitInv ==
  ASSUME ProcInv, KernelExit, SchedInv', ProcTypeOK'
  PROVE  ProcInv'
  <1>1. /\ Running(current) /\ phase[current] = "last"
        /\ UNCHANGED <<current, pidOf, phase, waitFor, inHand, procs, live>>
        /\ UNCHANGED <<cr3, bounds, habits>>
    BY Zenon DEF KernelExit, Exit, procVars
  <1>2. current \in Tids \ {Idle} /\ state[current] = "Ready" /\ current # None
    BY <1>1, RunnerFacts, SchedAssumption, Zenon
  <1>3. /\ state'[current] = "Zombie"
        /\ \A u \in Tids : u # current =>
             state'[u] = state[u] \/ (state[u] = "Blocked" /\ state'[u] = "Ready")
    BY <1>2, Zenon DEF KernelExit, Exit, Woken
  <1>4. \A p \in Objects : Waiters(p)' = Waiters(p)
    <2>1. waitq' = waitq
      BY Zenon DEF KernelExit, Exit, ProcInv, SchedInv, SchedTypeOK
    <2> QED
      BY <2>1, Zenon DEF Waiters
  <1>5. \A p \in Pids \cup {Console} : Waiters(p)' = Waiters(p)
    BY <1>4, ProcAssumption, ZenonT(30)
  <1>6. /\ KernelFirst' /\ Ancestry' /\ ParentAlive' /\ OneOwner' /\ WaiterNotForgotten'
        /\ RunnableHasProcess' /\ OwnSpace' /\ WaitedIsReclaimable' /\ Quiet'
    BY <1>1, <1>2, <1>3, <1>5, StateKeeps
  <1>7. Roles'
    <2>1. \A u \in Tids :
            /\ phase'[u] \in {"kernel"} \cup MonitorPhase => pidOf'[u] = 0
            /\ phase'[u] = "kernel" <=> u = Idle \/ state'[u] = "Empty"
            /\ phase'[u] \in MonitorPhase \ {"last"} => state'[u] = "Ready"
            /\ phase'[u] = "last" => state'[u] \in {"Ready", "Zombie"}
            /\ phase'[u] \in {"wait", "harvest"} => state'[u] # "Zombie" /\ "waits" \in habits'
      BY <1>1, <1>2, <1>3 DEF ProcInv, Roles
    <2> QED
      BY <1>1, <1>5, <2>1 DEF ProcInv, Roles
  <1>8. \A u \in Tids \ {Idle} : u # current => pidOf[u] # pidOf[current] \/ state[u] = "Empty"
    <2>1. MonitorThere /\ phase[current] \in MonitorPhase
      BY <1>1, <1>2, Zenon DEF MonitorThere, MonitorPhase
    <2>2. pidOf[current] = 0
      BY <1>2, <2>1, Zenon DEF ProcInv, Roles
    <2> QED
      BY <1>2, <2>1, <2>2, Zenon DEF ProcInv, KernelFirst, Roles
  <1>9. OneThread'
    <2>1. \A u \in Tids : u # current => (Alive(u)' <=> Alive(u))
                                       /\ (state'[u] = "Zombie" <=> state[u] = "Zombie")
                                       /\ (Alive(u) \/ state[u] = "Zombie" => state[u] # "Empty")
      BY <1>3 DEF Alive
    <2> QED
      BY <1>1, <1>2, <1>3, <1>8, <2>1 DEF ProcInv, OneThread, Alive
  <1>10. DeadProcess'
    <2>1. \A u \in Tids : state[u] = "Zombie" =>
            phase[u] = "last" \/ (Present(pidOf[u]) /\ procs[pidOf[u]].zombie)
      <3>1. current = None \/ phase[current] \in {"kernel"} \cup MonitorPhase
        BY <1>1, Zenon DEF MonitorPhase
      <3> QED
        BY <3>1, DeadUnlessHarvested, Zenon
    <2> QED
      BY <1>1, <1>2, <1>3, <2>1 DEF DeadProcess, Present
  <1> QED
    BY <1>6, <1>7, <1>9, <1>10, Zenon DEF ProcInv

\* A user program goes to sleep in the console's queue.
LEMMA SysReadSleepInv ==
  ASSUME ProcInv, SysReadSleep, SchedInv', ProcTypeOK'
  PROVE  ProcInv'
  <1>1. /\ Running(current) /\ phase[current] = "user" /\ BlockOn(Console)
        /\ state' = [state EXCEPT ![current] = "Blocked"]
        /\ UNCHANGED <<current, pidOf, phase, waitFor, inHand, procs, live>>
        /\ UNCHANGED <<cr3, bounds, habits>>
    BY Zenon DEF SysReadSleep, BlockOn, GoToSleep, procVars
  <1>2. current \in Tids \ {Idle} /\ state[current] = "Ready" /\ current # None
    BY <1>1, RunnerFacts, SchedAssumption, Zenon
  <1>3. \A u \in Tids : state'[u] = IF u = current THEN "Blocked" ELSE state[u]
    BY <1>1, <1>2 DEF ProcInv, SchedInv, SchedTypeOK
  <1>4. /\ \A p \in Pids : Waiters(p)' = Waiters(p)
        /\ Waiters(Console)' = Waiters(Console) \cup {current}
    BY <1>1, BlockOnWaiters, ProcAssumption, Zenon DEF ProcInv
  <1>5. /\ KernelFirst' /\ Ancestry' /\ ParentAlive' /\ OneOwner' /\ WaiterNotForgotten'
        /\ RunnableHasProcess' /\ OwnSpace' /\ WaitedIsReclaimable' /\ Quiet'
    BY <1>1, <1>2, <1>3, <1>4, StateKeeps
  <1>6. Roles'
    <2>1. \A u \in Tids :
            /\ phase'[u] \in {"kernel"} \cup MonitorPhase => pidOf'[u] = 0
            /\ phase'[u] = "kernel" <=> u = Idle \/ state'[u] = "Empty"
            /\ phase'[u] \in MonitorPhase \ {"last"} => state'[u] = "Ready"
            /\ phase'[u] = "last" => state'[u] \in {"Ready", "Zombie"}
            /\ phase'[u] \in {"wait", "harvest"} => state'[u] # "Zombie" /\ "waits" \in habits'
      BY <1>1, <1>2, <1>3 DEF ProcInv, Roles, MonitorPhase
    <2> QED
      BY <1>1, <1>4, <2>1 DEF ProcInv, Roles
  <1>7. OneThread'
    BY <1>1, <1>2, <1>3 DEF ProcInv, OneThread, Alive
  <1>8. DeadProcess'
    BY <1>1, <1>2, <1>3 DEF ProcInv, DeadProcess, Present, Me
  <1> QED
    BY <1>5, <1>6, <1>7, <1>8, Zenon DEF ProcInv

\* The console's interrupt wakes a reader, whatever thread it interrupts.
LEMMA ConsoleInputInv ==
  ASSUME ProcInv, ConsoleInput, SchedInv', ProcTypeOK'
  PROVE  ProcInv'
  <1>1. /\ Console \in Objects /\ WakeOne(Console)
        /\ UNCHANGED <<current, pidOf, phase, waitFor, inHand, procs, live>>
        /\ UNCHANGED <<cr3, bounds, habits>>
    BY ProcAssumption, Zenon DEF ConsoleInput, WakeOne, procVars
  <1> DEFINE h == Head(waitq[Console])
  <1>2. h \in Waiters(Console)
    BY <1>1 DEF ProcInv, SchedInv, SchedTypeOK, WakeOne, Waiters
  <1>3. h \in Tids \ {Idle} /\ state[h] = "Blocked" /\ phase[h] = "user"
    BY <1>2, ReaderFacts, Zenon
  <1> HIDE DEF h
  <1>4. \A u \in Tids : state'[u] = IF u = h THEN "Ready" ELSE state[u]
    BY <1>1, <1>3 DEF WakeOne, Woken, h
  <1>5. \A o \in Objects, u \in Tids : u \in Waiters(o)' <=> u \in Waiters(o) /\ u # h
    BY <1>1, WakeOneWaiters, Zenon DEF ProcInv, h
  <1>6. \A o \in Objects : Waiters(o) \subseteq Tids /\ Waiters(o)' \subseteq Tids
    BY DEF ProcInv, SchedInv, SchedTypeOK, Waiters
  <1>7. /\ \A p \in Pids : Waiters(p)' = Waiters(p)
        /\ Waiters(Console)' \subseteq Waiters(Console)
    <2>1. \A p \in Pids : h \notin Waiters(p)
      BY <1>3, WaiterFacts
    <2>2. \A p \in Pids : p \in Objects
      BY ProcAssumption, Zenon
    <2>3. ASSUME NEW p \in Pids
          PROVE  Waiters(p)' = Waiters(p)
      BY <1>5, <1>6, <2>1, <2>2, <2>3, Zenon
    <2>4. Waiters(Console)' \subseteq Waiters(Console)
      BY <1>1, <1>5, <1>6, Zenon
    <2> QED
      BY <2>3, <2>4, Zenon
  <1>8. /\ KernelFirst' /\ Ancestry' /\ ParentAlive' /\ OneOwner' /\ WaiterNotForgotten'
        /\ RunnableHasProcess' /\ OwnSpace' /\ WaitedIsReclaimable' /\ Quiet'
    BY <1>1, <1>3, <1>4, <1>7, StateKeeps
  <1>9. Roles'
    BY <1>1, <1>3, <1>4, <1>7 DEF ProcInv, Roles, MonitorPhase
  <1>10. OneThread' /\ DeadProcess'
    BY <1>1, <1>3, <1>4 DEF ProcInv, OneThread, DeadProcess, Alive, Present, Me
  <1> QED
    BY <1>8, <1>9, <1>10, Zenon DEF ProcInv

\* SYS_WAIT sleeps only when a child is left and none of them is a zombie.
LEMMA SysWaitSleepInv ==
  ASSUME ProcInv, NEW w \in Pids \cup {AnyChild}, SysWaitSleep(w), SchedInv', ProcTypeOK'
  PROVE  ProcInv'
  <1>1. /\ Running(current) /\ phase[current] \in {"user", "wait"} /\ "waits" \in habits
        /\ Children(w) # {} /\ Zombies(w) = {} /\ BlockOn(Me)
        /\ state' = [state EXCEPT ![current] = "Blocked"]
        /\ UNCHANGED <<tree, current>>
        /\ UNCHANGED <<pidOf, inHand, procs, live, cr3, bounds, habits>>
    BY Zenon DEF SysWaitSleep, BlockOn, GoToSleep
  <1>2. /\ current \in Tids \ {Idle} /\ state[current] = "Ready" /\ current # None
        /\ Me \in Pids /\ Me = pidOf[current] /\ Present(Me)
    BY <1>1, RunnerFacts, SchedAssumption, Zenon DEF Me
  <1>3. /\ \A u \in Tids : state'[u] = IF u = current THEN "Blocked" ELSE state[u]
        /\ \A u \in Tids : phase'[u] = IF u = current THEN "wait" ELSE phase[u]
        /\ \A u \in Tids : waitFor'[u] = IF u = current THEN w ELSE waitFor[u]
    BY <1>1, <1>2 DEF SchedTypeOK, SysWaitSleep, OneOwner, ProcTypeOK
  <1>4. /\ \A p \in Pids :
             Waiters(p)' = IF p = Me THEN Waiters(p) \cup {current} ELSE Waiters(p)
        /\ Waiters(Console)' = Waiters(Console)
    <2>1. Me \in Objects /\ Console \in Objects /\ Me # Console /\ Pids \subseteq Objects
      BY <1>2, ProcAssumption, Zenon
    <2>2. \A p \in Objects :
            Waiters(p)' = IF p = Me THEN Waiters(p) \cup {current} ELSE Waiters(p)
      BY <1>1, <2>1, BlockOnWaiters, Zenon DEF ProcInv
    <2> QED
      BY <2>1, <2>2, Zenon
  <1>5. \A p \in Pids : \A u \in Waiters(p) :
          u \in Tids /\ u # current /\ phase[u] = "wait" /\ pidOf[u] = p
    BY <1>2, WaiterFacts, Zenon
  <1>6. Roles' /\ KernelFirst'
    <2>1. \A p \in Pids : \A u \in Waiters(p)' : phase'[u] = "wait"
      BY <1>2, <1>3, <1>4, <1>5
    <2>2. \A u \in Waiters(Console)' : phase'[u] = "user"
      BY <1>2, <1>3, <1>4, ReaderFacts
    <2>3. \A u \in Tids :
            /\ phase'[u] \in {"kernel"} \cup MonitorPhase => pidOf'[u] = 0
            /\ phase'[u] = "kernel" <=> u = Idle \/ state'[u] = "Empty"
            /\ phase'[u] \in MonitorPhase \ {"last"} => state'[u] = "Ready"
            /\ phase'[u] = "last" => state'[u] \in {"Ready", "Zombie"}
            /\ phase'[u] \in {"wait", "harvest"} => state'[u] # "Zombie" /\ "waits" \in habits'
      BY <1>1, <1>2, <1>3 DEF ProcInv, Roles, MonitorPhase
    <2>4. \A u \in Tids : /\ phase'[u] \in MonitorPhase <=> phase[u] \in MonitorPhase
                          /\ phase'[u] = "kernel" <=> phase[u] = "kernel"
      BY <1>1, <1>3 DEF MonitorPhase
    <2>5. KernelFirst'
      BY <1>1, <2>4, KernelFirstKeeps, Zenon DEF ProcInv
    <2> QED
      BY <2>1, <2>2, <2>3, <2>5, Zenon DEF Roles
  <1>7. Ancestry' /\ ParentAlive'
    BY <1>1, Zenon DEF ProcInv, Ancestry, ParentAlive, Present
  <1>8. OneOwner'
    <2>1. \A u \in Tids : phase'[u] \in Holding <=> phase[u] \in Holding
      BY <1>1, <1>3, Zenon DEF Holding
    <2> QED
      BY <1>1, <2>1, OwnerKeeps, Zenon DEF ProcInv, Present
  <1>9. WaiterNotForgotten'
    <2> SUFFICES ASSUME NEW p \in Pids, NEW u \in Waiters(p)'
                 PROVE  /\ pidOf[u] = p /\ Present(p)
                        /\ \E c \in Pids : /\ Present(c) /\ procs[c].ppid = p
                                           /\ waitFor'[u] \in {AnyChild, c}
                        /\ \A c \in Pids :
                             Present(c) /\ procs[c].ppid = p /\ waitFor'[u] \in {AnyChild, c} =>
                               ~procs[c].zombie
      BY <1>1 DEF WaiterNotForgotten, Present
    <2>1. CASE u # current
      <3>1. u \in Waiters(p) /\ u \in Tids /\ waitFor'[u] = waitFor[u]
        BY <2>1, <1>3, <1>4, <1>5
      <3> QED
        BY <3>1 DEF ProcInv, WaiterNotForgotten
    <2>2. CASE u = current
      <3>1. p = Me /\ waitFor'[u] = w
        BY <2>2, <1>2, <1>3, <1>4, <1>5, Zenon
      <3> QED
        BY <3>1, <2>2, <1>1, <1>2, Zenon DEF Children, Zombies
    <2> QED
      BY <2>1, <2>2, Zenon
  <1>10. OneThread'
    BY <1>1, <1>2, <1>3 DEF ProcInv, OneThread, Alive
  <1>11. DeadProcess'
    BY <1>1, <1>2, <1>3, SMTT(30) DEF ProcInv, DeadProcess, Present, Me
  <1>12. OwnSpace' /\ Quiet'
    BY <1>1, <1>2, <1>3, SMTT(30) DEF ProcInv, OwnSpace, Quiet, Me, MonitorPhase
  <1>13. RunnableHasProcess' /\ WaitedIsReclaimable'
    BY <1>1, <1>2, <1>3 DEF ProcInv, RunnableHasProcess, WaitedIsReclaimable,
       ExitedIsReclaimable, Present
  <1> QED
    BY <1>6, <1>7, <1>8, <1>9, <1>10, <1>11, <1>12, <1>13, Zenon DEF ProcInv

\* The address space a woken SYS_WAIT destroys is nobody else's.
LEMMA DestroyHarvestedInv ==
  ASSUME ProcInv, DestroyHarvested, SchedInv', ProcTypeOK'
  PROVE  ProcInv'
  <1>1. /\ Running(current) /\ phase[current] = "harvest"
        /\ live' = live \ {inHand[current]}
        /\ UNCHANGED <<state, tree, current, waitq, pidOf, waitFor, procs, cr3, bounds, habits>>
    BY Zenon DEF DestroyHarvested, schedVars
  <1>2. current \in Tids \ {Idle} /\ state[current] = "Ready"
    BY <1>1, RunnerFacts, Zenon
  <1>3. /\ \A u \in Tids : phase'[u] = IF u = current THEN "user" ELSE phase[u]
        /\ \A u \in Tids : inHand'[u] = IF u = current THEN KernelPT ELSE inHand[u]
    BY <1>2, Zenon DEF DestroyHarvested, OneOwner, ProcTypeOK
  <1>4. \A o \in Pids \cup {Console} : Waiters(o)' = Waiters(o)
    BY <1>1, Zenon DEF Waiters
  <1>5. Roles' /\ KernelFirst'
    <2>1. \A p \in Pids : \A u \in Waiters(p) : phase[u] = "wait" /\ u \in Tids /\ u # current
      BY <1>2, WaiterFacts, Zenon
    <2>2. \A u \in Waiters(Console) : phase[u] = "user" /\ u \in Tids /\ u # current
      BY <1>2, ReaderFacts, Zenon
    <2>3. \A u \in Tids :
            /\ phase'[u] \in {"kernel"} \cup MonitorPhase => pidOf'[u] = 0
            /\ phase'[u] = "kernel" <=> u = Idle \/ state'[u] = "Empty"
            /\ phase'[u] \in MonitorPhase \ {"last"} => state'[u] = "Ready"
            /\ phase'[u] = "last" => state'[u] \in {"Ready", "Zombie"}
            /\ phase'[u] \in {"wait", "harvest"} => state'[u] # "Zombie" /\ "waits" \in habits'
      BY <1>1, <1>2, <1>3 DEF ProcInv, Roles, MonitorPhase
    <2>4. Roles'
      BY <1>3, <1>4, <2>1, <2>2, <2>3 DEF Roles
    <2>5. \A u \in Tids : /\ phase'[u] \in MonitorPhase <=> phase[u] \in MonitorPhase
                          /\ phase'[u] = "kernel" <=> phase[u] = "kernel"
      BY <1>1, <1>3 DEF MonitorPhase
    <2>6. KernelFirst'
      BY <1>1, <2>5, KernelFirstKeeps, Zenon DEF ProcInv
    <2> QED
      BY <2>4, <2>6, Zenon
  <1>6. \A p \in Pids : Present(p) => procs[p].pt \in live /\ procs[p].pt # inHand[current]
    BY <1>1, <1>2, Zenon DEF ProcInv, OneOwner, Holding
  <1>7. OneOwner'
    <2>1. /\ phase[current] \in Holding
          /\ \A u \in Tids : phase'[u] \in Holding <=> u # current /\ phase[u] \in Holding
      BY <1>1, <1>3, Zenon DEF Holding
    <2>2. \A u \in Tids : phase[u] \in Holding /\ u # current => inHand[u] # inHand[current]
      BY <1>2, <2>1, OwnerForm, Zenon DEF ProcInv
    <2>3. \A u \in Tids :
            phase'[u] \in Holding => phase[u] \in Holding /\ inHand'[u] = inHand[u]
      BY <1>3, <2>1, Zenon
    <2>4. \A x : x \in live' <=> x \in live /\ x # inHand[current]
      BY <1>1, Zenon
    <2>5. \A p \in Pids : /\ Present(p)' <=> Present(p)
                          /\ procs'[p] = procs[p]
      BY <1>1, Zenon DEF Present
    <2>6. \A x : x \in live' <=>
            /\ x \in live
            /\ \A p \in Pids : Present(p) /\ x = procs[p].pt => Present(p)'
            /\ \A t \in Tids : phase[t] \in Holding /\ x = inHand[t] => phase'[t] \in Holding
      BY <1>2, <2>1, <2>2, <2>4, <2>5, ZenonT(30)
    <2> QED
      BY <2>3, <2>5, <2>6, OwnerDrops, Zenon DEF ProcInv
  <1>8. Ancestry' /\ ParentAlive' /\ OneThread' /\ OwnSpace' /\ Quiet'
    BY <1>1, <1>2, <1>3, SMTT(30) DEF ProcInv, Ancestry, ParentAlive, OneThread, Alive, OwnSpace, Quiet,
       Present, Me, MonitorPhase
  <1>9. WaiterNotForgotten' /\ WaitedIsReclaimable'
    BY <1>1, <1>4 DEF ProcInv, WaiterNotForgotten, WaitedIsReclaimable, ExitedIsReclaimable,
       Present
  <1>10. DeadProcess'
    BY <1>1, <1>2, <1>3, Zenon DEF ProcInv, DeadProcess, Present, Me
  <1>11. RunnableHasProcess'
    <2>1. \A u \in Tids : pidOf[u] \in Pids
      BY Zenon DEF ProcInv, OneOwner, ProcTypeOK
    <2> QED
      BY <1>1, <1>6, <2>1, Zenon DEF ProcInv, RunnableHasProcess, Present
  <1> QED
    BY <1>5, <1>7, <1>8, <1>9, <1>10, <1>11, Zenon DEF ProcInv

\* Taking a dead child c of the running process out of the table: c is nobody's
\* parent, no live thread belongs to it and nobody else waits for it.
LEMMA HarvestKeeps ==
  ASSUME ProcInv, Running(current), "waits" \in habits, NEW w, NEW c \in Zombies(w),
         phase[current] \in {"user", "wait"}, phase'[current] \in {"user", "wait", "harvest"},
         \A p \in Pids : procs'[p] = IF p = c THEN NoProc ELSE procs[p],
         UNCHANGED <<state, tree, current, waitq, pidOf, cr3, bounds, habits>>,
         \A u \in Tids : u # current => waitFor'[u] = waitFor[u] /\ phase'[u] = phase[u]
  PROVE  /\ KernelFirst' /\ Ancestry' /\ OneThread' /\ DeadProcess' /\ ParentAlive' /\ WaiterNotForgotten'
         /\ OwnSpace' /\ WaitedIsReclaimable' /\ Quiet'
         /\ \A u \in Tids \ {Idle} : Alive(u) => pidOf[u] # c
  <1>1. /\ current \in Tids \ {Idle} /\ state[current] = "Ready" /\ current # None
        /\ Me \in Pids /\ Waiters(Me) = {} /\ Present(Me) /\ ~procs[Me].zombie
        /\ bounds = Me /\ (Me # 0 => cr3 = procs[Me].pt)
    BY RunnerFacts, SchedAssumption, Zenon
  <1>2. c \in Pids /\ Present(c) /\ procs[c].ppid = Me /\ procs[c].zombie
    BY Zenon DEF Zombies, Children
  <1>3. c # Me /\ (MonitorThere => c # 0)
    BY <1>1, <1>2, KernelProcess, Zenon
  <1>4. \A p \in Pids : Present(p)' <=> Present(p) /\ p # c
    BY <1>2, Zenon DEF Present
  <1>5. Ancestry' /\ OneThread' /\ Quiet'
    <2>1. Quiet'
      BY <1>1, Zenon DEF ProcInv, Quiet
    <2> QED
      BY <1>4, <2>1, ProcAssumption DEF ProcInv, Ancestry, OneThread, Alive
  <1>6. DeadProcess'
    <2>1. \A u \in Tids : pidOf[u] \in Pids
      BY Zenon DEF ProcInv, OneOwner, ProcTypeOK
    <2> QED
      BY <1>1, <1>2, <1>4, <2>1 DEF ProcInv, DeadProcess, Me
  <1>7. ParentAlive'
    <2>1. \A p \in Pids : Present(p) => procs[p].ppid \in Pids
      BY ZenonT(30) DEF ProcInv, OneOwner, ProcTypeOK, Process, Present
    <2> QED
      BY <1>2, <1>4, <2>1 DEF ProcInv, ParentAlive
  <1>8. WaiterNotForgotten'
    <2> SUFFICES ASSUME NEW p \in Pids, NEW u \in Waiters(p)
                 PROVE  /\ pidOf[u] = p /\ Present(p)'
                        /\ \E d \in Pids : /\ Present(d)' /\ procs'[d].ppid = p
                                           /\ waitFor'[u] \in {AnyChild, d}
                        /\ \A d \in Pids :
                             Present(d)' /\ procs'[d].ppid = p /\ waitFor'[u] \in {AnyChild, d} =>
                               ~procs'[d].zombie
      BY DEF ProcInv, WaiterNotForgotten, Waiters
    <2>1. u \in Tids /\ state[u] = "Blocked" /\ pidOf[u] = p /\ u # Idle
      BY WaiterFacts
    <2>2. waitFor'[u] = waitFor[u] /\ p # Me
      BY <1>1, <2>1, Zenon
    <2>3. p # c
      BY <1>2, <2>1, Zenon DEF ProcInv, RunnableHasProcess
    <2>4. PICK d \in Pids : Present(d) /\ procs[d].ppid = p /\ waitFor[u] \in {AnyChild, d}
      BY DEF ProcInv, WaiterNotForgotten
    <2>5. Present(d)' /\ procs'[d].ppid = p /\ waitFor'[u] \in {AnyChild, d}
      BY <1>2, <1>4, <2>2, <2>4, Zenon
    <2>6. Present(p)'
      BY <1>4, <2>3, Zenon DEF ProcInv, WaiterNotForgotten
    <2> QED
      BY <1>4, <2>1, <2>2, <2>5, <2>6, SMTT(30) DEF ProcInv, WaiterNotForgotten
  <1>9. OwnSpace'
    <2>1. phase'[current] \notin MonitorPhase
      BY Zenon DEF MonitorPhase
    <2> QED
      BY <1>1, <1>3, <2>1, Zenon DEF OwnSpace, Me
  <1>10. WaitedIsReclaimable'
    BY <1>4 DEF ProcInv, WaitedIsReclaimable, ExitedIsReclaimable
  <1>11. \A u \in Tids \ {Idle} : Alive(u) => pidOf[u] # c
    BY <1>2, Zenon DEF ProcInv, RunnableHasProcess, Alive
  <1>12. KernelFirst'
    <2>1. \A u \in Tids : /\ phase'[u] \in MonitorPhase <=> phase[u] \in MonitorPhase
                          /\ phase'[u] = "kernel" <=> phase[u] = "kernel"
      BY Zenon DEF MonitorPhase
    <2>2. MonitorThere => procs'[0] = procs[0]
      BY <1>3, ProcAssumption, Zenon
    <2> QED
      BY <2>1, <2>2, KernelFirstKeeps, Zenon DEF ProcInv
  <1> QED
    BY <1>5, <1>6, <1>7, <1>8, <1>9, <1>10, <1>11, <1>12, Zenon

\* The first pass of SYS_WAIT frees a dead child with its address space.
LEMMA SysWaitHarvestInv ==
  ASSUME ProcInv, NEW w, SysWaitHarvest(w), SchedInv', ProcTypeOK'
  PROVE  ProcInv'
  <1>1. /\ "waits" \in habits /\ Running(current) /\ phase[current] = "user"
        /\ UNCHANGED <<state, tree, current, waitq, pidOf, phase, waitFor, inHand>>
        /\ UNCHANGED <<cr3, bounds, habits>>
    BY Zenon DEF SysWaitHarvest, schedVars
  <1>2. PICK c \in Zombies(w) : /\ procs' = [procs EXCEPT ![c] = NoProc]
                                /\ live' = live \ {procs[c].pt}
    BY Zenon DEF SysWaitHarvest
  <1>3. c \in Pids /\ Present(c)
    BY Zenon DEF Zombies, Children
  <1>4. \A p \in Pids : procs'[p] = IF p = c THEN NoProc ELSE procs[p]
    BY <1>2, Zenon DEF ProcTypeOK
  <1>5. /\ KernelFirst' /\ Ancestry' /\ OneThread' /\ DeadProcess' /\ ParentAlive'
        /\ WaiterNotForgotten' /\ OwnSpace' /\ WaitedIsReclaimable' /\ Quiet'
        /\ \A u \in Tids \ {Idle} : Alive(u) => pidOf[u] # c
    BY <1>1, <1>4, HarvestKeeps, Zenon
  <1>6. Roles'
    BY <1>1 DEF ProcInv, Roles, Waiters
  <1>7. \A p \in Pids : Present(p)' <=> Present(p) /\ p # c
    BY <1>4, Zenon DEF Present
  <1>8. OneOwner'
    <2>1. /\ \A p \in Pids : Present(p) /\ p # c => procs[p].pt # procs[c].pt
          /\ \A u \in Tids : phase[u] \in Holding => inHand[u] # procs[c].pt
      BY <1>3, OwnerForm, Zenon DEF ProcInv
    <2>2. \A x : x \in live' <=> x \in live /\ x # procs[c].pt
      BY <1>2, Zenon
    <2>3. \A p \in Pids : Present(p)' => Present(p) /\ procs'[p].pt = procs[p].pt
      BY <1>4, <1>7, Zenon
    <2>4. \A x : x \in live' <=>
            /\ x \in live
            /\ \A p \in Pids : Present(p) /\ x = procs[p].pt => Present(p)'
            /\ \A t \in Tids : phase[t] \in Holding /\ x = inHand[t] => phase'[t] \in Holding
      BY <1>1, <1>3, <1>7, <2>1, <2>2, ZenonT(30)
    <2> QED
      BY <1>1, <2>3, <2>4, OwnerDrops, Zenon DEF ProcInv
  <1>9. RunnableHasProcess'
    <2>1. \A u \in Tids : pidOf[u] \in Pids
      BY Zenon DEF ProcInv, OneOwner, ProcTypeOK
    <2>2. \A p \in Pids : Present(p) /\ p # c => procs[p].pt # procs[c].pt
      BY <1>3, Zenon DEF ProcInv, OneOwner
    <2> QED
      BY <1>1, <1>2, <1>4, <1>5, <1>7, <2>1, <2>2 DEF ProcInv, RunnableHasProcess, Alive
  <1> QED
    BY <1>5, <1>6, <1>8, <1>9, Zenon DEF ProcInv

\* A woken SYS_WAIT takes at most one dead child, the first, and holds its page table.
LEMMA WokenScanInv ==
  ASSUME ProcInv, WokenScan, SchedInv', ProcTypeOK'
  PROVE  ProcInv'
  <1> DEFINE w == waitFor[current]
             first == {c \in Zombies(w) : \A d \in Zombies(w) : c <= d}
  <1>1. /\ Running(current) /\ phase[current] = "wait"
        /\ procs' = [p \in Pids |-> IF p \in first THEN NoProc ELSE procs[p]]
        /\ UNCHANGED <<state, tree, current, waitq, pidOf, live, cr3, bounds, habits>>
    BY Zenon DEF WokenScan, schedVars
  <1>2. current \in Tids \ {Idle} /\ state[current] = "Ready" /\ current # None
    BY <1>1, RunnerFacts, SchedAssumption, Zenon
  <1>3. "waits" \in habits
    BY <1>1, <1>2, Zenon DEF ProcInv, Roles
  <1>4. /\ \A u \in Tids : phase'[u] = IF u # current THEN phase[u]
                                        ELSE IF first = {} THEN "user" ELSE "harvest"
        /\ \A u \in Tids : u # current => waitFor'[u] = waitFor[u] /\ inHand'[u] = inHand[u]
    BY <1>2 DEF WokenScan, OneOwner, ProcTypeOK
  <1>5. \A o \in Pids \cup {Console} : Waiters(o)' = Waiters(o)
    BY <1>1, Zenon DEF Waiters
  <1>6. Roles'
    <2>1. \A p \in Pids : \A u \in Waiters(p) : phase[u] = "wait" /\ u \in Tids /\ u # current
      BY <1>2, WaiterFacts, Zenon
    <2>2. \A u \in Waiters(Console) : phase[u] = "user" /\ u \in Tids /\ u # current
      BY <1>2, ReaderFacts, Zenon
    <2>3. \A u \in Tids :
            /\ phase'[u] \in {"kernel"} \cup MonitorPhase => pidOf'[u] = 0
            /\ phase'[u] = "kernel" <=> u = Idle \/ state'[u] = "Empty"
            /\ phase'[u] \in MonitorPhase \ {"last"} => state'[u] = "Ready"
            /\ phase'[u] = "last" => state'[u] \in {"Ready", "Zombie"}
            /\ phase'[u] \in {"wait", "harvest"} => state'[u] # "Zombie" /\ "waits" \in habits'
      BY <1>1, <1>2, <1>3, <1>4 DEF ProcInv, Roles, MonitorPhase
    <2> QED
      BY <1>4, <1>5, <2>1, <2>2, <2>3 DEF Roles
  <1>7. CASE first = {}
    <2>1. procs' = procs
      BY <1>1, <1>7, Zenon DEF ProcInv, OneOwner, ProcTypeOK
    <2>2. /\ Ancestry' /\ ParentAlive' /\ OneThread' /\ OwnSpace' /\ Quiet' /\ KernelFirst'
      <3>1. \A u \in Tids : /\ phase'[u] \in MonitorPhase <=> phase[u] \in MonitorPhase
                            /\ phase'[u] = "kernel" <=> phase[u] = "kernel"
        BY <1>1, <1>4, <1>7 DEF MonitorPhase
      <3>2. KernelFirst'
        BY <1>1, <2>1, <3>1, KernelFirstKeeps, Zenon DEF ProcInv
      <3> QED
        BY <1>1, <1>2, <2>1, <3>1, <3>2, ZenonT(30) DEF ProcInv, Ancestry, ParentAlive, OneThread,
           Alive, OwnSpace, Quiet, Present, Me
    <2>3. WaiterNotForgotten'
      <3>1. \A p \in Pids : \A u \in Waiters(p) : waitFor'[u] = waitFor[u]
        BY <1>2, <1>4, WaiterFacts, Zenon
      <3> QED
        BY <1>1, <1>5, <2>1, <3>1 DEF ProcInv, WaiterNotForgotten, Present
    <2>4. WaitedIsReclaimable' /\ RunnableHasProcess'
      BY <1>1, <2>1, Zenon DEF ProcInv, WaitedIsReclaimable, ExitedIsReclaimable,
         RunnableHasProcess, Present
    <2>5. DeadProcess'
      BY <1>1, <1>2, <1>4, <1>7, <2>1 DEF ProcInv, DeadProcess, Present, Me
    <2>6. OneOwner'
      <3>1. \A u \in Tids :
              phase'[u] \in Holding <=> phase[u] \in Holding
        BY <1>1, <1>2, <1>4, <1>7, Zenon DEF Holding
      <3>2. \A u \in Tids : phase[u] \in Holding => inHand'[u] = inHand[u]
        BY <1>1, <1>4, Zenon DEF Holding
      <3> QED
        BY <1>1, <2>1, <3>1, <3>2, OwnerKeeps, Zenon DEF ProcInv, Present
    <2> QED
      BY <1>6, <2>2, <2>3, <2>4, <2>5, <2>6, Zenon DEF ProcInv
  <1>8. CASE first # {}
    <2>1. PICK c : c \in first
      BY <1>8, Zenon
    <2>2. c \in Zombies(w) /\ c \in Pids /\ Present(c)
      BY <2>1, Zenon DEF Zombies, Children
    <2>3. first = {c}
      <3>1. \A d \in first : d \in Nat /\ c \in Nat /\ d <= c /\ c <= d
        BY <2>1, <2>2, ProcAssumption DEF Children
      <3> QED
        BY <2>1, <3>1
    <2>4. inHand'[current] = procs[c].pt
      <3>1. (CHOOSE d \in first : TRUE) = c
        BY <2>3, Zenon
      <3> QED
        BY <1>2, <1>8, <3>1, Zenon DEF WokenScan, OneOwner, ProcTypeOK
    <2>5. \A p \in Pids : procs'[p] = IF p = c THEN NoProc ELSE procs[p]
      BY <1>1, <2>3, Zenon
    <2>6. /\ KernelFirst' /\ Ancestry' /\ OneThread' /\ DeadProcess' /\ ParentAlive'
          /\ WaiterNotForgotten' /\ OwnSpace' /\ WaitedIsReclaimable' /\ Quiet'
          /\ \A u \in Tids \ {Idle} : Alive(u) => pidOf[u] # c
      <3>1. phase[current] \in {"user", "wait"} /\ phase'[current] \in {"user", "wait", "harvest"}
        BY <1>1, <1>2, <1>4, <1>8, Zenon
      <3>2. \A u \in Tids : u # current => waitFor'[u] = waitFor[u] /\ phase'[u] = phase[u]
        BY <1>4, Zenon
      <3> QED
        BY <1>1, <1>3, <2>2, <2>5, <3>1, <3>2, HarvestKeeps, Zenon
    <2>7. \A p \in Pids : Present(p)' <=> Present(p) /\ p # c
      BY <2>5, Zenon DEF Present
    <2>8. OneOwner'
      <3>1. \A u \in Tids :
              phase'[u] \in Holding <=> u = current \/ phase[u] \in Holding
        BY <1>4, <1>8, Zenon DEF Holding
      <3>2. phase[current] \notin Holding
        BY <1>1, Zenon DEF Holding
      <3>3. phase'[current] \in Holding
        BY <1>2, <3>1, Zenon
      <3>4. \A u \in Tids : u # current => /\ phase'[u] \in Holding <=> phase[u] \in Holding
                                          /\ inHand'[u] = inHand[u]
        BY <1>4, <3>1, Zenon
      <3>5. \A p \in Pids : p # c => procs'[p] = procs[p]
        BY <2>5, Zenon
      <3> QED
        BY <1>1, <1>2, <2>2, <2>4, <2>7, <3>2, <3>3, <3>4, <3>5, OwnerHands, Zenon DEF ProcInv
    <2>9. RunnableHasProcess'
      <3>1. \A u \in Tids : pidOf[u] \in Pids
        BY Zenon DEF ProcInv, OneOwner, ProcTypeOK
      <3> QED
        BY <1>1, <2>5, <2>6, <2>7, <3>1, Zenon DEF ProcInv, RunnableHasProcess, Alive
    <2> QED
      BY <1>6, <2>6, <2>8, <2>9, Zenon DEF ProcInv
  <1> QED
    BY <1>7, <1>8, Zenon

=============================================================================
