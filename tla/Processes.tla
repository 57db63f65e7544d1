------------------------------ MODULE Processes ------------------------------
(***************************************************************************)
(* The process table on top of the scheduler: spawn_user_process, the      *)
(* SYS_EXIT and SYS_WAIT system calls (src/process/syscall.rs), the process *)
(* half of reap_zombies, the address-space switch of schedule(), and the   *)
(* monitor thread (monitor_task), which starts the first programs and then *)
(* exits, so that process 0 is reaped and pid 0 free for a user program.   *)
(*                                                                         *)
(* Every step is a step of Scheduler (its operations are conjuncts of the  *)
(* actions below); the wait queue of process p is the scheduler's queue p. *)
(* System calls run with interrupts masked, so each is one step, except    *)
(* that a SYS_WAIT which has slept goes on with interrupts enabled.  A     *)
(* program may also sleep in a read of the console, until a keyboard or    *)
(* serial interrupt wakes it, possibly while the idle task runs.           *)
(***************************************************************************)
EXTENDS Scheduler

CONSTANTS
  Pids,          \* indices of Scheduler.processes, 0..n
  PageTables,    \* PML4 frames
  KernelPT,      \* the PML4 _start runs on, page_table of process 0
  NoProc,        \* an empty slot of Scheduler.processes
  Habits,        \* the kinds of user programs: see habits
  Console        \* the wait queue of the console's mailbox

ASSUME ProcAssumption ==
  /\ Objects = Pids \cup {Console}
  /\ Console \notin Pids
  /\ Pids \subseteq Nat
  /\ 0 \in Pids
  /\ KernelPT \in PageTables
  /\ Habits \subseteq SUBSET {"orphans", "waits", "heirs"}
  /\ NoProc \notin [ppid : Pids, zombie : BOOLEAN, pt : PageTables]

VARIABLES
  pidOf,    \* Thread.pid
  phase,    \* what a thread is doing: the steps of the monitor thread (see
            \* MonitorPhase), user code (or a system call about to start, or
            \* a read of the console), sleeping in SYS_WAIT, harvesting;
            \* "kernel" for the idle task and for empty slots
  waitFor,  \* the target_pid of the SYS_WAIT in progress
  inHand,   \* the page table a thread is filling or has yet to destroy
  procs,    \* Scheduler.processes
  live,     \* the PML4 frames that are allocated
  cr3,      \* the PML4 in the CR3 register
  bounds,   \* the process whose bounds CURRENT_BOUNDS holds
  habits    \* what the user programs do, chosen once: "orphans" when one may
            \* exit while it has children, "waits" when one may call SYS_WAIT,
            \* "heirs" when one that was given pid 0 may start children

procVars == <<pidOf, phase, waitFor, inHand, procs, live, cr3, bounds, habits>>
allVars == <<schedVars, procVars>>

AnyChild == -1

Process == [ppid : Pids, zombie : BOOLEAN, pt : PageTables]

\* monitor_task: start dummy.elf (loading it first), reap until only one process is
\* left, start sh.elf, exit.
MonitorPhase == {"exec", "load", "reap", "execShell", "loadShell", "last"}

Phase == {"kernel", "user", "wait", "harvest"} \cup MonitorPhase

\* In these a thread holds the page table inHand.
Holding == {"load", "loadShell", "harvest"}

ProcTypeOK ==
  /\ SchedTypeOK
  /\ pidOf \in [Tids -> Pids]
  /\ phase \in [Tids -> Phase]
  /\ waitFor \in [Tids -> Pids \cup {AnyChild}]
  /\ inHand \in [Tids -> PageTables]
  /\ procs \in [Pids -> Process \cup {NoProc}]
  /\ live \subseteq PageTables
  /\ cr3 \in PageTables
  /\ bounds \in Pids
  /\ habits \in Habits

----------------------------------------------------------------------------
(* Building blocks. *)

Present(p) == procs[p] # NoProc

Me == pidOf[current]

\* The children of the current process that a wait for w may return.
Children(w) ==
  {p \in Pids : Present(p) /\ procs[p].ppid = Me /\ w \in {AnyChild, p}}

Zombies(w) == {p \in Children(w) : procs[p].zombie}

\* (Mutant: take the process whoever its parent is.)
ReapedPidsAny == {p \in Pids : Present(p) /\ \E t \in Reaped : pidOf[t] = p}

\* The processes reap_zombies takes together with the dead threads: those
\* whose parent is process 0.
ReapedPids ==
  {p \in Pids : Present(p) /\ procs[p].ppid = 0 /\ \E t \in Reaped : pidOf[t] = p}

\* (Mutant: remove the thread, keep the process.)
ReapedProcsKept == procs

ReapedProcs == [p \in Pids |-> IF p \in ReapedPids THEN NoProc ELSE procs[p]]

\* (Mutant: take the process, leak its address space.)
ReapedLiveLeak == live

ReapedLive == live \ {procs[p].pt : p \in ReapedPids}

\* The process half of reap_zombies: the threads removed from the arena, and
\* the processes and address spaces that go with them.
ReapProcesses ==
  /\ procs' = ReapedProcs
  /\ live' = ReapedLive
  /\ pidOf' = [t \in Tids |-> IF t \in Reaped THEN 0 ELSE pidOf[t]]
  /\ UNCHANGED <<waitFor, inHand>>

ReapedPhase == [t \in Tids |-> IF t \in Reaped THEN "kernel" ELSE phase[t]]

\* The first empty slot of Scheduler.processes (a push when there is none).
FirstFree(p) == ~Present(p) /\ \A q \in Pids : q < p => Present(q)

\* (Mutant: an exiting process wakes nobody.)
ParentQueueNone == {}

\* The wait queue SYS_EXIT wakes: the parent's, if there is one.
ParentQueue == {p \in Pids : Present(p) /\ Present(Me) /\ p = procs[Me].ppid}

\* (Mutant: the children keep their parent.)
ReparentedNot(proc) == proc

\* SYS_EXIT gives a child of the exiting process to process 0.
Reparented(proc) == [proc EXCEPT !.ppid = 0]

----------------------------------------------------------------------------
(* Actions. *)

\* The boot code spawns the monitor thread, which belongs to process 0.
SpawnMonitor(t) ==
  /\ BootSpawn(t)
  /\ pidOf' = [pidOf EXCEPT ![t] = 0]
  /\ phase' = [phase EXCEPT ![t] = "exec"]
  /\ UNCHANGED <<waitFor, inHand, procs, live, cr3, bounds, habits>>

\* spawn_user_process fills a fresh address space pt, then, under the lock,
\* takes the first free pid and adds a thread that runs in it.
NewProcess(t, parent, pt) ==
  /\ Spawn(t)
  /\ \E p \in Pids :
       /\ FirstFree(p)
       /\ pidOf' = [pidOf EXCEPT ![t] = p]
       /\ procs' = [procs EXCEPT ![p] = [ppid |-> parent, zombie |-> FALSE, pt |-> pt]]
  /\ UNCHANGED <<waitFor, cr3, bounds, habits>>

\* spawn_from_vfs in the monitor thread, for dummy.elf and then for sh.elf.  It may
\* be preempted while it loads the program into a fresh address space.
ExecLoad(pt) ==
  /\ Running(current)
  /\ \/ phase[current] = "exec" /\ phase' = [phase EXCEPT ![current] = "load"]
     \/ phase[current] = "execShell" /\ phase' = [phase EXCEPT ![current] = "loadShell"]
  /\ pt \notin live
  /\ live' = live \cup {pt}
  /\ inHand' = [inHand EXCEPT ![current] = pt]
  /\ UNCHANGED <<schedVars, pidOf, waitFor, procs, cr3, bounds, habits>>

ExecInsert(t) ==
  /\ current # None /\ phase[current] \in {"load", "loadShell"}
  /\ NewProcess(t, 0, inHand[current])
  /\ inHand' = [inHand EXCEPT ![current] = KernelPT]
  /\ phase' = [phase EXCEPT ![current] = IF @ = "load" THEN "reap" ELSE "last",
                            ![t] = "user"]
  /\ UNCHANGED live

\* The file is not in the initramfs: spawn_from_vfs returns None, and the monitor
\* thread goes on as if it had started the program.
ExecMissing ==
  /\ Running(current)
  /\ \/ phase[current] = "exec" /\ phase' = [phase EXCEPT ![current] = "reap"]
     \/ phase[current] = "execShell" /\ phase' = [phase EXCEPT ![current] = "last"]
  /\ UNCHANGED <<schedVars, pidOf, waitFor, inHand, procs, live, cr3, bounds, habits>>

\* SYS_SPAWN, with interrupts masked throughout.
SysSpawn(t, pt) ==
  /\ current # None /\ phase[current] = "user"
  /\ Me # 0 \/ "heirs" \in habits
  /\ pt \notin live
  /\ NewProcess(t, Me, pt)
  /\ live' = live \cup {pt}
  /\ phase' = [phase EXCEPT ![t] = "user"]
  /\ UNCHANGED inHand

\* SYS_EXIT: become a zombie, give the children to process 0, wake the
\* parent, exit_thread.  (The children of a program with pid 0 are in fact the
\* shell and orphans, which it did not start.)
SysExit ==
  /\ current # None /\ phase[current] = "user"
  /\ "orphans" \in habits \/ Me = 0 \/ Children(AnyChild) = {}
  /\ Exit(ParentQueue)
  /\ procs' = [p \in Pids |->
       IF p = Me /\ Present(p) THEN [procs[p] EXCEPT !.zombie = TRUE]
       ELSE IF p \in Children(AnyChild) THEN Reparented(procs[p])
       ELSE procs[p]]
  /\ UNCHANGED <<pidOf, phase, waitFor, inHand, live, cr3, bounds, habits>>

\* The end of monitor_task: exit_thread in a kernel thread.
KernelExit ==
  /\ current # None /\ phase[current] = "last"
  /\ Exit({})
  /\ UNCHANGED procVars

\* SYS_READ of the console when no byte has arrived: sleep in the mailbox's queue.
SysReadSleep ==
  /\ current # None /\ phase[current] = "user"
  /\ BlockOn(Console)
  /\ UNCHANGED procVars

\* The keyboard or serial interrupt delivers a byte, whatever runs, and wakes the
\* oldest reader.
ConsoleInput ==
  /\ WakeOne(Console)
  /\ UNCHANGED procVars

\* One pass of the SYS_WAIT loop, for a call that has just been made.
\* (With no matching child it returns -ECHILD and changes nothing.)
SysWaitHarvest(w) ==
  /\ "waits" \in habits /\ Running(current) /\ phase[current] = "user"
  /\ \E c \in Zombies(w) :
       /\ \A d \in Zombies(w) : c <= d
       /\ procs' = [procs EXCEPT ![c] = NoProc]
       /\ live' = live \ {procs[c].pt}
  /\ UNCHANGED <<schedVars, pidOf, phase, waitFor, inHand, cr3, bounds, habits>>

\* The children are alive: sleep on the caller's own wait queue.
SysWaitSleep(w) ==
  /\ "waits" \in habits /\ current # None
  /\ \/ phase[current] = "user"
     \/ phase[current] = "wait" /\ waitFor[current] = w
  /\ Children(w) # {} /\ Zombies(w) = {} /\ Present(Me)
  /\ BlockOn(Me)
  /\ phase' = [phase EXCEPT ![current] = "wait"]
  /\ waitFor' = [waitFor EXCEPT ![current] = w]
  /\ UNCHANGED <<pidOf, inHand, procs, live, cr3, bounds, habits>>

\* A pass after a sleep: interrupts are enabled, so a zombie is taken from
\* the table in one step and its address space destroyed in a later one.
\* A pass that finds no child at all returns -ECHILD.
WokenScan ==
  /\ Running(current) /\ phase[current] = "wait"
  /\ LET w == waitFor[current]
         first == {c \in Zombies(w) : \A d \in Zombies(w) : c <= d}
     IN
     /\ Children(w) = {} \/ first # {}
     /\ procs' = [p \in Pids |-> IF p \in first THEN NoProc ELSE procs[p]]
     /\ inHand' = [inHand EXCEPT ![current] =
                      IF first = {} THEN @ ELSE procs[CHOOSE c \in first : TRUE].pt]
     /\ phase' = [phase EXCEPT ![current] =
                    IF first = {} THEN "user" ELSE "harvest"]
  /\ waitFor' = [waitFor EXCEPT ![current] = AnyChild]
  /\ UNCHANGED <<schedVars, pidOf, live, cr3, bounds, habits>>

\* destroy_user_address_space for the harvested child, then the return.
DestroyHarvested ==
  /\ Running(current) /\ phase[current] = "harvest"
  /\ live' = live \ {inHand[current]}
  /\ inHand' = [inHand EXCEPT ![current] = KernelPT]
  /\ phase' = [phase EXCEPT ![current] = "user"]
  /\ UNCHANGED <<schedVars, pidOf, waitFor, procs, cr3, bounds, habits>>

\* The monitor thread calls reap_zombies and, under the same lock, counts the
\* processes: it stays in its loop as long as there are two.
MonitorReap ==
  /\ current # None /\ phase[current] = "reap"
  /\ ReapZombies
  /\ ReapProcesses
  /\ LET left == {p \in Pids : ReapedProcs[p] # NoProc} IN
     phase' = [ReapedPhase EXCEPT ![current] =
                 IF \A p, q \in left : p = q THEN "execShell" ELSE @]
  /\ UNCHANGED <<cr3, bounds, habits>>

\* The pid schedule() compares with the next thread's: none before the
\* first switch.
PrevPid == IF current = None THEN AnyChild ELSE Me

\* (Mutant: no CR3 reload.)
SwitchAddressSpaceNoReload(next) ==
  /\ bounds' = pidOf[next]
  /\ cr3' = cr3

\* The address-space half of schedule().  The branch for an empty tree
\* returns the idle task before it reaches the CR3 reload.  The reload
\* expects the process to exist: otherwise the kernel panics, and there is
\* no step.
SwitchAddressSpace(next) ==
  LET p == pidOf[next]
      reload == next # Idle /\ PrevPid # p
  IN
  /\ reload => ReapedProcs[p] # NoProc
  /\ bounds' = IF ReapedProcs[p] # NoProc THEN p ELSE bounds
  /\ cr3' = IF reload THEN ReapedProcs[p].pt ELSE cr3

SwitchProcess(next) ==
  /\ ReapProcesses
  /\ phase' = ReapedPhase
  /\ SwitchAddressSpace(next)
  /\ UNCHANGED habits

\* int 0x20: the yield_now of the monitor's loop, or the switch after a primitive that
\* put the thread to sleep or to death.
ProcYield(next) ==
  /\ current # None => current \in yielding \/ phase[current] = "reap"
  /\ Yield(next)
  /\ SwitchProcess(next)

ProcTick(next) == Tick(next) /\ SwitchProcess(next)

----------------------------------------------------------------------------
(* The specification. *)

ProcInit ==
  /\ SchedInit
  /\ pidOf = [t \in Tids |-> 0]
  /\ phase = [t \in Tids |-> "kernel"]
  /\ waitFor = [t \in Tids |-> AnyChild]
  /\ inHand = [t \in Tids |-> KernelPT]
  /\ procs = [p \in Pids |-> IF p = 0
                THEN [ppid |-> 0, zombie |-> FALSE, pt |-> KernelPT]
                ELSE NoProc]
  /\ live = {KernelPT}
  /\ cr3 = KernelPT
  /\ bounds = 0
  /\ habits \in Habits

ProcNext ==
  \/ \E t \in Tids : SpawnMonitor(t)
  \/ \E pt \in PageTables : ExecLoad(pt)
  \/ \E t \in Tids : ExecInsert(t)
  \/ ExecMissing
  \/ \E t \in Tids, pt \in PageTables : SysSpawn(t, pt)
  \/ SysExit
  \/ KernelExit
  \/ SysReadSleep
  \/ ConsoleInput
  \/ \E w \in Pids \cup {AnyChild} : SysWaitHarvest(w)
  \/ \E w \in Pids \cup {AnyChild} : SysWaitSleep(w)
  \/ WokenScan
  \/ DestroyHarvested
  \/ MonitorReap
  \/ \E next \in Tids : ProcYield(next)
  \/ \E next \in Tids : ProcTick(next)

ProcSpec == ProcInit /\ [][ProcNext]_allVars

\* Timer interrupts keep coming.
ProcFairSpec ==
  /\ ProcSpec
  /\ WF_allVars(\E next \in Tids : ProcTick(next))

----------------------------------------------------------------------------
(* Properties. *)

\* A thread that can still run or be woken belongs to a process that exists
\* and has not exited, in an address space that is still allocated: what
\* schedule() expects of the thread it switches to.  It looks up no process for
\* the idle task, whose pid 0 is free, or a user program's, once the monitor
\* thread has exited.
RunnableHasProcess ==
  \A t \in Tids \ {Idle} : state[t] \in {"Ready", "Blocked"} =>
    /\ Present(pidOf[t])
    /\ ~procs[pidOf[t]].zombie
    /\ procs[pidOf[t]].pt \in live

\* A process that nobody can wait for any more (its parent is process 0) and
\* that has exited still has its dead thread in the arena: reap_zombies frees
\* such a process only when it removes that thread.
ExitedIsReclaimable ==
  \A p \in Pids : Present(p) /\ procs[p].zombie /\ procs[p].ppid = 0 =>
    \E t \in Tids : state[t] = "Zombie" /\ pidOf[t] = p

\* Among programs that wait for their children before they exit, every exited
\* process can still be freed.
WaitedIsReclaimable == "orphans" \notin habits => ExitedIsReclaimable

\* Every address space has one owner, which destroys it once: the processes,
\* the loads and the harvests in progress hold distinct page tables, and
\* these are the allocated ones.
OneOwner ==
  LET owners == {p \in Pids : Present(p)}
      holders == {t \in Tids : phase[t] \in Holding}
  IN
  /\ ProcTypeOK
  /\ \A p, q \in owners : procs[p].pt = procs[q].pt => p = q
  /\ \A t, u \in holders : inHand[t] = inHand[u] => t = u
  /\ \A p \in owners, t \in holders : procs[p].pt # inHand[t]
  /\ live = {procs[p].pt : p \in owners} \cup {inHand[t] : t \in holders}

\* The parent named by a process other than 0 exists and has not exited, so
\* somebody is left to wait for every child.
ParentAlive ==
  \A p \in Pids : Present(p) /\ procs[p].ppid # 0 =>
    Present(procs[p].ppid) /\ ~procs[procs[p].ppid].zombie

\* A parent asleep in SYS_WAIT has a child to wait for and no zombie it
\* should have returned: the exit of a child cannot slip between the scan of
\* the table and the sleep.  Only the process itself sleeps in its queue.
WaiterNotForgotten ==
  \A p \in Pids : \A t \in Waiters(p) :
    /\ pidOf[t] = p /\ Present(p)
    /\ \E c \in Pids : /\ Present(c) /\ procs[c].ppid = p
                       /\ waitFor[t] \in {AnyChild, c}
    /\ \A c \in Pids :
         Present(c) /\ procs[c].ppid = p /\ waitFor[t] \in {AnyChild, c} =>
           ~procs[c].zombie

\* Code that runs for a user process runs with that process in the page-fault
\* handler's snapshot CURRENT_BOUNDS and in that process's address space, unless
\* the process was given pid 0, which schedule() takes for the idle task's.
UserInOwnSpace ==
  current # None /\ phase[current] \in {"user", "wait", "harvest"}
                 /\ state[current] # "Zombie" =>
    /\ Present(Me) /\ bounds = Me
    /\ Me # 0 => cr3 = procs[Me].pt

----------------------------------------------------------------------------
(* What keeps them: an inductive invariant, for programs that either wait for   *)
(* their children or leave them behind, the exit of the monitor thread included. *)

Tame ==
  \A h \in Habits : "waits" \in h => "orphans" \notin h /\ "heirs" \notin h

Alive(t) == state[t] \in {"Ready", "Blocked"}

\* What a thread may be doing: the kernel's threads have pid 0, only user code and
\* the monitor exit, and only a thread inside SYS_WAIT sleeps in a process's queue.
Roles ==
  /\ \A t \in Tids :
       /\ phase[t] \in {"kernel"} \cup MonitorPhase => pidOf[t] = 0
       /\ phase[t] = "kernel" <=> t = Idle \/ state[t] = "Empty"
       /\ phase[t] \in MonitorPhase \ {"last"} => state[t] = "Ready"
       /\ phase[t] = "last" => state[t] \in {"Ready", "Zombie"}
       /\ phase[t] \in {"wait", "harvest"} => state[t] # "Zombie" /\ "waits" \in habits
  /\ \A p \in Pids : \A t \in Waiters(p) : phase[t] = "wait"
  /\ \A t \in Waiters(Console) : phase[t] = "user"

MonitorThere == current = None \/ \E t \in Tids : phase[t] \in MonitorPhase

\* Before the first switch, and as long as the monitor thread, of which there is one,
\* is in the arena, process 0 is as _start made it and no program has its pid.
KernelFirst ==
  MonitorThere =>
    /\ procs[0] = [ppid |-> 0, zombie |-> FALSE, pt |-> KernelPT]
    /\ \A t \in Tids : pidOf[t] = 0 => phase[t] \in {"kernel"} \cup MonitorPhase
    /\ \A t, u \in Tids : phase[t] \in MonitorPhase /\ phase[u] \in MonitorPhase => t = u

\* No process but 0 is its own parent.
Ancestry == \A p \in Pids \ {0} : Present(p) => procs[p].ppid # p

\* A pid names one thread that is alive, and one that is dead.
OneThread ==
  \A t, u \in Tids \ {Idle} :
    /\ pidOf[t] = pidOf[u]
    /\ \/ Alive(t) /\ Alive(u)
       \/ state[t] = "Zombie" /\ state[u] = "Zombie"
    => t = u

\* The process of a dead thread other than the monitor is a zombie, unless the user
\* thread on the CPU has waited for it since the last switch; the pid may then be
\* that of a new child of this thread, and of nobody else: the next switch reaps the
\* dead thread.
DeadProcess ==
  \A t \in Tids : state[t] = "Zombie" =>
    \/ phase[t] = "last"
    \/ Present(pidOf[t]) /\ procs[pidOf[t]].zombie
    \/ /\ t # current /\ current # None /\ phase[current] \in {"user", "wait", "harvest"}
       /\ "waits" \in habits
       /\ Present(pidOf[t]) => procs[pidOf[t]].ppid = Me /\ Me # 0

\* Every thread but the idle task and a program with pid 0 runs in its own address
\* space, the monitor too.
OwnSpace ==
  current \notin {None, Idle} /\ state[current] # "Zombie" =>
    /\ bounds = Me
    /\ Me # 0 \/ phase[current] \in MonitorPhase => cr3 = procs[Me].pt

\* Before the first switch nobody sleeps and nobody has exited; the idle task runs
\* only after the monitor thread has exited; the thread on the CPU is in the arena.
Quiet ==
  /\ current = None => \A t \in Tids : state[t] \in {"Empty", "Ready"}
  /\ current = Idle => \A t \in Tids : phase[t] \in MonitorPhase => state[t] = "Zombie"
  /\ current # None => state[current] # "Empty"

ProcInv ==
  /\ SchedInv
  /\ Roles
  /\ KernelFirst
  /\ Ancestry
  /\ OneThread
  /\ DeadProcess
  /\ RunnableHasProcess
  /\ OneOwner
  /\ ParentAlive
  /\ WaiterNotForgotten
  /\ OwnSpace
  /\ WaitedIsReclaimable
  /\ Quiet

----------------------------------------------------------------------------
(* What the code does not keep. *)

\* User code runs in its own address space whatever its pid is.
ZeroInOwnSpace ==
  current # None /\ phase[current] = "user" /\ state[current] # "Zombie" =>
    cr3 = procs[Me].pt

\* "On a context switch between threads belonging to different processes the
\* scheduler reloads CR3": whatever thread is current, the kernel's own
\* included, CR3 holds the page table of its process.
SwitchReloadsCr3 ==
  current # None /\ Present(Me) => cr3 = procs[Me].pt

\* Process 0, which children are reparented to and which the idle task
\* belongs to, is never reaped.
InitProcessAlive == Present(0) /\ procs[0].pt = KernelPT

\* A process of the kernel (parent 0) that exits is eventually reclaimed.
ExitedReclaimed ==
  \A p \in Pids :
    (Present(p) /\ procs[p].zombie /\ procs[p].ppid = 0) ~> ~Present(p)

=============================================================================
