----------------------------- MODULE Interrupts -----------------------------
(***************************************************************************)
(* The processor under the kernel: the interrupt flag, the GS base, the     *)
(* stacks the hardware switches to, and the spin locks.  The other modules  *)
(* take a section under a Locked guard for one step; this one executes the  *)
(* sections lock by lock, with the entry stubs instruction by instruction,  *)
(* and lets interrupts and page faults in wherever the hardware would.      *)
(*                                                                         *)
(* Covers Locked (src/mm/allocator.rs), syscall_entry_stub and the system   *)
(* calls (src/process/syscall.rs), timer_isr, schedule()'s stack switch and *)
(* exit_thread (src/process/process.rs), jump_to_user_space (gdt.rs), the   *)
(* handlers of src/interrupts/interrupt.rs, Semaphore::acquire and          *)
(* monitor_task.  What the sections compute is in the other modules, and    *)
(* so is the lock of an open file (Files).                                  *)
(***************************************************************************)
EXTENDS Integers, Sequences

CONSTANTS
  Users,         \* threads of user processes
  Monitor,       \* the thread of monitor_task
  Idle,          \* the idle task
  None,
  FreshBuffers   \* may SYS_WRITE be given a page that was never touched?

ASSUME InterruptsAssumption ==
  /\ Monitor # Idle /\ {Monitor, Idle} \cap Users = {}
  /\ None \notin Users \cup {Monitor, Idle}
  /\ FreshBuffers \in BOOLEAN

VARIABLES
  current,    \* Scheduler.current_task
  path,       \* the kernel code a thread is in, "user" for ring 3
  at,         \* the index of its next instruction
  sched,      \* Ready, asleep for a key or a child, dead
  intr,       \* RFLAGS.IF of the processor
  savedIF,    \* RFLAGS.IF in the ThreadContext of a thread that is switched out
  gs,         \* the GS base in use: PER_CPU_0 or the user's
  kernelRsp,  \* PER_CPU_0.kernel_rsp: whose kernel stack
  rsp0,       \* privilege_stack_table[0] of the TSS
  scratch,    \* PER_CPU_0.user_rsp_scratch: whose user stack
  held,       \* who holds each lock
  saved,      \* interrupts_were_enabled of the guard of each Locked
  halt        \* why the processor makes no progress any more, or "no"

cpuVars == <<intr, savedIF, gs, kernelRsp, rsp0, scratch>>
lockVars == <<held, saved>>
threadVars == <<current, path, at, sched>>
intVars == <<threadVars, cpuVars, lockVars, halt>>

Threads == Users \cup {Monitor, Idle}

LockedLocks ==
  {"SCHEDULER", "ALLOCATOR", "FRAME_ALLOCATOR", "SERIAL1", "WRITER", "QUEUE"}

SpinLocks == {"ROOT_FS", "wait_queue", "KEYBOARD", "LOCAL_APIC"}

Locks == LockedLocks \cup SpinLocks

----------------------------------------------------------------------------
(* The code, as sequences of instructions. *)

Do(i) == <<[op |-> i]>>

On(i, x) == <<[op |-> i, arg |-> x]>>

\* A section under a guard of Locked: lock(), and the two halves of drop().
Guarded(l, body) == On("lock", l) \o body \o On("release", l) \o On("restore", l)

\* A section under a spin::Mutex.
Spun(l, body) == On("spin", l) \o body \o On("unspin", l)

Frames == Guarded("FRAME_ALLOCATOR", <<>>)

\* The allocator: a small block may fault in a page of the kernel heap, a large one
\* comes from the frame allocator.
Heap == Guarded("ALLOCATOR", Do("touch") \o Frames)

SerialPrint(body) == Guarded("SERIAL1", body)

\* Mailbox::receive with Semaphore::acquire on a count that is positive ...
Receive == Do("cli") \o Spun("wait_queue", <<>>) \o Do("sti") \o Guarded("QUEUE", <<>>)

\* ... and the sleep on one that is 0: mark the thread, queue it, switch, and try again.
SleepForKey ==
  Do("cli") \o On("spin", "wait_queue") \o On("lock", "SCHEDULER") \o On("mark", "key")
  \o On("unspin", "wait_queue") \o On("release", "SCHEDULER") \o On("restore", "SCHEDULER")
  \o Do("sti") \o Do("yield")

\* The scan of SYS_WAIT that finds every child alive.
SleepForChild ==
  Guarded("SCHEDULER", On("mark", "child") \o Spun("wait_queue", <<>>))
  \o Do("sti") \o Do("yield")

\* spawn_from_vfs and spawn_user_process.
SpawnFromVfs ==
  Spun("ROOT_FS", Heap) \o Frames \o Heap \o Guarded("SCHEDULER", Heap \o Do("create"))

\* exit_thread.
ExitThread ==
  Guarded("SCHEDULER", On("mark", "dead") \o Spun("wait_queue", <<>>)) \o Do("yield")

\* rust_syscall_handler, by system call and outcome.  A call that fails early takes
\* the first of these locks only.
SystemCall ==
  [read     |-> Guarded("SCHEDULER", <<>>) \o Do("touch"),
   key      |-> Guarded("SCHEDULER", <<>>) \o Receive \o On("again", 4) \o Do("touch"),
   keySleep |-> Guarded("SCHEDULER", <<>>) \o SleepForKey \o On("again", 4)
                \o Receive \o On("again", 4) \o Do("touch"),
   write    |-> Guarded("SCHEDULER", <<>>) \o SerialPrint(Do("buffer"))
                \o Guarded("WRITER", <<>>),
   open     |-> Do("touch") \o Spun("ROOT_FS", Guarded("SCHEDULER", Heap)),
   close    |-> Guarded("SCHEDULER", Heap),
   spawn    |-> Do("touch") \o Guarded("SCHEDULER", <<>>) \o SpawnFromVfs,
   exit     |-> SerialPrint(<<>>) \o Guarded("SCHEDULER", Spun("wait_queue", Do("wakeParent")))
                \o ExitThread,
   wait     |-> Guarded("SCHEDULER", Heap) \o Frames \o Do("touch"),
   waitSleep |-> SleepForChild \o On("again", 1)
                \o Guarded("SCHEDULER", Heap) \o Frames \o Do("touch"),
   getdents |-> Spun("ROOT_FS", Do("touch")),
   brk      |-> Guarded("SCHEDULER", Frames),
   unknown  |-> SerialPrint(<<>>)]

\* syscall_entry_stub before and after the call of the handler.
Entry == Do("swapgs") \o Do("scratch") \o Do("stack")

Return == Do("swapgs") \o Do("return")

\* jump_to_user_space, the way of a new process to ring 3.
JumpToUserSpace == Do("swapgs") \o Do("return")

\* What a new process and monitor_task execute in the kernel.
KernelCode ==
  [trampoline   |-> JumpToUserSpace,
   monitorSpawn |-> SpawnFromVfs \o Do("next"),
   monitorReap  |-> Guarded("SCHEDULER", Heap \o Frames) \o Do("yield") \o Do("next"),
   monitorShell |-> SerialPrint(<<>>) \o SpawnFromVfs \o ExitThread]

Calls == DOMAIN SystemCall

Code == [p \in Calls \cup DOMAIN KernelCode |->
           IF p \in Calls THEN Entry \o SystemCall[p] \o Return ELSE KernelCode[p]]

----------------------------------------------------------------------------
(* The processor. *)

\* Threads outside the code above: in ring 3, halting, or between two turns.
Outside == {"user", "idle", "loop", "none"}

Running == halt = "no"

Ring3(t) == path[t] = "user"

\* The next instruction of the current thread is i.  exit_thread does not return: a
\* thread at the end of its code has none.
AtOp(i) ==
  /\ Running
  /\ path[current] \notin Outside
  /\ at[current] \in DOMAIN Code[path[current]]
  /\ Code[path[current]][at[current]].op = i

Arg == Code[path[current]][at[current]].arg

Advance == at' = [at EXCEPT ![current] = @ + 1]

Swapped(base) == IF base = "kernel" THEN "user" ELSE "kernel"

Busy(ls) == \E l \in ls : held[l] # None

Stop(why) == halt' = why /\ UNCHANGED <<threadVars, cpuVars, lockVars>>

\* The locks the interrupt handlers take; a handler that finds one taken spins
\* with interrupts disabled, on the only processor.
FaultLocks == {"SERIAL1", "FRAME_ALLOCATOR"}

SendLocks == {"QUEUE", "ALLOCATOR", "wait_queue", "SCHEDULER"} \cup FaultLocks

TimerLocks == SendLocks \cup {"LOCAL_APIC"}

KeyboardLocks == SendLocks \cup {"KEYBOARD", "LOCAL_APIC"}

----------------------------------------------------------------------------
(* Locks. *)

\* Locked::lock.
Lock ==
  /\ AtOp("lock")
  /\ IF held[Arg] # None THEN Stop("lock")
     ELSE /\ held' = [held EXCEPT ![Arg] = current]
          /\ saved' = [saved EXCEPT ![Arg] = intr]
          /\ intr' = FALSE
          /\ Advance
          /\ UNCHANGED <<current, path, sched, savedIF, gs, kernelRsp, rsp0, scratch, halt>>

\* spin::Mutex::lock.  With interrupts enabled the timer ends the spinning.
Spin ==
  /\ AtOp("spin")
  /\ IF held[Arg] = None
     THEN /\ held' = [held EXCEPT ![Arg] = current]
          /\ Advance
          /\ UNCHANGED <<current, path, sched, cpuVars, saved, halt>>
     ELSE ~intr /\ Stop("lock")

\* The drop of a spin::MutexGuard, in Drop for InterruptSafeGuard the first half.
Release ==
  /\ AtOp("release") \/ AtOp("unspin")
  /\ held' = [held EXCEPT ![Arg] = None]
  /\ Advance
  /\ UNCHANGED <<current, path, sched, cpuVars, saved, halt>>

\* (Mutant: every guard enables interrupts, not only the one that disabled them.)
RestoreAlways ==
  /\ AtOp("restore")
  /\ intr' = TRUE
  /\ Advance
  /\ UNCHANGED <<current, path, sched, savedIF, gs, kernelRsp, rsp0, scratch, lockVars, halt>>

\* Drop for InterruptSafeGuard, the second half.
Restore ==
  /\ AtOp("restore")
  /\ intr' = (intr \/ saved[Arg])
  /\ Advance
  /\ UNCHANGED <<current, path, sched, savedIF, gs, kernelRsp, rsp0, scratch, lockVars, halt>>

SetFlag ==
  /\ AtOp("cli") \/ AtOp("sti")
  /\ intr' = AtOp("sti")
  /\ Advance
  /\ UNCHANGED <<current, path, sched, savedIF, gs, kernelRsp, rsp0, scratch, lockVars, halt>>

\* An access to memory that may not be mapped yet.  page_fault_handler maps
\* the page and returns, unless it needs a lock that is taken.
Touch ==
  /\ AtOp("touch") \/ AtOp("buffer")
  /\ \E faults \in {FALSE, AtOp("touch") \/ FreshBuffers} :
       IF faults /\ Busy(FaultLocks) THEN Stop("lock")
       ELSE Advance /\ UNCHANGED <<current, path, sched, cpuVars, lockVars, halt>>

----------------------------------------------------------------------------
(* Entries and returns. *)

Swapgs ==
  /\ AtOp("swapgs")
  /\ gs' = Swapped(gs)
  /\ Advance
  /\ UNCHANGED <<current, path, sched, intr, savedIF, kernelRsp, rsp0, scratch, lockVars, halt>>

\* mov gs:[16], rsp.  With the user's GS base the store faults at an address
\* of nobody, and page_fault_handler halts.
SaveRsp ==
  /\ AtOp("scratch")
  /\ IF gs = "user" THEN Stop("gs")
     ELSE /\ scratch' = current
          /\ Advance
          /\ UNCHANGED <<current, path, sched, intr, savedIF, gs, kernelRsp, rsp0, lockVars, halt>>

\* mov rsp, gs:[8], and the pushes of the ThreadContext.
LoadRsp ==
  /\ AtOp("stack")
  /\ Advance
  /\ UNCHANGED <<current, path, sched, cpuVars, lockVars, halt>>

\* sysretq and iretq to ring 3.
ReturnToUser ==
  /\ AtOp("return")
  /\ path' = [path EXCEPT ![current] = "user"]
  /\ intr' = TRUE
  /\ UNCHANGED <<current, at, sched, savedIF, gs, kernelRsp, rsp0, scratch, lockVars, halt>>

\* The syscall instruction; SFMASK clears IF.
Syscall(p) ==
  /\ Running /\ Ring3(current)
  /\ path' = [path EXCEPT ![current] = p]
  /\ at' = [at EXCEPT ![current] = 1]
  /\ intr' = FALSE
  /\ UNCHANGED <<current, sched, savedIF, gs, kernelRsp, rsp0, scratch, lockVars, halt>>

\* A page fault in ring 3.  The handler does not use GS.
UserFault ==
  /\ Running /\ Ring3(current)
  /\ IF Busy(FaultLocks) THEN Stop("lock") ELSE UNCHANGED intVars

----------------------------------------------------------------------------
(* Switches. *)

\* The threads schedule() may pick: the ready ones, or the idle task.
Candidates(s) ==
  LET ready == {t \in Threads \ {Idle} : s[t] = "Ready"}
  IN IF ready = {} THEN {Idle} ELSE ready

\* (Mutant: RSP0 is not updated.)
StacksOfCpuOnly(t) == kernelRsp' = t /\ UNCHANGED rsp0

\* The stacks of the next thread.  The branch for the idle task leaves RSP0.
Stacks(t) ==
  /\ kernelRsp' = t
  /\ rsp0' = IF t = Idle THEN rsp0 ELSE t

\* (Mutant: swapgs on the way in only.)
SwappedOnEntry(t) == IF Ring3(current) THEN Swapped(gs) ELSE gs

\* The GS base after timer_isr has switched to t: a swapgs if it came from ring
\* 3, and one if it goes there.
GsAfterSwitch(t) == IF Ring3(current) = Ring3(t) THEN gs ELSE Swapped(gs)

\* The threads after a key was sent to the mailbox: it wakes at most one reader.
Sent == {[sched EXCEPT ![t] = "Ready"] : t \in {r \in Threads : sched[r] = "key"}}

\* timer_isr and rust_timer_handler, which may find a byte at the serial port.
SwitchTo(t) ==
  \E s \in {sched} \cup Sent :
    /\ t \in Candidates(s)
    /\ current' = t
    /\ sched' = s
    /\ intr' = IF t = current THEN intr ELSE savedIF[t]
    /\ savedIF' = [savedIF EXCEPT ![current] = intr]
    /\ gs' = GsAfterSwitch(t)
    /\ Stacks(t)
    /\ UNCHANGED <<path, scratch, lockVars, halt>>

\* The APIC timer.
Timer(t) ==
  /\ Running /\ intr
  /\ IF Busy(TimerLocks) THEN Stop("lock") ELSE SwitchTo(t) /\ UNCHANGED at

\* int 0x20, whatever IF is.
Yield(t) ==
  /\ AtOp("yield")
  /\ IF Busy(TimerLocks) THEN Stop("lock") ELSE SwitchTo(t) /\ Advance

\* keyboard_handler.  A scancode may complete no key.
Keyboard ==
  /\ Running /\ intr
  /\ IF Busy(KeyboardLocks) THEN Stop("lock")
     ELSE /\ sched' \in {sched} \cup Sent
          /\ UNCHANGED <<current, path, at, cpuVars, lockVars, halt>>

\* The current thread marks itself Blocked or Zombie.
Mark ==
  /\ AtOp("mark")
  /\ sched' = [sched EXCEPT ![current] = Arg]
  /\ Advance
  /\ UNCHANGED <<current, path, cpuVars, lockVars, halt>>

\* wake_all on the wait queue of the parent.
WakeParent ==
  /\ AtOp("wakeParent")
  /\ \E ts \in SUBSET {t \in Threads : sched[t] = "child"} :
       sched' = [t \in Threads |-> IF t \in ts THEN "Ready" ELSE sched[t]]
  /\ Advance
  /\ UNCHANGED <<current, path, cpuVars, lockVars, halt>>

\* A woken thread finds what it waited for, or goes back to sleep.
Again ==
  /\ AtOp("again")
  /\ \/ Advance
     \/ at' = [at EXCEPT ![current] = Len(Entry) + Arg]
  /\ UNCHANGED <<current, path, sched, cpuVars, lockVars, halt>>

\* add_task for the thread of a new process; its context has IF set.  Without
\* a free slot the spawn fails.
Create ==
  /\ AtOp("create")
  /\ LET free == {t \in Users \ {current} : sched[t] = "dead"}
     IN IF free = {} THEN Advance /\ UNCHANGED <<path, sched, savedIF>>
        ELSE \E t \in free :
               /\ path' = [path EXCEPT ![t] = "trampoline"]
               /\ at' = [at EXCEPT ![t] = 1, ![current] = @ + 1]
               /\ sched' = [sched EXCEPT ![t] = "Ready"]
               /\ savedIF' = [savedIF EXCEPT ![t] = TRUE]
  /\ UNCHANGED <<current, intr, gs, kernelRsp, rsp0, scratch, lockVars, halt>>

----------------------------------------------------------------------------
(* monitor_task. *)

\* (Mutant: the shell is started while other programs run.)
MonitorPathAny(p) == p \in {"monitorReap", "monitorShell"}

\* The loop of monitor_task: reap and yield while there is a process, then
\* start the shell and exit.
MonitorPath(p) ==
  p = IF \E t \in Users : sched[t] # "dead" THEN "monitorReap" ELSE "monitorShell"

MonitorTurn(p) ==
  /\ Running /\ current = Monitor /\ path[current] = "loop"
  /\ MonitorPath(p)
  /\ path' = [path EXCEPT ![current] = p]
  /\ at' = [at EXCEPT ![current] = 1]
  /\ UNCHANGED <<current, sched, cpuVars, lockVars, halt>>

MonitorNext ==
  /\ AtOp("next")
  /\ path' = [path EXCEPT ![current] = "loop"]
  /\ UNCHANGED <<current, at, sched, cpuVars, lockVars, halt>>

----------------------------------------------------------------------------
(* The specification. *)

\* The monitor thread has just been switched to; it starts the first program.
IntInit ==
  /\ current = Monitor
  /\ path = [t \in Threads |->
       IF t = Idle THEN "idle" ELSE IF t = Monitor THEN "monitorSpawn" ELSE "none"]
  /\ at = [t \in Threads |-> 1]
  /\ sched = [t \in Threads |-> IF t \in Users THEN "dead" ELSE "Ready"]
  /\ intr = TRUE
  /\ savedIF = [t \in Threads |-> TRUE]
  /\ gs = "kernel"
  /\ kernelRsp = Monitor
  /\ rsp0 = Monitor
  /\ scratch = None
  /\ held = [l \in Locks |-> None]
  /\ saved = [l \in LockedLocks |-> FALSE]
  /\ halt = "no"

IntNext ==
  \/ Lock
  \/ Spin
  \/ Release
  \/ Restore
  \/ SetFlag
  \/ Touch
  \/ Swapgs
  \/ SaveRsp
  \/ LoadRsp
  \/ ReturnToUser
  \/ \E p \in Calls : Syscall(p)
  \/ UserFault
  \/ \E t \in Threads : Timer(t)
  \/ \E t \in Threads : Yield(t)
  \/ Keyboard
  \/ Mark
  \/ WakeParent
  \/ Again
  \/ Create
  \/ \E p \in DOMAIN KernelCode : MonitorTurn(p)
  \/ MonitorNext

IntSpec == IntInit /\ [][IntNext]_intVars

(***************************************************************************)
(* Properties.                                                             *)
(***************************************************************************)

\* The processor never spins on a lock nobody can release: no section that
\* holds a lock a handler needs is interrupted, faults, or yields, and the
\* spin locks that are shared with preemptible code (ROOT_FS) are free when a
\* system call takes them with interrupts disabled.
NeverSpins == halt # "lock"

\* A section under a Locked guard runs alone: its thread is the current one and
\* interrupts are disabled from lock() to the end of the guard, also where
\* guards nest and where a system call has enabled interrupts after a sleep.
\* This is what lets the other modules take such a section for one step.
LockedIsAtomic == \A l \in LockedLocks : held[l] # None => held[l] = current /\ ~intr

\* The GS base the current thread should see: the user's in ring 3 and between
\* the boundary and the stubs' swapgs, the kernel's elsewhere.
GsDue ==
  LET p == path[current]
      i == at[current]
  IN IF \/ p = "user"
        \/ p \in Calls /\ i = 1
        \/ p \notin Outside /\ Code[p][i].op = "return"
     THEN "user" ELSE "kernel"

\* The instruction between the swapgs of a return to ring 3 and the return.
InReturn == AtOp("return")

\* The GS base agrees with where the current thread is, and one thing only can
\* end that: a timer interrupt between swapgs and sysretq or iretq, in a
\* system call that slept or in a new process, or the switch back to a thread
\* interrupted there.  timer_isr decides by the ring whether to swap, so every
\* other switch keeps the agreement.
GsLostOnlyInReturn ==
  [][gs = GsDue /\ gs' # GsDue' => InReturn \/ InReturn']_intVars

\* Entries to the kernel find the stacks of the current thread: in ring 3 both
\* the stack of the syscall stub and RSP0 are the current thread's, and the
\* stub reads back the user stack pointer it saved.
OwnStack ==
  /\ Ring3(current) => kernelRsp = current /\ rsp0 = current
  /\ (Running /\ path[current] \in Calls /\ at[current] = Len(Entry)) => scratch = current

\* The stub of a system call never stores through the user's GS base.  The code
\* does not keep this: IF is set between swapgs and the return of a system call
\* that slept, and of a new process.
EntryHasKernelGs == halt # "gs"

----------------------------------------------------------------------------
(* What keeps the stacks: an inductive invariant. *)

\* A thread that is in the entry stub is the current one, with interrupts disabled.
InStub(t) == path[t] \in Calls /\ at[t] <= Len(Entry)

\* The stacks are the current thread's, except RSP0 in the idle task, which never leaves
\* the kernel.  Nothing comes between the instructions of the entry stub.
StackInv ==
  /\ current \in Threads
  /\ path \in [Threads -> Outside \cup DOMAIN Code]
  /\ at \in [Threads -> Nat \ {0}]
  /\ path[Idle] = "idle"
  /\ kernelRsp = current
  /\ current # Idle => rsp0 = current
  /\ \A t \in Threads : InStub(t) => t = current /\ ~intr
  /\ InStub(current) /\ at[current] = Len(Entry) => scratch = current

----------------------------------------------------------------------------
(* What keeps the locks: the discipline of the code, and an inductive invariant. *)

\* The code of p has an instruction of ops on lock l at place i.
Does(p, i, ops, l) == Code[p][i].op \in ops /\ Code[p][i].arg = l

\* The locks that are taken before place i of p and not given back since.
Pending(p, i, takes, gives) ==
  {l \in Locks :
     p \in DOMAIN Code /\ \E j \in 1..(i - 1) :
       Does(p, j, takes, l) /\ \A k \in (j + 1)..(i - 1) : ~Does(p, k, gives, l)}

\* The locks that are held at place i of p.
OwnAt(p, i) == Pending(p, i, {"lock", "spin"}, {"release", "unspin"})

\* The guards of Locked that exist there: taken, and not dropped to the end.
GuardsAt(p, i) == Pending(p, i, {"lock"}, {"restore"})

\* Interrupts are disabled by something other than a guard: since the system call, or by cli.
DisabledAt(p, i) ==
  p \in DOMAIN Code /\
    LET opens == {"sti", "yield"}
        loops == \E j \in DOMAIN Code[p] : Code[p][j].op = "again"
    IN \/ /\ p \in Calls
          /\ \A j \in DOMAIN Code[p] : j < i \/ loops => Code[p][j].op \notin opens
       \/ \E j \in 1..(i - 1) :
            Code[p][j].op = "cli" /\ \A k \in j..(i - 1) : Code[p][k].op \notin opens

\* The guards that may have been taken with interrupts enabled: the outermost ones.
MayEnableAt(p, i) ==
  {l \in GuardsAt(p, i) :
     \E j \in 1..(i - 1) :
       /\ Does(p, j, {"lock"}, l) /\ GuardsAt(p, j) = {} /\ ~DisabledAt(p, j)
       /\ \A k \in (j + 1)..(i - 1) : ~Does(p, k, {"restore"}, l)}

\* Interrupts are disabled at place i of p.
ShutAt(p, i) == DisabledAt(p, i) \/ GuardsAt(p, i) # {}

\* The paths on which the monitor thread starts a program.
Starting == {"monitorSpawn", "monitorShell"}

\* The monitor thread is starting a program, and there is no other.
AloneAt(p, i) ==
  /\ p \in Starting
  /\ \A j \in 1..(i - 1) : Code[p][j].op # "create"

\* A lock that a handler takes is held with interrupts disabled only, and ROOT_FS so or
\* while no other program exists.
PlaceOK(p, i) ==
  /\ OwnAt(p, i) \cap LockedLocks \subseteq GuardsAt(p, i)
  /\ {"KEYBOARD", "LOCAL_APIC"} \cap OwnAt(p, i) = {}
  /\ "wait_queue" \in OwnAt(p, i) => ShutAt(p, i)
  /\ "ROOT_FS" \in OwnAt(p, i) => ShutAt(p, i) \/ AloneAt(p, i)

\* Nothing is held at place i of p.
FreeAt(p, i) == OwnAt(p, i) = {} /\ GuardsAt(p, i) = {}

\* The guards are the same at places i and n.
SameGuards(p, i, n) ==
  /\ GuardsAt(p, n) = GuardsAt(p, i)
  /\ MayEnableAt(p, n) = MayEnableAt(p, i)

\* So is whether interrupts are disabled.
SameFlags(p, i, n) == SameGuards(p, i, n) /\ (DisabledAt(p, n) <=> DisabledAt(p, i))

\* What the code does with each instruction.  A lock is not taken twice; the guard that
\* may enable interrupts is the last to go; nothing is held in a yield, where a thread
\* goes back, and where it leaves the kernel; and no lock of the fault handler is held
\* where memory is touched.
InstructionOK(p, i) ==
  LET op == Code[p][i].op
      l == Code[p][i].arg
  IN /\ op = "lock" =>
          /\ l \in LockedLocks \ OwnAt(p, i)
          /\ OwnAt(p, i + 1) = OwnAt(p, i) \cup {l}
          /\ GuardsAt(p, i + 1) = GuardsAt(p, i) \cup {l}
          /\ MayEnableAt(p, i + 1) =
               MayEnableAt(p, i) \cup (IF ShutAt(p, i) THEN {} ELSE {l})
     /\ op = "spin" =>
          /\ l \in SpinLocks \ OwnAt(p, i)
          /\ OwnAt(p, i + 1) = OwnAt(p, i) \cup {l} /\ SameFlags(p, i, i + 1)
     /\ op \in {"release", "unspin"} =>
          l \in Locks /\ OwnAt(p, i + 1) = OwnAt(p, i) \ {l} /\ SameFlags(p, i, i + 1)
     /\ op = "restore" =>
          /\ l \in GuardsAt(p, i)
          /\ OwnAt(p, i + 1) = OwnAt(p, i)
          /\ GuardsAt(p, i + 1) = GuardsAt(p, i) \ {l}
          /\ MayEnableAt(p, i + 1) = MayEnableAt(p, i) \ {l}
          /\ l \in MayEnableAt(p, i) => ~ShutAt(p, i + 1)
     /\ op = "mark" => l \in {"key", "child", "dead"}
     /\ op = "cli" => OwnAt(p, i + 1) = OwnAt(p, i) /\ SameGuards(p, i, i + 1)
     /\ op = "sti" =>
          /\ OwnAt(p, i + 1) = OwnAt(p, i) /\ SameGuards(p, i, i + 1)
          /\ ~ShutAt(p, i + 1)
     /\ op = "touch" => OwnAt(p, i) \cap FaultLocks = {}
     /\ op = "yield" => FreeAt(p, i) /\ FreeAt(p, i + 1) /\ ~ShutAt(p, i + 1)
     /\ op = "again" =>
          p \in Calls /\ \A n \in {i + 1, Len(Entry) + l} :
            n <= Len(Code[p]) /\ FreeAt(p, i) /\ FreeAt(p, n) /\ ~ShutAt(p, n)
     /\ op \in {"return", "next"} => FreeAt(p, i)
     /\ op \in {"touch", "buffer", "swapgs", "scratch", "stack", "mark", "wakeParent", "create"} =>
          OwnAt(p, i + 1) = OwnAt(p, i) /\ SameFlags(p, i, i + 1)

\* The GS base that is due at place i of p.
GsAt(p, i) == IF (p \in Calls /\ i = 1) \/ Code[p][i].op = "return" THEN "user" ELSE "kernel"

\* The thread has marked itself dead before place i of p.
ExitedAt(p, i) == \E j \in 1..(i - 1) : Does(p, j, {"mark"}, "dead")

\* A swapgs is where the GS base that is due changes; the code ends after a return to
\* ring 3, at the end of a turn, or in the yield of a thread that is dead.
BalancedOK(p, i) ==
  LET op == Code[p][i].op
      goes(n) == n \in DOMAIN Code[p] /\ (ExitedAt(p, n) => ExitedAt(p, i))
      stays(n) == goes(n) /\ GsAt(p, n) = GsAt(p, i)
  IN /\ op = "swapgs" => goes(i + 1) /\ GsAt(p, i + 1) # GsAt(p, i)
     /\ op = "again" => \A n \in {i + 1, Len(Entry) + Code[p][i].arg} : stays(n)
     /\ op = "yield" => stays(i + 1) \/ ExitedAt(p, i)
     /\ op = "mark" =>
          /\ ~ExitedAt(p, i) /\ i + 1 \in DOMAIN Code[p] /\ GsAt(p, i + 1) = GsAt(p, i)
          /\ ExitedAt(p, i + 1) => Code[p][i].arg = "dead"
     /\ op \notin {"swapgs", "again", "yield", "mark", "return", "next"} => stays(i + 1)

\* The code keeps its discipline.  This does not depend on the threads.
Disciplined ==
  \A p \in DOMAIN Code :
    /\ FreeAt(p, 1) /\ (DisabledAt(p, 1) => p \in Calls)
    /\ \A i \in 1..(Len(Code[p]) + 1) : PlaceOK(p, i)
    /\ \A i \in DOMAIN Code[p] : InstructionOK(p, i) /\ BalancedOK(p, i)
    /\ 1 \in DOMAIN Code[p] /\ (p \notin Calls => GsAt(p, 1) = "kernel")

\* What holds of the locks in every state.  Where the code has interrupts disabled they
\* are, and the thread is the current one; a guard that must not enable them will not; a
\* lock is held where the code of its holder says so; and while the monitor thread is
\* starting a program from preemptible code, no other thread uses the file system.
LockInv ==
  /\ held \in [Locks -> Threads \cup {None}]
  /\ saved \in [LockedLocks -> BOOLEAN]
  /\ intr \in BOOLEAN /\ savedIF \in [Threads -> BOOLEAN]
  /\ sched \in [Threads -> {"Ready", "key", "child", "dead"}]
  /\ \A t \in Threads : path[t] \in DOMAIN Code => at[t] <= Len(Code[path[t]]) + 1
  /\ \A t \in Threads : ShutAt(path[t], at[t]) => t = current /\ ~intr
  /\ \A l \in GuardsAt(path[current], at[current]) :
       l \notin MayEnableAt(path[current], at[current]) => ~saved[l]
  /\ \A l \in Locks : held[l] # None => l \in OwnAt(path[held[l]], at[held[l]])
  /\ \A t \in Users : path[t] \notin Starting
  /\ AloneAt(path[Monitor], at[Monitor]) =>
       current \notin Users /\ \A t \in Users : sched[t] = "dead"

\* Where the threads are: one that can be switched to is in its code, and one that has
\* marked itself dead stays so.
PlaceInv ==
  \A t \in Threads : path[t] \in DOMAIN Code =>
    /\ at[t] \in DOMAIN Code[path[t]] \/ (sched[t] = "dead" /\ t # current)
    /\ ExitedAt(path[t], at[t]) => sched[t] = "dead"

=============================================================================
