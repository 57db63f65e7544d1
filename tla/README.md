# A TLA+ model of kernel-r

kernel-r is a single-core x86-64 kernel in Rust, with its run queue in C. These
modules model its core: threads, processes, synchronisation, memory, files, the way
from the boot loader to a running kernel, and the interrupts and locks underneath.
TLC checks them on small instances. TLAPS proves the central invariants of the
scheduler, its thread arena, the process table, the mutex, the mailbox, the open files,
the kernel stacks and the locks for every size. Paths below are relative to `src/src/`.
`PROJECT.json` maps every definition to the lines it models.

## The system

| Part | State | Operations | Interacts with |
|---|---|---|---|
| Scheduler (`process/process.rs`) | threads, ready tree, current thread, graveyard, join queues | `add_task`, `schedule`, `wake_task`, `join`, `exit_thread`, `reap_zombies` | everything that sleeps; the timer |
| Thread arena (`process/process.rs`) | slots, free list | `insert`, `remove` | the scheduler |
| Policy (`process/process.rs`) | runtimes, keys, the virtual clock | `update_deadline`, `Thread::new`, the charge in `schedule` | the ready tree |
| Ready tree (`rbtree.c`) | links, colours, vruntimes, deadlines | insert, remove, EEVDF pick | the scheduler |
| Processes (`process/process.rs`, `process/syscall.rs`, `lib.rs`) | process table, parents, zombies, CR3, `CURRENT_BOUNDS` | `spawn_user_process`, SYS_SPAWN, SYS_EXIT, SYS_WAIT, `monitor_task` | scheduler, address spaces |
| Mutex, semaphore, mailbox (`sync/sync.rs`, `sync/ipc.rs`) | lock word or count, wait queue, messages | `lock`, guard drop, `acquire`, `release`, `send`, `receive` | scheduler, interrupt handlers |
| Boot (`lib.rs`, `boot/boot_info.rs`, `mm/memory.rs`) | tags, reserved ranges, bump pointer, ACPI tables | `TagIterator`, `reserve_region`, frame allocation, `init_physical_memory`, the walk through the MADT | buddy allocator |
| Buddy allocator (`mm/buddy.rs`) | free lists, bitmap | `add_free_region`, `alloc`, `free` | heap, page tables |
| Kernel heap (`mm/slab.rs`, `mm/allocator.rs`) | slab lists, window pointer | `alloc`, `dealloc` | buddy allocator, page faults |
| Address spaces (`mm/paging.rs`, `interrupts/interrupt.rs`, `process/syscall.rs`) | page tables, break | `map_to`, `unmap`, create, destroy, `sys_brk`, page fault | frames, processes |
| Files (`fs/`, `process/syscall.rs`, `sh.c`) | the archive, descriptor tables, offsets, locks | `parse_tarball`, SYS_OPEN, SYS_CLOSE, SYS_READ, SYS_WRITE | mailbox of the keyboard, processes |
| Interrupts and locks (`mm/allocator.rs`, `process/syscall.rs`, `process/process.rs`, `interrupts/interrupt.rs`, `arch/x86_64/`) | interrupt flag, GS base, kernel stacks, spin locks | `Locked::lock` and its guard, the entry stubs, the handlers | everything |

What is hard here comes from interrupts. A section with interrupts disabled is
atomic on the one core; between two such sections the timer may switch to any
thread. A sleeping call is several sections. `Semaphore::acquire` and SYS_WAIT
enable interrupts whatever they were before, so a system call that began with
interrupts disabled goes on without that protection once it has slept. Processes
and their threads are freed at different times and by different callers, and
memory operations can fail half-way.

What makes each part correct: a runnable thread is in the tree exactly once and a
sleeping one in one queue; a lock has one holder and no wake-up is lost; a process
outlives its runnable threads and its address space is destroyed once; every frame
has one owner through every failure; a call never spins on a lock whose holder
sleeps; a handler never meets a lock that the code it interrupted holds.

## Modules

| Module | Models | Notes |
|---|---|---|
| `Scheduler` | thread life cycle, wait queues, switch | the tree is a set and the pick is left open, so its properties hold for every policy |
| `ThreadArena`, `ArenaScheduler` | the arena; the scheduler with the arena it lives in | a slot holds `Occupied` or the next free slot |
| `SlotPool` | what the arena promises | an abstract specification: identifiers are taken and given back |
| `Eevdf` | the EEVDF and BORE arithmetic, over `RBTree` | times are scaled down, widths are a parameter |
| `Processes` | process table over `Scheduler`, and `monitor_task` step by step to its exit | each action is a `Scheduler` action and its process half; a read of the console is a sleep in the queue `Console` that an interrupt ends |
| `SleepMutex`, `Mailbox`, `Sync` | `Mutex<T>`; `Semaphore` and `Mailbox<T>`; both in the same threads | one step per section with interrupts disabled |
| `RBTree` | `rbtree.c`, link by link | left and right cases share one definition |
| `Buddy` | the buddy allocator | a free list is a sequence, the bitmap a set of bit indices |
| `BootInfo`, `BootMemory` | what the boot loader and the firmware pass, and how it is read; boot-time memory and the MADT, over `Buddy` | memory is a sequence of 4-byte words; addresses keep fractions of a page |
| `Heap` | slab and heap, over `Buddy` | block sizes are the kernel's |
| `AddressSpace` | page tables, loading, `sys_brk`, page faults | a table is a function from places to frames |
| `Initramfs`, `Files` | the tar archive and its parser; descriptors and the console | the archive is a sequence of bytes; the shell's spawn-then-wait is one action, `Exec` |
| `Interrupts` | `Locked`, the stubs, the handlers | a system call is a sequence of lock, memory and processor operations; what it computes is in the other modules |
| `SchedulerProofs`, `ArenaProofs`, `SyncProofs`, `ProcessStepProofs`, `ProcessesProofs`, `FilesProofs`, `InterruptsProofs`, `LockProofs` | the theorems | `SyncProofs` has those of `SleepMutex` and `Mailbox` too; `ProcessesProofs` continues `ProcessStepProofs`, and `LockProofs` continues `InterruptsProofs` |
| `MC*` | instances for TLC | |

Operators whose name extends another's and whose comment says "(Mutant: ...)" are
plausible bugs of the definition that follows them. No specification uses them.
Each shows that a property can fail.

Choices a reader should know:

- A call that fails without changing anything is not a step.
- A panic is "no step": `expect` in `schedule` (`Processes`), a page fault with no
  frame left while the heap refills (`Heap`). `AddressSpace` and `BootMemory`
  record a panic in a variable instead.
- `Scheduler` by itself reuses any empty arena slot. In `ArenaScheduler`, which the run
  checks, the free list picks it.
- `Interrupts` keeps the locks a call takes and their order. A call that fails early
  takes the first of them only. The lock of an open file is in `Files`.
- `Eevdf` has its own `Switch`, with the charge, the requeue and the pick of
  `schedule()`. Before the first switch `current_task` is None and nothing is charged.
- A 64-bit field of a memory map entry is one word in `BootInfo`. Of a tar header
  `Initramfs` keeps the name and the size.
- `Tick` is `schedule()` only. The serial poll of the timer handler is an `IsrSend`
  of `Mailbox`.
- In `SleepMutex` a thread uses one mutex at a time.
- In `Processes` the monitor thread always exits, as in the code. Process 0 is then reaped,
  and pid 0 is the next program's. `RunnableHasProcess` is about the threads other than the
  idle task, for which `schedule()` looks up no process.
- In `Processes` the wait queue of a removed process is not cleared. It is empty
  then, because only the process itself sleeps there (`WaiterNotForgotten`).
- In `Buddy` the bits of the largest order are toggled by `alloc` and not by
  `free`, as in the code. Nothing reads them, and `BitsTell` leaves them out.
- `Coalesced` is about regions that do not split a pair of free buddies.
- The page that `spawn_user_process` maps at 0x8000_0000 lies past the stack. The
  stack itself is mapped by page faults.
- `BitmapFrames` of `BootMemory` is a parameter: a page of bitmap covers 256 MiB.

## Runs

`tlc -config X.cfg MCmodule`. Deadlock is checked except in `address_space`,
`boot_memory` and `interrupts`, where the kernel may panic or halt or booting ends, and
in `eevdf`, whose runtimes are bounded.

| Run | Instance | Checks |
|---|---|---|
| `scheduler` | idle, 3 threads, 2 wait queues | the inductive invariant `SchedInv` (tree, queues, graveyard, stacks); the arena holds exactly the live threads and its free list is exact (`ArenaExact`); the arena implements `SlotPool` (`PoolSpec`); `join` ends at exit; exited threads are reaped (liveness) |
| `processes` | idle, 3 threads, pids 0..3, 4 page tables | the monitor thread and its exit; programs that wait for their children, and programs that exit first and never wait: a runnable thread has its process, an address space has one owner, a waiter misses no zombie, parents are alive, user code runs in its own space |
| `process_reclaim` | idle, 3 threads, pids 0..2, 3 page tables | exited children of process 0 are reclaimed (liveness), before and after the exit of the monitor thread |
| `pid_reuse` | idle, 4 threads, pids 0..3 | programs that wait for children, one of them under pid 0: `RunnableHasProcess` is violated |
| `sync` | 3 threads, 2 mutexes, a mailbox of at most 3 messages | both primitives keep their invariants side by side (`SyncInv`); exclusion; no lost wake-up although others barge in between the steps of a release or a send; `receive` never finds the queue empty |
| `rbtree` | 6 nodes, 2 vruntimes, 2 deadlines | links, order and balance after every insertion and removal; the pick finds an eligible thread if there is one |
| `eevdf` | 3 threads, 7 ticks each | `FairPick`: no runnable thread is passed over once it is further behind than one virtual slice or the first deadline; `KeysFresh`: the tree's keys are the threads' |
| `boot_memory` | 11 pages of 2 units; 1 to 5 modules; 4 ACPI tables, 2 MADTs | neither allocator owns memory in use; no whole free page is lost; the walk through the MADT ends (liveness) |
| `heap` | 2 regions of a 16-frame space, 2 heap pages, 3 blocks held | frames conserved, bitmap and lists agree and buddies are merged (`MergeExact`), heap blocks fit, are apart and return to their class |
| `address_space` | 2 spaces, 19 frames, tables of 2 entries | frames conserved through failures, tables reachable, the heap mapped exactly to the break |
| `files` | 3 processes, 3 open files, 2 archives in blocks of 4 bytes | reads return the member's bytes, locks held exactly during a read, no call spins on a sleeping reader's lock |
| `interrupts` | 2 user threads, the monitor, idle; 13 paths of a system call | no handler meets a taken lock, guarded sections are atomic, entries from ring 3 find their own stacks, the GS base is lost only between `swapgs` and the return |

**Why the bounds are enough.** Three threads give a holder, a sleeper and a third
that barges in. In `processes` they are the monitor or a program that has taken its pid,
a parent, and a child that is alive or dead with its slot not yet reused; with a fourth
thread, which takes 18 minutes, TLC finds no violation either. Five nodes are the smallest tree
in which a removal meets a red sibling with two black children, and six the smallest
in which a removal below a red parent meets a red far nephew. Three threads in `eevdf`
give a tree with a choice. The modules of `boot_memory` overflow the table of reserved
ranges, and tags need padding. Two user threads in `interrupts` are a caller and one that
is switched in. The frames run out in `heap` and `address_space`, so the failure paths
are taken. `MaxOffset` caps only the console's offset, which nothing reads. `MaxLen`,
`MaxKeys`, `MaxHeld`, `MaxBlocks`, `MaxRuntime`, `MaxClock` and `MaxWeight` bound what
the code leaves unbounded.

**Symmetry** is used on threads, page tables, mutexes, processes and files where no
action distinguishes them, and never with liveness. `address_space` uses a VIEW that
forgets which frame is where; no action looks at a frame's number. The VIEW of
`rbtree` forgets the names of the nodes, and the vruntime and deadline of a node
outside the tree, which `AddTask` and `Requeue` choose anew. Those of `eevdf` and `files`
forget the fields of threads that are gone and of files nobody refers to.

**Fairness** is weak fairness of the timer tick. The APIC timer is periodic, and
in these modules every section with interrupts disabled ends. (A panic, or a spin
on a lock whose holder sleeps, would stop the tick: the first is no step here, the
second is what `NoSpin` excludes for the files and `NeverSpins` for the rest.)
`boot_memory` assumes that `_start`, the only thread, with interrupts disabled, goes on
with its loop; `MCBoot.cfg` assumes that the boot code goes on.

**Assumptions about programs** (`Habits`). In `processes` either all programs wait for
their children, as `sh.c` and `dummy.c` do ("waits"), or they may exit first and none
waits ("orphans"). A program that was given pid 0 after the monitor thread's exit starts
children only in the second case ("heirs"); in `pid_reuse` programs wait and it does too.
In `process_reclaim` they wait. No assumption is made about the monitor thread. `interrupts`
has `FreshBuffers = FALSE`: the buffer of a console write was touched before. `files`
lets a program start a child only by spawning it and then waiting for it, as `cmd_exec`
of `sh.c` does. A parent that went on would spin on the console's lock while its child
reads (this is the mutant of `NoSpin`).

## Where code and documentation disagree

`pid_reuse`: SYS_WAIT frees a pid while the dead thread that carries it is in the
graveyard. A new process may take the pid, and if its parent is 0 by the time the thread
is reaped, `reap_zombies` removes it. In the run the parent is a program that was given
pid 0; a program that leaves its children to process 0 and waits for others does the same
(`MCInit.cfg`, with this property). `schedule()` expects the process of the next thread to
exist.

Further configurations each violate one property. They are not among the runs. Where a
run's configuration serves, with this property in place of its own, the table names that:

| Configuration | Property | What happens |
|---|---|---|
| `MCBoot.cfg`, MCScheduler | `BootHandoff` | a tick between enabling interrupts and spawning the monitor thread drops the boot context (`lib.rs:572`) |
| `MCInit.cfg`, MCProcesses | `ExitedIsReclaimable` | a zombie whose thread is already reaped is reparented to process 0, which never waits (`syscall.rs:468`) |
| `MCInit.cfg`, MCProcesses | `InitProcessAlive` | the monitor thread's exit makes `reap_zombies` take process 0 (`lib.rs:675`) |
| `MCProcesses.cfg`, MCProcesses | `ZeroInOwnSpace` | a program with pid 0 that runs after the idle task gets no CR3 of its own: `schedule()` compares pids (`process.rs:491`) |
| `MCProcesses.cfg`, MCProcesses | `SwitchReloadsCr3` | a switch to the idle task keeps the old CR3 (`process.rs:64` says otherwise) |
| `MCCount.cfg`, MCSync | `CountIsLength` | count and queue length differ inside `send` and `receive` (`ipc.rs:16` says otherwise) |
| `MCPick.cfg`, MCRBTree | `PickEarliest` | the pick is not always the earliest deadline: `min_deadline` is never maintained (`process.rs:719` says otherwise) |
| `MCBitmap.cfg`, MCBuddy | `MergesFree` | above 128 MiB the bits of different orders overlap and `free` merges with a buddy that is not free (`buddy.rs:103`) |
| `MCEevdf.cfg`, MCEevdf | `HogPenalised` | a thread that never sleeps is never penalised: the burst score converges to one tick, below the 4 ms granule of `effective_weight` |
| `MCWrap.cfg`, MCEevdf | `FairPick` | `real_runtime << 20` wraps (after 2^44 ns, about 4.9 hours, of one thread) and the order with it; shown with a small width |
| `MCFault.cfg`, MCInterrupts | `NeverSpins` | a console write of a page that was never touched faults while SERIAL1 is held, and the handler prints (`serial.rs:46`) |
| `MCInterrupts.cfg`, MCInterrupts | `EntryHasKernelGs` | a tick between `swapgs` and `sysretq` or `iretq` loses the GS base; the next entry stores through the user's (`syscall.rs:121`, `gdt.rs:226`) |

Seen while modelling the policy, and kept in `Eevdf`: `wake_task` raises `vruntime` to
the clock and `update_deadline` overwrites it at once; `total_weight` is never reduced;
the first deadline is NICE_0_LOAD times a later one, and `min_deadline` keeps it.

## Proofs

TLAPS checks these for any sets of threads, queues, mutexes, slots, pids, page tables,
processes and files. The assumptions are the named ASSUMEs: the idle task is a thread,
`None` is neither a thread nor a mutex, mutexes and the mailbox are different wait
queues, slots are an initial segment of the naturals and are the thread identifiers, pids
are naturals with 0 among them, the console's queue is none of them, `NoProc` (a free pid's entry) is no process, and for the
mailbox the threads are finitely many. The theorems that need more, `Tame`, `Parsed` or
`Disciplined`, state it as a hypothesis; what they mean is said below.

- `SchedulerInvariant`: `SchedInv` is inductive. Its parts need each other: a wake-up
  keeps the tree exact only if queued threads are Blocked and queued once
  (`BlockedOnce`); that holds only if a thread that marked itself Blocked makes no
  call before the switch (`OffCpuSoon`). One lemma per action.
- `TreeExact`, and `JoinTheorem` for the action property `JoinEndsAtExit`, follow.
- `MutexInvariant`, `MutexExcludes` and `MutexWakes`: every step of the mutex is one of
  the scheduler, so `SchedInv` carries over. The queued threads are those asleep inside
  `lock()`, so the thread that `wake_one` wakes will try again.
- `MailboxInvariant`, `MailboxDelivers`, `MailboxWakes`: each message is a permit, or
  belongs to a receiver with a permit or to a sender before its release. The counting
  lemmas say how one thread's move changes the sizes of two sets.
- `SyncInvariant`: with mutexes and a mailbox in the same threads both invariants hold.
  Each primitive's steps are steps of the scheduler on a wait queue that is not the
  other's, which is what keeps the other's invariant.
- `ArenaAgrees` and `ArenaImplementsPool`: the inductive invariant adds to `SchedInv` that
  the free list is a duplicate-free enumeration of the empty slots, of any length, that
  the occupied slots are the threads that exist, and that at most one dead thread waits to
  be reaped. The last is why a switch removes at most one slot. `PoolSpec` then follows
  step by step: an insertion takes an identifier that is not in use, a removal gives one
  back, and everything else stutters.
- `ProcessInvariant`: `ProcInv` is inductive, with one lemma per action; every step is one
  of the scheduler, so `SchedInv` carries over. The six invariants of the run are not
  inductive by themselves. What they need: which phases a thread may be in, and that only
  a thread inside SYS_WAIT sleeps in a process's queue (`Roles`); that process 0 is as
  `_start` made it, and no program has its pid, as long as the monitor thread is in the
  arena (`KernelFirst`); that no other process is its own parent (`Ancestry`); that a pid
  names one thread that is alive and one that is dead (`OneThread`); that the process of a
  dead thread is a zombie, unless the thread is the monitor or the thread on the CPU has
  just waited for it, and then a reused pid can only be that of its own child
  (`DeadProcess`), which is why `reap_zombies` takes no process from a thread that can run;
  that CR3 and the bounds follow every switch (`OwnSpace`); and what holds before the
  first switch and while the idle task runs (`Quiet`). Who owns which page table is
  argued once for a step that keeps, frees or hands over tables (`OwnerKeeps`,
  `OwnerDrops`, `OwnerHands`). `RunnableTheorem`, `OneOwnerTheorem`, `ParentTheorem`,
  `WaiterTheorem`, `ReclaimTheorem` and `OwnSpaceTheorem` follow. The exit of the monitor
  thread and the reuse of pid 0 are included. They assume `Tame`: programs that wait for
  children leave none behind and start none under pid 0. Without either half
  `RunnableHasProcess` is false (`MCInit.cfg`, `pid_reuse`). `MCProcesses.cfg` is an
  instance that satisfies it.
- `FilesInvariant`: `FilesInv` is inductive. It says that there is a partition of the
  processes into families, in which all but one member wait, such that processes that
  share a file are of one family. It is why `NoSpinTheorem` holds: the holder of a lock
  and a caller that finds it taken would be two members of a family that do not wait.
  `LockTheorem` is a part of the invariant.
- `ReadTheorem`: for `ReadsTheArchive` the invariant is `ArchiveInv`: an open file is a
  console, or of a vnode of the directory at an offset within its data. Its hypothesis
  `Parsed` says that `parse_tarball` finds each member of an archive and its data. That
  is induction over the archive's bytes, out of the prover's reach, and TLC evaluates it
  for the archives of the run (`ParsedBack` in `MCFiles`). The theorem adds opening,
  sharing, moving and reusing files, for any archive that is parsed so.
- `StackInvariant`, `OwnStackTheorem`: `kernel_rsp` is the current thread's in every state,
  RSP0 too unless the idle task runs, and a thread inside the entry stub is the current
  one with interrupts disabled, so that nothing overwrites the user stack pointer it
  saved. The proof looks at each instruction of each path once.
- `LockInvariant`, `LockedIsAtomicTheorem`, `NeverSpinsTheorem`, `GsTheorem`: the argument
  has two halves. The first is about the code alone: which locks and guards are taken at
  each place of each path, whether interrupts are disabled there, and which GS base is
  due. `Disciplined` says that these facts fit each instruction, and that a lock which a
  handler takes is held with interrupts disabled only. It has no threads in it and its
  paths are those of the kernel, so its truth does not depend on the instance: TLC
  evaluates all of it (`LockDiscipline` in `MCInterrupts`), and the theorems have it as
  hypothesis. The second half is `LockInv`: in every state a lock is held only where the
  code of its holder says so, and where the code has interrupts disabled they are and the
  thread is the current one. Interrupts, faults, switches and nested guards keep it. One
  lock is held by code that can be preempted: the monitor thread takes ROOT_FS, but only
  while it starts a program and every other program is dead, which is a part of the
  invariant. `NeverSpinsTheorem` also assumes `~FreshBuffers` (false in `MCFault.cfg`,
  where the property fails). `GsTheorem` needs besides that a thread which can be
  switched to is inside its code (`PlaceInv`).

The inductive invariants that are not properties of a run were checked by TLC before they
were proved, in place of the properties of the run: `ProcInv` with `MCProcesses.cfg`,
`ArchiveInv` (and in it `FilesInv`) with `MCFiles.cfg`, `StackInv`, `LockInv` and `PlaceInv`
with `MCInterrupts.cfg`.

Only model-checked, and why:

- Liveness (`ZombieReaped`, `ExitedReclaimed`, `MadtWalkEnds`): not
  handled by the prover.
- `RBTree` and `Eevdf`: recursive operators on trees of any depth.
- `Buddy`, `Heap`, `BootInfo`, `BootMemory`, `Initramfs`: powers of two, sums and parsers,
  defined by folds and recursive functions, whose values need induction over data.
- `Disciplined`: what the code does at each place of each path. It is finite, and TLC
  enumerates it.
- `AddressSpace`: has no proofs yet. Its `Grow` is a fold over the pages, and what a fold
  leaves mapped needs induction.

## Not modelled

- `sync/queue.rs`: nothing in the kernel uses it, so it has no producer and no consumer.
- General registers in the entry stubs, and the tables of the GDT and IDT, built once at
  boot. Of the exceptions other than the page fault, the breakpoint prints and returns
  and the others panic.
- `boot.asm`: straight-line code to long mode.
- APIC registers, the VGA and serial formatting and port I/O: hardware behaviour and
  output with no state that the properties could be about. Their locks are in
  `Interrupts`.
- Scancode decoding: the pc-keyboard library's.
- Flags and huge pages of page tables; `translate_addr`, which changes nothing; and
  `setup_user_sandbox`, which only the test task `task_a` calls, and nothing starts that.
- `Thread.lag`, written and never read; `set_priority` and `sleep_current_task`, never
  called. Every thread of the kernel has weight 1024, so `eevdf` uses one weight.
- Names of 64 bytes and more, which `readdir` cuts, and of 100 bytes without a NUL,
  which `parse_tarball` reads as empty: the archives checked have shorter ones.
