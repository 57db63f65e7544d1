------------------------------ MODULE Scheduler ------------------------------
(***************************************************************************)
(* The thread scheduler of kernel-r (src/process/process.rs): the life of  *)
(* a kernel thread from add_task to reap_zombies, the ready tree, the wait *)
(* queues a thread sleeps in, and the context switch.                      *)
(*                                                                         *)
(* The kernel runs on one core.  A section that runs with interrupts       *)
(* disabled (everything under SCHEDULER.lock(), every interrupt handler)   *)
(* is one step; between two such sections a timer interrupt may switch to  *)
(* any other thread.                                                       *)
(*                                                                         *)
(* Which thread of the tree is picked is left open here (EEVDF chooses     *)
(* one): everything below holds for every picking policy.  The thread      *)
(* arena is abstracted to the set of its empty slots.                      *)
(***************************************************************************)
EXTENDS Integers, Sequences, FiniteSets

CONSTANTS
  Tids,      \* slots of the thread arena (bounds the number of threads)
  Idle,      \* the slot of the idle task
  Objects,   \* wait queues outside threads: mutexes, semaphores, processes
  None       \* the value of current_task before the first switch

ASSUME SchedAssumption ==
  /\ Idle \in Tids
  /\ None \notin Tids

VARIABLES
  state,      \* Thread.state of each slot, "Empty" when the slot is free
  tree,       \* the threads whose rb_node is linked in the red-black tree
  nodes,      \* the threads whose rb_node is allocated
  current,    \* Scheduler.current_task
  graveyard,  \* Scheduler.graveyard
  joinq,      \* Thread.join_queue of each slot
  waitq,      \* waiters of every other WaitQueue, oldest first
  yielding    \* threads whose next instruction is int 0x20

schedVars ==
  <<state, tree, nodes, current, graveyard, joinq, waitq, yielding>>

ThreadState == {"Empty", "Ready", "Blocked", "Zombie"}

SchedTypeOK ==
  /\ state \in [Tids -> ThreadState]
  /\ tree \subseteq Tids
  /\ nodes \subseteq Tids
  /\ current \in Tids \cup {None}
  /\ graveyard \subseteq Tids
  /\ joinq \in [Tids -> SUBSET Tids]
  /\ waitq \in [Objects -> Seq(Tids)]
  /\ yielding \subseteq Tids

----------------------------------------------------------------------------
(* Building blocks of the operations. *)

\* The threads queued on a wait queue.
Waiters(o) == {waitq[o][i] : i \in 1..Len(waitq[o])}

\* The threads of S that wake_task moves to Ready.
Woken(S) == {t \in S : state[t] = "Blocked"}

\* wake_task links a woken thread in the tree, unless it is still the one
\* on the CPU (marked Blocked, not yet switched out).
Linked(S) == Woken(S) \ {current}

\* A thread that executes kernel code and is free to call a primitive.
Running(t) ==
  /\ t = current
  /\ t # None
  /\ t # Idle
  /\ t \notin yielding

\* (Mutant: the graveyard is never emptied.)
ReapedNever == {}

\* The threads reap_zombies removes from the arena.
Reaped == graveyard \ {current}

\* schedule() frees the node of a current thread that has exited ...
Buried == {t \in Tids : t = current /\ state[t] = "Zombie"}

\* ... and puts one that is still Ready back in the tree.
Requeued == {t \in Tids \ {Idle} : t = current /\ state[t] = "Ready"}

\* The state of the slots after S was removed from the arena.
Removed(S) == [t \in Tids |-> IF t \in S THEN "Empty" ELSE state[t]]

\* The join queues after S was removed from the arena (they are part of Thread).
DroppedQueues(S) == [t \in Tids |-> IF t \in S THEN {} ELSE joinq[t]]

\* (Mutant: no switch.)
GoToSleepAwake ==
  /\ state' = [state EXCEPT ![current] = "Blocked"]
  /\ yielding' = yielding

\* How join, Mutex::lock, Semaphore::acquire and SYS_WAIT put the caller to
\* sleep: mark it Blocked, and switch as soon as the locks are dropped.
GoToSleep ==
  /\ state' = [state EXCEPT ![current] = "Blocked"]
  /\ yielding' = yielding \cup {current}

\* (Mutant: join does not look at the target's state.)
JoinableZombie(x) == x # current /\ state[x] # "Empty"

\* join sleeps only on another thread that is in the arena and has not exited.
Joinable(x) == x # current /\ state[x] \notin {"Empty", "Zombie"}

----------------------------------------------------------------------------
(* Operations. *)

\* Scheduler::add_task with Thread::new, in an empty slot t.
AddTask(t) ==
  /\ state[t] = "Empty"
  /\ state' = [state EXCEPT ![t] = "Ready"]
  /\ nodes' = nodes \cup {t}
  /\ tree' = tree \cup {t}
  /\ joinq' = [joinq EXCEPT ![t] = {}]
  /\ UNCHANGED <<current, graveyard, waitq, yielding>>

\* The boot code (run_monitored_stress_test) spawns the first thread while
\* no thread is current.
BootSpawn(t) ==
  /\ current = None
  /\ tree = {}
  /\ AddTask(t)

\* spawn, called by the running thread.
Spawn(t) ==
  /\ Running(current)
  /\ AddTask(t)

\* join(x).  A call that finds x not Joinable returns and changes nothing.
Join(x) ==
  /\ Running(current)
  /\ Joinable(x)
  /\ GoToSleep
  /\ joinq' = [joinq EXCEPT ![x] = @ \cup {current}]
  /\ UNCHANGED <<tree, nodes, current, graveyard, waitq>>

\* The sleeping branch of Mutex::lock, Semaphore::acquire and SYS_WAIT.
BlockOn(o) ==
  /\ Running(current)
  /\ GoToSleep
  /\ waitq' = [waitq EXCEPT ![o] = Append(@, current)]
  /\ UNCHANGED <<tree, nodes, current, graveyard, joinq>>

\* WaitQueue::wake_one, from a thread or from an interrupt handler.  On an
\* empty queue it changes nothing.
WakeOne(o) ==
  /\ waitq[o] # <<>>
  /\ waitq' = [waitq EXCEPT ![o] = Tail(@)]
  /\ LET w == {Head(waitq[o])} IN
       /\ state' = [t \in Tids |-> IF t \in Woken(w) THEN "Ready" ELSE state[t]]
       /\ tree' = tree \cup Linked(w)
  /\ UNCHANGED <<nodes, current, graveyard, joinq, yielding>>

\* exit_thread: mark the current thread Zombie and wake_all its join queue.
\* SYS_EXIT first wakes all waiters of the queues os (its parent's wait
\* queue) and calls exit_thread with interrupts still disabled.
Exit(os) ==
  /\ Running(current)
  /\ LET w == joinq[current] \cup UNION {Waiters(o) : o \in os} IN
       /\ state' = [t \in Tids |-> IF t = current THEN "Zombie"
                                   ELSE IF t \in Woken(w) THEN "Ready"
                                   ELSE state[t]]
       /\ tree' = tree \cup Linked(w)
  /\ joinq' = [joinq EXCEPT ![current] = {}]
  /\ waitq' = [o \in Objects |-> IF o \in os THEN <<>> ELSE waitq[o]]
  /\ yielding' = yielding \cup {current}
  /\ UNCHANGED <<nodes, current, graveyard>>

\* reap_zombies, called by the monitor thread between two switches.
ReapZombies ==
  /\ Running(current)
  /\ state' = Removed(Reaped)
  /\ joinq' = DroppedQueues(Reaped)
  /\ yielding' = yielding \ Reaped
  /\ graveyard' = graveyard \ Reaped
  /\ UNCHANGED <<tree, nodes, current, waitq>>

\* Scheduler::schedule, switching to the thread next: reap, bury or requeue
\* the outgoing thread, then pick from the tree, or the idle task if it is
\* empty.
Schedule(next) ==
  /\ state' = Removed(Reaped)
  /\ joinq' = DroppedQueues(Reaped)
  /\ nodes' = nodes \ Buried
  /\ graveyard' = (graveyard \ Reaped) \cup Buried
  /\ LET ready == tree \cup Requeued IN
       /\ IF ready = {} THEN next = Idle ELSE next \in ready
       /\ tree' = ready \ {next}
  /\ current' = next
  /\ UNCHANGED waitq

\* int 0x20 executed by the current thread: yield_now, or the switch that
\* ends Join, BlockOn and Exit.  The boot code yields once, after BootSpawn.
Yield(next) ==
  /\ current = None => tree # {}
  /\ current # Idle
  /\ Schedule(next)
  /\ yielding' = yielding \ (Reaped \cup {current})

\* The timer interrupt: a switch at an arbitrary point.
Tick(next) ==
  /\ Schedule(next)
  /\ yielding' = yielding \ Reaped

----------------------------------------------------------------------------
(* The specification. *)

\* The state _start leaves behind when it enables interrupts: only the idle
\* task is in the arena, and no thread is current.
SchedInit ==
  /\ state = [t \in Tids |-> IF t = Idle THEN "Ready" ELSE "Empty"]
  /\ tree = {}
  /\ nodes = {}
  /\ current = None
  /\ graveyard = {}
  /\ joinq = [t \in Tids |-> {}]
  /\ waitq = [o \in Objects |-> <<>>]
  /\ yielding = {}

SchedNext ==
  \/ \E t \in Tids : BootSpawn(t)
  \/ \E t \in Tids : Spawn(t)
  \/ \E x \in Tids : Join(x)
  \/ \E o \in Objects : BlockOn(o)
  \/ \E o \in Objects : WakeOne(o)
  \/ \E os \in SUBSET Objects : Exit(os)
  \/ ReapZombies
  \/ \E next \in Tids : Yield(next)
  \/ \E next \in Tids : Tick(next)

SchedSpec == SchedInit /\ [][SchedNext]_schedVars

\* The APIC timer is periodic and its handler is never masked for good.
TimerFairness == WF_schedVars(\E next \in Tids : Tick(next))

SchedFairSpec == SchedSpec /\ TimerFairness

----------------------------------------------------------------------------
(* Properties. *)

\* Exactly the threads that can run and are not on the CPU are linked in the
\* red-black tree: no runnable thread is lost by a wake-up racing with the
\* switch, and no sleeping, dead or running thread can be picked.
ReadyTree ==
  tree = {t \in Tids \ {Idle} : state[t] = "Ready" /\ t # current}

\* A thread owns a tree node from add_task until schedule() buries it, so
\* the raw rb_node pointer that wake_task and schedule() dereference is never
\* null or freed.
NodesLive ==
  nodes = {t \in Tids \ {Idle} : \/ state[t] \in {"Ready", "Blocked"}
                                 \/ state[t] = "Zombie" /\ t = current}

\* The graveyard holds exactly the exited threads that were switched out, and
\* the idle task never dies: every kernel stack is freed once, and never
\* while the CPU is on it.
GraveyardExact ==
  /\ graveyard = {t \in Tids : state[t] = "Zombie" /\ t # current}
  /\ state[Idle] = "Ready"

\* A thread is Blocked exactly when it is queued, in one place only, so the
\* wake-up it waits for finds it and no other wake-up does.
BlockedOnce ==
  /\ \A t \in Tids : state[t] = "Blocked" =>
       (\E x \in Tids : t \in joinq[x]) \/ (\E o \in Objects : t \in Waiters(o))
  /\ \A x, t \in Tids : t \in joinq[x] =>
       /\ state[t] = "Blocked"
       /\ \A y \in Tids \ {x} : t \notin joinq[y]
       /\ \A o \in Objects : t \notin Waiters(o)
  /\ \A o \in Objects : \A i \in 1..Len(waitq[o]) :
       /\ state[waitq[o][i]] = "Blocked"
       /\ \A p \in Objects : \A j \in 1..Len(waitq[p]) :
            waitq[o][i] = waitq[p][j] => o = p /\ i = j

\* A thread marked Blocked or Zombie calls nothing more before it has given
\* up the CPU.
OffCpuSoon ==
  current # None /\ state[current] # "Ready" => current \in yielding

\* Nobody waits in the join queue of a dead thread or of an empty slot: join
\* looks at the target's state under the lock that exit_thread takes.
NoStrandedJoiner ==
  \A x \in Tids : joinq[x] # {} => state[x] \in {"Ready", "Blocked"}

\* The inductive invariant: each part is needed to preserve the others (for
\* instance, a wake-up keeps the tree exact because queued threads are
\* Blocked, hence neither linked in it nor queued anywhere else).
SchedInv ==
  /\ SchedTypeOK
  /\ ReadyTree
  /\ NodesLive
  /\ GraveyardExact
  /\ BlockedOnce
  /\ OffCpuSoon
  /\ NoStrandedJoiner

\* join returns only because its target exited: a thread leaves the join
\* queue of x in the step in which x dies and in no other.
JoinEndsAtExit ==
  [][\A x, t \in Tids : t \in joinq[x] /\ t \notin joinq'[x] =>
       state[x] # "Zombie" /\ state'[x] = "Zombie" /\ state'[t] = "Ready"]_schedVars

\* A thread that exits is eventually removed from the arena, and its kernel
\* stack freed: schedule() buries it and the next one reaps it.
ZombieReaped ==
  \A t \in Tids : state[t] = "Zombie" ~> state[t] = "Empty"

\* "Spawning monitor thread and transitioning to scheduler..." (lib.rs): the
\* boot code gets to spawn the monitor thread.
BootHandoff == <>(\E t \in Tids \ {Idle} : state[t] # "Empty")

=============================================================================
