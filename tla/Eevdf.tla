------------------------------- MODULE Eevdf -------------------------------
(***************************************************************************)
(* The arithmetic of the EEVDF and BORE policy (src/process/process.rs) over *)
(* the tree of RBTree: how schedule(), wake_task, Thread::new and           *)
(* update_deadline compute the keys by which rbtree_pick_eevdf chooses.     *)
(*                                                                         *)
(* Times are scaled down; only their ratios matter here.  Thread.lag is left *)
(* out: it is written and never read.                                      *)
(***************************************************************************)
EXTENDS RBTree, FiniteSetsExt

CONSTANTS
  Weights,      \* the weights given to spawn
  TimeConsumed, \* what schedule() charges for every call: one tick
  Shift,        \* the factor of << 20
  Width,        \* the number of u64 values, 2^64 in the code
  Granularity,  \* SCHEDULER_MIN_GRANULARITY
  Latency,      \* SCHEDULER_TARGET_LATENCY
  Nice0,        \* NICE_0_LOAD
  MaxRuntime,   \* bounds the runtime of one thread
  MaxClock,     \* bounds the clock while the kernel is idle
  MaxWeight     \* bounds total_weight, and with it the number of spawns

ASSUME EevdfAssumption ==
  /\ Weights \subseteq Nat \ {0}
  /\ {TimeConsumed, Shift, Granularity, Latency, Nice0} \subseteq Nat \ {0}

VARIABLES
  thread,         \* the scheduling fields of the Thread of each node
  started,        \* has schedule() run? Before, current_task is None
  current,        \* the running thread, Nil for the idle task
  systemRuntime,  \* Scheduler.system_runtime
  totalWeight     \* Scheduler.total_weight

eevdfVars == <<rbVars, thread, started, current, systemRuntime, totalWeight>>

Larger(a, b) == Max({a, b})

----------------------------------------------------------------------------
(* The fields of a thread. *)

\* Thread::effective_weight.
EffectiveWeight(th) ==
  Larger(1, th.weight \div 2^(th.burst_score \div Granularity))

\* (Mutant: the runtime does not count.)
UpdateDeadlineLazy(th) ==
  [th EXCEPT !.deadline = th.vruntime + (th.time_slice * Shift) \div EffectiveWeight(th)]

\* Thread::update_deadline.
UpdateDeadline(th) ==
  LET w == EffectiveWeight(th)
      v == ((th.real_runtime * Shift) % Width) \div w
  IN [th EXCEPT !.vruntime = v,
                !.deadline = (v + (th.time_slice * Shift) \div w) % Width]

\* Thread::new.
NewThread(w) ==
  LET slice == Larger(Granularity,
                 (w * Latency) \div (IF totalWeight > 0 THEN totalWeight ELSE w))
  IN [state        |-> "Ready",
      weight       |-> w,
      real_runtime |-> 0,
      vruntime     |-> 0,
      time_slice   |-> slice,
      deadline     |-> ((slice * Nice0 * Shift) % Width) \div w,
      burst_score  |-> 0]

\* What schedule() charges the outgoing thread for.
Charged(th) ==
  UpdateDeadline([th EXCEPT !.real_runtime = @ + TimeConsumed,
                            !.burst_score = (@ + TimeConsumed) \div 2])

\* The fields after wake_task.  update_deadline overwrites the vruntime that
\* was just raised to the clock.
Awoken(th) ==
  UpdateDeadline([th EXCEPT !.state = "Ready",
                            !.vruntime = Larger(@, systemRuntime - th.time_slice),
                            !.burst_score = 0])

\* The clock after a switch from a thread that has not exited.
Advanced ==
  IF started /\ totalWeight > 0
  THEN (systemRuntime + (TimeConsumed * Shift) \div totalWeight) % Width
  ELSE systemRuntime

----------------------------------------------------------------------------
(* Actions. *)

\* A thread that executes and has not marked itself Blocked or Zombie.
OnCpu == current # Nil /\ thread[current].state = "Ready"

\* Thread::new and add_task, once from the boot code and then from running threads.
Spawn(n, w) ==
  /\ OnCpu \/ (~started /\ totalWeight = 0)
  /\ totalWeight + w <= MaxWeight
  /\ LET th == NewThread(w) IN
       /\ AddTask(n, th.vruntime, th.deadline)
       /\ thread' = [thread EXCEPT ![n] = th]
  /\ totalWeight' = totalWeight + w
  /\ UNCHANGED <<started, current, systemRuntime>>

\* The running thread marks itself Blocked (join, lock, acquire, SYS_WAIT) or
\* Zombie (exit_thread).
Mark(s) ==
  /\ OnCpu
  /\ thread' = [thread EXCEPT ![current].state = s]
  /\ UNCHANGED <<rbVars, started, current, systemRuntime, totalWeight>>

\* wake_task.  The running thread is not linked; schedule() will do it.
WakeTask(n) ==
  /\ minDeadline[n] # Nil
  /\ thread[n].state = "Blocked"
  /\ LET th == Awoken(thread[n]) IN
       /\ thread' = [thread EXCEPT ![n] = th]
       /\ IF n = current THEN UNCHANGED rbVars ELSE Requeue(n, th.vruntime, th.deadline)
  /\ UNCHANGED <<started, current, systemRuntime, totalWeight>>

\* (Mutant: the node keeps its old keys.)
RekeyedNot(keys, n, v) == keys

\* schedule() copies a key of the outgoing thread into its node.
Rekeyed(keys, n, v) == [keys EXCEPT ![n] = v]

\* schedule() from the boot code, the idle task or a thread that has not exited:
\* charge it, put it back in the tree if it is Ready, pick and unlink the next.
Switch ==
  LET c == current
      th == Charged(thread[c])
      back == c # Nil /\ thread[c].state = "Ready"
      key == IF back THEN Rekeyed(vruntime, c, th.vruntime) ELSE vruntime
      dl == IF back THEN Rekeyed(deadline, c, th.deadline) ELSE deadline
      r == IF back THEN Insert(t, key, c) ELSE t
      next == Pick(r, key, dl, Advanced)
  IN /\ c = Nil => systemRuntime < MaxClock
     /\ c # Nil => thread[c].state # "Zombie" /\ thread[c].real_runtime < MaxRuntime
     /\ started' = TRUE
     /\ systemRuntime' = Advanced
     /\ thread' = IF c = Nil THEN thread ELSE [thread EXCEPT ![c] = th]
     /\ vruntime' = key
     /\ deadline' = dl
     /\ t' = IF next = Nil THEN r ELSE Remove(r, next)
     /\ members' = (members \cup {n \in Nodes : n = c /\ back}) \ {next}
     /\ current' = next
     /\ UNCHANGED <<minDeadline, totalWeight>>

\* schedule() from a thread that has exited: free its node, pick the next.
SwitchFromZombie ==
  LET next == Pick(t, vruntime, deadline, systemRuntime)
  IN /\ current # Nil
     /\ thread[current].state = "Zombie"
     /\ minDeadline' = [minDeadline EXCEPT ![current] = Nil]
     /\ t' = IF next = Nil THEN t ELSE Remove(t, next)
     /\ members' = members \ {next}
     /\ current' = next
     /\ UNCHANGED <<vruntime, deadline, thread, started, systemRuntime, totalWeight>>

EevdfInit ==
  /\ RBInit
  /\ totalWeight = 0
  /\ systemRuntime = 0
  /\ started = FALSE
  /\ current = Nil
  /\ thread = [n \in Nodes |-> [NewThread(Nice0) EXCEPT !.state = "Zombie"]]

EevdfNext ==
  \/ \E n \in Nodes, w \in Weights : Spawn(n, w)
  \/ Mark("Blocked")
  \/ Mark("Zombie")
  \/ \E n \in Nodes : WakeTask(n)
  \/ Switch
  \/ SwitchFromZombie

EevdfSpec == EevdfInit /\ [][EevdfNext]_eevdfVars

----------------------------------------------------------------------------
(* Properties. *)

\* The virtual time a thread has been served for, whatever its keys say.
Service(th) == (th.real_runtime * Shift) \div th.weight

\* The slack the policy allows: one virtual slice of some thread, or the first
\* deadline, which is never refreshed in min_deadline.
Slack(n, ths) ==
  LET slices == {(ths[m].time_slice * Shift) \div ths[m].weight : m \in Nodes}
      firsts == {minDeadline[m] : m \in {k \in Nodes : minDeadline[k] # Nil}}
  IN Max(firsts \cup {Service(ths[n]) + d : d \in slices})

\* No starvation: schedule() never picks a thread over a runnable one that is
\* further behind than the slack, and idles only when no thread is runnable.
FairPick ==
  [][Switch \/ SwitchFromZombie =>
       /\ current' = Nil => members' = {}
       /\ \A n \in members' : Service(thread'[current']) <= Slack(n, thread')]_eevdfVars

\* The keys the tree is ordered and searched by are those of the thread: no
\* path to rbtree_insert forgets to copy them into the node.
KeysFresh ==
  \A n \in members :
    /\ vruntime[n] = thread[n].vruntime
    /\ deadline[n] = thread[n].deadline

\* A thread that has run for more than two granules without sleeping is
\* penalised, as the comment on Thread has it.
HogPenalised ==
  \A n \in Nodes :
    thread[n].real_runtime > 2 * Granularity => EffectiveWeight(thread[n]) < thread[n].weight

=============================================================================
