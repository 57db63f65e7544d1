--------------------------- MODULE ArenaScheduler ---------------------------
(***************************************************************************)
(* The scheduler with the arena its threads live in: a thread identifier is *)
(* the slot that ThreadArena::insert chooses, and reap_zombies gives slots  *)
(* back.                                                                    *)
(***************************************************************************)
EXTENDS Scheduler, ThreadArena

ASSUME SlotsAreTids == Slots = Tids

arenaSchedVars == <<schedVars, arenaVars>>

\* tasks.remove in reap_zombies.  The graveyard holds one thread at most: it
\* is emptied by every schedule() before the outgoing thread is buried.
RemoveReaped ==
  \/ Reaped = {} /\ UNCHANGED arenaVars
  \/ \E t \in Reaped : Remove(t)

\* set_idle_task has put the idle task in the first slot.
ArenaSchedInit ==
  /\ SchedInit
  /\ slots = [i \in {Idle} |-> Occupied]
  /\ freeHead = Nil

ArenaTick == \E next \in Tids : Tick(next) /\ RemoveReaped

ArenaSchedNext ==
  \/ \E t \in Tids : BootSpawn(t) /\ Insert(t)
  \/ \E t \in Tids : Spawn(t) /\ Insert(t)
  \/ \E x \in Tids : Join(x) /\ UNCHANGED arenaVars
  \/ \E o \in Objects : BlockOn(o) /\ UNCHANGED arenaVars
  \/ \E o \in Objects : WakeOne(o) /\ UNCHANGED arenaVars
  \/ \E os \in SUBSET Objects : Exit(os) /\ UNCHANGED arenaVars
  \/ ReapZombies /\ RemoveReaped
  \/ \E next \in Tids : Yield(next) /\ RemoveReaped
  \/ ArenaTick

ArenaSchedSpec == ArenaSchedInit /\ [][ArenaSchedNext]_arenaSchedVars

\* The APIC timer is periodic and its handler is never masked for good.
ArenaSchedFairSpec == ArenaSchedSpec /\ WF_arenaSchedVars(ArenaTick)

\* The boot code, once it runs run_monitored_stress_test, is not stopped.
BootFairSpec ==
  /\ ArenaSchedFairSpec
  /\ WF_arenaSchedVars(\E t \in Tids : BootSpawn(t) /\ Insert(t))

----------------------------------------------------------------------------
(* Properties. *)

\* get_mut finds a thread exactly where the scheduler believes one to be, and
\* the free list is exact: after any number of exits and spawns, what the
\* graveyard, the queues and the tree name is a live thread and not a slot
\* that was given away.
ArenaExact ==
  /\ OccupiedSlots = {t \in Tids : state[t] # "Empty"}
  /\ FreeListExact

=============================================================================
