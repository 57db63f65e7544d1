----------------------------- MODULE ArenaProofs ----------------------------
(***************************************************************************)
(* The arena of threads under the scheduler: the free list is exact, a slot *)
(* is occupied exactly while the scheduler knows its thread, and the arena  *)
(* implements the pool of identifiers (SlotPool).                           *)
(***************************************************************************)
EXTENDS ArenaScheduler, SchedulerProofs, FiniteSetTheorems

\* The free list as the induction needs it: a duplicate-free enumeration of the
\* empty slots, of any length.
FreeOrder ==
  \E n \in Nat : \E s \in [1..n -> EmptySlots] :
    /\ Lists(n, s)
    /\ \A k, l \in 1..n : s[k] = s[l] => k = l

ArenaTypeOK ==
  /\ DOMAIN slots \subseteq Slots
  /\ slots \in [DOMAIN slots -> Slots \cup {Occupied, Nil}]

\* The inductive invariant of the arena.
ArenaInv == ArenaTypeOK /\ FreeOrder

\* The enumeration has as many members as there are empty slots.
LEMMA OrderIsExact == FreeOrder => FreeListExact
  <1> SUFFICES ASSUME NEW n \in Nat, NEW s \in [1..n -> EmptySlots], Lists(n, s),
                      \A k, l \in 1..n : s[k] = s[l] => k = l
               PROVE  FreeListExact
    BY DEF FreeOrder
  <1>1. s \in Bijection(1..n, EmptySlots)
    BY DEF Lists, Bijection, Injection, Surjection, IsInjective
  <1>2. Cardinality(EmptySlots) = n
    BY <1>1, FS_CountingElements DEF ExistsBijection
  <1> QED
    BY <1>2 DEF FreeListExact

\* insert from the free list takes its head.
LEMMA ReuseInv ==
  ASSUME ArenaInv, NEW i \in Slots, Reuse(i)
  PROVE  /\ ArenaInv'
         /\ i \in EmptySlots
         /\ OccupiedSlots' = OccupiedSlots \cup {i}
         /\ DOMAIN slots' = DOMAIN slots
  <1> USE DEF ArenaInv, ArenaTypeOK
  <1>0. PICK n \in Nat : \E s \in [1..n -> EmptySlots] :
          Lists(n, s) /\ \A k, l \in 1..n : s[k] = s[l] => k = l
    BY DEF FreeOrder
  <1>1. PICK s \in [1..n -> EmptySlots] :
          Lists(n, s) /\ \A k, l \in 1..n : s[k] = s[l] => k = l
    BY <1>0
  <1>2. /\ n # 0 /\ i = s[1]
        /\ freeHead' = slots[i]
        /\ slots' = [slots EXCEPT ![i] = Occupied]
    BY <1>1 DEF Reuse, Lists
  <1>3. i \in EmptySlots /\ i \in DOMAIN slots
    BY <1>2 DEF EmptySlots
  <1>4. DOMAIN slots' = DOMAIN slots
    BY <1>2
  <1>5. /\ OccupiedSlots' = OccupiedSlots \cup {i}
        /\ EmptySlots' = EmptySlots \ {i}
    BY <1>2, <1>3, <1>4 DEF OccupiedSlots, EmptySlots
  <1>6. ArenaTypeOK'
    BY <1>2, <1>3, <1>4
  <1> DEFINE m == n - 1
             r == [k \in 1..m |-> s[k + 1]]
  <1>7. m \in Nat /\ n = m + 1
    BY <1>2
  <1>8. \A k \in 1..m : k + 1 \in 1..n /\ k + 1 # 1 /\ s[k + 1] \in EmptySlots /\ s[k + 1] # i
    BY <1>1, <1>2, <1>7
  <1>9. r \in [1..m -> EmptySlots']
    BY <1>5, <1>8
  <1>10. \A j \in EmptySlots' : \E k \in 1..m : r[k] = j
    <2> SUFFICES ASSUME NEW j \in EmptySlots' PROVE \E k \in 1..m : r[k] = j
      OBVIOUS
    <2>1. PICK k \in 1..n : s[k] = j
      BY <1>1, <1>5 DEF Lists
    <2>2. k # 1
      BY <2>1, <1>2, <1>5
    <2>3. k - 1 \in 1..m /\ r[k - 1] = s[k]
      BY <2>2, <1>7
    <2> QED
      BY <2>1, <2>3
  <1>11. freeHead' = IF m = 0 THEN Nil ELSE r[1]
    <2>1. slots[s[1]] = IF 1 = n THEN Nil ELSE s[2]
      BY <1>1, <1>2 DEF Lists
    <2> QED
      BY <2>1, <1>2, <1>7
  <1>12. \A k \in 1..m : slots'[r[k]] = IF k = m THEN Nil ELSE r[k + 1]
    <2> SUFFICES ASSUME NEW k \in 1..m PROVE slots'[r[k]] = IF k = m THEN Nil ELSE r[k + 1]
      OBVIOUS
    <2>1. slots[s[k + 1]] = IF k + 1 = n THEN Nil ELSE s[k + 2]
      BY <1>1, <1>8 DEF Lists
    <2>2. slots'[r[k]] = slots[s[k + 1]]
      BY <1>2, <1>8 DEF EmptySlots
    <2> QED
      BY <2>1, <2>2, <1>7
  <1>13. \A k, l \in 1..m : r[k] = r[l] => k = l
    BY <1>1, <1>8
  <1>14. Lists(m, r)'
    BY <1>10, <1>11, <1>12 DEF Lists
  <1>15. FreeOrder'
    BY <1>7, <1>9, <1>13, <1>14 DEF FreeOrder
  <1> QED
    BY <1>3, <1>4, <1>5, <1>6, <1>15

\* insert at the end of the vector, when the list is empty.
LEMMA PushInv ==
  ASSUME ArenaInv, NEW i \in Slots, Push(i)
  PROVE  /\ ArenaInv'
         /\ EmptySlots = {}
         /\ i \notin DOMAIN slots
         /\ OccupiedSlots' = OccupiedSlots \cup {i}
         /\ DOMAIN slots' = DOMAIN slots \cup {i}
  <1> USE DEF ArenaInv, ArenaTypeOK
  <1>0. PICK n \in Nat : \E s \in [1..n -> EmptySlots] : Lists(n, s)
    BY DEF FreeOrder
  <1>1. PICK s \in [1..n -> EmptySlots] : Lists(n, s)
    BY <1>0
  <1>2. n = 0
    BY <1>1, ArenaAssumption DEF Lists, Push, EmptySlots
  <1>3. EmptySlots = {}
    BY <1>1, <1>2 DEF Lists
  <1>4. /\ i \in Nat /\ DOMAIN slots = 0..(i - 1) /\ freeHead' = freeHead /\ freeHead = Nil
        /\ slots' = [j \in 0..i |-> IF j = i THEN Occupied ELSE slots[j]]
    BY ArenaAssumption DEF Push
  <1>5. DOMAIN slots' = DOMAIN slots \cup {i} /\ i \notin DOMAIN slots
    BY <1>4
  <1>6. \A j \in DOMAIN slots' : slots'[j] = Occupied
    BY <1>3, <1>4 DEF EmptySlots, OccupiedSlots
  <1>7. OccupiedSlots' = OccupiedSlots \cup {i} /\ EmptySlots' = {}
    BY <1>3, <1>5, <1>6 DEF EmptySlots, OccupiedSlots
  <1>8. ArenaTypeOK'
    BY <1>4, <1>5, <1>6, ArenaAssumption
  <1> DEFINE r == [k \in 1..0 |-> Nil]
  <1>9. Lists(0, r)' /\ r \in [1..0 -> EmptySlots'] /\ \A k, l \in 1..0 : r[k] = r[l] => k = l
    BY <1>4, <1>7 DEF Lists
  <1>10. FreeOrder'
    <2> HIDE DEF r
    <2> QED
      BY <1>9 DEF FreeOrder
  <1> QED
    BY <1>3, <1>5, <1>7, <1>8, <1>10

\* remove puts an occupied slot at the head of the list.
LEMMA RemoveInv ==
  ASSUME ArenaInv, NEW i \in OccupiedSlots, Remove(i)
  PROVE  /\ ArenaInv'
         /\ OccupiedSlots' = OccupiedSlots \ {i}
         /\ DOMAIN slots' = DOMAIN slots
  <1> USE DEF ArenaInv, ArenaTypeOK
  <1>0. PICK n \in Nat : \E s \in [1..n -> EmptySlots] :
          Lists(n, s) /\ \A k, l \in 1..n : s[k] = s[l] => k = l
    BY DEF FreeOrder
  <1>1. PICK s \in [1..n -> EmptySlots] :
          Lists(n, s) /\ \A k, l \in 1..n : s[k] = s[l] => k = l
    BY <1>0
  <1>2. /\ slots' = [slots EXCEPT ![i] = freeHead] /\ freeHead' = i
        /\ i \in DOMAIN slots /\ i \in Slots
    BY DEF Remove, OccupiedSlots
  <1>3. DOMAIN slots' = DOMAIN slots
    BY <1>2
  <1>4. freeHead \in Slots \cup {Nil} /\ freeHead # Occupied
    BY <1>1, ArenaAssumption DEF Lists, EmptySlots
  <1>5. /\ OccupiedSlots' = OccupiedSlots \ {i}
        /\ EmptySlots' = EmptySlots \cup {i}
        /\ i \notin EmptySlots
    BY <1>2, <1>3, <1>4 DEF OccupiedSlots, EmptySlots
  <1>6. ArenaTypeOK'
    BY <1>2, <1>3, <1>4
  <1> DEFINE m == n + 1
             r == [k \in 1..m |-> IF k = 1 THEN i ELSE s[k - 1]]
  <1>7. m \in Nat /\ m # 0 /\ r[1] = i
    OBVIOUS
  <1>8. \A k \in 2..m : k - 1 \in 1..n /\ r[k] = s[k - 1] /\ s[k - 1] \in EmptySlots
    BY <1>1
  <1>9. r \in [1..m -> EmptySlots']
    BY <1>5, <1>8
  <1>10. \A j \in EmptySlots' : \E k \in 1..m : r[k] = j
    <2> SUFFICES ASSUME NEW j \in EmptySlots' PROVE \E k \in 1..m : r[k] = j
      OBVIOUS
    <2>1. CASE j = i
      BY <2>1, <1>7
    <2>2. CASE j # i
      <3>1. PICK k \in 1..n : s[k] = j
        BY <2>2, <1>1, <1>5 DEF Lists
      <3>2. k + 1 \in 1..m /\ r[k + 1] = s[k]
        OBVIOUS
      <3> QED
        BY <3>1, <3>2
    <2> QED
      BY <2>1, <2>2
  <1>11. \A k \in 1..m : slots'[r[k]] = IF k = m THEN Nil ELSE r[k + 1]
    <2> SUFFICES ASSUME NEW k \in 1..m PROVE slots'[r[k]] = IF k = m THEN Nil ELSE r[k + 1]
      OBVIOUS
    <2>1. CASE k = 1
      <3>1. slots'[i] = freeHead
        BY <1>2
      <3>2. freeHead = IF n = 0 THEN Nil ELSE s[1]
        BY <1>1 DEF Lists
      <3>3. n # 0 => r[2] = s[1]
        OBVIOUS
      <3> QED
        BY <2>1, <3>1, <3>2, <3>3
    <2>2. CASE k # 1
      <3>1. k - 1 \in 1..n /\ r[k] = s[k - 1] /\ s[k - 1] \in EmptySlots
        BY <2>2, <1>8
      <3>2. slots'[s[k - 1]] = slots[s[k - 1]]
        BY <3>1, <1>2, <1>5 DEF EmptySlots
      <3>3. slots[s[k - 1]] = IF k - 1 = n THEN Nil ELSE s[k]
        BY <3>1, <1>1 DEF Lists
      <3>4. k # m => r[k + 1] = s[k]
        BY <2>2
      <3> QED
        BY <3>1, <3>2, <3>3, <3>4
    <2> QED
      BY <2>1, <2>2
  <1>12. \A k, l \in 1..m : r[k] = r[l] => k = l
    <2>1. \A k \in 2..m : r[k] # i
      BY <1>5, <1>8
    <2>2. \A k, l \in 2..m : r[k] = r[l] => k = l
      BY <1>1, <1>8
    <2>3. \A k \in 1..m : k = 1 \/ k \in 2..m
      OBVIOUS
    <2> HIDE DEF r
    <2> QED
      BY <2>1, <2>2, <2>3, <1>7
  <1>13. Lists(m, r)'
    BY <1>2, <1>7, <1>10, <1>11 DEF Lists
  <1>14. FreeOrder'
    BY <1>7, <1>9, <1>12, <1>13 DEF FreeOrder
  <1> QED
    BY <1>3, <1>5, <1>6, <1>14

----------------------------------------------------------------------------
(* The arena under the scheduler. *)

\* The slots of the threads the scheduler knows.
Alive == {t \in Tids : state[t] # "Empty"}

\* At most one thread is dead and not reaped: each switch reaps the last one
\* before it buries the next.
OneDead == \A t, u \in graveyard : t = u

\* The inductive invariant of the scheduler with its arena.
ArenaSchedInv ==
  /\ SchedInv
  /\ ArenaInv
  /\ OccupiedSlots = Alive
  /\ OneDead

\* What the pool sees of a step.
PoolStep == Pool!PoolNext \/ UNCHANGED <<OccupiedSlots, DOMAIN slots>>

\* The initial state.
LEMMA ArenaSchedInitInv == ArenaSchedInit => ArenaSchedInv /\ Pool!PoolInit
  <1> SUFFICES ASSUME ArenaSchedInit PROVE ArenaSchedInv /\ Pool!PoolInit
    OBVIOUS
  <1>1. SchedInv
    BY InitInv DEF ArenaSchedInit
  <1>2. slots = [i \in {Idle} |-> Occupied] /\ freeHead = Nil /\ Idle \in Slots
    BY SlotsAreTids, SchedAssumption DEF ArenaSchedInit
  <1>3. OccupiedSlots = {Idle} /\ DOMAIN slots = {Idle} /\ EmptySlots = {}
    BY <1>2 DEF OccupiedSlots, EmptySlots
  <1>4. Alive = {Idle} /\ OneDead
    BY SchedAssumption DEF ArenaSchedInit, SchedInit, Alive, OneDead
  <1> DEFINE r == [k \in 1..0 |-> Nil]
  <1>5. Lists(0, r) /\ r \in [1..0 -> EmptySlots] /\ \A k, l \in 1..0 : r[k] = r[l] => k = l
    BY <1>2, <1>3 DEF Lists
  <1>6. FreeOrder
    <2> HIDE DEF r
    <2> QED
      BY <1>5 DEF FreeOrder
  <1>7. ArenaTypeOK
    BY <1>2 DEF ArenaTypeOK
  <1> QED
    BY <1>1, <1>2, <1>3, <1>4, <1>6, <1>7 DEF ArenaSchedInv, ArenaInv, Pool!PoolInit

\* insert is Take of the pool.
LEMMA InsertTakes ==
  ASSUME ArenaInv, NEW i \in Slots, Insert(i)
  PROVE  /\ ArenaInv'
         /\ OccupiedSlots' = OccupiedSlots \cup {i}
         /\ Pool!PoolNext
  <1>1. CASE Reuse(i)
    <2>1. /\ ArenaInv' /\ i \in EmptySlots
          /\ OccupiedSlots' = OccupiedSlots \cup {i} /\ DOMAIN slots' = DOMAIN slots
      BY <1>1, ReuseInv
    <2>2. Pool!Take(i)
      BY <2>1 DEF Pool!Take, EmptySlots
    <2> QED
      BY <2>1, <2>2 DEF Pool!PoolNext
  <1>2. CASE Push(i)
    <2>1. /\ ArenaInv' /\ EmptySlots = {} /\ i \notin DOMAIN slots
          /\ OccupiedSlots' = OccupiedSlots \cup {i} /\ DOMAIN slots' = DOMAIN slots \cup {i}
      BY <1>2, PushInv
    <2>2. DOMAIN slots = OccupiedSlots
      BY <2>1 DEF EmptySlots, OccupiedSlots
    <2>3. Pool!Take(i)
      BY <2>1, <2>2 DEF Pool!Take
    <2> QED
      BY <2>1, <2>3 DEF Pool!PoolNext
  <1> QED
    BY <1>1, <1>2 DEF Insert

\* remove of a live thread is Give.
LEMMA RemoveGives ==
  ASSUME ArenaInv, NEW i \in OccupiedSlots, Remove(i)
  PROVE  /\ ArenaInv'
         /\ OccupiedSlots' = OccupiedSlots \ {i}
         /\ Pool!PoolNext
  <1>1. /\ ArenaInv'
        /\ OccupiedSlots' = OccupiedSlots \ {i}
        /\ DOMAIN slots' = DOMAIN slots
    BY RemoveInv
  <1>2. i \in Slots
    BY DEF ArenaInv, ArenaTypeOK, OccupiedSlots
  <1>3. Pool!Give(i)
    BY <1>1 DEF Pool!Give
  <1> QED
    BY <1>1, <1>2, <1>3 DEF Pool!PoolNext

\* A step that leaves the arena alone.
LEMMA ArenaKept ==
  ASSUME ArenaInv, UNCHANGED arenaVars
  PROVE  /\ ArenaInv'
         /\ OccupiedSlots' = OccupiedSlots
         /\ PoolStep
  <1>1. slots' = slots /\ freeHead' = freeHead
    BY DEF arenaVars
  <1>2. OccupiedSlots' = OccupiedSlots /\ EmptySlots' = EmptySlots /\ DOMAIN slots' = DOMAIN slots
    BY <1>1 DEF OccupiedSlots, EmptySlots
  <1> QED
    BY <1>1, <1>2 DEF ArenaInv, ArenaTypeOK, FreeOrder, Lists, PoolStep

\* reap_zombies, in a switch or called by the monitor, gives back the slot of the
\* one dead thread.
LEMMA ReapedKeeps ==
  ASSUME ArenaSchedInv, RemoveReaped, state' = Removed(Reaped)
  PROVE  ArenaInv' /\ OccupiedSlots' = Alive' /\ PoolStep
  <1>1. /\ Reaped = graveyard
        /\ \A t \in Tids : t \in graveyard <=> state[t] = "Zombie" /\ t # current
        /\ graveyard \subseteq Tids
    BY ReapedFacts DEF ArenaSchedInv, SchedInv, SchedTypeOK
  <1>2. Alive' = Alive \ Reaped
    BY <1>1 DEF Alive, Removed
  <1>3. CASE Reaped = {} /\ UNCHANGED arenaVars
    BY <1>2, <1>3, ArenaKept DEF ArenaSchedInv
  <1>4. ASSUME NEW t \in Reaped, Remove(t)
        PROVE  ArenaInv' /\ OccupiedSlots' = Alive' /\ PoolStep
    <2>1. Reaped = {t}
      BY <1>1 DEF ArenaSchedInv, OneDead
    <2>2. t \in OccupiedSlots
      BY <1>1 DEF ArenaSchedInv, Alive
    <2>3. /\ ArenaInv'
          /\ OccupiedSlots' = OccupiedSlots \ {t}
          /\ Pool!PoolNext
      BY <1>4, <2>2, RemoveGives DEF ArenaSchedInv
    <2> QED
      BY <1>2, <2>1, <2>3 DEF ArenaSchedInv, PoolStep
  <1> QED
    BY <1>3, <1>4 DEF RemoveReaped

\* A switch leaves one dead thread at most, the one it buries.
LEMMA ScheduleOneDead ==
  ASSUME SchedInv, NEW next \in Tids, Schedule(next)
  PROVE  OneDead'
  <1>1. Reaped = graveyard
    BY ReapedFacts
  <1> QED
    BY <1>1 DEF Schedule, Buried, OneDead

\* A step that neither creates nor reaps.
LEMMA OthersKeep ==
  ASSUME ArenaSchedInv, UNCHANGED arenaVars, graveyard' = graveyard,
         \A t \in Tids : state'[t] = "Empty" <=> state[t] = "Empty"
  PROVE  ArenaInv' /\ OccupiedSlots' = Alive' /\ OneDead' /\ PoolStep
  <1>1. Alive' = Alive
    BY DEF Alive
  <1>2. ArenaInv' /\ OccupiedSlots' = OccupiedSlots /\ PoolStep
    BY ArenaKept DEF ArenaSchedInv
  <1>3. OneDead'
    BY DEF ArenaSchedInv, OneDead
  <1> QED
    BY <1>1, <1>2, <1>3 DEF ArenaSchedInv

\* A new thread is in the slot that insert chose.
LEMMA AddTaskInserts ==
  ASSUME ArenaSchedInv, NEW t \in Tids, AddTask(t), Insert(t)
  PROVE  ArenaInv' /\ OccupiedSlots' = Alive' /\ OneDead' /\ PoolStep
  <1>1. ArenaInv' /\ OccupiedSlots' = OccupiedSlots \cup {t} /\ Pool!PoolNext
    BY InsertTakes, SlotsAreTids DEF ArenaSchedInv
  <1>2. Alive' = Alive \cup {t}
    BY DEF ArenaSchedInv, SchedInv, SchedTypeOK, AddTask, Alive
  <1>3. OneDead'
    BY DEF ArenaSchedInv, AddTask, OneDead
  <1> QED
    BY <1>1, <1>2, <1>3 DEF ArenaSchedInv, PoolStep

\* Every step of the scheduler with its arena.
LEMMA ArenaSchedNextInv ==
  ASSUME ArenaSchedInv, [ArenaSchedNext]_arenaSchedVars
  PROVE  ArenaSchedInv' /\ PoolStep
  <1>1. [SchedNext]_schedVars
    BY DEF ArenaSchedNext, ArenaTick, arenaSchedVars, SchedNext
  <1>2. SchedInv'
    BY <1>1, NextInv DEF ArenaSchedInv
  <1> DEFINE Kept == ArenaInv' /\ OccupiedSlots' = Alive' /\ OneDead' /\ PoolStep
  <1>3. ASSUME NEW t \in Tids, BootSpawn(t) \/ Spawn(t), Insert(t)
        PROVE  Kept
    BY <1>3, AddTaskInserts DEF BootSpawn, Spawn
  <1>4. ASSUME NEW x \in Tids, Join(x), UNCHANGED arenaVars
        PROVE  Kept
    <2>1. graveyard' = graveyard /\ \A t \in Tids : state'[t] = "Empty" <=> state[t] = "Empty"
      BY <1>4, RunningReady DEF ArenaSchedInv, SchedInv, SchedTypeOK, Join, GoToSleep
    <2> QED
      BY <1>4, <2>1, OthersKeep
  <1>5. ASSUME NEW o \in Objects, BlockOn(o), UNCHANGED arenaVars
        PROVE  Kept
    <2>1. graveyard' = graveyard /\ \A t \in Tids : state'[t] = "Empty" <=> state[t] = "Empty"
      BY <1>5, RunningReady DEF ArenaSchedInv, SchedInv, SchedTypeOK, BlockOn, GoToSleep
    <2> QED
      BY <1>5, <2>1, OthersKeep
  <1>6. ASSUME NEW o \in Objects, WakeOne(o), UNCHANGED arenaVars
        PROVE  Kept
    <2>1. graveyard' = graveyard /\ \A t \in Tids : state'[t] = "Empty" <=> state[t] = "Empty"
      BY <1>6 DEF ArenaSchedInv, SchedInv, SchedTypeOK, WakeOne, Woken
    <2> QED
      BY <1>6, <2>1, OthersKeep
  <1>7. ASSUME NEW os \in SUBSET Objects, Exit(os), UNCHANGED arenaVars
        PROVE  Kept
    <2>1. graveyard' = graveyard /\ \A t \in Tids : state'[t] = "Empty" <=> state[t] = "Empty"
      BY <1>7, RunningReady DEF ArenaSchedInv, SchedInv, SchedTypeOK, Exit, Woken
    <2> QED
      BY <1>7, <2>1, OthersKeep
  <1>8. ASSUME ReapZombies, RemoveReaped
        PROVE  Kept
    <2>1. OneDead'
      BY <1>8 DEF ArenaSchedInv, ReapZombies, OneDead
    <2> QED
      BY <1>8, <2>1, ReapedKeeps DEF ReapZombies
  <1>9. ASSUME NEW next \in Tids, Yield(next) \/ Tick(next), RemoveReaped
        PROVE  Kept
    <2>1. Schedule(next)
      BY <1>9 DEF Yield, Tick
    <2>2. OneDead'
      BY <2>1, ScheduleOneDead DEF ArenaSchedInv
    <2> QED
      BY <1>9, <2>1, <2>2, ReapedKeeps DEF Schedule
  <1>10. ASSUME UNCHANGED arenaSchedVars
         PROVE  Kept
    <2>1. UNCHANGED arenaVars /\ graveyard' = graveyard /\ state' = state
      BY <1>10 DEF arenaSchedVars, schedVars
    <2> QED
      BY <2>1, OthersKeep
  <1>11. Kept
    <2> HIDE DEF Kept
    <2> QED
      BY <1>3, <1>4, <1>5, <1>6, <1>7, <1>8, <1>9, <1>10 DEF ArenaSchedNext, ArenaTick
  <1> QED
    BY <1>2, <1>11 DEF ArenaSchedInv

\* A slot is occupied exactly while the scheduler knows its thread, and the free
\* list runs through the others: get_mut never meets a slot that was given away
\* and insert never finds its list corrupted.
THEOREM ArenaAgrees == ArenaSchedSpec => []ArenaExact
  <1>1. ArenaSchedInit => ArenaSchedInv
    BY ArenaSchedInitInv
  <1>2. ArenaSchedInv /\ [ArenaSchedNext]_arenaSchedVars => ArenaSchedInv'
    BY ArenaSchedNextInv
  <1>3. ArenaSchedInv => ArenaExact
    BY OrderIsExact DEF ArenaSchedInv, ArenaInv, ArenaExact, Alive
  <1> QED
    BY <1>1, <1>2, <1>3, PTL DEF ArenaSchedSpec

\* The arena under the scheduler implements the pool: it never gives out the
\* identifier of a live thread, and it grows only when every slot is in use.
THEOREM ArenaImplementsPool == ArenaSchedSpec => PoolSpec
  <1>1. ArenaSchedInit => ArenaSchedInv /\ Pool!PoolInit
    BY ArenaSchedInitInv
  <1>2. ArenaSchedInv /\ [ArenaSchedNext]_arenaSchedVars
          => ArenaSchedInv' /\ [Pool!PoolNext]_(Pool!poolVars)
    BY ArenaSchedNextInv DEF PoolStep, Pool!poolVars
  <1> QED
    BY <1>1, <1>2, PTL DEF ArenaSchedSpec, PoolSpec, Pool!PoolSpec

=============================================================================
