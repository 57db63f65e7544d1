---------------------------- MODULE ThreadArena ----------------------------
(***************************************************************************)
(* The arena of threads (src/process/process.rs): a vector of slots in which *)
(* the empty ones are linked in a free list.  A slot holds Occupied, or the *)
(* next_free of an empty slot (Nil at the end of the list).                 *)
(***************************************************************************)
EXTENDS Integers, FiniteSets

CONSTANTS
  Slots,      \* the indices the vector may grow to
  Occupied,   \* ThreadSlot::Occupied
  Nil         \* no next_free, no free_head

ASSUME ArenaAssumption ==
  /\ Slots \subseteq Nat
  /\ \A i \in Slots : \A j \in 0..i : j \in Slots
  /\ Occupied \notin Slots
  /\ Nil \notin Slots
  /\ Nil # Occupied

VARIABLES
  slots,      \* ThreadArena.slots, a function on 0..length - 1
  freeHead    \* ThreadArena.free_head

arenaVars == <<slots, freeHead>>

OccupiedSlots == {i \in DOMAIN slots : slots[i] = Occupied}

EmptySlots == DOMAIN slots \ OccupiedSlots

\* ThreadArena::new.
ArenaInit ==
  /\ slots = [i \in {} |-> Occupied]
  /\ freeHead = Nil

\* (Mutant: the head of the list stays.)
ReuseKeepsHead(i) ==
  /\ freeHead # Nil
  /\ i = freeHead
  /\ slots[i] # Occupied
  /\ freeHead' = freeHead
  /\ slots' = [slots EXCEPT ![i] = Occupied]

\* insert, fast path.  The code panics when the head of the list is not empty.
Reuse(i) ==
  /\ freeHead # Nil
  /\ i = freeHead
  /\ slots[i] # Occupied
  /\ freeHead' = slots[i]
  /\ slots' = [slots EXCEPT ![i] = Occupied]

\* insert, slow path: i is the length of the vector.
Push(i) ==
  /\ freeHead = Nil
  /\ DOMAIN slots = 0..(i - 1)
  /\ slots' = [j \in 0..i |-> IF j = i THEN Occupied ELSE slots[j]]
  /\ UNCHANGED freeHead

\* ThreadArena::insert, returning i.
Insert(i) == Reuse(i) \/ Push(i)

\* (Mutant: the slot is not put in the list.)
RemoveUnlinked(i) ==
  IF i \in OccupiedSlots
  THEN slots' = [slots EXCEPT ![i] = Nil] /\ UNCHANGED freeHead
  ELSE UNCHANGED arenaVars

\* ThreadArena::remove.  For an empty slot the swap is undone; past the end
\* of the vector nothing happens.
Remove(i) ==
  IF i \in OccupiedSlots
  THEN slots' = [slots EXCEPT ![i] = freeHead] /\ freeHead' = i
  ELSE UNCHANGED arenaVars

ArenaNext == \E i \in Slots : Insert(i) \/ Remove(i)

ArenaSpec == ArenaInit /\ [][ArenaNext]_arenaVars

----------------------------------------------------------------------------
(* Properties. *)

\* s lists the n empty slots in the order of the free list.
Lists(n, s) ==
  /\ \A i \in EmptySlots : \E k \in 1..n : s[k] = i
  /\ freeHead = IF n = 0 THEN Nil ELSE s[1]
  /\ \A k \in 1..n : slots[s[k]] = IF k = n THEN Nil ELSE s[k + 1]

\* The free list runs through every empty slot once and through nothing else,
\* so insert never reaches "FATAL: ThreadArena free list corrupted" and no
\* slot is lost, in whatever order threads die and are replaced.
FreeListExact ==
  LET n == Cardinality(EmptySlots)
  IN \E s \in [1..n -> EmptySlots] : Lists(n, s)

\* The promise of the arena, over its slots.
Pool == INSTANCE SlotPool
  WITH Ids <- Slots, used <- OccupiedSlots, opened <- DOMAIN slots

\* Every step of the arena is a step of the pool: an identifier in use is never
\* given out again, and the vector grows only when it has no empty slot.
PoolSpec == Pool!PoolSpec

=============================================================================
