CONSTANTS
  Tids <- MCSlots
  Slots <- MCSlots
  Idle = 0
  Objects = {o1, o2}
  None = None
  Occupied = Occupied
  Nil = Nil
SPECIFICATION ArenaSchedFairSpec
INVARIANTS
  SchedInv
  ArenaExact
PROPERTIES
  JoinEndsAtExit
  ZombieReaped
  PoolSpec
