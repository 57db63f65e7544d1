CONSTANTS
  Tids <- MCBootSlots
  Slots <- MCBootSlots
  Idle = 0
  Objects = {o1}
  None = None
  Occupied = Occupied
  Nil = Nil
SPECIFICATION BootFairSpec
PROPERTY
  BootHandoff
