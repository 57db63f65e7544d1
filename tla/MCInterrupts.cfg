\* Two user threads, the monitor and the idle task.  A processor that halts
\* after an entry with the wrong GS base does not go on.
SPECIFICATION IntSpec
CONSTANTS
  u1 = u1
  u2 = u2
  m = m
  idle = idle
  Users <- MCUsers
  Monitor = m
  Idle = idle
  None = None
  FreshBuffers = FALSE
SYMMETRY Symmetry
INVARIANTS
  NeverSpins
  LockedIsAtomic
  OwnStack
PROPERTIES
  GsLostOnlyInReturn
CHECK_DEADLOCK FALSE
