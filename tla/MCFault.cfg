\* A console write from a page that was never touched.
SPECIFICATION IntSpec
CONSTANTS
  u1 = u1
  u2 = u2
  m = m
  idle = idle
  Users <- MCUsers
  Monitor = m
  Idle = idle
  None = None
  FreshBuffers = TRUE
SYMMETRY Symmetry
INVARIANTS
  NeverSpins
CHECK_DEADLOCK FALSE
