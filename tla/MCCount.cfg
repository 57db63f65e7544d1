CONSTANTS
  t1 = t1
  t2 = t2
  t3 = t3
  Tids = {idle, t1, t2, t3}
  Idle = idle
  None = None
  Mutexes = {m}
  Box = box
  Objects = {m, box}
  MaxLen = 3
SPECIFICATION SyncSpec
SYMMETRY Symmetry
INVARIANT
  CountIsLength
