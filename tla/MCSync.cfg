CONSTANTS
  t1 = t1
  t2 = t2
  t3 = t3
  Tids = {idle, t1, t2, t3}
  Idle = idle
  None = None
  Mutexes = {m1, m2}
  Box = box
  Objects = {m1, m2, box}
  MaxLen = 3
SPECIFICATION SyncSpec
SYMMETRY Symmetry
INVARIANTS
  SyncInv
  MutualExclusion
  NoLostWakeup
  NeverMissed
  NoLostSend
