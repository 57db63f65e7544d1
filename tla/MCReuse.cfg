CONSTANTS
  t1 = t1
  t2 = t2
  t3 = t3
  t4 = t4
  pt1 = pt1
  pt2 = pt2
  pt3 = pt3
  Tids = {idle, t1, t2, t3, t4}
  Idle = idle
  None = None
  Pids <- MCPids
  Objects <- MCObjects
  PageTables = {kpt, pt1, pt2, pt3}
  KernelPT = kpt
  NoProc = NoProc
  Habits <- MCHeirs
  Console = Console
SPECIFICATION ProcSpec
SYMMETRY Symmetry
INVARIANTS
  RunnableHasProcess
