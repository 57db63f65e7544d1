CONSTANTS
  Nodes = {n1, n2, n3}
  Nil = Nil
  Vruntimes = {0}
  Deadlines = {0}
  Weights = {2}
  TimeConsumed = 2
  Shift = 6
  Width = 80
  Granularity = 4
  Latency = 6
  Nice0 = 2
  MaxRuntime = 14
  MaxClock = 6
  MaxWeight = 6
SPECIFICATION EevdfSpec
SYMMETRY Symmetry
VIEW Live
PROPERTIES
  FairPick
CHECK_DEADLOCK FALSE
