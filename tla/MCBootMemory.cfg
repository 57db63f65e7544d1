CONSTANTS
  MaxOrder = 3
  Highest = 16
  Regions <- NoRegions
  MaxBlocks = 1
  Grain = 2
  Machines <- SmallMachines
  LegacyStart = 2
  Kernels <- SmallKernels
  TableFrames = 1
  BitmapFrames = 2
  MaxReserved = 9
SPECIFICATION BootFairSpec
INVARIANTS
  BootFramesOwn
  NothingReservedGiven
  NothingLost
PROPERTIES
  MadtWalkEnds
CHECK_DEADLOCK FALSE
