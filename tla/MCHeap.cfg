CONSTANTS
  MaxOrder = 3
  Highest = 16
  Regions <- TwoRegions
  MaxBlocks = 5
  BlockSizes <- KernelSizes
  Layouts <- SomeLayouts
  HeapPages = 2
  MaxHeld = 3
SPECIFICATION HeapSpec
INVARIANTS
  Conserved
  MergeExact
  HeldApart
  SlabExact
