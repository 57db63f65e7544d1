CONSTANTS
  Spaces = {a, b}
  Frames <- SomeFrames
  Fan = 2
  Levels = 3
  Grain = 2
  Code = 1
  StackStart = 5
  StackEnd = 6
  KernelPages = 2
SPECIFICATION SpaceSpec
INVARIANTS
  FramesConserved
  Rooted
  HeapExact
VIEW Shape
CHECK_DEADLOCK FALSE
