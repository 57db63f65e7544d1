CONSTANTS
  MaxOrder = 11
  Highest = 65536
  Regions <- FarRegions
  MaxBlocks = 16
SPECIFICATION BuddySpec
INVARIANT
  MergesFree
