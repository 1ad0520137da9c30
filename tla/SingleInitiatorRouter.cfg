SPECIFICATION Spec
CONSTANTS
  LastAddress = 3
  TagGranule = 2
  LLGranule = 2
  Ranges <- MCRanges
  Sizes = {1, 2}
  Vectors <- MCVectors
  MaxTargets = 3
VIEW View
INVARIANTS RangesDisjoint DeliveryCovered TagsHonest ReservationsTracked
