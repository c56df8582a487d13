SPECIFICATION SelectSpec
CONSTANTS
  NumBlocks = 4
  NumReserved = 2
  MapPages = 1
  StraySlot = 3
  ByteBits = 5
  NumBins = 3
  Thres = 2
  PageSize = 3
  CountersPerPage = 3
  CounterPages = 2
  WriteSizes = {3}
  MaxWear = 9
  MaxBoot = 2
  BlockEnd = 8
  UsedBlocks = 2
  MaxRestart = 2
  MaxOom = 1
CHECK_DEADLOCK FALSE
INVARIANTS TypeOK OneOwner FreeCount NothingLost BinAccuracy EnomemOnlyWorn RangesExact
PROPERTIES LeastWorn WornOutRetired ImplementsPool PmfsImplementsPool
