SPECIFICATION Spec
CONSTANTS
  Files = {f1, f2}
  NBlocks = 5
  None = None
  Junk = Junk
  Fan = 2
  MaxHeight = 2
  Ranges <- RangesAll
  Sizes = {1, 3}
  MaxCalls = 4
  MaxBoot = 1
SYMMETRY Sym
CHECK_DEADLOCK FALSE
INVARIANTS TypeOK Accounted InodeExact
PROPERTY ImplementsMap
