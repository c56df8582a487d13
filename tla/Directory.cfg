SPECIFICATION Spec
CONSTANTS
  n1 = n1
  n2 = n2
  n3 = n3
  Labels <- LabelsAll
  Size <- SizeOf
  Dots = Dots
  Targets = {i1, i2}
  NoIno = NoIno
  Junk = Junk
  Block = 3
  MaxBlocks = 2
  MaxCalls = 4
  MaxBoot = 1
SYMMETRY Sym
CHECK_DEADLOCK FALSE
INVARIANTS Tiled ListedOnce
PROPERTY ImplementsDir
