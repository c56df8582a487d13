SPECIFICATION Spec
CONSTANTS
  Inos = {i1, i2}
  NoIno = NoIno
  MaxSize = 1
  Targets = {0, 1}
  TruncateOrphans = TRUE
  MaxCreate = 0
  MaxFull = 1
  MaxBoot = 2
SYMMETRY Sym
CHECK_DEADLOCK FALSE
INVARIANTS ListedOrDone TruncatesAsAsked Recovered
