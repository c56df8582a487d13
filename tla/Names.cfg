SPECIFICATION Spec
CONSTANTS
  Threads = {t1, t2}
  Labels = {n1, n2}
  NoLabel = NoLabel
  Count0 = 2
  PerBlock = 1
  MaxCount = 3
  MaxGrown = 1
  MaxCalls = 5
  MaxBoot = 1
SYMMETRY Sym
CHECK_DEADLOCK FALSE
INVARIANTS  NumbersKept
