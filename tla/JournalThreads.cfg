SPECIFICATION Spec
CONSTANTS
  Procs = {p1, p2}
  Addrs = {a1, a2}
  Vals = {0, 1}
  InitVal = 0
  NoAddr = NoAddr
  Requests = {1}
  JSize = 5
  MaxGen = 3
  MaxTid = 3
  MaxBoot = 1
  MaxWake = 1
CHECK_DEADLOCK FALSE
INVARIANT RecoveredAtomic
SYMMETRY Sym
