SPECIFICATION Spec
CONSTANTS
  Procs = {p1}
  Addrs = {a1, a2}
  Vals = {0, 1}
  InitVal = 0
  NoAddr = NoAddr
  Requests = {2}
  JSize = 7
  MaxGen = 5
  MaxTid = 2
  MaxBoot = 1
  MaxWake = 0
CHECK_DEADLOCK FALSE
INVARIANT SettledWords
SYMMETRY Sym
