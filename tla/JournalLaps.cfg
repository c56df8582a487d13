SPECIFICATION Spec
CONSTANTS
  Procs = {p1}
  Addrs = {a1}
  Vals = {0, 1}
  InitVal = 0
  NoAddr = NoAddr
  Requests = {1}
  JSize = 5
  MaxGen = 3
  MaxTid = 5
  MaxBoot = 2
  MaxWake = 0
CHECK_DEADLOCK FALSE
INVARIANTS TypeOK RecoveredAtomic LogIntact
PROPERTY UnmountEmpties
