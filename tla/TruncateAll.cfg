SPECIFICATION FairSpec
CONSTANTS
  Inos = {i1, i2, i3}
  NoIno = NoIno
  MaxSize = 1
  Targets = {}
  TruncateOrphans = FALSE
  MaxCreate = 1
  MaxFull = 0
  MaxBoot = 1
CHECK_DEADLOCK FALSE
INVARIANT ListsAgree
PROPERTY RecoveryEnds
