SPECIFICATION Spec
CONSTANTS
  Pages = {p1, p2, p3}
  Files = {f1}
  Flats = {{}, {f1}}
  Kern = Kern
  Threads = {t1, t2}
  NoPage = NoPage
  Empty = Empty
  NoRef = NoRef
  Ops = {"read", "write", "fault", "truncate"}
  Switches = {{"rmap", "vmap", "stranded"}, {"vmap"}}
  FifoSize = 2
  MaxReq = 3
SYMMETRY Sym
CHECK_DEADLOCK FALSE
INVARIANTS TypeOK OneUser Coherent NoStoreLost MediaSafe KernelPage Scheduled
