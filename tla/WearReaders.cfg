SPECIFICATION Spec
CONSTANTS
  Pages = {p1, p2, p3}
  Files = {f1}
  Flats = {{}}
  Kern = Kern
  Threads = {t1, t2}
  NoPage = NoPage
  Empty = Empty
  NoRef = NoRef
  Ops = {"read", "write", "fault"}
  Switches = {{"rmap"}}
  FifoSize = 1
  MaxReq = 1
SYMMETRY Sym
CHECK_DEADLOCK FALSE
INVARIANT ReadersSeeFile
