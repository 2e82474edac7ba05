\* Two goroutines, every call, MSet with lists included.
CONSTANTS
  size = 9
  Procs = {p1, p2}
  NoProc = NoProc
  Calls <- WithMSet
SPECIFICATION Spec
\* MSet waits for itself.
CHECK_DEADLOCK FALSE
INVARIANTS
  TypeOK
  PaddingClear
PROPERTIES
  AtomicBitmapSpec
  ReturnsUnlessBlocked
