\* Two goroutines, one of which may call MSet with two indexes.
CONSTANTS
  size = 9
  Procs = {p1, p2}
  NoProc = NoProc
  Calls <- Few
SPECIFICATION Spec
CHECK_DEADLOCK FALSE
PROPERTY CallsReturn
