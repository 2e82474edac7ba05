\* Three goroutines, two of which may call DoStop at the same time.
CONSTANTS
  Procs = {p1, p2, p3}
  Stoppers = {p1, p2}
  NoProc = NoProc
SPECIFICATION Spec
\* A panic ends the program.
CHECK_DEADLOCK FALSE
INVARIANTS
  TypeOK
  ClosedOnce
  CrashNeedsTwoStops
  FlagAfterChannel
PROPERTIES
  LifecycleSpec
  WaitersReleased
