\* Two goroutines, four hash functions, the fourth a multiple of the first.
CONSTANTS
  Data <- MCData
  base <- MCBase
  Batches <- MCBatches
  k = 4
  size = 3
  modulus = 4
  Procs = {p1, p2}
  NoCall = NoCall
SPECIFICATION Int64Spec
\* MSet waits for itself.
CHECK_DEADLOCK FALSE
INVARIANTS
  Int64TypeOK
  NoFalseNegatives
