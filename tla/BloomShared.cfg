\* Two goroutines.
CONSTANTS
  Data <- MCData
  Hashes <- MCHashes
  mix <- MCMix
  offset = 5
  k = 2
  size = 7
  modulus = 16
  Procs = {p1, p2}
  NoCall = NoCall
SPECIFICATION Spec
INVARIANT NoFalseNegatives
