\* One goroutine, three hash functions, the third a multiple of the first.
CONSTANTS
  Data <- MCData
  Hashes <- MCHashes
  mix <- MCMix
  offset = 5
  k = 3
  size = 7
  modulus = 16
  Procs = {p1}
  NoCall = NoCall
SPECIFICATION Spec
INVARIANTS
  TypeOK
  NoFalseNegatives
