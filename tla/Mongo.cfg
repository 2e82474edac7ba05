\* Two processes of two writes each.
CONSTANTS
  Procs = {p1, p2}
  Batches <- MCBatches
  MaxCalls = 2
  MaxLog = 4
SPECIFICATION Spec
SYMMETRY Symmetry
INVARIANTS
  TypeOK
  RangesDisjoint
  OneDocument
  ReadyMeansDocument
PROPERTIES
  IdsGrow
