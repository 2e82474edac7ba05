\* Three names, four hashes, so that some agree, and a name possibly twice.
CONSTANTS
  Names = {n1, n2, n3}
  HashSpace = 4
  VirtualSpots <- MCVirtualSpots
  DefaultVirtualSpots = 2
  keyHash <- MCkeyHash
  MaxAdded = 3
  None = None
SPECIFICATION Spec
SYMMETRY Symmetry
INVARIANTS
  Clockwise
PROPERTIES
  MovesOnlyToAdded
  MovesOnlyFromRemoved
