\* The default of two shards, and strmaps with one and with three.
CONSTANTS
  k1 = k1
  k2 = k2
  k3 = k3
  v1 = v1
  v2 = v2
  Absent = Absent
  NoChange = NoChange
  shardCount = 2
  Sizes = {1, 2, 3}
  MaxShards = 3
  MaxChanges = 2
  MaxItems = 2
  Keys <- MCKeys
  Values <- MCValues
  fnv32 <- MCfnv32
  Changes <- MCChanges
SPECIFICATION Spec
CHECK_DEADLOCK FALSE
INVARIANTS
  TypeOK
  WeaklyConsistent
  CountBounded
  FanInNeverWaits
  DefaultNeverPanics
PROPERTIES
  WalkEnds
  ChangesGetIn
