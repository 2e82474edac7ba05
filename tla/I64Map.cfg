\* Three goroutines, calls on keys of two shards, callbacks that misbehave.
CONSTANTS
  k1 = k1
  k2 = k2
  k3 = k3
  v1 = v1
  Absent = Absent
  NoProc = NoProc
  p1 = p1
  p2 = p2
  p3 = p3
  Procs <- MCProcs
  shardCount = 2
  Sequential = {"MGet", "Count", "Items", "Clear", "Resize"}
  Keys <- MCKeys
  Values <- MCValues
  fnv32 <- MCfnv32
  upsertCb <- MCUpsertCb
  removeCb <- MCRemoveCb
  Calls <- MCCalls
  callsOf <- MCcallsOf
SPECIFICATION FaultSpec
CHECK_DEADLOCK FALSE
INVARIANTS
  TypeOK
  Placement
PROPERTIES
  AtomicMapSpec
  DamageContained
