\* Two clients with MSet and MGet, a goroutine per key, and direct calls.
CONSTANTS
  a1 = a1
  a2 = a2
  k1 = k1
  k2 = k2
  v1 = v1
  v2 = v2
  Absent = Absent
  NoProc = NoProc
  NoBatch = NoBatch
  shardCount = 2
  Sequential = {"Count"}
  Clients <- MCClients
  Procs <- MCProcs
  Keys <- MCKeys
  Values <- MCValues
  fnv32 <- MCfnv32
  upsertCb <- MCUpsertCb
  removeCb <- MCRemoveCb
  Calls <- MCCalls
  Batches <- MCBatches
SPECIFICATION StrSpec
INVARIANTS
  BatchTypeOK
  NoStragglers
  BatchEffective
