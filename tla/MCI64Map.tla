------------------------------ MODULE MCI64Map ------------------------------
(* Three keys on two shards, k1 and k2 together on one, and the calls that *)
(* the run of I64MapFaults makes.                                          *)
EXTENDS I64MapFaults, TLC

CONSTANTS k1, k2, k3, v1, p1, p2, p3

MCKeys == {k1, k2, k3}
MCValues == {v1}
MCfnv32 == (k1 :> 4) @@ (k2 :> 6) @@ (k3 :> 5)
MCUpsertCb == [a \in MaybeValues \X Values |-> a[2]]
MCRemoveCb == [a \in Keys \X MaybeValues |-> a[2] # Absent]

On(op, K, v) ==
  [op |-> op, keys |-> K, data |-> [k \in Keys |-> IF k \in K THEN v ELSE Absent]]

\* Two goroutines meet on all shards, one with callbacks in Upsert and ForEach, one
\* with calls that write: the batch has two keys that share a shard and one that
\* does not.  The third needs the second shard only, and has a callback too.
MCcallsOf ==
  (p1 :> {On("Upsert", {k1}, v1), On("ForEach", Keys, Absent)}) @@
  (p2 :> {On("MSet", Keys, v1), On("Clear", Keys, Absent),
          On("Resize", Keys, Absent), On("Resize", {}, Absent)}) @@
  (p3 :> {On("RemoveCb", {k3}, Absent)})

MCProcs == {p1, p2, p3}
MCCalls == UNION {MCcallsOf[p] : p \in MCProcs}
=============================================================================
