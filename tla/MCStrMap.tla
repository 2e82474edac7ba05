------------------------------ MODULE MCStrMap ------------------------------
(* Two keys on two shards, MSet and MGet of both, and the goroutines that  *)
(* they start, against calls on one key and on the whole map.              *)
EXTENDS StrMap, TLC

CONSTANTS a1, a2, k1, k2, v1, v2

MCClients == {a1, a2}
MCKeys == {k1, k2}
MCValues == {v1, v2}
MCProcs == MCClients \cup (MCClients \X MCKeys)
MCfnv32 == (k1 :> 2) @@ (k2 :> 5)
MCUpsertCb == [a \in MaybeValues \X Values |-> a[2]]
MCRemoveCb == [a \in Keys \X MaybeValues |-> TRUE]

On(op, K, v) ==
  [op |-> op, keys |-> K, data |-> [k \in Keys |-> IF k \in K THEN v ELSE Absent]]

MCBatches ==
  {[op |-> "MSet", keys |-> Keys, data |-> (k1 :> v1) @@ (k2 :> v2)],
   On("MGet", Keys, Absent)}

\* Set and Get of one key, as the goroutines call them, GetOrSet, and the
\* calls that visit both shards.
MCCalls ==
  {On("MSet", {k1}, v1), On("MSet", {k2}, v2), On("Get", {k1}, Absent),
   On("Get", {k2}, Absent), On("SetIfAbsent", {k1}, v2)}
  \cup {On(op, Keys, Absent) : op \in {"Clear", "Items", "Count"}}
=============================================================================
