------------------------------ MODULE MapCalls ------------------------------
(***************************************************************************)
(* The calls a client of i64map.ConcurrentMap can make                     *)
(* (src/concurrentmap/i64map/map.go) and what each does to one key, apart  *)
(* from locks and interleavings.                                           *)
(***************************************************************************)
EXTENDS Naturals, FiniteSets

CONSTANTS
  Keys, Values,
  Absent,      \* what items[k] is when k is not in the map
  shardCount,
  fnv32,       \* the hash of a key: [Keys -> Nat]
  upsertCb,    \* the client's UpsertCb, from old value (or Absent) and new
  removeCb,    \* the client's RemoveCb, from key and old value (or Absent)
  Calls        \* the calls the clients make

MaybeValues == Values \cup {Absent}

Shards == 0 .. (shardCount - 1)

\* fnv32(key) % shardCount
getShard(k) == fnv32[k] % shardCount

\* Calls on one key, on a list or map of keys, and on the whole map.
\* "Items" stands for Iter, Items and MarshalJSON, which all take a snapshot.
OneKeyOps == {"Get", "Has", "Set", "Upsert", "SetIfAbsent", "Remove",
              "RemoveCb", "Pop"}
BatchOps == {"MGet", "MSet"}
WholeMapOps == {"Count", "Items", "ForEach", "Clear", "Resize"}

\* Calls that take the write lock, and calls that look at the old value.
WriteOps == {"Set", "Upsert", "SetIfAbsent", "Remove", "RemoveCb", "Pop",
             "MSet", "Clear", "Resize"}
ReadOps == {"Get", "Has", "Set", "Upsert", "SetIfAbsent", "RemoveCb", "Pop",
            "MGet", "Items", "ForEach", "Resize"}

\* A call: its keys and, where it stores values, the value for each.  A call
\* of Resize with a negative capacity has no keys: it returns at once.
CallType ==
  {c \in [op : OneKeyOps \cup BatchOps \cup WholeMapOps,
          keys : SUBSET Keys, data : [Keys -> MaybeValues]] :
     /\ c.op \in OneKeyOps => \E k \in Keys : c.keys = {k}
     /\ c.op \in WholeMapOps => c.keys = Keys \/ (c.op = "Resize" /\ c.keys = {})
     /\ c.op \in {"Set", "Upsert", "SetIfAbsent", "MSet"} =>
          \A k \in c.keys : c.data[k] \in Values}

NoData == [k \in Keys |-> Absent]

NoCall == [op |-> "none", keys |-> {}, data |-> NoData]

ASSUME MapAssumption ==
  /\ IsFiniteSet(Keys)
  /\ Absent \notin Values
  /\ shardCount \in Nat \ {0}
  /\ fnv32 \in [Keys -> Nat]
  /\ upsertCb \in [MaybeValues \X Values -> Values]
  /\ removeCb \in [Keys \X MaybeValues -> BOOLEAN]
  /\ Calls \subseteq CallType

\* A bug: the grouping of MGet and MSet does not hash as getShard does.
GroupOtherHash(c, s) == {k \in c.keys : (fnv32[k] \div 2) % shardCount = s}

\* The keys of call c that live in shard s.
Group(c, s) == {k \in c.keys : getShard(k) = s}

\* What call c leaves under key k, where it found v.
NewValue(c, k, v) ==
  CASE c.op \in {"Set", "MSet"} -> c.data[k]
    [] c.op = "Upsert" -> upsertCb[v, c.data[k]]
    [] c.op = "SetIfAbsent" -> IF v = Absent THEN c.data[k] ELSE v
    [] c.op \in {"Remove", "Pop", "Clear"} -> Absent
    [] c.op = "RemoveCb" -> IF removeCb[k, v] THEN Absent ELSE v
    [] OTHER -> v
=============================================================================
