------------------------------- MODULE I64Map -------------------------------
(***************************************************************************)
(* i64map.ConcurrentMap (src/concurrentmap/i64map/map.go): the shards with *)
(* their maps and mutexes, and the goroutines in Procs that call it.  A    *)
(* call visits shards: one for a call on one key; one after the other for  *)
(* MGet, Count, Clear, Resize and the snapshot of Iter; all at once, each  *)
(* in a goroutine of its own, for MSet and ForEach.  A visit locks the     *)
(* shard, reads and writes it one key at a time, and unlocks it.           *)
(* StrMap uses the same visits.                                            *)
(***************************************************************************)
EXTENDS MapCalls, RWMutex

CONSTANTS
  Procs,
  Sequential  \* the calls that visit shard after shard, by their indexes

ASSUME ProcsAssumption == NoProc \notin Procs

VARIABLES
  items,    \* the map of each shard
  lock,     \* the RWMutex of each shard
  call,     \* the call each goroutine is making
  pc,       \* how far that call is with each shard
  toRead,   \* the keys its visit of a shard has still to read
  toWrite,  \* the keys its visit of a shard has still to write
  got,      \* the values it has read, its result
  count     \* the local variable of Count

vars == <<items, lock, call, pc, toRead, toWrite, got, count>>

TypeOK ==
  /\ items \in [Shards -> [Keys -> MaybeValues]]
  /\ lock \in [Shards -> RWMutexType(Procs)]
  /\ call \in [Procs -> Calls \cup {NoCall}]
  /\ pc \in [Procs -> [Shards -> {"todo", "rlock", "lock", "done"}]]
  /\ toRead \in [Procs -> [Shards -> SUBSET Keys]]
  /\ toWrite \in [Procs -> [Shards -> SUBSET Keys]]
  /\ got \in [Procs -> [Keys -> MaybeValues]]
  /\ count \in [Procs -> Nat]

\* A bug: New makes the shards but not their maps.
InitNoItems ==
  /\ items = [s \in Shards |-> [k \in {} |-> Absent]]
  /\ lock = [s \in Shards |-> Unlocked]
  /\ call = [p \in Procs |-> NoCall]
  /\ pc = [p \in Procs |-> [s \in Shards |-> "done"]]
  /\ toRead = [p \in Procs |-> [s \in Shards |-> {}]]
  /\ toWrite = [p \in Procs |-> [s \in Shards |-> {}]]
  /\ got = [p \in Procs |-> NoData]
  /\ count = [p \in Procs |-> 0]

\* New
Init ==
  /\ items = [s \in Shards |-> NoData]
  /\ lock = [s \in Shards |-> Unlocked]
  /\ call = [p \in Procs |-> NoCall]
  /\ pc = [p \in Procs |-> [s \in Shards |-> "done"]]
  /\ toRead = [p \in Procs |-> [s \in Shards |-> {}]]
  /\ toWrite = [p \in Procs |-> [s \in Shards |-> {}]]
  /\ got = [p \in Procs |-> NoData]
  /\ count = [p \in Procs |-> 0]

\* The shards a call locks: MGet and MSet pass over the shards that hold none
\* of their keys, a call on the whole map passes over none.
Visits(c) ==
  IF c.op \in WholeMapOps /\ c.keys = Keys
    THEN Shards ELSE {getShard(k) : k \in c.keys}

\* Shard s is the next one of a call that visits shard after shard.
Turn(p, s) ==
  call[p].op \in Sequential =>
    \A t \in Shards : t < s => pc[p][t] = "done"

-----------------------------------------------------------------------------
Invoke(p, c) ==
  /\ call[p] = NoCall
  /\ call' = [call EXCEPT ![p] = c]
  /\ pc' = [pc EXCEPT ![p] =
              [s \in Shards |-> IF s \in Visits(c) THEN "todo" ELSE "done"]]
  /\ UNCHANGED <<items, lock, toRead, toWrite, got, count>>

\* A visit that only reads calls shard.RLock().
RLock(p, s) ==
  /\ pc[p][s] = "todo"
  /\ call[p].op \notin WriteOps
  /\ Turn(p, s)
  /\ lock' = [lock EXCEPT ![s] = RLocked(@, p)]
  /\ pc' = [pc EXCEPT ![p][s] = "rlock"]
  /\ toRead' = [toRead EXCEPT ![p][s] = Group(call[p], s)]
  /\ UNCHANGED <<items, call, toWrite, got, count>>

\* A bug: writers lock the map, not the shard.
LockMap(p, s) ==
  /\ pc[p][s] = "todo"
  /\ call[p].op \in WriteOps
  /\ Turn(p, s)
  /\ \A t \in Shards : lock[t].writer = NoProc
  /\ lock' = [lock EXCEPT ![s] = Locked(@, p)]
  /\ pc' = [pc EXCEPT ![p][s] = "lock"]
  /\ toRead' = [toRead EXCEPT ![p][s] =
                  IF call[p].op \in ReadOps THEN Group(call[p], s) ELSE {}]
  /\ toWrite' = [toWrite EXCEPT ![p][s] = Group(call[p], s)]
  /\ UNCHANGED <<items, call, got, count>>

\* A visit that writes calls shard.Lock().
Lock(p, s) ==
  /\ pc[p][s] = "todo"
  /\ call[p].op \in WriteOps
  /\ Turn(p, s)
  /\ lock[s].writer = NoProc
  /\ lock' = [lock EXCEPT ![s] = Locked(@, p)]
  /\ pc' = [pc EXCEPT ![p][s] = "lock"]
  /\ toRead' = [toRead EXCEPT ![p][s] =
                  IF call[p].op \in ReadOps THEN Group(call[p], s) ELSE {}]
  /\ toWrite' = [toWrite EXCEPT ![p][s] = Group(call[p], s)]
  /\ UNCHANGED <<items, call, got, count>>

\* p is inside its critical section in shard s.
Inside(p, s) ==
  \/ pc[p][s] = "rlock" /\ HoldsRead(lock[s], p)
  \/ pc[p][s] = "lock" /\ HoldsWrite(lock[s], p)

\* One lookup: of the key of the call, of the next key of MGet, or of the next
\* key in the loops of snapshot, Resize and ForEach (the order is Go's).
ReadKey(p, s, k) ==
  /\ Inside(p, s)
  /\ call[p].op # "Count"
  /\ k \in toRead[p][s]
  /\ got' = [got EXCEPT ![p][k] = items[s][k]]
  /\ toRead' = [toRead EXCEPT ![p][s] = @ \ {k}]
  /\ UNCHANGED <<items, lock, call, pc, toWrite, count>>

\* A bug: MSet unlocks and locks again between two keys.
WriteKeyYield(p, s, k) ==
  /\ Inside(p, s)
  /\ call[p].op \notin {"Clear", "Resize"}
  /\ toRead[p][s] = {}
  /\ k \in toWrite[p][s]
  /\ items' = [items EXCEPT ![s][k] = NewValue(call[p], k, got[p][k])]
  /\ toWrite' = [toWrite EXCEPT ![p][s] = @ \ {k}]
  /\ lock' = [lock EXCEPT ![s] = [WriteUnlocked(@) EXCEPT !.writer = p]]
  /\ UNCHANGED <<call, pc, toRead, got, count>>

\* One store or delete: the one of a call on one key, or one of MSet's loop.
\* The callback of Upsert or RemoveCb runs here, under the lock.
WriteKey(p, s, k) ==
  /\ Inside(p, s)
  /\ call[p].op \notin {"Clear", "Resize"}
  /\ toRead[p][s] = {}
  /\ k \in toWrite[p][s]
  /\ items' = [items EXCEPT ![s][k] = NewValue(call[p], k, got[p][k])]
  /\ toWrite' = [toWrite EXCEPT ![p][s] = @ \ {k}]
  /\ UNCHANGED <<lock, call, pc, toRead, got, count>>

\* Clear puts a new, empty map in the shard.
ClearItems(p, s) ==
  /\ Inside(p, s)
  /\ call[p].op = "Clear"
  /\ toWrite[p][s] # {}
  /\ items' = [items EXCEPT ![s] = NoData]
  /\ toWrite' = [toWrite EXCEPT ![p][s] = {}]
  /\ UNCHANGED <<lock, call, pc, toRead, got, count>>

\* Resize puts the copy it has made in the shard.
ResizeItems(p, s) ==
  /\ Inside(p, s)
  /\ call[p].op = "Resize"
  /\ toRead[p][s] = {}
  /\ toWrite[p][s] # {}
  /\ items' = [items EXCEPT ![s] =
                 [k \in Keys |-> IF k \in Group(call[p], s) THEN got[p][k] ELSE Absent]]
  /\ toWrite' = [toWrite EXCEPT ![p][s] = {}]
  /\ UNCHANGED <<lock, call, pc, toRead, got, count>>

\* Count reads the length of the shard and unlocks it, in one step: the
\* length is all it looks at.
CountItems(p, s) ==
  /\ Inside(p, s)
  /\ call[p].op = "Count"
  /\ count' = [count EXCEPT ![p] =
                 @ + Cardinality({k \in Keys : items[s][k] # Absent})]
  /\ lock' = [lock EXCEPT ![s] = RUnlocked(@, p)]
  /\ pc' = [pc EXCEPT ![p][s] = "done"]
  /\ toRead' = [toRead EXCEPT ![p][s] = {}]
  /\ UNCHANGED <<items, call, toWrite, got>>

RUnlock(p, s) ==
  /\ Inside(p, s)
  /\ pc[p][s] = "rlock"
  /\ call[p].op # "Count"
  /\ toRead[p][s] = {}
  /\ lock' = [lock EXCEPT ![s] = RUnlocked(@, p)]
  /\ pc' = [pc EXCEPT ![p][s] = "done"]
  /\ UNCHANGED <<items, call, toRead, toWrite, got, count>>

\* A bug: Upsert returns from inside its IF, past the unlock.
UnlockForgotten(p, s) ==
  /\ Inside(p, s)
  /\ pc[p][s] = "lock"
  /\ toRead[p][s] = {}
  /\ toWrite[p][s] = {}
  /\ lock' = IF call[p].op = "Upsert" /\ \E k \in call[p].keys : got[p][k] # Absent
               THEN lock ELSE [lock EXCEPT ![s] = WriteUnlocked(@)]
  /\ pc' = [pc EXCEPT ![p][s] = "done"]
  /\ UNCHANGED <<items, call, toRead, toWrite, got, count>>

Unlock(p, s) ==
  /\ Inside(p, s)
  /\ pc[p][s] = "lock"
  /\ toRead[p][s] = {}
  /\ toWrite[p][s] = {}
  /\ lock' = [lock EXCEPT ![s] = WriteUnlocked(@)]
  /\ pc' = [pc EXCEPT ![p][s] = "done"]
  /\ UNCHANGED <<items, call, toRead, toWrite, got, count>>

\* Every visit is over (wg.Wait() for MSet and ForEach).
Return(p) ==
  /\ call[p] # NoCall
  /\ \A s \in Shards : pc[p][s] = "done"
  /\ call' = [call EXCEPT ![p] = NoCall]
  /\ got' = [got EXCEPT ![p] = NoData]
  /\ count' = [count EXCEPT ![p] = 0]
  /\ UNCHANGED <<items, lock, pc, toRead, toWrite>>

-----------------------------------------------------------------------------
\* The steps of p's visit of shard s, once it has called Lock or RLock.
SectionStep(p, s) ==
  \/ \E k \in Keys : ReadKey(p, s, k) \/ WriteKey(p, s, k)
  \/ ClearItems(p, s) \/ ResizeItems(p, s) \/ CountItems(p, s)
  \/ RUnlock(p, s) \/ Unlock(p, s)

Next ==
  \E p \in Procs :
    \/ \E c \in Calls : Invoke(p, c)
    \/ \E s \in Shards : RLock(p, s) \/ Lock(p, s) \/ SectionStep(p, s)
    \/ Return(p)

SafeSpec == Init /\ [][Next]_vars

-----------------------------------------------------------------------------
(* Properties                                                              *)

\* A key is only ever in the shard that getShard gives for it, although MGet
\* and MSet compute the shard themselves: no lookup misses a stored key and
\* no key is counted twice.
Placement ==
  \A s \in Shards, k \in Keys : items[s][k] # Absent => getShard(k) = s

(***************************************************************************)
(* The map as its clients see it.  A visit that writes takes effect with   *)
(* its first store, after which the keys it has still to write count as    *)
(* written; one that reads takes effect with its last lookup.              *)
(***************************************************************************)
Started(p, s) ==
  pc[p][s] = "lock" /\ toWrite[p][s] # Group(call[p], s)

Visited(p, s) ==
  \/ pc[p][s] = "done"
  \/ Started(p, s)
  \/ pc[p][s] = "rlock" /\ toRead[p][s] = {}

contentMap ==
  [k \in Keys |->
     LET s == getShard(k)
         w == lock[s].writer
     IN  IF w # NoProc /\ Started(w, s) /\ k \in toWrite[w][s]
           THEN NewValue(call[w], k, got[w][k]) ELSE items[s][k]]

touched(c) == IF c.op = "Count" THEN {} ELSE c.keys

leftMap ==
  [p \in Procs |-> {k \in touched(call[p]) : ~Visited(p, getShard(k))}]

foundMap ==
  [p \in Procs |->
     [k \in Keys |-> IF k \in touched(call[p]) /\ Visited(p, getShard(k))
                       THEN got[p][k] ELSE Absent]]

AM == INSTANCE AtomicMap
        WITH content <- contentMap, left <- leftMap, found <- foundMap

\* Linearizability: calls on one key act on one map in one instant, so no
\* Upsert, SetIfAbsent or Pop is lost or doubled; MSet, MGet, Clear, Resize,
\* ForEach and the snapshot act in one instant per shard, so no reader sees
\* half a batch; and Resize and the readers change nothing.
AtomicMapSpec == AM!Spec
=============================================================================
