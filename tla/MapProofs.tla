------------------------------ MODULE MapProofs ------------------------------
(***************************************************************************)
(* The maps of I64Map and StrMap, for any number of goroutines, keys,      *)
(* values and shards.  First the map of I64Map: its type, the placement of *)
(* its keys, and that it implements AtomicMap; then that callbacks which   *)
(* misbehave, as in I64MapFaults, take none of this away; last StrMap: its *)
(* steps are steps of I64Map, so that all this holds of                    *)
(* strmap.ConcurrentMap too, and MSet and MGet wait for all their          *)
(* goroutines and have then done what they promise.                        *)
(***************************************************************************)
EXTENDS I64MapFaults, StrMap, FiniteSetTheorems, TLAPS

\* What the RWMutex of a shard says about the calls that visit the shard.
LockInv ==
  \A s \in Shards :
    /\ lock[s].readers \cap lock[s].waiting = {}
    /\ lock[s].writer = NoProc => lock[s].waiting = {}
    /\ \A p \in Procs :
         /\ pc[p][s] = "lock" <=> lock[s].writer = p
         /\ pc[p][s] = "rlock" <=> p \in lock[s].readers \cup lock[s].waiting

\* A visit that has read or written a key of its shard.
Touching(p, s) ==
  \/ toWrite[p][s] # Group(call[p], s)
  \/ call[p].op \in ReadOps /\ toRead[p][s] # Group(call[p], s)

\* A visit is one of a call in progress, by a lock that suits the call, and it
\* reads before it writes, inside the lock.
VisitInv ==
  \A p \in Procs :
    /\ call[p] = NoCall => got[p] = NoData
    /\ \A s \in Shards :
         /\ toRead[p][s] \subseteq Group(call[p], s)
         /\ toWrite[p][s] \subseteq Group(call[p], s)
         /\ toRead[p][s] # {} => call[p].op \in ReadOps \cup {"Count"}
         /\ pc[p][s] # "done" => call[p] \in Calls
         /\ pc[p][s] \in {"todo", "done"} =>
              toRead[p][s] = {} /\ toWrite[p][s] = {}
         /\ pc[p][s] = "rlock" =>
              /\ call[p].op \notin WriteOps
              /\ toWrite[p][s] = {}
              /\ p \notin lock[s].readers => toRead[p][s] = Group(call[p], s)
         /\ pc[p][s] = "lock" =>
              /\ call[p].op \in WriteOps
              /\ Touching(p, s) => lock[s].readers = {}
              /\ Started(p, s) => toRead[p][s] = {}
              /\ call[p].op \in {"Clear", "Resize"} =>
                   toWrite[p][s] \in {{}, Group(call[p], s)}

\* What a visit has read is still there, until the visit itself writes.
ReadInv ==
  \A p \in Procs :
    /\ call[p].op \notin ReadOps => got[p] = NoData
    /\ \A s \in Shards, k \in Keys :
         /\ pc[p][s] = "rlock" \/ (pc[p][s] = "lock" /\ ~Started(p, s))
         /\ call[p].op \in ReadOps
         /\ k \in Group(call[p], s) \ toRead[p][s]
         => got[p][k] = items[s][k]

IInv == TypeOK /\ LockInv /\ VisitInv /\ ReadInv /\ Placement

-----------------------------------------------------------------------------
(* Lemmas on the operators                                                 *)

\* getShard gives a shard, and the keys of a call are grouped by it.
LEMMA ShardOf ==
  /\ \A k \in Keys : getShard(k) \in Shards
  /\ \A c \in Calls, s \in Shards : Group(c, s) \subseteq Keys
  /\ \A s \in Shards : Group(NoCall, s) = {}
BY MapAssumption DEF getShard, Shards, Group, CallType, NoCall

\* Set, Upsert, SetIfAbsent and the others leave a value or nothing.
LEMMA NewValueType ==
  ASSUME NEW c \in Calls, NEW k \in c.keys, NEW v \in MaybeValues
  PROVE  NewValue(c, k, v) \in MaybeValues
<1>1. /\ c.data \in [Keys -> MaybeValues]
      /\ k \in Keys
      /\ c.op \in {"Set", "Upsert", "SetIfAbsent", "MSet"} => c.data[k] \in Values
  BY MapAssumption DEF CallType
<1>2. \A d \in Values : upsertCb[v, d] \in Values
  BY MapAssumption, Zenon
<1> QED
  BY <1>1, <1>2, Zenon DEF NewValue, MaybeValues

\* The steps of a mutex keep its type.
LEMMA MutexType ==
  ASSUME NEW l \in RWMutexType(Procs), NEW a \in Procs
  PROVE  /\ RLocked(l, a) \in RWMutexType(Procs)
         /\ RUnlocked(l, a) \in RWMutexType(Procs)
         /\ Locked(l, a) \in RWMutexType(Procs)
         /\ WriteUnlocked(l) \in RWMutexType(Procs)
BY DEF RWMutexType, RLocked, RUnlocked, Locked, WriteUnlocked

\* A call that does not write reads.
LEMMA OpKinds == \A c \in Calls : c.op \in WriteOps \cup ReadOps \cup {"Count"}
BY MapAssumption DEF CallType, ReadOps, WriteOps, OneKeyOps, BatchOps, WholeMapOps

\* NoCall is not a call, and its operation is not one of the map's.
LEMMA NoCallFacts ==
  /\ NoCall \notin Calls
  /\ NoCall.op \notin ReadOps
  /\ NoCall.op \notin WriteOps
  /\ NoCall.op # "Count"
BY MapAssumption DEF NoCall, CallType, ReadOps, WriteOps, OneKeyOps, BatchOps, WholeMapOps

-----------------------------------------------------------------------------
(* The invariant is inductive                                              *)

LEMMA InitIInv == Init => IInv
<1> SUFFICES ASSUME Init PROVE IInv
  OBVIOUS
<1>1. TypeOK
  BY MapAssumption DEF Init, TypeOK, RWMutexType, Unlocked, NoData, MaybeValues
<1>2. LockInv
  BY ProcsAssumption DEF Init, LockInv, Unlocked
<1>3. VisitInv
  BY DEF Init, VisitInv
<1>4. ReadInv
  BY DEF Init, ReadInv
<1>5. Placement
  BY DEF Init, Placement, NoData
<1> QED
  BY <1>1, <1>2, <1>3, <1>4, <1>5 DEF IInv

LEMMA InvokeIInv ==
  ASSUME IInv, NEW p \in Procs, NEW c \in Calls, Invoke(p, c)
  PROVE  IInv'
<1> USE DEF IInv
<1>0. /\ got[p] = NoData
      /\ \A s \in Shards : /\ pc[p][s] = "done"
                          /\ toRead[p][s] = {} /\ toWrite[p][s] = {}
                          /\ pc'[p][s] \in {"todo", "done"}
  BY NoCallFacts DEF TypeOK, VisitInv, Invoke
<1>1. TypeOK'
  BY DEF TypeOK, Invoke
<1>2. LockInv'
  BY <1>0 DEF TypeOK, LockInv, Invoke
<1>3. VisitInv'
  BY <1>0 DEF TypeOK, VisitInv, Invoke, Touching, Started
<1>4. ReadInv'
  BY <1>0 DEF TypeOK, ReadInv, Invoke, Started
<1>5. Placement'
  BY DEF Placement, Invoke
<1> QED
  BY <1>1, <1>2, <1>3, <1>4, <1>5

LEMMA RLockIInv ==
  ASSUME IInv, NEW p \in Procs, NEW s \in Shards, RLock(p, s)
  PROVE  IInv'
<1> USE DEF IInv
<1>0. /\ call[p] \in Calls
      /\ Group(call[p], s) \subseteq Keys
      /\ toWrite[p][s] = {}
      /\ call[p].op \in ReadOps \cup {"Count"}
  BY ShardOf, OpKinds DEF VisitInv, RLock
<1>1. TypeOK'
  BY <1>0, MutexType DEF TypeOK, RLock
<1>2. LockInv'
  BY <1>0, ProcsAssumption DEF TypeOK, LockInv, RLock, RLocked, RWMutexType
<1>3. VisitInv'
  BY <1>0, ProcsAssumption DEF TypeOK, LockInv, VisitInv, Touching, Started, RLock, RLocked, RWMutexType
<1>4. ReadInv'
  BY <1>0, ProcsAssumption DEF TypeOK, LockInv, VisitInv, ReadInv, Started, RLock, RLocked, RWMutexType
<1>5. Placement'
  BY DEF Placement, RLock
<1> QED
  BY <1>1, <1>2, <1>3, <1>4, <1>5

LEMMA LockIInv ==
  ASSUME IInv, NEW p \in Procs, NEW s \in Shards, Lock(p, s)
  PROVE  IInv'
<1> USE DEF IInv
<1>0. /\ call[p] \in Calls
      /\ Group(call[p], s) \subseteq Keys
  BY ShardOf DEF VisitInv, Lock
<1>1. TypeOK'
  BY <1>0, MutexType DEF TypeOK, Lock
<1>2. LockInv'
  BY <1>0, ProcsAssumption DEF TypeOK, LockInv, Lock, Locked, RWMutexType
<1>3. VisitInv'
  BY <1>0, ProcsAssumption DEF TypeOK, LockInv, VisitInv, Touching, Started, Lock, Locked, RWMutexType
<1>4. ReadInv'
  BY <1>0, ProcsAssumption DEF TypeOK, LockInv, VisitInv, ReadInv, Started, Lock, Locked, RWMutexType
<1>5. Placement'
  BY DEF Placement, Lock
<1> QED
  BY <1>1, <1>2, <1>3, <1>4, <1>5

LEMMA ReadKeyIInv ==
  ASSUME IInv, NEW p \in Procs, NEW s \in Shards, NEW k \in Keys, ReadKey(p, s, k)
  PROVE  IInv'
<1> USE DEF IInv
<1>0. /\ pc[p][s] \in {"rlock", "lock"}
      /\ pc[p][s] = "lock" => lock[s].readers = {} /\ ~Started(p, s)
      /\ pc[p][s] = "rlock" => p \in lock[s].readers
      /\ call[p].op \in ReadOps
      /\ k \in Group(call[p], s)
      /\ \A t \in Shards : t # s => k \notin Group(call[p], t)
      /\ call[p] # NoCall
  BY NoCallFacts DEF VisitInv, ReadInv, ReadKey, Inside, HoldsRead, HoldsWrite, Group
<1>1. TypeOK'
  BY DEF TypeOK, ReadKey
<1>2. LockInv'
  BY DEF LockInv, ReadKey
<1>3. VisitInv'
  <2> SUFFICES ASSUME NEW q \in Procs PROVE VisitInv!(q)'
    BY DEF VisitInv
  <2>1. CASE q = p
    BY <1>0, <2>1 DEF TypeOK, VisitInv, Touching, Started, ReadKey
  <2>2. CASE q # p
    BY <1>0, <2>2 DEF TypeOK, VisitInv, Touching, Started, ReadKey
  <2> QED
    BY <2>1, <2>2
<1>4. ReadInv'
  <2> SUFFICES ASSUME NEW q \in Procs PROVE ReadInv!(q)'
    BY DEF ReadInv
  <2>1. CASE q = p
    BY <1>0, <2>1 DEF TypeOK, ReadInv, Started, ReadKey
  <2>2. CASE q # p
    BY <2>2 DEF TypeOK, ReadInv, Started, ReadKey
  <2> QED
    BY <2>1, <2>2
<1>5. Placement'
  BY DEF Placement, ReadKey
<1> QED
  BY <1>1, <1>2, <1>3, <1>4, <1>5

\* A writer is alone in its shard: whoever else visits it has read nothing.
LEMMA WriterAlone ==
  ASSUME IInv, NEW p \in Procs, NEW s \in Shards,
         pc[p][s] = "lock", lock[s].readers = {}
  PROVE  \A q \in Procs \ {p} :
           /\ pc[q][s] # "lock"
           /\ pc[q][s] = "rlock" => toRead[q][s] = Group(call[q], s)
BY DEF IInv, LockInv, VisitInv

\* What WriteKey, ClearItems and ResizeItems have in common: a writer inside,
\* done with its reads, changes the map of its shard.
LEMMA StoreIInv ==
  ASSUME IInv, NEW p \in Procs, NEW s \in Shards,
         Inside(p, s), pc[p][s] = "lock", toRead[p][s] = {},
         NEW m \in [Keys -> MaybeValues],
         \A k \in Keys : m[k] # Absent => getShard(k) = s,
         NEW W \in SUBSET toWrite[p][s], W # toWrite[p][s],
         call[p].op \in {"Clear", "Resize"} => W = {},
         items' = [items EXCEPT ![s] = m],
         toWrite' = [toWrite EXCEPT ![p][s] = W],
         UNCHANGED <<lock, call, pc, toRead, got, count>>
  PROVE  IInv'
<1> USE DEF IInv
<1>a. PICK j \in toWrite[p][s] : j \notin W
  OBVIOUS
<1>0. /\ lock[s].readers = {}
      /\ W # Group(call[p], s)
      /\ call[p] \in Calls
  BY <1>a DEF VisitInv, Inside, HoldsWrite
<1>1. TypeOK'
  BY DEF TypeOK
<1>2. LockInv'
  BY DEF LockInv
<1>3. VisitInv'
  <2> SUFFICES ASSUME NEW q \in Procs PROVE VisitInv!(q)'
    BY DEF VisitInv
  <2>1. CASE q = p
    BY <1>0, <2>1 DEF TypeOK, VisitInv, Touching, Started
  <2>2. CASE q # p
    BY <2>2 DEF TypeOK, VisitInv, Touching, Started
  <2> QED
    BY <2>1, <2>2
<1>4. ReadInv'
  <2> SUFFICES ASSUME NEW q \in Procs PROVE ReadInv!(q)'
    BY DEF ReadInv
  <2>1. CASE q = p
    BY <1>0, <2>1 DEF TypeOK, ReadInv, Started
  <2>2. CASE q # p
    <3>1. /\ pc[q][s] # "lock"
          /\ pc[q][s] = "rlock" => toRead[q][s] = Group(call[q], s)
      BY <1>0, <2>2, WriterAlone
    <3> QED
      BY <2>2, <3>1 DEF TypeOK, ReadInv, Started
  <2> QED
    BY <2>1, <2>2
<1>5. Placement'
  BY DEF TypeOK, Placement
<1> QED
  BY <1>1, <1>2, <1>3, <1>4, <1>5

LEMMA WriteKeyIInv ==
  ASSUME IInv, NEW p \in Procs, NEW s \in Shards, NEW k \in Keys, WriteKey(p, s, k)
  PROVE  IInv'
<1> DEFINE v == NewValue(call[p], k, got[p][k])
           m == [items[s] EXCEPT ![k] = v]
           W == toWrite[p][s] \ {k}
<1>1. /\ pc[p][s] = "lock"
      /\ call[p] \in Calls
      /\ k \in call[p].keys
      /\ getShard(k) = s
  BY DEF IInv, VisitInv, WriteKey, Inside, Group
<1>2. v \in MaybeValues
  BY <1>1, NewValueType DEF IInv, TypeOK
<1>3. m \in [Keys -> MaybeValues]
  BY <1>2 DEF IInv, TypeOK
<1>4. \A j \in Keys : m[j] # Absent => getShard(j) = s
  BY <1>1, <1>2 DEF IInv, TypeOK, Placement
<1>5. items' = [items EXCEPT ![s] = m]
  BY DEF WriteKey, IInv, TypeOK
<1>6. W \in SUBSET toWrite[p][s] /\ W # toWrite[p][s]
  BY DEF WriteKey
<1>7. /\ Inside(p, s) /\ toRead[p][s] = {}
      /\ call[p].op \notin {"Clear", "Resize"}
      /\ toWrite' = [toWrite EXCEPT ![p][s] = W]
      /\ UNCHANGED <<lock, call, pc, toRead, got, count>>
  BY DEF WriteKey
<1> HIDE DEF m, W
<1> QED
  BY <1>1, <1>3, <1>4, <1>5, <1>6, <1>7, StoreIInv

LEMMA ClearItemsIInv ==
  ASSUME IInv, NEW p \in Procs, NEW s \in Shards, ClearItems(p, s)
  PROVE  IInv'
<1>1. pc[p][s] = "lock" /\ toRead[p][s] = {}
  BY DEF IInv, VisitInv, ClearItems, Inside, ReadOps, WriteOps
<1>2. NoData \in [Keys -> MaybeValues] /\ \A k \in Keys : NoData[k] = Absent
  BY DEF NoData, MaybeValues
<1>3. {} \in SUBSET toWrite[p][s] /\ {} # toWrite[p][s]
  BY DEF ClearItems
<1>4. /\ Inside(p, s)
      /\ items' = [items EXCEPT ![s] = NoData]
      /\ toWrite' = [toWrite EXCEPT ![p][s] = {}]
      /\ UNCHANGED <<lock, call, pc, toRead, got, count>>
  BY DEF ClearItems
<1> QED
  BY <1>1, <1>2, <1>3, <1>4, StoreIInv

LEMMA ResizeItemsIInv ==
  ASSUME IInv, NEW p \in Procs, NEW s \in Shards, ResizeItems(p, s)
  PROVE  IInv'
<1> DEFINE m == [k \in Keys |-> IF k \in Group(call[p], s) THEN got[p][k] ELSE Absent]
<1>1. pc[p][s] = "lock"
  BY DEF IInv, VisitInv, ResizeItems, Inside, WriteOps
<1>2. m \in [Keys -> MaybeValues] /\ \A k \in Keys : m[k] # Absent => getShard(k) = s
  BY DEF IInv, TypeOK, MaybeValues, Group
<1>3. {} \in SUBSET toWrite[p][s] /\ {} # toWrite[p][s]
  BY DEF ResizeItems
<1>4. /\ Inside(p, s) /\ toRead[p][s] = {}
      /\ items' = [items EXCEPT ![s] = m]
      /\ toWrite' = [toWrite EXCEPT ![p][s] = {}]
      /\ UNCHANGED <<lock, call, pc, toRead, got, count>>
  BY DEF ResizeItems
<1> HIDE DEF m
<1> QED
  BY <1>1, <1>2, <1>3, <1>4, StoreIInv

LEMMA CountItemsIInv ==
  ASSUME IInv, NEW p \in Procs, NEW s \in Shards, CountItems(p, s)
  PROVE  IInv'
<1> USE DEF IInv
<1>0. /\ pc[p][s] = "rlock"
      /\ p \in lock[s].readers
      /\ toWrite[p][s] = {}
  BY DEF VisitInv, CountItems, Inside, HoldsRead, WriteOps
<1>1. TypeOK'
  <2> DEFINE n == Cardinality({k \in Keys : items[s][k] # Absent})
  <2>1. n \in Nat
    BY MapAssumption, FS_Subset, FS_CardinalityType
  <2> HIDE DEF n
  <2>2. count' = [count EXCEPT ![p] = @ + n]
    BY DEF CountItems, n
  <2>3. count' \in [Procs -> Nat]
    BY <2>1, <2>2 DEF TypeOK
  <2> QED
    BY <2>3, MutexType DEF TypeOK, CountItems
<1>2. LockInv'
  BY <1>0, ProcsAssumption DEF TypeOK, LockInv, CountItems, RUnlocked, RWMutexType
<1>3. VisitInv'
  BY <1>0 DEF TypeOK, VisitInv, Touching, Started, CountItems, RUnlocked, RWMutexType
<1>4. ReadInv'
  BY <1>0 DEF TypeOK, ReadInv, Started, CountItems
<1>5. Placement'
  BY DEF Placement, CountItems
<1> QED
  BY <1>1, <1>2, <1>3, <1>4, <1>5

LEMMA RUnlockIInv ==
  ASSUME IInv, NEW p \in Procs, NEW s \in Shards, RUnlock(p, s)
  PROVE  IInv'
<1> USE DEF IInv
<1>0. /\ pc[p][s] = "rlock"
      /\ p \in lock[s].readers
      /\ toWrite[p][s] = {}
  BY DEF VisitInv, RUnlock, Inside, HoldsRead, WriteOps
<1>1. TypeOK'
  BY MutexType DEF TypeOK, RUnlock
<1>2. LockInv'
  BY <1>0, ProcsAssumption DEF TypeOK, LockInv, RUnlock, RUnlocked, RWMutexType
<1>3. VisitInv'
  BY <1>0 DEF TypeOK, VisitInv, Touching, Started, RUnlock, RUnlocked, RWMutexType
<1>4. ReadInv'
  BY <1>0 DEF TypeOK, ReadInv, Started, RUnlock
<1>5. Placement'
  BY DEF Placement, RUnlock
<1> QED
  BY <1>1, <1>2, <1>3, <1>4, <1>5

LEMMA UnlockIInv ==
  ASSUME IInv, NEW p \in Procs, NEW s \in Shards, Unlock(p, s)
  PROVE  IInv'
<1> USE DEF IInv
<1>0. /\ lock[s].writer = p
      /\ lock[s].readers = {}
      /\ \A q \in Procs \ {p} : pc[q][s] # "lock"
      /\ \A q \in Procs : pc[q][s] = "rlock" => toRead[q][s] = Group(call[q], s)
  BY WriterAlone DEF Unlock, Inside, HoldsWrite
<1>1. TypeOK'
  BY MutexType DEF TypeOK, Unlock
<1>2. LockInv'
  BY <1>0, ProcsAssumption DEF TypeOK, LockInv, Unlock, WriteUnlocked, RWMutexType
<1>3. VisitInv'
  BY <1>0 DEF TypeOK, VisitInv, Touching, Started, Unlock, WriteUnlocked, RWMutexType
<1>4. ReadInv'
  BY <1>0 DEF TypeOK, ReadInv, Started, Unlock
<1>5. Placement'
  BY DEF Placement, Unlock
<1> QED
  BY <1>1, <1>2, <1>3, <1>4, <1>5

LEMMA ReturnIInv ==
  ASSUME IInv, NEW p \in Procs, Return(p)
  PROVE  IInv'
<1> USE DEF IInv
<1>0. NoData \in [Keys -> MaybeValues]
  BY DEF NoData, MaybeValues
<1>1. TypeOK'
  BY <1>0 DEF TypeOK, Return
<1>2. LockInv'
  BY DEF LockInv, Return
<1>3. VisitInv'
  BY ShardOf DEF TypeOK, VisitInv, Touching, Started, Return
<1>4. ReadInv'
  BY NoCallFacts DEF TypeOK, ReadInv, Started, Return
<1>5. Placement'
  BY DEF Placement, Return
<1> QED
  BY <1>1, <1>2, <1>3, <1>4, <1>5

LEMMA NextIInv == IInv /\ [Next]_vars => IInv'
<1> SUFFICES ASSUME IInv, [Next]_vars PROVE IInv'
  OBVIOUS
<1>1. ASSUME NEW p \in Procs, NEW c \in Calls, Invoke(p, c) PROVE IInv'
  BY <1>1, InvokeIInv
<1>2. ASSUME NEW p \in Procs, NEW s \in Shards, RLock(p, s) PROVE IInv'
  BY <1>2, RLockIInv
<1>3. ASSUME NEW p \in Procs, NEW s \in Shards, Lock(p, s) PROVE IInv'
  BY <1>3, LockIInv
<1>4. ASSUME NEW p \in Procs, NEW s \in Shards, SectionStep(p, s) PROVE IInv'
  BY <1>4, ReadKeyIInv, WriteKeyIInv, ClearItemsIInv, ResizeItemsIInv,
     CountItemsIInv, RUnlockIInv, UnlockIInv DEF SectionStep
<1>5. ASSUME NEW p \in Procs, Return(p) PROVE IInv'
  BY <1>5, ReturnIInv
<1>6. CASE UNCHANGED vars
  BY <1>6 DEF vars, IInv, TypeOK, LockInv, VisitInv, ReadInv, Placement, Touching, Started
<1> QED
  BY <1>1, <1>2, <1>3, <1>4, <1>5, <1>6 DEF Next

LEMMA IInvHolds == SafeSpec => []IInv
  BY InitIInv, NextIInv, PTL DEF SafeSpec

-----------------------------------------------------------------------------
(* The theorems                                                            *)

\* The map keeps its type, whatever calls run together.
THEOREM TypeCorrect == SafeSpec => []TypeOK
  BY IInvHolds, PTL DEF IInv

\* No key is ever in a shard where getShard does not look for it.
THEOREM KeysInTheirShard == SafeSpec => []Placement
  BY IInvHolds, PTL DEF IInv

-----------------------------------------------------------------------------
(* I64Map implements AtomicMap.  A step of I64Map is one of AtomicMap when *)
(* it is the instant at which a visit takes effect, or a call or return;   *)
(* every other step leaves what clients see of the map as it is.           *)

\* The visit of q to the shard of k has taken effect, but k is not yet written.
Pending(q, k) == Started(q, getShard(k)) /\ k \in toWrite[q][getShard(k)]

-----------------------------------------------------------------------------
(* The definitions of MapCalls that AtomicMap has through its own EXTENDS  *)

LEMMA SameOperators ==
  /\ AM!NoData = NoData
  /\ AM!NoCall = NoCall
  /\ AM!ReadOps = ReadOps
  /\ AM!Shards = Shards
  /\ \A k : AM!getShard(k) = getShard(k)
  /\ \A c : AM!Touched(c) = touched(c)
BY DEF AM!NoData, NoData, AM!NoCall, NoCall, AM!ReadOps, ReadOps, AM!Shards,
       Shards, AM!getShard, getShard, AM!Touched, touched

LEMMA SameNewValue ==
  ASSUME NEW c, NEW k, NEW v
  PROVE  AM!NewValue(c, k, v) = NewValue(c, k, v)
BY Zenon DEF AM!NewValue, NewValue

\* A call that takes only the read lock leaves every value as it is.
LEMMA ReadersKeep ==
  ASSUME NEW c, c.op \notin WriteOps, NEW k, NEW v
  PROVE  NewValue(c, k, v) = v
BY Zenon DEF NewValue, WriteOps

\* Remove, MSet and Clear do not look at what they replace.
LEMMA BlindWrites ==
  ASSUME NEW c, c.op \in WriteOps, c.op \notin ReadOps, NEW k, NEW v, NEW w
  PROVE  NewValue(c, k, v) = NewValue(c, k, w)
BY Zenon DEF NewValue, WriteOps, ReadOps

LEMMA TouchedKeys ==
  /\ \A c \in Calls \cup {NoCall} : touched(c) \subseteq Keys
  /\ touched(NoCall) = {}
BY MapAssumption DEF touched, CallType, NoCall

-----------------------------------------------------------------------------
(* What the three maps are                                                 *)

\* A key under which nothing is pending has the value in its shard; one that
\* is pending has the value that will be written.
ContentFacts ==
  \A k \in Keys :
    /\ \A q \in Procs : Pending(q, k) =>
         contentMap[k] = NewValue(call[q], k, got[q][k])
    /\ (\A q \in Procs : ~Pending(q, k)) => contentMap[k] = items[getShard(k)][k]

LEMMA ContentAt == IInv => ContentFacts
<1> SUFFICES ASSUME IInv, NEW k \in Keys
             PROVE  /\ \A q \in Procs : Pending(q, k) =>
                         contentMap[k] = NewValue(call[q], k, got[q][k])
                    /\ (\A q \in Procs : ~Pending(q, k)) =>
                         contentMap[k] = items[getShard(k)][k]
  BY DEF ContentFacts
<1>1. /\ getShard(k) \in Shards
      /\ lock[getShard(k)].writer \in Procs \cup {NoProc}
  BY ShardOf DEF IInv, TypeOK, RWMutexType
<1>2. \A q \in Procs : Pending(q, k) => lock[getShard(k)].writer = q /\ q # NoProc
  BY <1>1, ProcsAssumption DEF IInv, LockInv, Pending, Started
<1> QED
  BY <1>1, <1>2 DEF contentMap, Pending

LEMMA ContentSame ==
  ASSUME IInv, IInv',
         \A k \in Keys, q \in Procs :
           /\ Pending(q, k)' <=> Pending(q, k)
           /\ Pending(q, k) => call'[q] = call[q] /\ got'[q][k] = got[q][k],
         \A k \in Keys : (\A q \in Procs : ~Pending(q, k)) =>
           items'[getShard(k)][k] = items[getShard(k)][k]
  PROVE  contentMap' = contentMap
<1>1. ContentFacts /\ ContentFacts'
  BY ContentAt, PTL
<1>2. \A k \in Keys : contentMap'[k] = contentMap[k]
  BY <1>1 DEF ContentFacts
<1> QED
  BY <1>2 DEF contentMap

\* What left and found say of a key of a call.
LEMMA LeftSame ==
  ASSUME IInv, call' = call,
         \A q \in Procs, k \in Keys :
           k \in touched(call[q]) =>
             /\ Visited(q, getShard(k))' <=> Visited(q, getShard(k))
             /\ Visited(q, getShard(k)) => got'[q][k] = got[q][k]
  PROVE  leftMap' = leftMap /\ foundMap' = foundMap
<1>1. \A q \in Procs : touched(call[q]) \subseteq Keys
  BY TouchedKeys DEF IInv, TypeOK
<1>2. leftMap' = leftMap
  BY <1>1 DEF leftMap
<1>3. foundMap' = foundMap
  BY <1>1 DEF foundMap
<1> QED
  BY <1>2, <1>3

\* The instant at which p's visit of shard s takes effect.
LEMMA ActStep ==
  ASSUME IInv, NEW p \in Procs, NEW s \in Shards, call' = call,
         call[p].op # "Count", Group(call[p], s) # {},
         ~Visited(p, s), Visited(p, s)',
         \A q \in Procs, t \in Shards :
           q # p \/ t # s => (Visited(q, t)' <=> Visited(q, t)),
         \A q \in Procs, k \in Keys :
           q # p \/ k \notin Group(call[p], s) => got'[q][k] = got[q][k],
         \A k \in Group(call[p], s) :
           /\ got'[p][k] = IF call[p].op \in ReadOps THEN contentMap[k] ELSE Absent
           /\ contentMap'[k] = NewValue(call[p], k, contentMap[k]),
         \A k \in Keys \ Group(call[p], s) : contentMap'[k] = contentMap[k]
  PROVE  AM!Act(p, s)
<1> DEFINE c == call[p]
           G == {k \in leftMap[p] : AM!getShard(k) = s}
<1>0. /\ \A q \in Procs : touched(call[q]) \subseteq Keys
      /\ touched(c) = c.keys
      /\ \A k \in Keys : getShard(k) \in Shards
  BY TouchedKeys, ShardOf DEF IInv, TypeOK, touched
<1>1. G = Group(c, s)
  BY <1>0, SameOperators DEF leftMap, Group
<1>2. contentMap' = [k \in Keys |-> IF k \in G THEN AM!NewValue(c, k, contentMap[k])
                                              ELSE contentMap[k]]
  <2>1. contentMap' = [k \in Keys |-> contentMap'[k]]
    BY DEF contentMap
  <2>2. \A k \in Keys : contentMap'[k] = IF k \in G THEN AM!NewValue(c, k, contentMap[k])
                                                   ELSE contentMap[k]
    BY <1>1, SameNewValue
  <2> QED
    BY <2>1, <2>2
<1>3. foundMap' = [foundMap EXCEPT ![p] =
                     [k \in Keys |-> IF k \in G /\ c.op \in AM!ReadOps
                                       THEN contentMap[k] ELSE @[k]]]
  <2>1. \A q \in Procs \ {p}, k \in Keys : foundMap'[q][k] = foundMap[q][k]
    BY <1>0 DEF foundMap
  <2>2. \A k \in Keys : foundMap'[p][k] = IF k \in G /\ c.op \in ReadOps
                                         THEN contentMap[k] ELSE foundMap[p][k]
    <3> TAKE k \in Keys
    <3>1. CASE k \in G
      BY <1>0, <1>1, <3>1 DEF foundMap, Group
    <3>2. CASE k \notin G
      BY <1>0, <1>1, <3>2 DEF foundMap, Group
    <3> QED
      BY <3>1, <3>2
  <2>3. /\ foundMap' = [q \in Procs |-> [k \in Keys |-> foundMap'[q][k]]]
        /\ foundMap = [q \in Procs |-> [k \in Keys |-> foundMap[q][k]]]
    BY DEF foundMap
  <2> HIDE DEF G, c
  <2> QED
    BY <2>1, <2>2, <2>3, SameOperators
<1>4. leftMap' = [leftMap EXCEPT ![p] = @ \ G]
  <2>1. \A q \in Procs \ {p} : leftMap'[q] = leftMap[q]
    BY <1>0 DEF leftMap
  <2>2. leftMap'[p] = leftMap[p] \ G
    BY <1>0, <1>1 DEF leftMap, Group
  <2>3. /\ leftMap' = [q \in Procs |-> leftMap'[q]]
        /\ leftMap = [q \in Procs |-> leftMap[q]]
    BY DEF leftMap
  <2> HIDE DEF G
  <2> QED
    BY <2>1, <2>2, <2>3
<1> HIDE DEF c
<1> QED
  BY <1>1, <1>2, <1>3, <1>4 DEF AM!Act, c

-----------------------------------------------------------------------------
(* One lemma per action of I64Map                                          *)

LEMMA RLockStep ==
  ASSUME IInv, IInv', NEW p \in Procs, NEW s \in Shards, RLock(p, s)
  PROVE  UNCHANGED AM!vars
<1> USE DEF IInv
<1>0. /\ \A k \in touched(call[p]) : getShard(k) = s => k \in Group(call[p], s)
      /\ \A k \in Keys : getShard(k) \in Shards
  BY ShardOf DEF touched, Group
<1>1. \A k \in Keys, q \in Procs :
        /\ Pending(q, k)' <=> Pending(q, k)
        /\ Pending(q, k) => call'[q] = call[q] /\ got'[q][k] = got[q][k]
  BY <1>0 DEF TypeOK, Pending, Started, RLock
<1>2. contentMap' = contentMap
  BY <1>1, ContentSame DEF RLock
<1>3. \A q \in Procs, k \in Keys :
        k \in touched(call[q]) =>
          /\ Visited(q, getShard(k))' <=> Visited(q, getShard(k))
          /\ Visited(q, getShard(k)) => got'[q][k] = got[q][k]
  BY <1>0 DEF TypeOK, Visited, Started, RLock
<1>4. leftMap' = leftMap /\ foundMap' = foundMap
  BY <1>3, LeftSame DEF RLock
<1> QED
  BY <1>2, <1>4 DEF AM!vars, RLock

LEMMA LockStep ==
  ASSUME IInv, IInv', NEW p \in Procs, NEW s \in Shards, Lock(p, s)
  PROVE  UNCHANGED AM!vars
<1> USE DEF IInv
<1>0. \A k \in Keys : getShard(k) \in Shards
  BY ShardOf
<1>1. \A k \in Keys, q \in Procs :
        /\ Pending(q, k)' <=> Pending(q, k)
        /\ Pending(q, k) => call'[q] = call[q] /\ got'[q][k] = got[q][k]
  BY <1>0 DEF TypeOK, Pending, Started, Lock
<1>2. contentMap' = contentMap
  BY <1>1, ContentSame DEF Lock
<1>3. \A q \in Procs, k \in Keys :
        k \in touched(call[q]) =>
          /\ Visited(q, getShard(k))' <=> Visited(q, getShard(k))
          /\ Visited(q, getShard(k)) => got'[q][k] = got[q][k]
  BY <1>0 DEF TypeOK, Visited, Started, Lock
<1>4. leftMap' = leftMap /\ foundMap' = foundMap
  BY <1>3, LeftSame DEF Lock
<1> QED
  BY <1>2, <1>4 DEF AM!vars, Lock

LEMMA CountItemsStep ==
  ASSUME IInv, IInv', NEW p \in Procs, NEW s \in Shards, CountItems(p, s)
  PROVE  UNCHANGED AM!vars
<1> USE DEF IInv
<1>0. /\ touched(call[p]) = {}
      /\ pc[p][s] # "lock"
      /\ \A k \in Keys : getShard(k) \in Shards
  BY ShardOf DEF VisitInv, CountItems, WriteOps, touched
<1>1. \A k \in Keys, q \in Procs :
        /\ Pending(q, k)' <=> Pending(q, k)
        /\ Pending(q, k) => call'[q] = call[q] /\ got'[q][k] = got[q][k]
  BY <1>0 DEF TypeOK, Pending, Started, CountItems
<1>2. contentMap' = contentMap
  BY <1>1, ContentSame DEF CountItems
<1>3. \A q \in Procs, k \in Keys :
        k \in touched(call[q]) =>
          /\ Visited(q, getShard(k))' <=> Visited(q, getShard(k))
          /\ Visited(q, getShard(k)) => got'[q][k] = got[q][k]
  BY <1>0 DEF TypeOK, Visited, Started, CountItems
<1>4. leftMap' = leftMap /\ foundMap' = foundMap
  BY <1>3, LeftSame DEF CountItems
<1> QED
  BY <1>2, <1>4 DEF AM!vars, CountItems

LEMMA RUnlockStep ==
  ASSUME IInv, IInv', NEW p \in Procs, NEW s \in Shards, RUnlock(p, s)
  PROVE  UNCHANGED AM!vars
<1> USE DEF IInv
<1>0. \A k \in Keys : getShard(k) \in Shards
  BY ShardOf
<1>1. \A k \in Keys, q \in Procs :
        /\ Pending(q, k)' <=> Pending(q, k)
        /\ Pending(q, k) => call'[q] = call[q] /\ got'[q][k] = got[q][k]
  BY <1>0 DEF TypeOK, Pending, Started, RUnlock
<1>2. contentMap' = contentMap
  BY <1>1, ContentSame DEF RUnlock
<1>3. \A q \in Procs, k \in Keys :
        k \in touched(call[q]) =>
          /\ Visited(q, getShard(k))' <=> Visited(q, getShard(k))
          /\ Visited(q, getShard(k)) => got'[q][k] = got[q][k]
  BY <1>0 DEF TypeOK, Visited, Started, RUnlock
<1>4. leftMap' = leftMap /\ foundMap' = foundMap
  BY <1>3, LeftSame DEF RUnlock
<1> QED
  BY <1>2, <1>4 DEF AM!vars, RUnlock

LEMMA UnlockStep ==
  ASSUME IInv, IInv', NEW p \in Procs, NEW s \in Shards, Unlock(p, s)
  PROVE  UNCHANGED AM!vars
<1> USE DEF IInv
<1>0. /\ \A k \in touched(call[p]) : getShard(k) = s => k \in Group(call[p], s)
      /\ \A k \in Keys : getShard(k) \in Shards
  BY ShardOf DEF touched, Group
<1>1. \A k \in Keys, q \in Procs :
        /\ Pending(q, k)' <=> Pending(q, k)
        /\ Pending(q, k) => call'[q] = call[q] /\ got'[q][k] = got[q][k]
  BY <1>0 DEF TypeOK, Pending, Started, Unlock
<1>2. contentMap' = contentMap
  BY <1>1, ContentSame DEF Unlock
<1>3. \A q \in Procs, k \in Keys :
        k \in touched(call[q]) =>
          /\ Visited(q, getShard(k))' <=> Visited(q, getShard(k))
          /\ Visited(q, getShard(k)) => got'[q][k] = got[q][k]
  BY <1>0 DEF TypeOK, Visited, Started, Unlock
<1>4. leftMap' = leftMap /\ foundMap' = foundMap
  BY <1>3, LeftSame DEF Unlock
<1> QED
  BY <1>2, <1>4 DEF AM!vars, Unlock

LEMMA InvokeStep ==
  ASSUME IInv, IInv', NEW p \in Procs, NEW c \in Calls, Invoke(p, c)
  PROVE  AM!Invoke(p, c)
<1> USE DEF IInv
<1>0. /\ \A k \in Keys : getShard(k) \in Shards
      /\ \A k \in touched(c) : k \in Keys /\ getShard(k) \in Visits(c)
      /\ \A s \in Shards : pc[p][s] = "done"
      /\ touched(NoCall) = {}
  BY ShardOf, TouchedKeys, NoCallFacts DEF VisitInv, Invoke, touched, Visits
<1>1. contentMap' = contentMap
  <2>1. \A k \in Keys, q \in Procs :
          /\ Pending(q, k)' <=> Pending(q, k)
          /\ Pending(q, k) => call'[q] = call[q] /\ got'[q][k] = got[q][k]
    BY <1>0 DEF TypeOK, Pending, Started, Invoke
  <2> QED
    BY <2>1, ContentSame DEF Invoke
<1>2. \A q \in Procs \ {p} :
        /\ call'[q] = call[q]
        /\ \A s \in Shards : Visited(q, s)' <=> Visited(q, s)
  BY DEF TypeOK, Visited, Started, Invoke
<1>3. \A k \in touched(c) : ~Visited(p, getShard(k))'
  BY <1>0 DEF TypeOK, Visited, Started, Invoke
<1>4. /\ call' = [call EXCEPT ![p] = c]
      /\ call[p] = NoCall
      /\ got' = got
  BY DEF Invoke
<1>5. \A q \in Procs : touched(call[q]) \subseteq Keys
  BY TouchedKeys DEF TypeOK
<1>6. leftMap' = [leftMap EXCEPT ![p] = touched(c)]
  <2>1. ASSUME NEW q \in Procs \ {p} PROVE leftMap'[q] = leftMap[q]
    <3>1. /\ leftMap'[q] = {k \in touched(call[q]) : ~Visited(q, getShard(k))'}
          /\ leftMap[q] = {k \in touched(call[q]) : ~Visited(q, getShard(k))}
      BY <1>2 DEF leftMap
    <3> QED
      BY <1>0, <1>2, <3>1, <1>5
  <2>2. leftMap'[p] = touched(c)
    BY <1>3, <1>4 DEF leftMap, TypeOK
  <2> QED
    BY <2>1, <2>2 DEF leftMap
<1>7. foundMap' = foundMap
  <2>1. \A q \in Procs \ {p} : foundMap'[q] = foundMap[q]
    BY <1>0, <1>2, <1>4, <1>5 DEF foundMap
  <2>2. foundMap'[p] = foundMap[p]
    BY <1>0, <1>3, <1>4 DEF foundMap, TypeOK
  <2> QED
    BY <2>1, <2>2 DEF foundMap
<1> QED
  BY <1>1, <1>4, <1>6, <1>7, SameOperators DEF AM!Invoke

LEMMA ReturnStep ==
  ASSUME IInv, IInv', NEW p \in Procs, Return(p)
  PROVE  AM!Return(p)
<1> USE DEF IInv
<1>0. /\ \A k \in Keys : getShard(k) \in Shards
      /\ \A s \in Shards : pc[p][s] = "done"
      /\ touched(NoCall) = {}
      /\ \A q \in Procs : touched(call[q]) \subseteq Keys
  BY ShardOf, TouchedKeys DEF TypeOK, Return
<1>1. contentMap' = contentMap
  <2>1. \A k \in Keys, q \in Procs :
          /\ Pending(q, k)' <=> Pending(q, k)
          /\ Pending(q, k) => call'[q] = call[q] /\ got'[q][k] = got[q][k]
    BY <1>0 DEF TypeOK, Pending, Started, Return
  <2> QED
    BY <2>1, ContentSame DEF Return
<1>2. \A q \in Procs \ {p} :
        /\ call'[q] = call[q] /\ got'[q] = got[q]
        /\ \A s \in Shards : Visited(q, s)' <=> Visited(q, s)
  BY DEF TypeOK, Visited, Started, Return
<1>3. call[p] # NoCall /\ call' = [call EXCEPT ![p] = NoCall] /\ call'[p] = NoCall
  BY DEF Return, TypeOK
<1>4. leftMap[p] = {} /\ leftMap' = leftMap
  <2>1. ASSUME NEW q \in Procs \ {p} PROVE leftMap'[q] = leftMap[q]
    <3>1. /\ leftMap'[q] = {k \in touched(call[q]) : ~Visited(q, getShard(k))'}
          /\ leftMap[q] = {k \in touched(call[q]) : ~Visited(q, getShard(k))}
      BY <1>2 DEF leftMap
    <3> QED
      BY <1>0, <1>2, <3>1
  <2>2. leftMap[p] = {} /\ leftMap'[p] = {}
    BY <1>0, <1>3 DEF leftMap, Visited
  <2> QED
    BY <2>1, <2>2 DEF leftMap
<1>5. foundMap' = [foundMap EXCEPT ![p] = NoData]
  <2>1. \A q \in Procs \ {p} : foundMap'[q] = foundMap[q]
    BY <1>0, <1>2 DEF foundMap
  <2>2. foundMap'[p] = NoData
    BY <1>0, <1>3 DEF foundMap, NoData
  <2>3. /\ foundMap = [q \in Procs |-> foundMap[q]]
        /\ foundMap' = [q \in Procs |-> foundMap'[q]]
    BY Zenon DEF foundMap
  <2> QED
    BY <2>1, <2>2, <2>3
<1> QED
  BY <1>1, <1>3, <1>4, <1>5, SameOperators DEF AM!Return

LEMMA ReadKeyStep ==
  ASSUME IInv, IInv', NEW p \in Procs, NEW s \in Shards, NEW k \in Keys,
         ReadKey(p, s, k)
  PROVE  AM!Act(p, s) \/ UNCHANGED AM!vars
<1> USE DEF IInv
<1>0. /\ \A j \in Keys : getShard(j) \in Shards
      /\ getShard(k) = s
      /\ k \in Group(call[p], s)
      /\ call[p] \in Calls
      /\ call[p].op \in ReadOps
      /\ call' = call /\ call[p].op # "Count"
  BY ShardOf DEF VisitInv, ReadKey, Inside, Group
<1>1. /\ \A q \in Procs, j \in Keys : q # p \/ j # k => got'[q][j] = got[q][j]
      /\ got'[p][k] = items[s][k]
  BY DEF TypeOK, ReadKey
<1>2. contentMap' = contentMap
  <2>1. ~Pending(p, k)
    BY <1>0 DEF VisitInv, Pending, Started, ReadKey
  <2>2. \A j \in Keys, q \in Procs :
          /\ Pending(q, j)' <=> Pending(q, j)
          /\ Pending(q, j) => call'[q] = call[q] /\ got'[q][j] = got[q][j]
    BY <1>1, <2>1 DEF Pending, Started, ReadKey
  <2> QED
    BY <2>2, ContentSame DEF ReadKey
<1>3. \A q \in Procs, t \in Shards :
        q # p \/ t # s => (Visited(q, t)' <=> Visited(q, t))
  BY DEF TypeOK, Visited, Started, ReadKey
<1>4. ~Visited(p, s)
  <2>1. /\ toRead[p][s] # {}
        /\ pc[p][s] # "done"
    BY DEF ReadKey, Inside
  <2>2. ~Started(p, s)
    BY <2>1 DEF VisitInv, Started
  <2> QED
    BY <2>1, <2>2 DEF Visited
<1>5. CASE Visited(p, s)'
  <2>1. pc[p][s] = "rlock" /\ p \in lock[s].readers /\ toRead'[p][s] = {}
    BY <1>4, <1>5 DEF Visited, Started, ReadKey, Inside, HoldsRead
  <2>2. \A j \in Keys, q \in Procs : getShard(j) = s => ~Pending(q, j)
    BY <2>1 DEF VisitInv, Pending, Started, Touching
  <2>3. \A j \in Group(call[p], s) : j \in Keys /\ getShard(j) = s
    BY <1>0, ShardOf DEF Group
  <2>4. \A j \in Group(call[p], s) : contentMap[j] = items[s][j]
    BY <2>2, <2>3, ContentAt DEF ContentFacts
  <2>5. \A j \in Group(call[p], s) : got'[p][j] = items[s][j]
    BY <1>0, <2>1, <2>3 DEF ReadInv, ReadKey
  <2>6. call[p].op \notin WriteOps
    BY <2>1 DEF VisitInv
  <2>7. \A j \in Group(call[p], s) : NewValue(call[p], j, contentMap[j]) = contentMap[j]
    BY <2>6, ReadersKeep
  <2> QED
    BY <1>0, <1>1, <1>2, <1>3, <1>4, <1>5, <2>4, <2>5, <2>7, ActStep
<1>6. CASE ~Visited(p, s)'
  <2>1. \A q \in Procs, j \in Keys :
          j \in touched(call[q]) =>
            /\ Visited(q, getShard(j))' <=> Visited(q, getShard(j))
            /\ Visited(q, getShard(j)) => got'[q][j] = got[q][j]
    BY <1>0, <1>1, <1>3, <1>4, <1>6
  <2>2. leftMap' = leftMap /\ foundMap' = foundMap
    BY <1>0, <2>1, LeftSame
  <2> QED
    BY <1>0, <1>2, <2>2 DEF AM!vars
<1> QED
  BY <1>5, <1>6

\* What WriteKey, ClearItems and ResizeItems have in common: the first store
\* of a visit that writes.
LEMMA FirstStoreStep ==
  ASSUME IInv, IInv', NEW p \in Procs, NEW s \in Shards,
         Inside(p, s), pc[p][s] = "lock", toRead[p][s] = {},
         toWrite[p][s] = Group(call[p], s),
         NEW m \in [Keys -> MaybeValues],
         NEW W \in SUBSET toWrite[p][s], W # toWrite[p][s],
         \A j \in Group(call[p], s) \ W : m[j] = NewValue(call[p], j, got[p][j]),
         \A j \in Keys \ Group(call[p], s) : getShard(j) = s => m[j] = items[s][j],
         items' = [items EXCEPT ![s] = m],
         toWrite' = [toWrite EXCEPT ![p][s] = W],
         UNCHANGED <<lock, call, pc, toRead, got, count>>
  PROVE  AM!Act(p, s)
<1> USE DEF IInv
<1> DEFINE c == call[p]
           G == Group(call[p], s)
<1>0. /\ \A j \in Keys : getShard(j) \in Shards
      /\ \A j \in G : j \in Keys /\ getShard(j) = s
      /\ c \in Calls /\ c.op \in WriteOps /\ c.op # "Count"
      /\ G # {}
  BY ShardOf DEF VisitInv, Group, WriteOps
<1>1. \A q \in Procs \ {p} : pc[q][s] # "lock"
  BY DEF LockInv
<1>2. ~Started(p, s) /\ Started(p, s)'
  BY DEF Started, TypeOK
<1>3. \A j \in Keys : getShard(j) = s => contentMap[j] = items[s][j]
  BY <1>1, <1>2, ContentAt DEF ContentFacts, Pending, Started
<1>4. ContentFacts'
  BY ContentAt, PTL
<1>5. \A j \in W : contentMap'[j] = NewValue(c, j, got[p][j])
  <2>1. \A j \in W : Pending(p, j)'
    BY <1>0, <1>2 DEF Pending, TypeOK
  <2> QED
    BY <1>0, <1>4, <2>1 DEF ContentFacts
<1>6. \A j \in Keys \ W : getShard(j) = s => contentMap'[j] = m[j]
  <2> SUFFICES ASSUME NEW j \in Keys \ W, getShard(j) = s
               PROVE  contentMap'[j] = m[j]
    OBVIOUS
  <2>1. \A q \in Procs : ~Pending(q, j)'
    BY <1>1 DEF Pending, Started, TypeOK
  <2>2. items'[s][j] = m[j]
    BY DEF TypeOK
  <2> QED
    BY <1>4, <2>1, <2>2 DEF ContentFacts
<1>7. \A j \in Keys : getShard(j) # s => contentMap'[j] = contentMap[j]
  <2> SUFFICES ASSUME NEW j \in Keys, getShard(j) # s
               PROVE  contentMap'[j] = contentMap[j]
    OBVIOUS
  <2>1. /\ \A q \in Procs : Pending(q, j)' <=> Pending(q, j)
        /\ items'[getShard(j)][j] = items[getShard(j)][j]
    BY <1>0 DEF Pending, Started, TypeOK
  <2> QED
    BY <1>4, <2>1, ContentAt DEF ContentFacts
<1>8. \A j \in G : NewValue(c, j, got[p][j]) = NewValue(c, j, contentMap[j])
  <2>1. CASE c.op \in ReadOps
    BY <1>0, <1>2, <1>3, <2>1 DEF ReadInv
  <2>2. CASE c.op \notin ReadOps
    BY <1>0, <2>2, BlindWrites
  <2> QED
    BY <2>1, <2>2
<1>9. \A j \in G : got'[p][j] = IF c.op \in ReadOps THEN contentMap[j] ELSE Absent
  BY <1>0, <1>2, <1>3 DEF ReadInv, NoData
<1>10. \A j \in G : contentMap'[j] = NewValue(c, j, contentMap[j])
  BY <1>0, <1>5, <1>6, <1>8
<1>11. \A j \in Keys \ G : contentMap'[j] = contentMap[j]
  BY <1>3, <1>6, <1>7
<1>12. /\ ~Visited(p, s) /\ Visited(p, s)'
       /\ \A q \in Procs, t \in Shards :
            q # p \/ t # s => (Visited(q, t)' <=> Visited(q, t))
  <2>1. ~Visited(p, s) /\ Visited(p, s)'
    BY <1>2 DEF Visited
  <2>2. \A q \in Procs, t \in Shards :
          q # p \/ t # s => (Visited(q, t)' <=> Visited(q, t))
    BY DEF Visited, Started, TypeOK
  <2> QED
    BY <2>1, <2>2
<1> QED
  BY <1>0, <1>9, <1>10, <1>11, <1>12, ActStep

LEMMA WriteKeyStep ==
  ASSUME IInv, IInv', NEW p \in Procs, NEW s \in Shards, NEW k \in Keys,
         WriteKey(p, s, k)
  PROVE  AM!Act(p, s) \/ UNCHANGED AM!vars
<1> USE DEF IInv
<1> DEFINE v == NewValue(call[p], k, got[p][k])
           m == [items[s] EXCEPT ![k] = v]
           W == toWrite[p][s] \ {k}
<1>1. /\ pc[p][s] = "lock"
      /\ call[p] \in Calls
      /\ k \in Group(call[p], s) /\ k \in call[p].keys /\ getShard(k) = s
      /\ \A j \in Keys : getShard(j) \in Shards
  BY ShardOf DEF VisitInv, WriteKey, Inside, Group
<1>2. /\ Inside(p, s) /\ toRead[p][s] = {} /\ k \in toWrite[p][s]
      /\ items' = [items EXCEPT ![s] = m]
      /\ toWrite' = [toWrite EXCEPT ![p][s] = W]
      /\ UNCHANGED <<lock, call, pc, toRead, got, count>>
  BY DEF WriteKey, TypeOK
<1>3. CASE toWrite[p][s] = Group(call[p], s)
  <2>1. v \in MaybeValues
    BY <1>1, NewValueType DEF TypeOK
  <2>2. m \in [Keys -> MaybeValues]
    BY <2>1 DEF TypeOK
  <2>a. m[k] = v /\ \A j \in Keys \ {k} : m[j] = items[s][j]
    BY DEF TypeOK
  <2>3. \A j \in Group(call[p], s) \ W : m[j] = NewValue(call[p], j, got[p][j])
    BY <1>3, <2>a
  <2>4. \A j \in Keys \ Group(call[p], s) : getShard(j) = s => m[j] = items[s][j]
    BY <1>1, <2>a
  <2>5. W \in SUBSET toWrite[p][s] /\ W # toWrite[p][s]
    BY <1>2
  <2> HIDE DEF m, W
  <2>6. AM!Act(p, s)
    BY <1>1, <1>2, <1>3, <2>2, <2>3, <2>4, <2>5, FirstStoreStep
  <2> QED
    BY <2>6
<1>4. CASE toWrite[p][s] # Group(call[p], s)
  <2>1. Started(p, s) /\ Started(p, s)'
    <3>1. W # Group(call[p], s)
      BY <1>1
    <3> QED
      BY <1>1, <1>2, <1>4, <3>1 DEF Started, TypeOK
  <2>2. ContentFacts /\ ContentFacts'
    BY ContentAt, PTL
  <2>3. contentMap'[k] = contentMap[k]
    <3>1. contentMap[k] = v
      BY <1>1, <1>2, <2>1, <2>2 DEF ContentFacts, Pending
    <3>a. \A q \in Procs \ {p} : pc[q][s] # "lock"
      BY <1>1 DEF LockInv
    <3>2. \A q \in Procs : ~Pending(q, k)'
      BY <1>1, <1>2, <3>a DEF Pending, Started, TypeOK
    <3>3. items'[s][k] = v
      BY <1>2 DEF TypeOK
    <3> QED
      BY <1>1, <2>2, <3>1, <3>2, <3>3 DEF ContentFacts
  <2>4. ASSUME NEW j \in Keys \ {k} PROVE contentMap'[j] = contentMap[j]
    <3>1. /\ \A q \in Procs : Pending(q, j)' <=> Pending(q, j)
          /\ items'[getShard(j)][j] = items[getShard(j)][j]
      BY <1>1, <1>2, <2>1 DEF Pending, Started, TypeOK
    <3> QED
      BY <1>2, <2>2, <3>1 DEF ContentFacts
  <2>5. contentMap' = contentMap
    BY <2>3, <2>4 DEF contentMap
  <2>6. \A q \in Procs, t \in Shards : Visited(q, t)' <=> Visited(q, t)
    BY <1>1, <1>2, <2>1 DEF Visited, Started, TypeOK
  <2>7. leftMap' = leftMap /\ foundMap' = foundMap
    BY <1>1, <1>2, <2>6, LeftSame
  <2> QED
    BY <1>2, <2>5, <2>7 DEF AM!vars
<1> QED
  BY <1>3, <1>4

LEMMA ClearItemsStep ==
  ASSUME IInv, IInv', NEW p \in Procs, NEW s \in Shards, ClearItems(p, s)
  PROVE  AM!Act(p, s)
<1>1. pc[p][s] = "lock" /\ toRead[p][s] = {}
  BY DEF IInv, VisitInv, ClearItems, Inside, ReadOps, WriteOps
<1>2. call[p] \in Calls /\ toWrite[p][s] = Group(call[p], s)
  BY <1>1 DEF IInv, VisitInv, ClearItems
<1>3. NoData \in [Keys -> MaybeValues] /\ \A k \in Keys : NoData[k] = Absent
  BY DEF NoData, MaybeValues
<1>4. call[p].keys = Keys
  BY <1>2, MapAssumption DEF CallType, ClearItems, Group, WholeMapOps
<1>5. \A j \in Group(call[p], s) \ {} : NoData[j] = NewValue(call[p], j, got[p][j])
  BY <1>2, <1>3, ShardOf DEF NewValue, ClearItems
<1>6. \A j \in Keys \ Group(call[p], s) : getShard(j) = s => NoData[j] = items[s][j]
  BY <1>4 DEF Group
<1>7. {} \in SUBSET toWrite[p][s] /\ {} # toWrite[p][s]
  BY DEF ClearItems
<1>8. /\ Inside(p, s)
      /\ items' = [items EXCEPT ![s] = NoData]
      /\ toWrite' = [toWrite EXCEPT ![p][s] = {}]
      /\ UNCHANGED <<lock, call, pc, toRead, got, count>>
  BY DEF ClearItems
<1> QED
  BY <1>1, <1>2, <1>3, <1>5, <1>6, <1>7, <1>8, FirstStoreStep

LEMMA ResizeItemsStep ==
  ASSUME IInv, IInv', NEW p \in Procs, NEW s \in Shards, ResizeItems(p, s)
  PROVE  AM!Act(p, s)
<1> DEFINE m == [k \in Keys |-> IF k \in Group(call[p], s) THEN got[p][k] ELSE Absent]
<1>1. pc[p][s] = "lock"
  BY DEF IInv, VisitInv, ResizeItems, Inside, WriteOps
<1>2. call[p] \in Calls /\ toWrite[p][s] = Group(call[p], s)
  BY <1>1 DEF IInv, VisitInv, ResizeItems
<1>3. m \in [Keys -> MaybeValues]
  BY DEF IInv, TypeOK, MaybeValues
<1>4. call[p].keys = Keys
  BY <1>2, MapAssumption DEF CallType, ResizeItems, Group, WholeMapOps
<1>5. \A j \in Group(call[p], s) \ {} : m[j] = NewValue(call[p], j, got[p][j])
  BY <1>2, ShardOf DEF NewValue, ResizeItems
<1>6. \A j \in Keys \ Group(call[p], s) : getShard(j) = s => m[j] = items[s][j]
  BY <1>4 DEF Group
<1>7. {} \in SUBSET toWrite[p][s] /\ {} # toWrite[p][s]
  BY DEF ResizeItems
<1>8. /\ Inside(p, s) /\ toRead[p][s] = {}
      /\ items' = [items EXCEPT ![s] = m]
      /\ toWrite' = [toWrite EXCEPT ![p][s] = {}]
      /\ UNCHANGED <<lock, call, pc, toRead, got, count>>
  BY DEF ResizeItems
<1> HIDE DEF m
<1> QED
  BY <1>1, <1>2, <1>3, <1>5, <1>6, <1>7, <1>8, FirstStoreStep

-----------------------------------------------------------------------------
(* The refinement                                                          *)

LEMMA InitMaps == Init => AM!Init
<1> SUFFICES ASSUME Init PROVE AM!Init
  OBVIOUS
<1>1. /\ touched(NoCall) = {}
      /\ \A k \in Keys : getShard(k) \in Shards
  BY TouchedKeys, ShardOf
<1>2. contentMap = NoData
  BY <1>1 DEF Init, contentMap, Unlocked, NoData
<1>3. leftMap = [p \in Procs |-> {}]
  BY <1>1 DEF Init, leftMap
<1>4. foundMap = [p \in Procs |-> NoData]
  BY <1>1 DEF Init, foundMap, NoData
<1> QED
  BY <1>2, <1>3, <1>4, SameOperators DEF Init, AM!Init

LEMMA NextMaps == IInv /\ IInv' /\ [Next]_vars => [AM!Next]_(AM!vars)
<1> SUFFICES ASSUME IInv, IInv', [Next]_vars PROVE AM!Next \/ UNCHANGED AM!vars
  OBVIOUS
<1>1. ASSUME NEW p \in Procs, NEW c \in Calls, Invoke(p, c) PROVE AM!Next
  BY <1>1, InvokeStep DEF AM!Next
<1>2. ASSUME NEW p \in Procs, NEW s \in Shards, RLock(p, s) \/ Lock(p, s)
      PROVE  UNCHANGED AM!vars
  BY <1>2, RLockStep, LockStep
<1>3. ASSUME NEW p \in Procs, NEW s \in Shards, SectionStep(p, s)
      PROVE  AM!Next \/ UNCHANGED AM!vars
  <2>1. AM!Act(p, s) \/ UNCHANGED AM!vars
    BY <1>3, ReadKeyStep, WriteKeyStep, ClearItemsStep, ResizeItemsStep,
       CountItemsStep, RUnlockStep, UnlockStep DEF SectionStep
  <2> QED
    BY <2>1, SameOperators DEF AM!Next
<1>4. ASSUME NEW p \in Procs, Return(p) PROVE AM!Next
  BY <1>4, ReturnStep DEF AM!Next
<1>5. CASE UNCHANGED vars
  BY <1>5 DEF vars, AM!vars, contentMap, leftMap, foundMap, Started, Visited
<1> QED
  BY <1>1, <1>2, <1>3, <1>4, <1>5 DEF Next

\* Linearizability of the sharded map, for every number of goroutines, keys
\* and shards: Get, Has, Set, Upsert, SetIfAbsent, Remove, RemoveCb and Pop
\* act in one instant, MGet, MSet, Clear, Resize, ForEach and the snapshot of
\* Iter, Items and MarshalJSON in one instant per shard.
THEOREM Linearizable == SafeSpec => AtomicMapSpec
  BY IInvHolds, InitMaps, NextMaps, PTL DEF SafeSpec, AtomicMapSpec, AM!Spec

-----------------------------------------------------------------------------
(* Callbacks that misbehave only stop visits: they cost calls their        *)
(* return, never the map its contents.                                     *)

LEMMA FaultsOnlyStop == FaultSafeSpec => SafeSpec
<1>1. FaultInit => Init
  BY DEF FaultInit
<1>2. [FaultNext]_faultVars => [Next]_vars
  <2>1. \A p \in Procs : callsOf[p] \subseteq Calls
    BY CallsOfAssumption
  <2> QED
    BY <2>1 DEF FaultNext, faultVars, Next, GoesOn, CallbackPanics, CallbackWaits
<1>. QED
  BY <1>1, <1>2, PTL DEF FaultSafeSpec, SafeSpec

\* A panic under the lock, or a callback that waits for ever, leaves no key in
\* a shard where getShard does not look for it.
THEOREM FaultyPlacement == FaultSafeSpec => []Placement
  BY FaultsOnlyStop, KeysInTheirShard

\* A panic under the lock, or a callback that waits for ever, never shows a
\* client half of a call: the map stays linearizable.
THEOREM FaultyLinearizable == FaultSafeSpec => AtomicMapSpec
  BY FaultsOnlyStop, Linearizable

-----------------------------------------------------------------------------
(* The batches of strmap                                                   *)

\* The value that MSet has to store under key k, or that MGet has found there.
Outcome(a, k) ==
  IF batch[a].op = "MSet" THEN batch[a].data[k] ELSE result[a][k]

\* The goroutines of a batch: one in its call for each key in wg.
WorkerInv ==
  \A a \in Clients :
    /\ batch[a] = NoBatch => toSpawn[a] = {} /\ wg[a] = {}
    /\ batch[a] # NoBatch => toSpawn[a] \cup wg[a] \subseteq batch[a].keys
    /\ \A k \in Keys :
         call[Worker(a, k)] = IF k \in wg[a] THEN WorkerCall(batch[a], k) ELSE NoCall

\* Worker(a, k) has read, respectively written, its key.
HasRead(a, k) ==
  LET w == Worker(a, k)
      s == getShard(k)
  IN  pc[w][s] = "done" \/ (pc[w][s] = "rlock" /\ k \notin toRead[w][s])

HasWritten(a, k) ==
  LET w == Worker(a, k)
      s == getShard(k)
  IN  pc[w][s] = "done" \/ (pc[w][s] = "lock" /\ k \notin toWrite[w][s])

\* What the goroutines have read or written is part of the batch's history.
PastInv ==
  \A a \in Clients, k \in Keys :
    /\ k \in wg[a] /\ batch[a].op = "MGet" /\ HasRead(a, k) =>
         got[Worker(a, k)][k] \in past[a][k]
    /\ k \in wg[a] /\ batch[a].op = "MSet" /\ HasWritten(a, k) =>
         batch[a].data[k] \in past[a][k]
    /\ batch[a] # NoBatch /\ k \in batch[a].keys \ (toSpawn[a] \cup wg[a]) =>
         Outcome(a, k) \in past[a][k]

StrIInv == IInv /\ BatchTypeOK /\ WorkerInv /\ PastInv

-----------------------------------------------------------------------------
(* The goroutines and their calls                                          *)

LEMMA Workers ==
  ASSUME NEW a \in Clients, NEW k \in Keys
  PROVE  /\ Worker(a, k) \in Procs
         /\ Worker(a, k) \notin Clients
         /\ a \in Procs
         /\ \A b \in Clients, j \in Keys : Worker(a, k) = Worker(b, j) => a = b /\ k = j
  BY StrMapAssumption DEF Worker

LEMMA BatchCall ==
  ASSUME NEW b \in Batches
  PROVE  /\ b # NoBatch
         /\ b.op \in {"MSet", "MGet"}
         /\ b.keys \subseteq Keys
         /\ b.data \in [Keys -> MaybeValues]
  BY StrMapAssumption DEF CallType

LEMMA WorkerCalls ==
  ASSUME NEW b \in Batches, NEW k \in b.keys
  PROVE  /\ WorkerCall(b, k) \in Calls
         /\ WorkerCall(b, k) # NoCall
         /\ WorkerCall(b, k).op = IF b.op = "MSet" THEN "MSet" ELSE "Get"
         /\ WorkerCall(b, k).keys = {k}
         /\ WorkerCall(b, k).data[k] = b.data[k]
<1>1. k \in Keys
  BY BatchCall
<1> QED
  BY <1>1, StrMapAssumption DEF WorkerCall, NoCall

\* A step of a client or of a goroutine is a step of I64Map, or none.
LEMMA StepIsNext == StrIInv /\ StrStep => [Next]_vars
<1> SUFFICES ASSUME StrIInv, StrStep PROVE Next \/ UNCHANGED vars
  OBVIOUS
<1>0. Clients \subseteq Procs
  BY StrMapAssumption
<1>1. ASSUME NEW a \in Clients, NEW c \in Calls, StrInvoke(a, c) PROVE Next
  BY <1>0, <1>1 DEF StrInvoke, Next
<1>2. ASSUME NEW a \in Clients, NEW b \in Batches, BatchInvoke(a, b) PROVE UNCHANGED vars
  BY <1>2 DEF BatchInvoke
<1>3. ASSUME NEW a \in Clients, NEW k \in Keys, Spawn(a, k) PROVE Next
  <2>1. k \in batch[a].keys /\ batch[a] \in Batches
    BY <1>3 DEF Spawn, StrIInv, WorkerInv, BatchTypeOK
  <2> QED
    BY <2>1, <1>3, WorkerCalls, Workers DEF Spawn, Next
<1>4. ASSUME NEW a \in Clients, NEW k \in Keys, WorkerDone(a, k) PROVE Next
  BY <1>4, Workers DEF WorkerDone, Next
<1>5. ASSUME NEW a \in Clients, Wait(a) PROVE UNCHANGED vars
  BY <1>5 DEF Wait
<1>6. ASSUME NEW a \in Clients, StrReturn(a) PROVE Next
  BY <1>0, <1>6 DEF StrReturn, Next
<1>7. ASSUME NEW p \in Procs, NEW s \in Shards, VisitStep(p, s) PROVE Next
  BY <1>7 DEF VisitStep, Next
<1> QED
  BY <1>1, <1>2, <1>3, <1>4, <1>5, <1>6, <1>7 DEF StrStep

-----------------------------------------------------------------------------
(* The invariant                                                           *)

LEMMA StrInitIInv == StrInit => StrIInv
<1> SUFFICES ASSUME StrInit PROVE StrIInv
  OBVIOUS
<1>1. IInv
  BY InitIInv DEF StrInit
<1>2. NoData \in [Keys -> MaybeValues]
  BY DEF NoData, MaybeValues
<1>3. BatchTypeOK
  BY <1>1, <1>2 DEF IInv, StrInit, BatchTypeOK
<1>4. WorkerInv
  BY Workers DEF StrInit, Init, WorkerInv
<1>5. PastInv
  BY DEF StrInit, PastInv
<1> QED
  BY <1>1, <1>3, <1>4, <1>5 DEF StrIInv

\* A batch in progress forgets nothing, and adds the present values.
LEMMA PastGrows ==
  ASSUME StrNext, NEW a \in Clients, NEW k \in Keys, batch'[a] # NoBatch
  PROVE  /\ past[a][k] \subseteq past'[a][k]
         /\ items'[getShard(k)][k] \in past'[a][k]
  BY DEF StrNext

LEMMA StrTypeStep == StrIInv /\ StrNext => IInv' /\ BatchTypeOK'
<1> SUFFICES ASSUME StrIInv, StrNext PROVE IInv' /\ BatchTypeOK'
  OBVIOUS
<1>1. IInv'
  BY StepIsNext, NextIInv DEF StrIInv, StrNext
<1>2. past' \in [Clients -> [Keys -> SUBSET MaybeValues]]
  <2>1. ASSUME NEW k \in Keys PROVE items'[getShard(k)][k] \in MaybeValues
    BY <1>1, ShardOf DEF IInv, TypeOK
  <2>2. ASSUME NEW a \in Clients, NEW k \in Keys PROVE past[a][k] \in SUBSET MaybeValues
    BY DEF StrIInv, BatchTypeOK
  <2> QED
    BY <2>1, <2>2 DEF StrNext
<1>3. NoData \in [Keys -> MaybeValues]
  BY DEF NoData, MaybeValues
<1> DEFINE T ==
      /\ batch \in [Clients -> Batches \cup {NoBatch}]
      /\ toSpawn \in [Clients -> SUBSET Keys]
      /\ wg \in [Clients -> SUBSET Keys]
      /\ result \in [Clients -> [Keys -> MaybeValues]]
<1>4. T'
  <2>0. T
    BY DEF StrIInv, BatchTypeOK
  <2>1. CASE UNCHANGED batchVars
    BY <2>0, <2>1 DEF batchVars
  <2>2. ASSUME NEW a \in Clients, NEW b \in Batches, BatchInvoke(a, b)
        PROVE  T'
    BY <2>0, <2>2, BatchCall DEF BatchInvoke
  <2>3. ASSUME NEW a \in Clients, NEW k \in Keys, Spawn(a, k) PROVE T'
    BY <2>0, <2>3 DEF Spawn
  <2>4. ASSUME NEW a \in Clients, NEW k \in Keys, WorkerDone(a, k) PROVE T'
    <3>1. got[Worker(a, k)][k] \in MaybeValues
      BY Workers DEF StrIInv, IInv, TypeOK
    <3> QED
      BY <2>0, <2>4, <3>1 DEF WorkerDone
  <2>5. ASSUME NEW a \in Clients, Wait(a) PROVE T'
    BY <2>0, <2>5, <1>3 DEF Wait
  <2> QED
    BY <2>1, <2>2, <2>3, <2>4, <2>5
       DEF StrNext, StrStep, StrInvoke, StrReturn, VisitStep
<1> QED
  BY <1>1, <1>2, <1>4 DEF BatchTypeOK, IInv


LEMMA WorkerStep == StrIInv /\ StrNext => WorkerInv'
<1> SUFFICES ASSUME StrIInv, StrNext, NEW a \in Clients
             PROVE  /\ batch'[a] = NoBatch => toSpawn'[a] = {} /\ wg'[a] = {}
                    /\ batch'[a] # NoBatch =>
                         toSpawn'[a] \cup wg'[a] \subseteq batch'[a].keys
                    /\ \A k \in Keys :
                         call'[Worker(a, k)] =
                           IF k \in wg'[a] THEN WorkerCall(batch'[a], k) ELSE NoCall
  BY DEF WorkerInv
<1> DEFINE T ==
      /\ batch[a] = NoBatch => toSpawn[a] = {} /\ wg[a] = {}
      /\ batch[a] # NoBatch => toSpawn[a] \cup wg[a] \subseteq batch[a].keys
      /\ \A k \in Keys :
           call[Worker(a, k)] = IF k \in wg[a] THEN WorkerCall(batch[a], k) ELSE NoCall
<1>0. /\ T
      /\ batch \in [Clients -> Batches \cup {NoBatch}]
      /\ toSpawn \in [Clients -> SUBSET Keys]
      /\ wg \in [Clients -> SUBSET Keys]
      /\ call \in [Procs -> Calls \cup {NoCall}]
  BY DEF StrIInv, WorkerInv, BatchTypeOK, TypeOK
<1>1. ASSUME NEW b \in Clients, NEW c \in Calls, StrInvoke(b, c) PROVE T'
  BY <1>0, <1>1, Workers DEF StrInvoke, Invoke, batchVars
<1>2. ASSUME NEW b \in Clients, NEW e \in Batches, BatchInvoke(b, e) PROVE T'
  <2>1. CASE a = b
    <3>1. toSpawn'[a] = e.keys /\ wg'[a] = {} /\ batch'[a] = e /\ e # NoBatch
      BY <1>0, <1>2, <2>1, BatchCall DEF BatchInvoke
    <3>2. \A k \in Keys : call'[Worker(a, k)] = NoCall
      BY <1>0, <1>2, <2>1 DEF BatchInvoke, vars
    <3> QED
      BY <3>1, <3>2
  <2>2. CASE a # b
    BY <1>0, <1>2, <2>2 DEF BatchInvoke, vars
  <2> QED
    BY <2>1, <2>2
<1>3. ASSUME NEW b \in Clients, NEW j \in Keys, Spawn(b, j) PROVE T'
  BY <1>0, <1>3, Workers DEF Spawn, Invoke
<1>4. ASSUME NEW b \in Clients, NEW j \in Keys, WorkerDone(b, j) PROVE T'
  BY <1>0, <1>4, Workers DEF WorkerDone, Return
<1>5. ASSUME NEW b \in Clients, Wait(b) PROVE T'
  BY <1>0, <1>5 DEF Wait, vars
<1>6. ASSUME NEW b \in Clients, StrReturn(b) PROVE T'
  BY <1>0, <1>6, Workers DEF StrReturn, Return, batchVars
<1>7. ASSUME NEW p \in Procs, NEW s \in Shards, VisitStep(p, s) PROVE T'
  <2>1. UNCHANGED call
    BY <1>7 DEF VisitStep, RLock, Lock, SectionStep, ReadKey, WriteKey, ClearItems,
                ResizeItems, CountItems, RUnlock, Unlock
  <2> QED
    BY <1>0, <1>7, <2>1 DEF VisitStep, batchVars
<1> QED
  BY <1>1, <1>2, <1>3, <1>4, <1>5, <1>6, <1>7 DEF StrNext, StrStep


\* While a goroutine visits its shard, what it reads or writes enters the
\* history with the same step.
LEMMA VisitPast ==
  ASSUME StrIInv, StrNext, NEW p \in Procs, NEW t \in Shards, VisitStep(p, t),
         NEW a \in Clients, NEW k \in Keys, k \in wg[a]
  PROVE  /\ batch[a].op = "MGet" /\ HasRead(a, k)' =>
              got'[Worker(a, k)][k] \in past'[a][k]
         /\ batch[a].op = "MSet" /\ HasWritten(a, k)' =>
              batch[a].data[k] \in past'[a][k]
<1> DEFINE w == Worker(a, k)
           s == getShard(k)
           c == WorkerCall(batch[a], k)
<1>0. /\ w \in Procs
      /\ s \in Shards
      /\ batch[a] \in Batches
      /\ k \in batch[a].keys
      /\ call[w] = c
  BY Workers, ShardOf DEF StrIInv, WorkerInv, BatchTypeOK
<1>1. /\ c.op = IF batch[a].op = "MSet" THEN "MSet" ELSE "Get"
      /\ c.keys = {k}
      /\ c.data[k] = batch[a].data[k]
      /\ batch[a] # NoBatch
      /\ Group(c, s) = {k}
  BY <1>0, WorkerCalls, BatchCall DEF Group
<1>2. /\ past[a][k] \subseteq past'[a][k]
      /\ items'[s][k] \in past'[a][k]
  BY <1>1, PastGrows DEF VisitStep, batchVars
<1>3. /\ batch[a].op = "MGet" /\ HasRead(a, k) => got[w][k] \in past[a][k]
      /\ batch[a].op = "MSet" /\ HasWritten(a, k) => batch[a].data[k] \in past[a][k]
  BY DEF StrIInv, PastInv
<1>4. /\ items \in [Shards -> [Keys -> MaybeValues]]
      /\ pc \in [Procs -> [Shards -> {"todo", "rlock", "lock", "done"}]]
      /\ toRead \in [Procs -> [Shards -> SUBSET Keys]]
      /\ toWrite \in [Procs -> [Shards -> SUBSET Keys]]
      /\ got \in [Procs -> [Keys -> MaybeValues]]
  BY DEF StrIInv, IInv, TypeOK
<1>5. /\ \A u \in Shards : toRead[w][u] \subseteq Group(c, u)
      /\ pc[w][s] = "lock" => c.op \in WriteOps
      /\ pc[w][s] = "rlock" => c.op \notin WriteOps
  BY <1>0 DEF StrIInv, IInv, VisitInv
<1> HIDE DEF w, s, c
<1>6. CASE RLock(p, t)
  BY <1>0, <1>1, <1>2, <1>3, <1>4, <1>6 DEF RLock, HasRead, HasWritten, w, s
<1>7. CASE Lock(p, t)
  BY <1>0, <1>1, <1>2, <1>3, <1>4, <1>7 DEF Lock, HasRead, HasWritten, w, s
<1>8. ASSUME NEW j \in Keys, ReadKey(p, t, j)
      PROVE  /\ batch[a].op = "MGet" /\ HasRead(a, k)' => got'[w][k] \in past'[a][k]
             /\ batch[a].op = "MSet" /\ HasWritten(a, k)' =>
                  batch[a].data[k] \in past'[a][k]
  <2>1. CASE p = w /\ j = k
    <3>1. t = s
      BY <1>5, <1>8, <2>1, <1>0 DEF ReadKey, Group, s
    <3>2. got'[w][k] = items'[s][k]
      BY <1>0, <1>4, <1>8, <2>1, <3>1 DEF ReadKey
    <3>3. HasWritten(a, k)' => HasWritten(a, k)
      BY <1>8 DEF ReadKey, HasWritten
    <3> QED
      BY <1>2, <1>3, <3>2, <3>3
  <2>2. CASE ~(p = w /\ j = k)
    BY <1>0, <1>2, <1>3, <1>4, <1>8, <2>2 DEF ReadKey, HasRead, HasWritten, w, s
  <2> QED
    BY <2>1, <2>2
<1>9. ASSUME NEW j \in Keys, WriteKey(p, t, j)
      PROVE  /\ batch[a].op = "MGet" /\ HasRead(a, k)' => got'[w][k] \in past'[a][k]
             /\ batch[a].op = "MSet" /\ HasWritten(a, k)' =>
                  batch[a].data[k] \in past'[a][k]
  <2>1. CASE p = w /\ t = s /\ j = k
    <3>1. batch[a].op = "MSet" => items'[s][k] = batch[a].data[k]
      BY <1>0, <1>1, <1>4, <1>9, <2>1 DEF WriteKey, NewValue
    <3>2. HasRead(a, k)' => HasRead(a, k)
      BY <1>9 DEF WriteKey, HasRead
    <3> QED
      BY <1>2, <1>3, <1>9, <3>1, <3>2 DEF WriteKey
  <2>2. CASE ~(p = w /\ t = s /\ j = k)
    BY <1>0, <1>2, <1>3, <1>4, <1>9, <2>2 DEF WriteKey, HasRead, HasWritten, w, s
  <2> QED
    BY <2>1, <2>2
<1>10. CASE ClearItems(p, t) \/ ResizeItems(p, t)
  <2>1. batch[a].op = "MSet" => p # w
    BY <1>0, <1>1, <1>10 DEF ClearItems, ResizeItems
  <2> QED
    BY <1>0, <1>2, <1>3, <1>4, <1>10, <2>1
       DEF ClearItems, ResizeItems, HasRead, HasWritten, w, s
<1>11. CASE CountItems(p, t)
  <2>1. p # w
    BY <1>0, <1>1, <1>11 DEF CountItems
  <2> QED
    BY <1>0, <1>2, <1>3, <1>4, <1>11, <2>1 DEF CountItems, HasRead, HasWritten, w, s
<1>12. CASE RUnlock(p, t)
  <2>1. p = w /\ t = s => batch[a].op # "MSet" /\ HasRead(a, k)
    BY <1>0, <1>1, <1>5, <1>12 DEF RUnlock, HasRead, WriteOps, w, s
  <2> QED
    BY <1>0, <1>2, <1>3, <1>4, <1>12, <2>1 DEF RUnlock, HasRead, HasWritten, w, s
<1>13. CASE Unlock(p, t)
  <2>1. p = w /\ t = s => batch[a].op # "MGet" /\ HasWritten(a, k)
    BY <1>0, <1>1, <1>5, <1>13 DEF Unlock, HasWritten, WriteOps, w, s
  <2> QED
    BY <1>0, <1>2, <1>3, <1>4, <1>13, <2>1 DEF Unlock, HasRead, HasWritten, w, s
<1> QED
  BY <1>6, <1>7, <1>8, <1>9, <1>10, <1>11, <1>12, <1>13
     DEF VisitStep, SectionStep, w


LEMMA PastStep == StrIInv /\ StrNext => PastInv'
<1> SUFFICES ASSUME StrIInv, StrNext, NEW a \in Clients, NEW k \in Keys
             PROVE  /\ k \in wg'[a] /\ batch'[a].op = "MGet" /\ HasRead(a, k)' =>
                         got'[Worker(a, k)][k] \in past'[a][k]
                    /\ k \in wg'[a] /\ batch'[a].op = "MSet" /\ HasWritten(a, k)' =>
                         batch'[a].data[k] \in past'[a][k]
                    /\ /\ batch'[a] # NoBatch
                       /\ k \in batch'[a].keys \ (toSpawn'[a] \cup wg'[a])
                       => Outcome(a, k)' \in past'[a][k]
  BY DEF PastInv
<1> DEFINE w == Worker(a, k)
           R == k \in wg[a] /\ batch[a].op = "MGet" /\ HasRead(a, k) =>
                  got[w][k] \in past[a][k]
           W == k \in wg[a] /\ batch[a].op = "MSet" /\ HasWritten(a, k) =>
                  batch[a].data[k] \in past[a][k]
           D == batch[a] # NoBatch /\ k \in batch[a].keys \ (toSpawn[a] \cup wg[a]) =>
                  Outcome(a, k) \in past[a][k]
<1>0. /\ R /\ W /\ D
      /\ batch \in [Clients -> Batches \cup {NoBatch}]
      /\ toSpawn \in [Clients -> SUBSET Keys]
      /\ wg \in [Clients -> SUBSET Keys]
      /\ result \in [Clients -> [Keys -> MaybeValues]]
      /\ pc \in [Procs -> [Shards -> {"todo", "rlock", "lock", "done"}]]
      /\ got \in [Procs -> [Keys -> MaybeValues]]
      /\ w \in Procs /\ w \notin Clients
      /\ getShard(k) \in Shards
  BY Workers, ShardOf DEF StrIInv, PastInv, BatchTypeOK, TypeOK
<1>1. batch'[a] # NoBatch => past[a][k] \subseteq past'[a][k]
  BY PastGrows
<1>2. /\ batch[a] = NoBatch => toSpawn[a] = {} /\ wg[a] = {}
      /\ batch[a] # NoBatch => toSpawn[a] \cup wg[a] \subseteq batch[a].keys
      /\ call[w] = IF k \in wg[a] THEN WorkerCall(batch[a], k) ELSE NoCall
  BY DEF StrIInv, WorkerInv
<1>3. ASSUME NEW b \in Clients, NEW c \in Calls, StrInvoke(b, c) PROVE R' /\ W' /\ D'
  <2>1. /\ UNCHANGED <<batchVars, got, toRead, toWrite>>
        /\ pc'[w] = pc[w]
    BY <1>0, <1>3 DEF StrInvoke, Invoke
  <2> QED
    BY <1>0, <1>1, <1>2, <2>1 DEF batchVars, HasRead, HasWritten, Outcome
<1>4. ASSUME NEW b \in Clients, NEW e \in Batches, BatchInvoke(b, e) PROVE R' /\ W' /\ D'
  <2>1. CASE a = b
    <3>1. toSpawn'[a] = e.keys /\ wg'[a] = {} /\ batch'[a] = e
      BY <1>0, <1>2, <1>4, <2>1 DEF BatchInvoke
    <3> QED
      BY <3>1
  <2>2. CASE a # b
    <3>1. /\ UNCHANGED <<wg, result, got, pc, toRead, toWrite>>
          /\ batch'[a] = batch[a]
          /\ toSpawn'[a] = toSpawn[a]
      BY <1>0, <1>4, <2>2 DEF BatchInvoke, vars
    <3> QED
      BY <1>0, <1>1, <1>2, <3>1 DEF HasRead, HasWritten, Outcome
  <2> QED
    BY <2>1, <2>2
<1>5. ASSUME NEW b \in Clients, NEW j \in Keys, Spawn(b, j) PROVE R' /\ W' /\ D'
  <2>1. CASE a = b /\ j = k
    <3>1. k \in batch[a].keys /\ batch[a] \in Batches
      BY <1>0, <1>2, <1>5, <2>1 DEF Spawn
    <3>2. getShard(k) \in Visits(WorkerCall(batch[a], k))
      <4>1. /\ WorkerCall(batch[a], k).op \notin WholeMapOps
            /\ WorkerCall(batch[a], k).keys = {k}
        BY <3>1, WorkerCalls DEF WholeMapOps
      <4> QED
        BY <4>1 DEF Visits
    <3>3. pc'[w][getShard(k)] = "todo"
      BY <1>0, <1>5, <2>1, <3>2 DEF Spawn, Invoke
    <3>4. k \in wg'[a]
      BY <1>0, <1>5, <2>1 DEF Spawn
    <3> QED
      BY <3>3, <3>4 DEF HasRead, HasWritten
  <2>2. CASE ~(a = b /\ j = k)
    <3>1. /\ UNCHANGED <<batch, result, got, toRead, toWrite>>
          /\ pc'[w] = pc[w]
          /\ k \in wg'[a] <=> k \in wg[a]
          /\ k \in toSpawn'[a] <=> k \in toSpawn[a]
      BY <1>0, <1>5, <2>2, Workers DEF Spawn, Invoke
    <3> QED
      BY <1>0, <1>1, <1>2, <3>1 DEF HasRead, HasWritten, Outcome
  <2> QED
    BY <2>1, <2>2
<1>6. ASSUME NEW b \in Clients, NEW j \in Keys, WorkerDone(b, j) PROVE R' /\ W' /\ D'
  <2>1. CASE a = b /\ j = k
    <3>1. k \in wg[a] /\ batch[a] \in Batches /\ k \in batch[a].keys
      BY <1>0, <1>2, <1>6, <2>1 DEF WorkerDone, Return
    <3>2. /\ HasRead(a, k) /\ HasWritten(a, k)
      BY <1>0, <1>6, <2>1 DEF WorkerDone, Return, HasRead, HasWritten
    <3>3. /\ UNCHANGED batch
          /\ k \notin wg'[a]
          /\ call[w].op = "Get" => result'[a][k] = got[w][k]
      BY <1>0, <1>6, <2>1 DEF WorkerDone
    <3>4. /\ batch[a].op = "MSet" \/ batch[a].op = "MGet"
          /\ batch[a].op = "MGet" => call[w].op = "Get"
      BY <1>2, <3>1, WorkerCalls, BatchCall
    <3>5. Outcome(a, k)' \in past[a][k]
      BY <1>0, <3>1, <3>2, <3>3, <3>4 DEF Outcome
    <3> QED
      BY <1>1, <3>3, <3>5
  <2>2. CASE ~(a = b /\ j = k)
    <3>1. /\ UNCHANGED <<batch, toSpawn, pc, toRead, toWrite>>
          /\ got'[w] = got[w]
          /\ k \in wg'[a] <=> k \in wg[a]
          /\ result'[a][k] = result[a][k]
      BY <1>0, <1>6, <2>2, Workers DEF WorkerDone, Return
    <3> QED
      BY <1>0, <1>1, <1>2, <3>1 DEF HasRead, HasWritten, Outcome
  <2> QED
    BY <2>1, <2>2
<1>7. ASSUME NEW b \in Clients, Wait(b) PROVE R' /\ W' /\ D'
  <2>1. CASE a = b
    BY <1>0, <1>7, <2>1 DEF Wait
  <2>2. CASE a # b
    <3>1. /\ UNCHANGED <<wg, toSpawn, got, pc, toRead, toWrite>>
          /\ batch'[a] = batch[a]
          /\ result'[a] = result[a]
      BY <1>0, <1>7, <2>2 DEF Wait, vars
    <3> QED
      BY <1>0, <1>1, <1>2, <3>1 DEF HasRead, HasWritten, Outcome
  <2> QED
    BY <2>1, <2>2
<1>8. ASSUME NEW b \in Clients, StrReturn(b) PROVE R' /\ W' /\ D'
  <2>1. /\ UNCHANGED <<batchVars, pc, toRead, toWrite>>
        /\ got'[w] = got[w]
    BY <1>0, <1>8 DEF StrReturn, Return
  <2> QED
    BY <1>0, <1>1, <1>2, <2>1 DEF batchVars, HasRead, HasWritten, Outcome
<1>9. ASSUME NEW p \in Procs, NEW s \in Shards, VisitStep(p, s) PROVE R' /\ W' /\ D'
  <2>1. UNCHANGED batchVars
    BY <1>9 DEF VisitStep
  <2>2. R' /\ W'
    BY <1>9, <2>1, VisitPast DEF batchVars
  <2>3. D'
    BY <1>0, <1>1, <2>1 DEF batchVars, Outcome
  <2> QED
    BY <2>2, <2>3
<1> QED
  BY <1>3, <1>4, <1>5, <1>6, <1>7, <1>8, <1>9 DEF StrNext, StrStep

LEMMA StrIInvHolds == StrSpec => []StrIInv
<1>1. StrIInv /\ UNCHANGED strVars => StrIInv'
  <2> SUFFICES ASSUME StrIInv, UNCHANGED strVars PROVE StrIInv'
    OBVIOUS
  <2>1. IInv'
    BY NextIInv DEF StrIInv, strVars
  <2>2. BatchTypeOK' /\ WorkerInv' /\ PastInv'
    BY <2>1 DEF StrIInv, IInv, BatchTypeOK, WorkerInv, PastInv, Outcome, HasRead,
                HasWritten, strVars, vars, batchVars
  <2> QED
    BY <2>1, <2>2 DEF StrIInv
<1>2. StrIInv /\ [StrNext]_strVars => StrIInv'
  BY <1>1, StrTypeStep, WorkerStep, PastStep DEF StrIInv
<1> QED
  BY <1>2, StrInitIInv, PTL DEF StrSpec

-----------------------------------------------------------------------------
(* Theorems                                                                *)

\* The types of the shared map and of the batches, for any constants.
THEOREM StrTypeCorrect == StrSpec => []BatchTypeOK
  BY StrIInvHolds, PTL DEF StrIInv

\* MSet and MGet of strmap wait for every goroutine they start.
THEOREM BatchesWait == StrSpec => []NoStragglers
<1>1. StrIInv => NoStragglers
  BY DEF StrIInv, WorkerInv, NoStragglers
<1> QED
  BY <1>1, StrIInvHolds, PTL

\* When they return, MSet has stored every value and MGet has for every key
\* what the key held at some instant of the call.
THEOREM BatchesTakeEffect == StrSpec => []BatchEffective
<1>1. StrIInv => BatchEffective
  BY BatchCall DEF StrIInv, BatchTypeOK, PastInv, Outcome, BatchEffective
<1> QED
  BY <1>1, StrIInvHolds, PTL

\* Linearizability of strmap.ConcurrentMap: its clients, and the goroutines of
\* MSet and MGet, see the one map of AtomicMap.
THEOREM StrLinearizable == StrSpec => AtomicMapSpec
<1>1. StrIInv /\ [StrNext]_strVars => [Next]_vars
  BY StepIsNext DEF StrNext, strVars
<1>2. StrSpec => SafeSpec
  BY <1>1, StrIInvHolds, PTL DEF StrSpec, StrInit, SafeSpec
<1> QED
  BY <1>2, Linearizable, PTL
=============================================================================
