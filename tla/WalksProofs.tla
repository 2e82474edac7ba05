----------------------------- MODULE WalksProofs -----------------------------
(***************************************************************************)
(* The walks over the shards of a ConcurrentMap, for any keys, values,     *)
(* hash and numbers of shards, and any changes a client makes meanwhile.   *)
(***************************************************************************)
EXTENDS Walks, FiniteSetTheorems, TLAPS

KeysOf(ts) == {t[1] : t \in ts}
KeysOfShard(s) == {k \in Keys : getShard(k) = s}
Iterating == op = "Iter"

\* How the call, the package and the stage go together, and what it means that
\* the channel is closed or the walk over.
ControlInv ==
  /\ pkg = "i64map" => Default
  /\ op = "ForEach" => pkg = "i64map"
  /\ stage = "none" <=> op = "none"
  /\ stage = "count" => op \in {"Count", "Keys"}
  /\ stage \in {"walk", "drain"} => op # "Count"
  /\ stage = "drain" => Iterating
  /\ op = "Keys" \/ (Iterating /\ stage # "walk") \/ out = NilChan
  /\ stage = "count" => out = NilChan
  /\ stage = "over" => out.buf = {} /\ (op \in {"Iter", "Keys"} => out.closed)
  /\ stage = "over" /\ op = "ForEach" => \A s \in Shards : pc[s] = "done"
  /\ out.closed /\ op = "Keys" /\ Default => \A s \in Shards : pc[s] = "done"
  /\ out.closed /\ Iterating => \A s \in Shards : Drained(s)

\* A goroutine that sends holds the read lock of its shard, and all it has still to
\* send is there.
ShardInv ==
  \A s \in AllShards :
    /\ pc[s] = "send" <=> s \in readers
    /\ left[s] \subseteq ItemsOf(s)
    /\ left[s] # {} => pc[s] = "send"
    /\ stage = "none" => pc[s] = "todo"
    /\ pc[s] # "todo" => s \in MapShards /\ (Iterating => s \in Shards)
    /\ pc[s] = "send" => stage \notin {"none", "count"} /\ op # "Count"

\* The channels of snapshot, and the room that Iter has made for them.
ChanInv ==
  /\ \A s \in Shards :
       /\ ~Iterating => chans[s] = NilChan
       /\ Iterating => /\ chans[s].made <=> pc[s] # "todo"
                       /\ chans[s].closed <=> pc[s] = "done"
       /\ ~chans[s].made => chans[s] = NilChan
       /\ hand[s] # {} => stage = "drain"
       /\ Iterating /\ stage \in {"drain", "over"} => pc[s] # "todo"
  /\ Iterating /\ stage \in {"drain", "over"} => out.cap = total

\* No key is twice on its way to the caller of Iter, and those of a shard are no
\* more than its channel had room for.
OneTuple(ts) == \A t, u \in ts : t[1] = u[1] => t = u

InFlight(s) ==
  left[s] \cup KeysOf(chans[s].buf) \cup KeysOf(hand[s])
    \cup {k \in KeysOf(out.buf) : getShard(k) = s}

FlightInv ==
  Iterating =>
    /\ OneTuple(out.buf)
    /\ \A s \in Shards :
         /\ OneTuple(chans[s].buf) /\ \A t, u \in hand[s] : t = u
         /\ KeysOf(chans[s].buf) \cup KeysOf(hand[s]) \subseteq KeysOfShard(s)
         /\ left[s] \cap (KeysOf(chans[s].buf) \cup KeysOf(hand[s]) \cup KeysOf(out.buf)) = {}
         /\ KeysOf(chans[s].buf) \cap (KeysOf(hand[s]) \cup KeysOf(out.buf)) = {}
         /\ KeysOf(hand[s]) \cap KeysOf(out.buf) = {}
         /\ Cardinality(InFlight(s)) <= chans[s].cap
         /\ chans[s].cap <= Cardinality(KeysOfShard(s))

\* All that is on its way has been in the map during the walk.
SeenInv ==
  /\ seen \subseteq Tuples /\ stable \subseteq Keys
  /\ Walking(stage) => /\ \A k \in Present(items) : <<k, items[k]>> \in seen
                       /\ stable \subseteq Present(items)
  /\ got \subseteq seen /\ out.buf \subseteq seen
  /\ \A s \in Shards : chans[s].buf \subseteq seen /\ hand[s] \subseteq seen

\* A key that has been there all the time is on its way once its shard is read.
MissedInv ==
  op # "Count" /\ stage # "count" /\ Default =>
    \A k \in stable :
      pc[getShard(k)] # "todo" => k \in InFlight(getShard(k)) \cup KeysOf(got)

\* The keys of the shards that Count has been to.
Counted(ks) == {k \in ks : pc[getShard(k)] = "done"}

CountInv ==
  /\ stage = "none" => count = 0
  /\ stage = "count" =>
       /\ Cardinality(Counted(stable)) <= count
       /\ count <= Cardinality(Counted(KeysOf(seen)))

IInv ==
  /\ TypeOK /\ ControlInv /\ ShardInv /\ ChanInv /\ FlightInv /\ SeenInv /\ MissedInv
  /\ CountInv /\ CountBounded /\ DefaultNeverPanics

-----------------------------------------------------------------------------
(* Channels, keys and shards                                               *)

LEMMA ChanFacts ==
  /\ NilChan \in ChanType
  /\ ~NilChan.made /\ NilChan.cap = 0 /\ NilChan.buf = {} /\ ~NilChan.closed
  /\ \A n \in 0 .. Cardinality(Keys) :
       /\ MakeChan(n) \in ChanType
       /\ MakeChan(n).made /\ MakeChan(n).cap = n
       /\ MakeChan(n).buf = {} /\ ~MakeChan(n).closed
  /\ \A c \in ChanType :
       /\ Closed(c) \in ChanType
       /\ Closed(c).made = c.made /\ Closed(c).cap = c.cap
       /\ Closed(c).buf = c.buf /\ Closed(c).closed
  /\ \A c \in ChanType, t \in Tuples :
       /\ Put(c, t) \in ChanType
       /\ Put(c, t).made = c.made /\ Put(c, t).cap = c.cap
       /\ Put(c, t).buf = c.buf \cup {t} /\ Put(c, t).closed = c.closed
  /\ \A c \in ChanType, t \in Tuples :
       /\ Take(c, t) \in ChanType
       /\ Take(c, t).made = c.made /\ Take(c, t).cap = c.cap
       /\ Take(c, t).buf = c.buf \ {t} /\ Take(c, t).closed = c.closed
<1>0. Cardinality(Keys) \in Nat
  BY WalksAssumption, FS_CardinalityType
<1>1. /\ NilChan \in ChanType
      /\ ~NilChan.made /\ NilChan.cap = 0 /\ NilChan.buf = {} /\ ~NilChan.closed
  BY <1>0 DEF NilChan, ChanType
<1>2. ASSUME NEW n \in 0 .. Cardinality(Keys)
      PROVE  /\ MakeChan(n) \in ChanType
             /\ MakeChan(n).made /\ MakeChan(n).cap = n
             /\ MakeChan(n).buf = {} /\ ~MakeChan(n).closed
  BY <1>0 DEF MakeChan, NilChan, ChanType
<1>3. ASSUME NEW c \in ChanType
      PROVE  /\ Closed(c) \in ChanType
             /\ Closed(c).made = c.made /\ Closed(c).cap = c.cap
             /\ Closed(c).buf = c.buf /\ Closed(c).closed
  BY <1>0 DEF Closed, ChanType
<1>4. ASSUME NEW c \in ChanType, NEW t \in Tuples
      PROVE  /\ Put(c, t) \in ChanType
             /\ Put(c, t).made = c.made /\ Put(c, t).cap = c.cap
             /\ Put(c, t).buf = c.buf \cup {t} /\ Put(c, t).closed = c.closed
             /\ Take(c, t) \in ChanType
             /\ Take(c, t).made = c.made /\ Take(c, t).cap = c.cap
             /\ Take(c, t).buf = c.buf \ {t} /\ Take(c, t).closed = c.closed
  BY <1>0 DEF Put, Take, ChanType
<1> QED
  BY <1>1, <1>2, <1>3, <1>4

LEMMA KeysOfFacts ==
  /\ KeysOf({}) = {}
  /\ \A t : KeysOf({t}) = {t[1]}
  /\ \A T, t : KeysOf(T \cup {t}) = KeysOf(T) \cup {t[1]}
  /\ \A T, t : KeysOf(T) \subseteq KeysOf(T \ {t}) \cup {t[1]}
  /\ \A T, t : OneTuple(T) /\ t \in T => KeysOf(T \ {t}) = KeysOf(T) \ {t[1]}
  /\ \A T, U : T \subseteq U => KeysOf(T) \subseteq KeysOf(U)
  /\ \A T : T \subseteq Tuples => KeysOf(T) \subseteq Keys
BY DEF KeysOf, OneTuple, Tuples

LEMMA ShardFacts ==
  /\ Shards \subseteq AllShards /\ Shards \subseteq Nat /\ AllShards \subseteq Nat
  /\ \A k \in Keys : getShard(k) \in Shards
  /\ TypeOK => MapShards \subseteq AllShards
  /\ Default => MapShards = Shards
<1>1. shardCount \in Nat \ {0} /\ MaxShards \in Nat /\ shardCount <= MaxShards
  BY WalksAssumption
<1>2. Shards \subseteq AllShards /\ Shards \subseteq Nat /\ AllShards \subseteq Nat
  BY <1>1 DEF Shards, AllShards
<1>3. ASSUME NEW k \in Keys PROVE getShard(k) \in Shards
  BY <1>1, WalksAssumption DEF getShard, Shards
<1>4. TypeOK => MapShards \subseteq AllShards
  BY <1>1, WalksAssumption DEF TypeOK, MapShards, AllShards
<1> QED
  BY <1>2, <1>3, <1>4 DEF Default, MapShards, Shards

\* Any set of keys is finite, and so is any set of shards.
LEMMA Finite ==
  /\ \A ks \in SUBSET Keys :
       IsFiniteSet(ks) /\ Cardinality(ks) \in 0 .. Cardinality(Keys)
  /\ \A ss \in SUBSET Shards :
       /\ IsFiniteSet(ss) /\ Cardinality(ss) \in 0 .. shardCount
       /\ Cardinality(ss) = shardCount => ss = Shards
<1>1. ASSUME NEW ks \in SUBSET Keys
      PROVE  IsFiniteSet(ks) /\ Cardinality(ks) \in 0 .. Cardinality(Keys)
  <2>1. IsFiniteSet(ks) /\ Cardinality(ks) <= Cardinality(Keys)
    BY WalksAssumption, FS_Subset
  <2> QED
    BY <2>1, WalksAssumption, FS_CardinalityType
<1>2. IsFiniteSet(Shards) /\ Cardinality(Shards) = shardCount
  <2>1. 0 \in Int /\ shardCount - 1 \in Int /\ shardCount \in Nat /\ shardCount > 0
    BY WalksAssumption
  <2>2. /\ IsFiniteSet(0 .. (shardCount - 1))
        /\ Cardinality(0 .. (shardCount - 1)) =
             IF 0 > shardCount - 1 THEN 0 ELSE (shardCount - 1) - 0 + 1
    BY <2>1, FS_Interval, Zenon
  <2> QED
    BY <2>1, <2>2 DEF Shards
<1>3. ASSUME NEW ss \in SUBSET Shards
      PROVE  /\ IsFiniteSet(ss) /\ Cardinality(ss) \in 0 .. shardCount
             /\ Cardinality(ss) = shardCount => ss = Shards
  <2>1. /\ IsFiniteSet(ss) /\ Cardinality(ss) <= Cardinality(Shards)
        /\ Cardinality(Shards) = Cardinality(ss) => Shards = ss
    BY <1>2, FS_Subset
  <2> QED
    BY <1>2, <2>1, FS_CardinalityType
<1> QED
  BY <1>1, <1>3

\* ItemsOf goes by the shard; only a change of one of its keys changes it.
LEMMA ItemsFacts ==
  \A s : ItemsOf(s) \subseteq KeysOfShard(s) /\ ItemsOf(s) \subseteq Present(items)
BY DEF ItemsOf, KeysOfShard, Present

-----------------------------------------------------------------------------
(* Init, the panics and the client                                         *)

LEMMA InitIInv == Init => IInv
<1> SUFFICES ASSUME Init PROVE IInv
  OBVIOUS
<1>1. TypeOK
  <2>1. 0 \in 0 .. MaxChanges /\ 0 \in 0 .. Cardinality(Keys)
    BY WalksAssumption, FS_CardinalityType
  <2> QED
    BY <2>1, ChanFacts DEF Init, TypeOK
<1>2. ControlInv /\ DefaultNeverPanics /\ CountInv /\ CountBounded
  BY ChanFacts DEF Init, ControlInv, DefaultNeverPanics, CountInv, CountBounded, Default, Iterating
<1>3. ShardInv /\ ChanInv /\ FlightInv
  BY ChanFacts DEF Init, ShardInv, ChanInv, FlightInv, Iterating
<1>4. SeenInv
  BY ChanFacts DEF Init, SeenInv, Walking
<1>5. MissedInv
  BY ShardFacts DEF Init, MissedInv
<1> QED
  BY <1>1, <1>2, <1>3, <1>4, <1>5 DEF IInv

\* What a step that only panics, or that changes no more than the client's call of
\* Lock, leaves true.
LEMMA WalkUnchanged ==
  ASSUME IInv, UNCHANGED <<pkg, size, items, readers, walk, history>>,
         change' \in Changes \cup {NoChange}, changes' \in 0 .. MaxChanges,
         panic' \in BOOLEAN, panic' => ~Default
  PROVE  IInv'
<1>1. TypeOK'
  BY DEF IInv, TypeOK, walk
<1>2. ControlInv' /\ ShardInv' /\ CountInv' /\ CountBounded' /\ DefaultNeverPanics'
  BY DEF IInv, ControlInv, ShardInv, CountInv, CountBounded, DefaultNeverPanics, walk, history,
         Default, Iterating, Drained, ItemsOf, Present, MapShards, Counted
<1>3. ChanInv'
  BY DEF IInv, ChanInv, Iterating, total, Places, walk
<1>4. FlightInv' /\ MissedInv'
  BY DEF IInv, FlightInv, MissedInv, Default, Iterating, InFlight, walk, history
<1>5. SeenInv'
  BY DEF IInv, SeenInv, walk, history, Present
<1> QED
  BY <1>1, <1>2, <1>3, <1>4, <1>5 DEF IInv

LEMMA PanicsIInv ==
  ASSUME IInv, Panics, ~Default
  PROVE  IInv'
BY WalkUnchanged DEF IInv, TypeOK, Panics, map

LEMMA ClientLockIInv ==
  ASSUME IInv, ~panic, NEW c \in Changes, ClientLock(c)
  PROVE  IInv'
<1>1. CASE getShard(c[1]) \notin MapShards
  <2>1. c[1] \in Keys
    BY WalksAssumption
  <2>2. ~Default
    BY <1>1, <2>1, ShardFacts
  <2> QED
    BY <1>1, <2>2, PanicsIInv DEF ClientLock
<1>2. CASE getShard(c[1]) \in MapShards
  <2>1. changes \in 0 .. MaxChanges /\ changes < MaxChanges /\ MaxChanges \in Nat
    BY WalksAssumption DEF IInv, TypeOK, ClientLock
  <2>2. change' = c /\ changes' \in 0 .. MaxChanges
    BY <1>2, <2>1 DEF ClientLock
  <2>3. panic' \in BOOLEAN /\ ~panic'
    BY <1>2 DEF ClientLock, IInv, TypeOK
  <2> QED
    BY <1>2, <2>2, <2>3, WalkUnchanged DEF ClientLock
<1> QED
  BY <1>1, <1>2

LEMMA CardinalityGrows ==
  ASSUME NEW A, NEW B \in SUBSET Keys, A \subseteq B
  PROVE  /\ Cardinality(A) \in Nat /\ Cardinality(B) \in Nat
         /\ Cardinality(A) <= Cardinality(B) /\ Cardinality(B) <= Cardinality(Keys)
<1>1. IsFiniteSet(B) /\ Cardinality(B) \in 0 .. Cardinality(Keys)
  BY Finite
<1>2. Cardinality(A) \in 0 .. Cardinality(Keys)
  BY Finite
<1>3. Cardinality(A) <= Cardinality(B)
  BY <1>1, FS_Subset
<1>4. Cardinality(Keys) \in Nat
  BY WalksAssumption, FS_CardinalityType
<1> QED
  BY <1>1, <1>2, <1>3, <1>4

\* The history of a step that looks at the map.
LEMMA SeesFacts ==
  ASSUME Sees, items' \in [Keys -> Values \cup {Absent}], seen \subseteq Tuples,
         stable \subseteq Keys
  PROVE  /\ seen \subseteq seen' /\ seen' \subseteq Tuples
         /\ stable' \subseteq stable /\ stable' \subseteq Keys
         /\ Walking(stage') => /\ \A k \in Present(items') : <<k, items'[k]>> \in seen'
                               /\ stable' \subseteq Present(items')
         /\ ~Walking(stage') => seen' = seen /\ stable' = stable
BY DEF Sees, Present, Tuples

LEMMA ClientChangeIInv ==
  ASSUME IInv, ~panic, ClientChange
  PROVE  IInv'
<1>1. /\ change \in Changes /\ change[1] \in Keys /\ change[2] \in Values \cup {Absent}
      /\ getShard(change[1]) \notin readers
      /\ items' = [items EXCEPT ![change[1]] = change[2]] /\ change' = NoChange
      /\ items \in [Keys -> Values \cup {Absent}]
  BY WalksAssumption DEF IInv, TypeOK, ClientChange
<1>2. UNCHANGED <<pkg, size, readers, changes, walk, panic>>
  BY DEF ClientChange
<1>3. items' \in [Keys -> Values \cup {Absent}]
  BY <1>1
<1>4. /\ seen \subseteq seen' /\ seen' \subseteq Tuples
      /\ stable' \subseteq stable /\ stable' \subseteq Keys
      /\ Walking(stage') => /\ \A k \in Present(items') : <<k, items'[k]>> \in seen'
                            /\ stable' \subseteq Present(items')
      /\ ~Walking(stage') => seen' = seen /\ stable' = stable
  BY <1>3, SeesFacts DEF ClientChange, IInv, SeenInv
<1>5. TypeOK'
  BY <1>1, <1>2, <1>3 DEF IInv, TypeOK, walk
<1>6. ControlInv' /\ DefaultNeverPanics'
  BY <1>2 DEF IInv, ControlInv, DefaultNeverPanics, walk, Default, Iterating, Drained
<1>7. ShardInv'
  <2> SUFFICES ASSUME NEW s \in AllShards PROVE left[s] \subseteq ItemsOf(s)'
    BY <1>2 DEF IInv, ShardInv, walk, Iterating, MapShards
  <2>1. /\ left[s] \subseteq ItemsOf(s)
        /\ left[s] # {} => s \in readers
    BY DEF IInv, ShardInv
  <2> QED
    BY <1>1, <1>3, <2>1 DEF ItemsOf, Present
<1>8. ChanInv'
  BY <1>2 DEF IInv, ChanInv, Iterating, total, Places, walk
<1>9. FlightInv' /\ MissedInv'
  BY <1>2, <1>4 DEF IInv, FlightInv, MissedInv, Default, Iterating, InFlight, walk
<1>10. SeenInv'
  BY <1>2, <1>4 DEF IInv, SeenInv, walk
<1>11. CountInv'
  <2>1. /\ Counted(stable)' \subseteq Counted(stable) /\ Counted(stable) \subseteq Keys
        /\ Counted(KeysOf(seen)) \subseteq Counted(KeysOf(seen))'
        /\ Counted(KeysOf(seen))' \subseteq Keys
    BY <1>2, <1>4, KeysOfFacts DEF Counted, walk, IInv, SeenInv
  <2>2. /\ Cardinality(Counted(stable)') <= Cardinality(Counted(stable))
        /\ Cardinality(Counted(KeysOf(seen))) <= Cardinality(Counted(KeysOf(seen))')
    BY <2>1, CardinalityGrows
  <2>3. /\ Cardinality(Counted(stable)') \in Nat /\ Cardinality(Counted(stable)) \in Nat
        /\ Cardinality(Counted(KeysOf(seen))) \in Nat
        /\ Cardinality(Counted(KeysOf(seen))') \in Nat /\ count \in Nat
    BY <2>1, CardinalityGrows DEF IInv, TypeOK
  <2> QED
    BY <1>2, <2>2, <2>3 DEF IInv, CountInv, walk
<1>12. CountBounded'
  BY <1>2, <1>4 DEF IInv, CountBounded, walk, Walking
<1> QED
  BY <1>5, <1>6, <1>7, <1>8, <1>9, <1>10, <1>11, <1>12 DEF IInv

-----------------------------------------------------------------------------
(* The stages                                                              *)

LEMMA BeginIInv ==
  ASSUME IInv, ~panic, NEW o \in Ops, Begin(o)
  PROVE  IInv'
<1>1. /\ stage = "none" /\ op = "none" /\ op' = o /\ (o = "ForEach" => pkg = "i64map")
      /\ stage' = IF o \in {"Count", "Keys"} THEN "count" ELSE "walk"
      /\ o \in {"Count", "Iter", "Keys", "ForEach"}
      /\ UNCHANGED <<pkg, size, map, pc, left, chans, hand, out, got, count, panic>>
  BY DEF Begin, IInv, ControlInv, Ops
<1>2. /\ out = NilChan /\ ~out.closed /\ out.buf = {} /\ count = 0
      /\ \A s \in Shards : chans[s] = NilChan /\ hand[s] = {} /\ left[s] = {}
      /\ \A s \in AllShards : pc[s] = "todo" /\ left[s] = {}
  BY <1>1, ChanFacts, ShardFacts
     DEF IInv, ControlInv, ChanInv, CountInv, ShardInv, Iterating
<1>3. /\ seen \subseteq seen' /\ seen' \subseteq Tuples
      /\ stable' \subseteq stable /\ stable' \subseteq Keys
      /\ Walking(stage') => /\ \A k \in Present(items') : <<k, items'[k]>> \in seen'
                            /\ stable' \subseteq Present(items')
  BY <1>1, SeesFacts DEF Begin, IInv, SeenInv, TypeOK, map
<1>4. TypeOK'
  BY <1>1 DEF IInv, TypeOK, map
<1>5. ControlInv' /\ DefaultNeverPanics'
  BY <1>1, <1>2 DEF IInv, ControlInv, DefaultNeverPanics, Default, Iterating
<1>6. ShardInv'
  BY <1>1, <1>2 DEF IInv, ShardInv, map, ItemsOf, Present, MapShards
<1>7. ChanInv'
  BY <1>1, <1>2, ChanFacts, ShardFacts DEF IInv, ChanInv, Iterating
<1>8. FlightInv'
  <2> SUFFICES ASSUME Iterating' PROVE FlightInv'
    BY DEF FlightInv
  <2>1. /\ out'.buf = {} /\ OneTuple({}) /\ KeysOf({}) = {}
        /\ \A s \in Shards : /\ chans'[s].buf = {} /\ chans'[s].cap = 0
                            /\ hand'[s] = {} /\ left'[s] = {}
    BY <1>1, <1>2, ChanFacts, KeysOfFacts DEF OneTuple
  <2> SUFFICES ASSUME NEW s \in Shards
               PROVE  /\ Cardinality(InFlight(s)') <= 0
                      /\ 0 <= Cardinality(KeysOfShard(s))
    BY <2>1 DEF FlightInv
  <2>2. InFlight(s)' = {}
    BY <2>1 DEF InFlight
  <2>3. KeysOfShard(s) \subseteq Keys
    BY DEF KeysOfShard
  <2> QED
    BY <2>2, <2>3, FS_EmptySet, CardinalityGrows
<1>9. SeenInv'
  BY <1>1, <1>2, <1>3, ChanFacts DEF IInv, SeenInv, map
<1>10. MissedInv'
  BY <1>1, <1>2, <1>3, ShardFacts DEF MissedInv
<1>11. CountInv'
  <2>1. Counted(stable)' = {} /\ Counted(KeysOf(seen))' = {}
    BY <1>1, <1>2, <1>3, KeysOfFacts, ShardFacts DEF Counted
  <2> QED
    BY <1>1, <1>2, <2>1, FS_EmptySet DEF CountInv
<1>12. CountBounded'
  BY <1>1 DEF CountBounded
<1> QED
  BY <1>4, <1>5, <1>6, <1>7, <1>8, <1>9, <1>10, <1>11, <1>12 DEF IInv

\* The keys of a shard are counted once: those that stay at least, and those that
\* have been seen at most.
LEMMA CountShardAdds ==
  ASSUME IInv, NEW s \in Shards, stage = "count", pc[s] = "todo",
         pc' = [pc EXCEPT ![s] = "done"], count' = count + Cardinality(ItemsOf(s)),
         seen' = seen, stable' = stable
  PROVE  /\ Cardinality(Counted(stable)') <= count'
         /\ count' <= Cardinality(Counted(KeysOf(seen))')
         /\ count' \in 0 .. Cardinality(Keys)
<1> DEFINE I == ItemsOf(s)
           A == Counted(stable)
           B == Counted(KeysOf(seen))
<1>1. /\ pc \in [AllShards -> {"todo", "send", "done"}] /\ s \in AllShards
      /\ stable \subseteq Keys /\ KeysOf(seen) \subseteq Keys
      /\ stable \subseteq Present(items) /\ Present(items) \subseteq KeysOf(seen)
      /\ Cardinality(A) <= count /\ count <= Cardinality(B) /\ count \in Nat
  <2>1. Walking(stage)
    BY DEF Walking
  <2>2. \A k \in Present(items) : <<k, items[k]>> \in seen
    BY <2>1 DEF IInv, SeenInv
  <2>3. Present(items) \subseteq KeysOf(seen)
    <3> SUFFICES ASSUME NEW k \in Present(items) PROVE k \in KeysOf(seen)
      OBVIOUS
    <3>1. <<k, items[k]>> \in seen /\ <<k, items[k]>>[1] = k
      BY <2>2
    <3> QED
      BY <3>1, Zenon DEF KeysOf
  <2> QED
    BY <2>1, <2>3, KeysOfFacts, ShardFacts DEF IInv, TypeOK, SeenInv, CountInv
<1>2. \A k \in Keys : getShard(k) \in AllShards
  BY ShardFacts
<1>3. Counted(stable)' \subseteq A \cup I
  BY <1>1, <1>2 DEF Counted, ItemsOf
<1>4. B \cup I \subseteq Counted(KeysOf(seen))' /\ B \cap I = {}
  BY <1>1, <1>2 DEF Counted, ItemsOf, Present
<1>5. /\ A \subseteq Keys /\ B \subseteq Keys /\ I \subseteq Keys /\ A \cap I \subseteq Keys
      /\ Counted(KeysOf(seen))' \subseteq Keys
  BY <1>1 DEF Counted, ItemsOf, Present
<1>6. /\ Cardinality(A \cup I) = Cardinality(A) + Cardinality(I) - Cardinality(A \cap I)
      /\ Cardinality(B \cup I) = Cardinality(B) + Cardinality(I) - Cardinality(B \cap I)
  BY <1>5, Finite, FS_Union
<1>7. /\ Cardinality(Counted(stable)') <= Cardinality(A \cup I)
      /\ Cardinality(B \cup I) <= Cardinality(Counted(KeysOf(seen))')
      /\ Cardinality(Counted(KeysOf(seen))') <= Cardinality(Keys)
  <2> HIDE DEF A, B, I
  <2>1. A \cup I \subseteq Keys
    BY <1>5
  <2> QED
    BY <1>3, <1>4, <1>5, <2>1, CardinalityGrows
<1>8. /\ Cardinality(A) \in Nat /\ Cardinality(B) \in Nat /\ Cardinality(I) \in Nat
      /\ Cardinality(A \cap I) \in Nat /\ Cardinality(B \cap I) = 0
      /\ Cardinality(Counted(stable)') \in Nat /\ Cardinality(Keys) \in Nat
      /\ Cardinality(Counted(KeysOf(seen))') \in Nat
  <2> HIDE DEF A, B, I
  <2>1. Counted(stable)' \subseteq Keys
    BY <1>3, <1>5
  <2> QED
    BY <1>4, <1>5, <2>1, CardinalityGrows, FS_EmptySet
<1> HIDE DEF A, B, I
<1>9. count' = count + Cardinality(I)
  BY DEF I
<1> QED
  BY <1>1, <1>6, <1>7, <1>8, <1>9

LEMMA CountShardIInv ==
  ASSUME IInv, ~panic, NEW s \in AllShards, CountShard(s)
  PROVE  IInv'
<1>1. CASE s \notin MapShards
  BY <1>1, PanicsIInv, ShardFacts DEF CountShard
<1>2. CASE s \in MapShards
  <2>1. /\ stage = "count" /\ s \in Shards /\ pc[s] = "todo"
        /\ pc' = [pc EXCEPT ![s] = "done"] /\ count' = count + Cardinality(ItemsOf(s))
        /\ UNCHANGED <<pkg, size, map, op, stage, left, chans, hand, out, got, panic, history>>
    BY <1>2 DEF CountShard, Added
  <2>2. op \in {"Count", "Keys"} /\ out = NilChan /\ ~out.closed
    BY <2>1, ChanFacts DEF IInv, ControlInv
  <2>3. /\ Cardinality(Counted(stable)') <= count'
        /\ count' <= Cardinality(Counted(KeysOf(seen))')
        /\ count' \in 0 .. Cardinality(Keys)
    BY <2>1, CountShardAdds DEF history
  <2>4. pc \in [AllShards -> {"todo", "send", "done"}]
    BY DEF IInv, TypeOK
  <2>5. TypeOK'
    BY <2>1, <2>3 DEF IInv, TypeOK, map
  <2>6. ControlInv' /\ DefaultNeverPanics'
    BY <2>1, <2>2 DEF IInv, ControlInv, DefaultNeverPanics, Default, Iterating
  <2>7. ShardInv'
    BY <1>2, <2>1, <2>2, <2>4 DEF IInv, ShardInv, map, ItemsOf, Present, MapShards, Iterating
  <2>8. ChanInv' /\ FlightInv'
    BY <2>1, <2>2 DEF IInv, ChanInv, FlightInv, Iterating
  <2>9. SeenInv'
    BY <2>1 DEF IInv, SeenInv, map, history
  <2>10. MissedInv' /\ CountInv' /\ CountBounded'
    BY <2>1, <2>3 DEF MissedInv, CountInv, CountBounded, history
  <2> QED
    BY <2>5, <2>6, <2>7, <2>8, <2>9, <2>10 DEF IInv
<1> QED
  BY <1>1, <1>2

LEMMA CountEndIInv ==
  ASSUME IInv, ~panic, CountEnd
  PROVE  IInv'
<1>1. /\ stage = "count" /\ (\A s \in Shards : pc[s] = "done")
      /\ UNCHANGED <<pkg, size, map, op, left, chans, hand, got, count, panic, history>>
      /\ op \in {"Count", "Keys"} /\ out = NilChan /\ ~out.closed /\ out.buf = {}
  BY ChanFacts DEF CountEnd, IInv, ControlInv
<1>2. /\ pc \in [AllShards -> {"todo", "send", "done"}] /\ count \in 0 .. Cardinality(Keys)
      /\ \A s \in AllShards : s \notin readers /\ left[s] = {}
      /\ readers \subseteq AllShards
  BY <1>1 DEF IInv, TypeOK, ShardInv
<1>3. CASE op = "Count"
  <2>1. stage' = "over" /\ UNCHANGED <<pc, out>>
    BY <1>3 DEF CountEnd
  <2>2. TypeOK'
    BY <1>1, <2>1 DEF IInv, TypeOK, map
  <2>3. ControlInv' /\ DefaultNeverPanics'
    BY <1>1, <1>3, <2>1 DEF IInv, ControlInv, DefaultNeverPanics, Default, Iterating
  <2>4. ShardInv'
    BY <1>1, <1>2, <1>3, <2>1 DEF IInv, ShardInv, map, ItemsOf, Present, MapShards, Iterating
  <2>5. ChanInv' /\ FlightInv'
    BY <1>1, <1>3, <2>1 DEF IInv, ChanInv, FlightInv, Iterating
  <2>6. SeenInv'
    BY <1>1, <2>1 DEF IInv, SeenInv, map, history, Walking
  <2>7. MissedInv' /\ CountInv'
    BY <1>1, <1>3, <2>1 DEF MissedInv, CountInv
  <2>8. CountBounded'
    <3>1. Counted(stable) = stable /\ Counted(KeysOf(seen)) = KeysOf(seen)
      BY <1>1, KeysOfFacts, ShardFacts DEF Counted, IInv, SeenInv
    <3>2. KeysOf(seen) = {t[1] : t \in seen}
      BY DEF KeysOf
    <3> QED
      BY <1>1, <3>1, <3>2 DEF IInv, CountInv, CountBounded, history
  <2> QED
    BY <2>2, <2>3, <2>4, <2>5, <2>6, <2>7, <2>8 DEF IInv
<1>4. CASE op = "Keys"
  <2>1. stage' = "walk" /\ pc' = [s \in AllShards |-> "todo"] /\ out' = MakeChan(count)
    BY <1>4 DEF CountEnd
  <2>2. out' \in ChanType /\ out'.buf = {} /\ ~out'.closed
    BY <1>2, <2>1, ChanFacts
  <2>3. TypeOK'
    BY <1>1, <2>1, <2>2 DEF IInv, TypeOK, map
  <2>4. ControlInv' /\ DefaultNeverPanics'
    BY <1>1, <1>4, <2>1, <2>2 DEF IInv, ControlInv, DefaultNeverPanics, Default, Iterating
  <2>5. ShardInv'
    BY <1>1, <1>2, <1>4, <2>1 DEF IInv, ShardInv, map, Iterating
  <2>6. ChanInv' /\ FlightInv'
    BY <1>1, <1>4, <2>1 DEF IInv, ChanInv, FlightInv, Iterating
  <2>7. SeenInv'
    BY <1>1, <2>1, <2>2 DEF IInv, SeenInv, map, history, Walking
  <2>8. MissedInv'
    BY <1>1, <2>1, ShardFacts DEF MissedInv, history, IInv, SeenInv
  <2>9. CountInv' /\ CountBounded'
    BY <1>1, <2>1 DEF CountInv, CountBounded
  <2> QED
    BY <2>3, <2>4, <2>5, <2>6, <2>7, <2>8, <2>9 DEF IInv
<1> QED
  BY <1>1, <1>3, <1>4

-----------------------------------------------------------------------------
(* The goroutines of the shards                                            *)

LEMMA TotalSame ==
  ASSUME \A s \in Shards : chans'[s].cap = chans[s].cap
  PROVE  total' = total
<1>1. \A s \in Shards : {s} \X (1 .. chans'[s].cap) = {s} \X (1 .. chans[s].cap)
  OBVIOUS
<1>2. Places' = Places
  BY <1>1, Zenon DEF Places
<1> QED
  BY <1>2 DEF total

LEMMA RLockIInv ==
  ASSUME IInv, ~panic, NEW s \in AllShards, RLock(s)
  PROVE  IInv'
<1>1. CASE Iterating /\ s \notin Shards
  BY <1>1, PanicsIInv, ShardFacts DEF RLock, Iterating
<1>2. CASE ~(Iterating /\ s \notin Shards)
  <2>1. /\ op \in {"Iter", "Keys", "ForEach"} /\ stage \in {"walk", "drain", "over"}
        /\ s \in MapShards /\ pc[s] = "todo"
        /\ readers' = readers \cup {s}
        /\ left' = [left EXCEPT ![s] = ItemsOf(s)]
        /\ pc' = [pc EXCEPT ![s] = "send"]
        /\ UNCHANGED <<pkg, size, items, change, changes, op, stage, hand, out, got,
                       count, panic, history>>
    BY <1>2 DEF RLock, Iterating, IInv, TypeOK, ControlInv, Ops
  <2>2. chans' = IF Iterating THEN [chans EXCEPT ![s] = MakeChan(Cardinality(ItemsOf(s)))]
                              ELSE chans
    BY <1>2 DEF RLock, Iterating
  <2>3. /\ pc \in [AllShards -> {"todo", "send", "done"}]
        /\ left \in [AllShards -> SUBSET Keys] /\ chans \in [Shards -> ChanType]
        /\ readers \subseteq AllShards /\ ItemsOf(s) \subseteq KeysOfShard(s)
        /\ ItemsOf(s) \subseteq Keys /\ KeysOfShard(s) \subseteq Keys /\ left[s] = {}
    BY <2>1, ItemsFacts DEF IInv, TypeOK, ShardInv, KeysOfShard
  <2>4. /\ Cardinality(ItemsOf(s)) \in 0 .. Cardinality(Keys)
        /\ Cardinality(ItemsOf(s)) <= Cardinality(KeysOfShard(s))
    BY <2>3, Finite, CardinalityGrows
  <2>5. Iterating => stage = "walk" /\ out = NilChan
    BY <1>2, <2>1 DEF IInv, ChanInv, ControlInv, Iterating
  <2>6. Default => stage \in {"walk", "drain"} /\ ~out.closed
    BY <1>2, <2>1, <2>5, ShardFacts, ChanFacts DEF IInv, ControlInv, Iterating
  <2>7. \A u \in AllShards : u # s => pc'[u] = pc[u] /\ left'[u] = left[u]
    BY <2>1, <2>3
  <2>8. pc'[s] = "send" /\ left'[s] = ItemsOf(s)
    BY <2>1, <2>3
  <2>9. Iterating => /\ chans'[s] \in ChanType /\ chans'[s].made /\ ~chans'[s].closed
                     /\ chans'[s].buf = {} /\ chans'[s].cap = Cardinality(ItemsOf(s))
    BY <1>2, <2>2, <2>3, <2>4, ChanFacts
  <2>10. \A u \in Shards : ~Iterating \/ u # s => chans'[u] = chans[u]
    BY <2>2, <2>3
  <2>11. TypeOK'
    <3>1. chans' \in [Shards -> ChanType]
      BY <1>2, <2>2, <2>3, <2>4, ChanFacts
    <3> QED
      BY <2>1, <2>3, <3>1 DEF IInv, TypeOK
  <2>12. ControlInv'
    <3>1. stage = "over" /\ op = "ForEach" => FALSE
      BY <2>6 DEF IInv, ControlInv
    <3>2. out.closed /\ Iterating => FALSE
      BY <2>5, ChanFacts
    <3> QED
      BY <2>1, <2>6, <3>1, <3>2 DEF IInv, ControlInv, Default, Iterating
  <2>13. DefaultNeverPanics' /\ CountInv' /\ CountBounded'
    BY <2>1 DEF IInv, DefaultNeverPanics, CountInv, CountBounded, Default, history
  <2>14. ShardInv'
    BY <1>2, <2>1, <2>3, <2>7, <2>8
       DEF IInv, ShardInv, Iterating, ItemsOf, Present, MapShards
  <2>15. ChanInv'
    BY <2>1, <2>3, <2>5, <2>7, <2>8, <2>9, <2>10, ShardFacts DEF IInv, ChanInv, Iterating
  <2>16. FlightInv'
    <3> SUFFICES ASSUME Iterating, NEW u \in Shards
                 PROVE  /\ OneTuple(chans'[u].buf) /\ \A t, v \in hand[u] : t = v
                        /\ KeysOf(chans'[u].buf) \cup KeysOf(hand[u]) \subseteq KeysOfShard(u)
                        /\ left'[u] \cap (KeysOf(chans'[u].buf) \cup KeysOf(hand[u])
                                           \cup KeysOf(out.buf)) = {}
                        /\ KeysOf(chans'[u].buf) \cap (KeysOf(hand[u]) \cup KeysOf(out.buf)) = {}
                        /\ KeysOf(hand[u]) \cap KeysOf(out.buf) = {}
                        /\ Cardinality(InFlight(u)') <= chans'[u].cap
                        /\ chans'[u].cap <= Cardinality(KeysOfShard(u))
      BY <2>1 DEF FlightInv, Iterating, IInv
    <3>1. CASE u # s
      <4>1. InFlight(u)' = InFlight(u)
        BY <2>1, <2>7, <2>10, <3>1, ShardFacts DEF InFlight
      <4> QED
        BY <2>1, <2>7, <2>10, <3>1, <4>1, ShardFacts DEF IInv, FlightInv
    <3>2. CASE u = s
      <4>1. hand[s] = {} /\ out.buf = {} /\ KeysOf({}) = {} /\ OneTuple({})
        BY <2>5, <3>2, ChanFacts, KeysOfFacts DEF IInv, ChanInv, OneTuple
      <4>2. InFlight(s)' = ItemsOf(s)
        BY <2>1, <2>8, <2>9, <4>1 DEF InFlight
      <4> QED
        BY <2>4, <2>8, <2>9, <3>2, <4>1, <4>2
    <3> QED
      BY <3>1, <3>2
  <2>17. SeenInv'
    BY <2>1, <2>9, <2>10 DEF IInv, SeenInv, history, Present
  <2>18. MissedInv'
    <3> SUFFICES ASSUME Default, NEW k \in stable, pc'[getShard(k)] # "todo"
                 PROVE  k \in InFlight(getShard(k))' \cup KeysOf(got)
      BY <2>1 DEF MissedInv, Default, history
    <3>1. k \in Keys /\ getShard(k) \in Shards /\ getShard(k) \in AllShards
      BY ShardFacts DEF IInv, SeenInv
    <3>2. CASE getShard(k) = s
      <4>1. k \in ItemsOf(s)
        BY <2>6, <3>1, <3>2 DEF IInv, SeenInv, Walking, ItemsOf
      <4> QED
        BY <2>8, <3>2, <4>1 DEF InFlight
    <3>3. CASE getShard(k) # s
      <4>1. InFlight(getShard(k))' = InFlight(getShard(k))
        BY <2>1, <2>7, <2>10, <3>1, <3>3 DEF InFlight
      <4> QED
        BY <2>1, <2>7, <3>1, <3>3, <4>1 DEF IInv, MissedInv
    <3> QED
      BY <3>2, <3>3
  <2> QED
    BY <2>11, <2>12, <2>13, <2>14, <2>15, <2>16, <2>17, <2>18 DEF IInv
<1> QED
  BY <1>1, <1>2

\* What Send starts from: the key is still in its shard, which is locked.
LEMMA SendFacts ==
  ASSUME IInv, NEW s \in AllShards, NEW k \in Keys, pc[s] = "send", k \in left[s]
  PROVE  /\ getShard(k) = s /\ s \in Shards /\ s \in MapShards
         /\ <<k, items[k]>> \in Tuples
         /\ stage \in {"walk", "drain", "over"} /\ op \in {"Iter", "Keys", "ForEach"}
         /\ Walking(stage) => <<k, items[k]>> \in seen
         /\ Iterating => ~out.closed
         /\ op = "ForEach" \/ ~out.closed => Walking(stage)
         /\ Default => ~out.closed
<1>1. k \in ItemsOf(s) /\ s \in MapShards /\ stage \notin {"none", "count"} /\ op # "Count"
  BY DEF IInv, ShardInv
<1>2. getShard(k) = s /\ k \in Present(items) /\ items[k] \in Values
  BY <1>1 DEF IInv, TypeOK, ItemsOf, Present
<1>3. s \in Shards
  BY <1>2, ShardFacts
<1>4. Iterating => ~out.closed
  BY <1>3 DEF IInv, ControlInv, ChanInv, Drained
<1>5. stage \in {"walk", "drain", "over"} /\ op \in {"Iter", "Keys", "ForEach"}
  BY <1>1 DEF IInv, TypeOK, ControlInv, Ops
<1>6. op = "ForEach" \/ ~out.closed => Walking(stage)
  BY <1>3, <1>5 DEF IInv, ControlInv, Walking
<1>7. Default => ~out.closed
  BY <1>3, <1>4, <1>5, ChanFacts DEF IInv, ControlInv, Iterating
<1> QED
  BY <1>1, <1>2, <1>3, <1>4, <1>5, <1>6, <1>7 DEF IInv, SeenInv, Tuples

LEMMA SendIInv ==
  ASSUME IInv, ~panic, NEW s \in AllShards, NEW k \in Keys, Send(s, k)
  PROVE  IInv'
<1> DEFINE t == <<k, items[k]>>
<1>1. /\ pc[s] = "send" /\ k \in left[s] /\ left' = [left EXCEPT ![s] = @ \ {k}]
      /\ UNCHANGED <<pkg, size, map, op, stage, pc, hand, count, history>>
  BY DEF Send
<1>2. /\ getShard(k) = s /\ s \in Shards /\ s \in MapShards /\ t \in Tuples
      /\ stage \in {"walk", "drain", "over"} /\ op \in {"Iter", "Keys", "ForEach"}
      /\ Walking(stage) => t \in seen
      /\ Iterating => ~out.closed
      /\ op = "ForEach" \/ ~out.closed => Walking(stage)
      /\ Default => ~out.closed
  BY <1>1, SendFacts
<1>3. /\ left \in [AllShards -> SUBSET Keys] /\ left' \in [AllShards -> SUBSET Keys]
      /\ left'[s] = left[s] \ {k} /\ \A u \in AllShards : u # s => left'[u] = left[u]
  BY <1>1 DEF IInv, TypeOK
<1>4. chans \in [Shards -> ChanType] /\ out \in ChanType /\ t[1] = k
  BY DEF IInv, TypeOK
<1>5. ShardInv'
  BY <1>1, <1>3 DEF IInv, ShardInv, map, ItemsOf, Present, MapShards, Iterating
<1>6. CountInv' /\ CountBounded'
  BY <1>1, <1>2 DEF IInv, CountInv, CountBounded, history
<1> HIDE DEF t
<1>7. CASE Iterating /\ chans' = [chans EXCEPT ![s] = Put(@, t)] /\ UNCHANGED <<out, got, panic>>
  <2>1. /\ chans' \in [Shards -> ChanType] /\ chans'[s].buf = chans[s].buf \cup {t}
        /\ chans'[s].made = chans[s].made /\ chans'[s].closed = chans[s].closed
        /\ \A u \in Shards : chans'[u].cap = chans[u].cap
        /\ \A u \in Shards : u # s => chans'[u] = chans[u]
    BY <1>2, <1>4, <1>7, ChanFacts
  <2>2. TypeOK'
    BY <1>1, <1>3, <1>7, <2>1 DEF IInv, TypeOK, map
  <2>3. ControlInv' /\ DefaultNeverPanics'
    BY <1>1, <1>2, <1>7 DEF IInv, ControlInv, DefaultNeverPanics, Default, Iterating
  <2>4. ChanInv'
    <3>1. total' = total
      BY <2>1, TotalSame
    <3>2. chans[s].made
      BY <1>1, <1>2, <1>7 DEF IInv, ChanInv
    <3> QED
      BY <1>1, <1>7, <2>1, <3>1, <3>2 DEF IInv, ChanInv, Iterating
  <2>5. /\ KeysOf(chans'[s].buf) = KeysOf(chans[s].buf) \cup {k}
        /\ \A u \in Shards : u # s => KeysOf(chans'[u].buf) = KeysOf(chans[u].buf)
    BY <1>4, <2>1, KeysOfFacts
  <2>6. \A u \in Shards : InFlight(u)' = InFlight(u)
    BY <1>1, <1>3, <1>7, <2>5, ShardFacts DEF InFlight
  <2>7. FlightInv'
    <3>1. OneTuple(chans'[s].buf)
      <4>1. OneTuple(chans[s].buf) /\ k \notin KeysOf(chans[s].buf)
        BY <1>1, <1>2, <1>7 DEF IInv, FlightInv
      <4> QED
        BY <1>4, <2>1, <4>1 DEF OneTuple, KeysOf
    <3> SUFFICES ASSUME NEW u \in Shards
                 PROVE  /\ OneTuple(chans'[u].buf)
                        /\ KeysOf(chans'[u].buf) \subseteq KeysOfShard(u)
                        /\ left'[u] \cap (KeysOf(chans'[u].buf) \cup KeysOf(hand[u])
                                           \cup KeysOf(out.buf)) = {}
                        /\ KeysOf(chans'[u].buf) \cap (KeysOf(hand[u]) \cup KeysOf(out.buf)) = {}
      BY <1>1, <1>7, <2>1, <2>6 DEF IInv, FlightInv, Iterating
    <3>2. k \in KeysOfShard(s)
      BY <1>2 DEF KeysOfShard
    <3>3. CASE u = s
      BY <1>1, <1>3, <1>7, <2>5, <3>1, <3>2, <3>3 DEF IInv, FlightInv
    <3>4. CASE u # s
      BY <1>3, <1>7, <2>1, <2>5, <3>4, ShardFacts DEF IInv, FlightInv
    <3> QED
      BY <3>3, <3>4
  <2>8. SeenInv'
    BY <1>1, <1>2, <1>7, <2>1 DEF IInv, SeenInv, history, map, Present
  <2>9. MissedInv'
    BY <1>1, <1>7, <2>6, ShardFacts DEF IInv, MissedInv, Default, history, SeenInv
  <2> QED
    BY <1>5, <1>6, <2>2, <2>3, <2>4, <2>7, <2>8, <2>9 DEF IInv
<1>8. CASE /\ op = "ForEach" \/ (op = "Keys" /\ ~out.closed)
           /\ got' = got \cup {t} /\ UNCHANGED <<chans, out, panic>>
  <2>1. TypeOK'
    BY <1>1, <1>2, <1>3, <1>8 DEF IInv, TypeOK, map
  <2>2. ControlInv' /\ DefaultNeverPanics'
    BY <1>1, <1>8 DEF IInv, ControlInv, DefaultNeverPanics, Default, Iterating
  <2>3. ChanInv' /\ FlightInv'
    BY <1>1, <1>8 DEF IInv, ChanInv, FlightInv, Iterating
  <2>4. SeenInv'
    BY <1>1, <1>2, <1>8 DEF IInv, SeenInv, history, map, Present
  <2>5. MissedInv'
    <3>1. KeysOf(got') = KeysOf(got) \cup {k}
      BY <1>4, <1>8, KeysOfFacts
    <3>2. \A u \in Shards : InFlight(u) \subseteq InFlight(u)' \cup {k}
      BY <1>1, <1>3, <1>8, ShardFacts DEF InFlight
    <3> QED
      BY <1>1, <3>1, <3>2, ShardFacts DEF IInv, MissedInv, Default, history, SeenInv
  <2> QED
    BY <1>5, <1>6, <2>1, <2>2, <2>3, <2>4, <2>5 DEF IInv
<1>9. CASE op = "Keys" /\ ~out.closed /\ out' = Put(out, t) /\ UNCHANGED <<chans, got, panic>>
  <2>1. out' \in ChanType /\ out'.buf = out.buf \cup {t} /\ ~out'.closed
    BY <1>2, <1>4, <1>9, ChanFacts
  <2>2. TypeOK'
    BY <1>1, <1>3, <1>9, <2>1 DEF IInv, TypeOK, map
  <2>3. ControlInv' /\ DefaultNeverPanics'
    BY <1>1, <1>2, <1>9, <2>1 DEF IInv, ControlInv, DefaultNeverPanics, Default, Iterating, Walking
  <2>4. ChanInv' /\ FlightInv'
    BY <1>1, <1>9 DEF IInv, ChanInv, FlightInv, Iterating
  <2>5. SeenInv'
    BY <1>1, <1>2, <1>9, <2>1 DEF IInv, SeenInv, history, map, Present
  <2>6. MissedInv'
    <3>1. KeysOf(out'.buf) = KeysOf(out.buf) \cup {k}
      BY <1>4, <2>1, KeysOfFacts
    <3>2. \A u \in Shards : InFlight(u) \subseteq InFlight(u)'
      BY <1>1, <1>2, <1>3, <1>9, <3>1, ShardFacts DEF InFlight
    <3> QED
      BY <1>1, <1>9, <3>2, ShardFacts DEF IInv, MissedInv, Default, history, SeenInv
  <2> QED
    BY <1>5, <1>6, <2>2, <2>3, <2>4, <2>5, <2>6 DEF IInv
<1>10. CASE op = "Keys" /\ out.closed /\ panic' = TRUE /\ UNCHANGED <<chans, out, got>>
  <2>1. ~Default
    BY <1>2, <1>10
  <2>2. TypeOK'
    BY <1>1, <1>3, <1>10 DEF IInv, TypeOK, map
  <2>3. ControlInv' /\ DefaultNeverPanics'
    BY <1>1, <1>10, <2>1 DEF IInv, ControlInv, DefaultNeverPanics, Default, Iterating
  <2>4. ChanInv' /\ FlightInv'
    BY <1>1, <1>10 DEF IInv, ChanInv, FlightInv, Iterating
  <2>5. SeenInv'
    BY <1>1, <1>10 DEF IInv, SeenInv, history, map, Present
  <2>6. MissedInv'
    BY <1>1, <2>1 DEF MissedInv, Default
  <2> QED
    BY <1>5, <1>6, <2>2, <2>3, <2>4, <2>5, <2>6 DEF IInv
<1> QED
  BY <1>7, <1>8, <1>9, <1>10 DEF Send, Iterating, t

LEMMA RUnlockIInv ==
  ASSUME IInv, ~panic, NEW s \in AllShards, RUnlock(s)
  PROVE  IInv'
<1>1. /\ pc[s] = "send" /\ left[s] = {} /\ readers' = readers \ {s}
      /\ pc' = [pc EXCEPT ![s] = "done"]
      /\ chans' = IF Iterating THEN [chans EXCEPT ![s] = Closed(@)] ELSE chans
      /\ panic' = (op # "Iter" /\ Cardinality(Finished) = shardCount)
      /\ UNCHANGED <<pkg, size, items, change, changes, op, stage, left, hand, out, got,
                     count, history>>
  BY DEF RUnlock, Released, wgAdd, Iterating
<1>2. /\ pc \in [AllShards -> {"todo", "send", "done"}] /\ chans \in [Shards -> ChanType]
      /\ s \in MapShards /\ (Iterating => s \in Shards)
      /\ stage \notin {"none", "count"} /\ op # "Count"
  BY <1>1 DEF IInv, TypeOK, ShardInv
<1>3. pc'[s] = "done" /\ \A u \in AllShards : u # s => pc'[u] = pc[u]
  BY <1>1, <1>2
<1>4. /\ \A u \in Shards : /\ chans'[u].made = chans[u].made /\ chans'[u].buf = chans[u].buf
                           /\ chans'[u].cap = chans[u].cap
      /\ \A u \in Shards : u # s \/ ~Iterating => chans'[u] = chans[u]
      /\ Iterating => chans'[s].closed
      /\ chans' \in [Shards -> ChanType]
  BY <1>1, <1>2, ChanFacts
<1>5. \A u \in Shards : InFlight(u)' = InFlight(u)
  BY <1>1, <1>4 DEF InFlight
<1>6. TypeOK'
  BY <1>1, <1>4 DEF IInv, TypeOK
<1>7. ControlInv'
  <2>1. out.closed /\ Iterating => FALSE
    BY <1>1, <1>2 DEF IInv, ControlInv, ChanInv, Drained
  <2> QED
    BY <1>1, <1>3, <2>1, ShardFacts DEF IInv, ControlInv, Default, Iterating
<1>8. DefaultNeverPanics'
  <2> SUFFICES ASSUME Default, Cardinality(Finished) = shardCount PROVE FALSE
    BY <1>1 DEF DefaultNeverPanics, Default
  <2>1. Finished \subseteq Shards /\ s \notin Finished /\ s \in Shards
    BY <1>1, <1>2, ShardFacts DEF Finished
  <2> QED
    BY <2>1, Finite
<1>9. ShardInv'
  BY <1>1, <1>2, <1>3 DEF IInv, ShardInv, Iterating, ItemsOf, Present, MapShards
<1>10. ChanInv'
  <2>1. total' = total
    BY <1>4, TotalSame
  <2>2. Iterating => chans[s].made
    BY <1>1, <1>2 DEF IInv, ChanInv
  <2> QED
    BY <1>1, <1>2, <1>3, <1>4, <2>1, <2>2, ShardFacts DEF IInv, ChanInv, Iterating
<1>11. FlightInv' /\ MissedInv'
  <2>1. FlightInv'
    BY <1>1, <1>4, <1>5 DEF IInv, FlightInv, Iterating
  <2>2. MissedInv'
    BY <1>1, <1>2, <1>3, <1>5, ShardFacts DEF IInv, MissedInv, Default, history, SeenInv
  <2> QED
    BY <2>1, <2>2
<1>12. SeenInv' /\ CountInv' /\ CountBounded'
  BY <1>1, <1>2, <1>4 DEF IInv, SeenInv, CountInv, CountBounded, history, Present
<1> QED
  BY <1>6, <1>7, <1>8, <1>9, <1>10, <1>11, <1>12 DEF IInv

-----------------------------------------------------------------------------
(* The room in the channel of Iter                                         *)

\* The places that the channels have are no more than the keys: each is the place
\* of one key of its shard.
LEMMA TotalBound ==
  ASSUME IInv, Iterating
  PROVE  IsFiniteSet(Places) /\ total \in 0 .. Cardinality(Keys)
<1> DEFINE Most(s) == Cardinality(KeysOfShard(s))
           G == [s \in Shards |-> CHOOSE g : g \in Bijection(1 .. Most(s), KeysOfShard(s))]
           f == [p \in Places |-> G[p[1]][p[2]]]
<1>1. ASSUME NEW s \in Shards
      PROVE  /\ G[s] \in [1 .. Most(s) -> KeysOfShard(s)]
             /\ \A i, j \in 1 .. Most(s) : G[s][i] = G[s][j] => i = j
             /\ Most(s) \in Nat
             /\ chans[s].cap \in Nat /\ chans[s].cap <= Most(s)
  <2>1. IsFiniteSet(KeysOfShard(s))
    BY Finite DEF KeysOfShard
  <2>2. Most(s) \in Nat /\ \E g : g \in Bijection(1 .. Most(s), KeysOfShard(s))
    BY <2>1, FS_CardinalityType DEF ExistsBijection
  <2>3. G[s] \in Bijection(1 .. Most(s), KeysOfShard(s))
    BY <2>2
  <2>4. chans[s].cap \in Nat /\ chans[s].cap <= Most(s)
    <3>1. chans[s] \in ChanType
      BY DEF IInv, TypeOK
    <3>2. chans[s].cap \in Nat
      BY <3>1, WalksAssumption, FS_CardinalityType DEF ChanType
    <3> QED
      BY <3>2 DEF IInv, FlightInv
  <2> QED
    BY <2>2, <2>3, <2>4 DEF Bijection, Injection, IsInjective
<1>2. \A p : p \in Places => p = <<p[1], p[2]>> /\ p[1] \in Shards /\ p[2] \in 1 .. chans[p[1]].cap
  BY DEF Places
<1>3. \A p \in Places : p[2] \in 1 .. Most(p[1]) /\ G[p[1]][p[2]] \in KeysOfShard(p[1])
  <2> SUFFICES ASSUME NEW p \in Places
               PROVE  p[2] \in 1 .. Most(p[1]) /\ G[p[1]][p[2]] \in KeysOfShard(p[1])
    OBVIOUS
  <2> HIDE DEF G, Most
  <2> QED
    BY <1>1, <1>2
<1>4. f \in [Places -> Keys]
  <2> HIDE DEF G
  <2> QED
    BY <1>3 DEF KeysOfShard
<1>5. ASSUME NEW p \in Places, NEW q \in Places, f[p] = f[q] PROVE p = q
  <2>1. G[p[1]][p[2]] = G[q[1]][q[2]]
    BY <1>5
  <2> HIDE DEF G, Most
  <2>2. p[1] = q[1]
    BY <1>3, <2>1 DEF KeysOfShard
  <2>3. p[2] = q[2]
    BY <1>1, <1>2, <1>3, <2>1, <2>2
  <2> QED
    BY <1>2, <2>2, <2>3
<1>6. f \in Injection(Places, Keys)
  <2> HIDE DEF f
  <2> QED
    BY <1>4, <1>5 DEF Injection, IsInjective
<1>7. IsFiniteSet(Places) /\ Cardinality(Places) <= Cardinality(Keys)
  <2> HIDE DEF f
  <2> QED
    BY <1>6, WalksAssumption, FS_Injection
<1> QED
  BY <1>7, WalksAssumption, FS_CardinalityType DEF total

InFlightKeys == UNION {InFlight(s) : s \in Shards}

LEMMA InFlightFacts ==
  ASSUME IInv, Iterating, NEW s \in Shards
  PROVE  InFlight(s) \subseteq KeysOfShard(s) /\ InFlight(s) \subseteq Keys
<1>1. /\ left[s] \subseteq KeysOfShard(s)
      /\ KeysOf(chans[s].buf) \cup KeysOf(hand[s]) \subseteq KeysOfShard(s)
  BY ShardFacts, ItemsFacts DEF IInv, ShardInv, FlightInv
<1>2. KeysOf(out.buf) \subseteq Keys
  BY KeysOfFacts DEF IInv, SeenInv
<1> QED
  BY <1>1, <1>2 DEF InFlight, KeysOfShard

\* What is on its way to the caller has its own places in the channel of Iter.
LEMMA RoomForAll ==
  ASSUME IInv, Iterating
  PROVE  /\ IsFiniteSet(InFlightKeys) /\ Cardinality(InFlightKeys) <= total
         /\ Cardinality(InFlightKeys) \in Nat /\ total \in Nat
<1> DEFINE n(s) == Cardinality(InFlight(s))
           H == [s \in Shards |-> CHOOSE h : h \in Bijection(1 .. n(s), InFlight(s))]
           place == [k \in InFlightKeys |->
                       CHOOSE i \in 1 .. n(getShard(k)) : H[getShard(k)][i] = k]
           f == [k \in InFlightKeys |-> <<getShard(k), place[k]>>]
<1>1. ASSUME NEW s \in Shards
      PROVE  /\ n(s) \in Nat /\ chans[s].cap \in Nat /\ n(s) <= chans[s].cap
             /\ \A k \in InFlight(s) : \E i \in 1 .. n(s) : H[s][i] = k
  <2>1. IsFiniteSet(InFlight(s))
    BY Finite, InFlightFacts
  <2>2. n(s) \in Nat /\ \E h : h \in Bijection(1 .. n(s), InFlight(s))
    BY <2>1, FS_CardinalityType DEF ExistsBijection
  <2>3. H[s] \in Bijection(1 .. n(s), InFlight(s))
    BY <2>2
  <2>4. chans[s].cap \in Nat
    <3>1. chans[s] \in ChanType
      BY DEF IInv, TypeOK
    <3> QED
      BY <3>1, WalksAssumption, FS_CardinalityType DEF ChanType
  <2>5. n(s) <= chans[s].cap
    BY DEF IInv, FlightInv
  <2>6. ASSUME NEW k \in InFlight(s) PROVE \E i \in 1 .. n(s) : H[s][i] = k
    <3> HIDE DEF H, n
    <3> QED
      BY <2>3 DEF Bijection, Surjection
  <2> QED
    BY <2>2, <2>4, <2>5, <2>6
<1>2. ASSUME NEW k \in InFlightKeys
      PROVE  getShard(k) \in Shards /\ k \in InFlight(getShard(k)) /\ k \in Keys
  BY InFlightFacts DEF InFlightKeys, KeysOfShard
<1>3. ASSUME NEW k \in InFlightKeys
      PROVE  place[k] \in 1 .. n(getShard(k)) /\ H[getShard(k)][place[k]] = k
  <2>1. \E i \in 1 .. n(getShard(k)) : H[getShard(k)][i] = k
    BY <1>1, <1>2
  <2> HIDE DEF H, n
  <2> QED
    BY <2>1
<1>4. f \in [InFlightKeys -> Places]
  <2> SUFFICES ASSUME NEW k \in InFlightKeys PROVE <<getShard(k), place[k]>> \in Places
    OBVIOUS
  <2>1. place[k] \in 1 .. chans[getShard(k)].cap
    <3> HIDE DEF place, H, n
    <3>1. getShard(k) \in Shards /\ place[k] \in 1 .. n(getShard(k))
      BY <1>2, <1>3
    <3>2. /\ n(getShard(k)) \in Nat /\ chans[getShard(k)].cap \in Nat
          /\ n(getShard(k)) <= chans[getShard(k)].cap
      BY <1>1, <3>1
    <3> QED
      BY <3>1, <3>2
  <2> HIDE DEF place
  <2>2. <<getShard(k), place[k]>> \in {getShard(k)} \X (1 .. chans[getShard(k)].cap)
    BY <2>1
  <2> QED
    BY <1>2, <2>2, Zenon DEF Places
<1>5. ASSUME NEW k \in InFlightKeys, NEW l \in InFlightKeys, f[k] = f[l] PROVE k = l
  <2>1. getShard(k) = getShard(l) /\ place[k] = place[l]
    <3> HIDE DEF place
    <3> QED
      BY <1>5
  <2> HIDE DEF place, H, n
  <2> QED
    BY <1>3, <2>1
<1>6. f \in Injection(InFlightKeys, Places)
  <2> HIDE DEF f
  <2> QED
    BY <1>4, <1>5 DEF Injection, IsInjective
<1>7. IsFiniteSet(Places) /\ total \in Nat
  BY TotalBound
<1>8. IsFiniteSet(InFlightKeys) /\ Cardinality(InFlightKeys) <= Cardinality(Places)
  <2> HIDE DEF f
  <2> QED
    BY <1>6, <1>7, FS_Injection
<1> QED
  BY <1>7, <1>8, FS_CardinalityType DEF total

-----------------------------------------------------------------------------
(* Waiting, and the reader                                                 *)

LEMMA IterIInv ==
  ASSUME IInv, ~panic, Iter
  PROVE  IInv'
<1>1. /\ stage = "walk" /\ Iterating /\ snapshotEnds
      /\ out' = MakeChan(total) /\ stage' = "drain"
      /\ UNCHANGED <<pkg, size, map, op, pc, left, chans, hand, got, count, panic, history>>
  BY DEF Iter, Iterating
<1>2. \A s \in Shards : pc[s] # "todo"
  <2>1. CASE pkg = "i64map"
    BY <1>1, <2>1, ShardFacts DEF snapshotEnds, Finished, IInv, ControlInv
  <2>2. CASE pkg # "i64map"
    <3>1. {s \in Shards : chans[s].made} = Shards
      BY <1>1, <2>2, Finite DEF snapshotEnds, wgAdd
    <3> QED
      BY <1>1, <3>1 DEF IInv, ChanInv
  <2> QED
    BY <2>1, <2>2
<1>3. /\ out' \in ChanType /\ out'.buf = {} /\ out'.cap = total /\ ~out'.closed
      /\ out = NilChan /\ out.buf = {}
  BY <1>1, TotalBound, ChanFacts DEF IInv, ControlInv, Iterating
<1>4. TypeOK'
  BY <1>1, <1>3 DEF IInv, TypeOK, map
<1>5. ControlInv' /\ DefaultNeverPanics'
  BY <1>1, <1>3 DEF IInv, ControlInv, DefaultNeverPanics, Default, Iterating
<1>6. ShardInv'
  BY <1>1 DEF IInv, ShardInv, map, ItemsOf, Present, MapShards, Iterating
<1>7. ChanInv'
  <2>1. total' = total
    BY <1>1, TotalSame
  <2> QED
    BY <1>1, <1>2, <1>3, <2>1 DEF IInv, ChanInv, Iterating
<1>8. \A s \in Shards : InFlight(s)' = InFlight(s)
  BY <1>1, <1>3 DEF InFlight
<1>9. FlightInv'
  BY <1>1, <1>3, <1>8 DEF IInv, FlightInv, Iterating
<1>10. MissedInv'
  BY <1>1, <1>8, ShardFacts DEF IInv, MissedInv, Default, history, SeenInv
<1>11. SeenInv'
  BY <1>1, <1>3 DEF IInv, SeenInv, map, history, Walking
<1>12. CountInv' /\ CountBounded'
  BY <1>1 DEF CountInv, CountBounded
<1> QED
  BY <1>4, <1>5, <1>6, <1>7, <1>9, <1>10, <1>11, <1>12 DEF IInv

LEMMA FanInTakeIInv ==
  ASSUME IInv, ~panic, NEW s \in Shards, FanInTake(s)
  PROVE  IInv'
<1>1. PICK t \in chans[s].buf : /\ hand' = [hand EXCEPT ![s] = {t}]
                               /\ chans' = [chans EXCEPT ![s] = Take(@, t)]
  BY DEF FanInTake
<1>2. /\ stage = "drain" /\ hand[s] = {} /\ Iterating
      /\ UNCHANGED <<pkg, size, map, op, stage, pc, left, out, got, count, panic, history>>
  BY DEF FanInTake, IInv, ControlInv
<1>3. /\ chans \in [Shards -> ChanType] /\ hand \in [Shards -> SUBSET Tuples]
      /\ t \in Tuples /\ chans[s] \in ChanType
  BY DEF IInv, TypeOK, ChanType
<1>4. /\ chans' \in [Shards -> ChanType] /\ chans'[s].buf = chans[s].buf \ {t}
      /\ \A u \in Shards : /\ chans'[u].made = chans[u].made /\ chans'[u].cap = chans[u].cap
                           /\ chans'[u].closed = chans[u].closed
      /\ \A u \in Shards : u # s => chans'[u] = chans[u] /\ hand'[u] = hand[u]
      /\ hand' \in [Shards -> SUBSET Tuples] /\ hand'[s] = {t}
  BY <1>1, <1>3, ChanFacts
<1>5. TypeOK'
  BY <1>2, <1>4 DEF IInv, TypeOK, map
<1>6. ControlInv' /\ DefaultNeverPanics'
  <2>1. ~out.closed
    BY <1>1, <1>2 DEF IInv, ControlInv, Drained
  <2> QED
    BY <1>2, <2>1 DEF IInv, ControlInv, DefaultNeverPanics, Default, Iterating
<1>7. ShardInv'
  BY <1>2 DEF IInv, ShardInv, map, ItemsOf, Present, MapShards, Iterating
<1>8. ChanInv'
  <2>1. total' = total
    BY <1>4, TotalSame
  <2>2. chans[s].made
    BY <1>2 DEF IInv, ChanInv
  <2> QED
    BY <1>2, <1>4, <2>1, <2>2 DEF IInv, ChanInv, Iterating
<1>9. OneTuple(chans[s].buf) /\ t[1] \in KeysOf(chans[s].buf)
  BY <1>1, <1>2 DEF IInv, FlightInv, KeysOf
<1>10. /\ KeysOf(chans'[s].buf) = KeysOf(chans[s].buf) \ {t[1]}
       /\ KeysOf(hand'[s]) = {t[1]} /\ KeysOf(hand[s]) = {}
  <2>1. KeysOf(chans[s].buf \ {t}) = KeysOf(chans[s].buf) \ {t[1]}
    BY <1>1, <1>9, KeysOfFacts, Zenon
  <2>2. KeysOf({t}) = {t[1]} /\ KeysOf({}) = {}
    BY KeysOfFacts, Zenon
  <2> QED
    BY <1>2, <1>4, <2>1, <2>2
<1>11. \A u \in Shards : InFlight(u)' = InFlight(u)
  <2> SUFFICES ASSUME NEW u \in Shards PROVE InFlight(u)' = InFlight(u)
    OBVIOUS
  <2>1. CASE u = s
    BY <1>2, <1>9, <1>10, <2>1 DEF InFlight
  <2>2. CASE u # s
    BY <1>2, <1>4, <2>2 DEF InFlight
  <2> QED
    BY <2>1, <2>2
<1>12. FlightInv'
  <2> SUFFICES ASSUME NEW u \in Shards
               PROVE  /\ OneTuple(chans'[u].buf) /\ \A v, w \in hand'[u] : v = w
                      /\ KeysOf(chans'[u].buf) \cup KeysOf(hand'[u]) \subseteq KeysOfShard(u)
                      /\ left[u] \cap (KeysOf(chans'[u].buf) \cup KeysOf(hand'[u])
                                        \cup KeysOf(out.buf)) = {}
                      /\ KeysOf(chans'[u].buf) \cap (KeysOf(hand'[u]) \cup KeysOf(out.buf)) = {}
                      /\ KeysOf(hand'[u]) \cap KeysOf(out.buf) = {}
    BY <1>2, <1>4, <1>11 DEF IInv, FlightInv, Iterating
  <2>1. CASE u = s
    <3>1. OneTuple(chans'[s].buf) /\ \A v, w \in hand'[s] : v = w
      BY <1>4, <1>9 DEF OneTuple
    <3> QED
      BY <1>2, <1>9, <1>10, <2>1, <3>1 DEF IInv, FlightInv
  <2>2. CASE u # s
    BY <1>2, <1>4, <2>2 DEF IInv, FlightInv
  <2> QED
    BY <2>1, <2>2
<1>13. MissedInv'
  BY <1>2, <1>11, ShardFacts DEF IInv, MissedInv, Default, history, SeenInv
<1>14. SeenInv'
  BY <1>1, <1>2, <1>4 DEF IInv, SeenInv, map, history
<1>15. CountInv' /\ CountBounded'
  BY <1>2 DEF CountInv, CountBounded
<1> QED
  BY <1>5, <1>6, <1>7, <1>8, <1>12, <1>13, <1>14, <1>15 DEF IInv

LEMMA FanInPassIInv ==
  ASSUME IInv, ~panic, NEW s \in Shards, FanInPass(s)
  PROVE  IInv'
<1>1. PICK t \in hand[s] : out' = Put(out, t)
  BY DEF FanInPass
<1>2. /\ hand' = [hand EXCEPT ![s] = {}] /\ stage = "drain" /\ Iterating
      /\ UNCHANGED <<pkg, size, map, op, stage, pc, left, chans, got, count, panic, history>>
  BY <1>1 DEF FanInPass, IInv, ControlInv, ChanInv
<1>3. /\ hand \in [Shards -> SUBSET Tuples] /\ t \in Tuples /\ out \in ChanType
      /\ hand[s] = {t} /\ t[1] \in KeysOfShard(s)
  BY <1>1, <1>2 DEF IInv, TypeOK, FlightInv, KeysOf
<1>4. /\ out' \in ChanType /\ out'.buf = out.buf \cup {t} /\ out'.cap = out.cap
      /\ out'.closed = out.closed
      /\ hand' \in [Shards -> SUBSET Tuples] /\ hand'[s] = {}
      /\ \A u \in Shards : u # s => hand'[u] = hand[u]
  BY <1>1, <1>2, <1>3, ChanFacts
<1>5. TypeOK'
  BY <1>2, <1>4 DEF IInv, TypeOK, map
<1>6. ControlInv' /\ DefaultNeverPanics'
  <2>1. ~out.closed
    BY <1>1, <1>2 DEF IInv, ControlInv, Drained
  <2> QED
    BY <1>2, <1>4, <2>1 DEF IInv, ControlInv, DefaultNeverPanics, Default, Iterating
<1>7. ShardInv'
  BY <1>2 DEF IInv, ShardInv, map, ItemsOf, Present, MapShards, Iterating
<1>8. ChanInv'
  <2>1. total' = total
    BY <1>2, TotalSame
  <2> QED
    BY <1>2, <1>4, <2>1 DEF IInv, ChanInv, Iterating
<1>9. /\ KeysOf(out'.buf) = KeysOf(out.buf) \cup {t[1]}
      /\ KeysOf(hand[s]) = {t[1]} /\ KeysOf(hand'[s]) = {}
  BY <1>3, <1>4, KeysOfFacts
<1>10. \A u \in Shards : InFlight(u)' = InFlight(u)
  <2> SUFFICES ASSUME NEW u \in Shards PROVE InFlight(u)' = InFlight(u)
    OBVIOUS
  <2>1. CASE u = s
    BY <1>2, <1>3, <1>9, <2>1 DEF InFlight, KeysOfShard
  <2>2. CASE u # s
    BY <1>2, <1>3, <1>4, <1>9, <2>2 DEF InFlight, KeysOfShard
  <2> QED
    BY <2>1, <2>2
<1>11. FlightInv'
  <2>1. OneTuple(out'.buf)
    <3>1. OneTuple(out.buf) /\ t[1] \notin KeysOf(out.buf)
      BY <1>2, <1>9 DEF IInv, FlightInv
    <3> QED
      BY <1>4, <3>1 DEF OneTuple, KeysOf
  <2> SUFFICES ASSUME NEW u \in Shards
               PROVE  /\ \A v, w \in hand'[u] : v = w
                      /\ KeysOf(chans[u].buf) \cup KeysOf(hand'[u]) \subseteq KeysOfShard(u)
                      /\ left[u] \cap (KeysOf(chans[u].buf) \cup KeysOf(hand'[u])
                                        \cup KeysOf(out'.buf)) = {}
                      /\ KeysOf(chans[u].buf) \cap (KeysOf(hand'[u]) \cup KeysOf(out'.buf)) = {}
                      /\ KeysOf(hand'[u]) \cap KeysOf(out'.buf) = {}
    BY <1>2, <1>10, <2>1 DEF IInv, FlightInv, Iterating
  <2>2. CASE u = s
    BY <1>2, <1>4, <1>9, <2>2 DEF IInv, FlightInv
  <2>3. CASE u # s
    <3>1. t[1] \notin KeysOfShard(u) /\ left[u] \subseteq KeysOfShard(u)
      BY <1>3, <2>3, ItemsFacts, ShardFacts DEF KeysOfShard, IInv, ShardInv
    <3>2. /\ hand'[u] = hand[u] /\ \A v, w \in hand[u] : v = w
          /\ KeysOf(chans[u].buf) \cup KeysOf(hand[u]) \subseteq KeysOfShard(u)
          /\ left[u] \cap (KeysOf(chans[u].buf) \cup KeysOf(hand[u]) \cup KeysOf(out.buf)) = {}
          /\ KeysOf(chans[u].buf) \cap (KeysOf(hand[u]) \cup KeysOf(out.buf)) = {}
          /\ KeysOf(hand[u]) \cap KeysOf(out.buf) = {}
      BY <1>2, <1>4, <2>3 DEF IInv, FlightInv
    <3>3. t[1] \notin left[u] /\ t[1] \notin KeysOf(chans[u].buf) /\ t[1] \notin KeysOf(hand[u])
      BY <3>1, <3>2
    <3> QED
      BY <1>9, <3>2, <3>3
  <2> QED
    BY <2>2, <2>3
<1>12. MissedInv'
  BY <1>2, <1>10, ShardFacts DEF IInv, MissedInv, Default, history, SeenInv
<1>13. SeenInv'
  BY <1>1, <1>2, <1>4 DEF IInv, SeenInv, map, history
<1>14. CountInv' /\ CountBounded'
  BY <1>2 DEF CountInv, CountBounded
<1> QED
  BY <1>5, <1>6, <1>7, <1>8, <1>11, <1>12, <1>13, <1>14 DEF IInv

LEMMA CloseIInv ==
  ASSUME IInv, ~panic, Close
  PROVE  IInv'
<1>1. /\ closes /\ ~out.closed /\ out' = Closed(out)
      /\ UNCHANGED <<pkg, size, map, op, stage, pc, left, chans, hand, got, count, panic,
                     history>>
  BY DEF Close
<1>2. /\ out' \in ChanType /\ out'.buf = out.buf /\ out'.cap = out.cap
  BY <1>1, ChanFacts DEF IInv, TypeOK
<1>3. \/ Iterating /\ stage = "drain" /\ \A s \in Shards : Drained(s)
      \/ op = "Keys" /\ stage = "walk" /\ Cardinality(Finished) = shardCount
  BY <1>1 DEF closes, wgAdd, Iterating
<1>4. TypeOK'
  BY <1>1, <1>2 DEF IInv, TypeOK, map
<1>5. ControlInv' /\ DefaultNeverPanics'
  <2>1. op = "Keys" /\ Default => \A s \in Shards : pc[s] = "done"
    <3> SUFFICES ASSUME op = "Keys", Default PROVE \A s \in Shards : pc[s] = "done"
      OBVIOUS
    <3>1. Finished \subseteq Shards /\ Cardinality(Finished) = shardCount
      BY <1>3, ShardFacts DEF Finished, Iterating
    <3>2. Finished = Shards
      BY <3>1, Finite
    <3> QED
      BY <3>2 DEF Finished
  <2> QED
    BY <1>1, <1>2, <1>3, <2>1 DEF IInv, ControlInv, DefaultNeverPanics, Default, Iterating, Drained
<1>6. ShardInv'
  BY <1>1 DEF IInv, ShardInv, map, ItemsOf, Present, MapShards, Iterating
<1>7. ChanInv'
  <2>1. total' = total
    BY <1>1, TotalSame
  <2> QED
    BY <1>1, <1>2, <2>1 DEF IInv, ChanInv, Iterating
<1>8. \A s \in Shards : InFlight(s)' = InFlight(s)
  BY <1>1, <1>2 DEF InFlight
<1>9. FlightInv'
  BY <1>1, <1>2, <1>8 DEF IInv, FlightInv, Iterating
<1>10. MissedInv'
  BY <1>1, <1>8, ShardFacts DEF IInv, MissedInv, Default, history, SeenInv
<1>11. SeenInv'
  BY <1>1, <1>2 DEF IInv, SeenInv, map, history
<1>12. CountInv' /\ CountBounded'
  BY <1>1, <1>3 DEF CountInv, CountBounded
<1> QED
  BY <1>4, <1>5, <1>6, <1>7, <1>9, <1>10, <1>11, <1>12 DEF IInv

LEMMA ReceiveIInv ==
  ASSUME IInv, ~panic, Receive
  PROVE  IInv'
<1>1. PICK t \in out.buf : out' = Take(out, t) /\ got' = got \cup {t}
  BY DEF Receive
<1>2. UNCHANGED <<pkg, size, map, op, stage, pc, left, chans, hand, count, panic, history>>
  BY DEF Receive
<1>3. t \in Tuples /\ t \in seen /\ out \in ChanType /\ stage # "over"
  BY <1>1 DEF IInv, TypeOK, SeenInv, ControlInv
<1>4. op = "Keys" \/ (Iterating /\ stage # "walk")
  BY <1>1, ChanFacts DEF IInv, ControlInv
<1>5. /\ out' \in ChanType /\ out'.buf = out.buf \ {t} /\ out'.cap = out.cap
      /\ out'.closed = out.closed
  BY <1>1, <1>3, ChanFacts
<1>6. stage # "count"
  BY <1>1, ChanFacts DEF IInv, ControlInv
<1>7. TypeOK'
  BY <1>1, <1>2, <1>3, <1>5 DEF IInv, TypeOK, map
<1>8. ControlInv' /\ DefaultNeverPanics'
  BY <1>2, <1>3, <1>4, <1>5, <1>6 DEF IInv, ControlInv, DefaultNeverPanics, Default, Iterating, Drained
<1>9. ShardInv'
  BY <1>2 DEF IInv, ShardInv, map, ItemsOf, Present, MapShards, Iterating
<1>10. ChanInv'
  <2>1. total' = total
    BY <1>2, TotalSame
  <2> QED
    BY <1>2, <1>5, <2>1 DEF IInv, ChanInv, Iterating
<1>11. /\ KeysOf(out'.buf) \subseteq KeysOf(out.buf)
       /\ KeysOf(out.buf) \subseteq KeysOf(out'.buf) \cup {t[1]}
       /\ KeysOf(got') = KeysOf(got) \cup {t[1]}
  <2>1. KeysOf(out.buf) \subseteq KeysOf(out.buf \ {t}) \cup {t[1]}
    BY KeysOfFacts, Zenon
  <2>2. KeysOf(out.buf \ {t}) \subseteq KeysOf(out.buf)
    BY DEF KeysOf
  <2>3. KeysOf(got \cup {t}) = KeysOf(got) \cup {t[1]}
    BY KeysOfFacts, Zenon
  <2> QED
    BY <1>1, <1>5, <2>1, <2>2, <2>3
<1>12. \A s \in Shards : /\ InFlight(s)' \subseteq InFlight(s)
                         /\ InFlight(s) \subseteq InFlight(s)' \cup {t[1]}
  BY <1>2, <1>11 DEF InFlight
<1>13. FlightInv'
  <2> SUFFICES ASSUME Iterating PROVE FlightInv'
    BY <1>2 DEF FlightInv, Iterating
  <2>1. OneTuple(out'.buf)
    BY <1>5 DEF IInv, FlightInv, OneTuple
  <2>2. ASSUME NEW s \in Shards PROVE Cardinality(InFlight(s)') <= chans[s].cap
    <3>1. InFlight(s) \subseteq Keys
      BY InFlightFacts
    <3>2. /\ Cardinality(InFlight(s)') <= Cardinality(InFlight(s))
          /\ Cardinality(InFlight(s)') \in Nat /\ Cardinality(InFlight(s)) \in Nat
      BY <1>12, <3>1, CardinalityGrows
    <3>3. chans[s].cap \in Nat
      <4>1. chans[s] \in ChanType
        BY DEF IInv, TypeOK
      <4> QED
        BY <4>1, WalksAssumption, FS_CardinalityType DEF ChanType
    <3> QED
      BY <3>2, <3>3 DEF IInv, FlightInv
  <2> QED
    BY <1>2, <1>11, <2>1, <2>2 DEF IInv, FlightInv
<1>14. MissedInv'
  BY <1>2, <1>11, <1>12, ShardFacts DEF IInv, MissedInv, Default, history, SeenInv
<1>15. SeenInv'
  BY <1>1, <1>2, <1>3, <1>5 DEF IInv, SeenInv, map, history
<1>16. CountInv' /\ CountBounded'
  BY <1>2, <1>3, <1>4, <1>6 DEF IInv, CountInv, CountBounded
<1> QED
  BY <1>7, <1>8, <1>9, <1>10, <1>13, <1>14, <1>15, <1>16 DEF IInv

LEMMA EndIInv ==
  ASSUME IInv, ~panic, End
  PROVE  IInv'
<1>1. /\ stage' = "over"
      /\ UNCHANGED <<pkg, size, map, op, pc, left, chans, hand, out, got, count, panic, history>>
  BY DEF End
<1>2. \/ stage \in {"walk", "drain"} /\ op \in {"Iter", "Keys"} /\ out.closed /\ out.buf = {}
      \/ stage = "walk" /\ op = "ForEach" /\ Cardinality(Finished) = shardCount
  BY ChanFacts DEF End, wgAdd, IInv, ControlInv, Iterating
<1>3. op = "ForEach" => out.buf = {} /\ \A s \in Shards : pc[s] = "done"
  <2> SUFFICES ASSUME op = "ForEach" PROVE out.buf = {} /\ \A s \in Shards : pc[s] = "done"
    OBVIOUS
  <2>1. Default /\ out.buf = {}
    BY ChanFacts DEF IInv, ControlInv, Iterating
  <2>2. Finished \subseteq Shards /\ Cardinality(Finished) = shardCount
    BY <1>2, <2>1, ShardFacts DEF Finished
  <2>3. Finished = Shards
    BY <2>2, Finite
  <2> QED
    BY <2>1, <2>3 DEF Finished
<1>4. Iterating => stage = "drain" /\ \A s \in Shards : hand[s] = {}
  BY <1>2, ChanFacts DEF IInv, ControlInv, Iterating, Drained
<1>5. TypeOK'
  BY <1>1 DEF IInv, TypeOK, map
<1>6. ControlInv' /\ DefaultNeverPanics'
  BY <1>1, <1>2, <1>3 DEF IInv, ControlInv, DefaultNeverPanics, Default, Iterating, Drained
<1>7. ShardInv'
  BY <1>1, <1>2 DEF IInv, ShardInv, map, ItemsOf, Present, MapShards, Iterating
<1>8. ChanInv'
  <2>1. total' = total
    BY <1>1, TotalSame
  <2> QED
    BY <1>1, <1>2, <1>4, <2>1 DEF IInv, ChanInv, ControlInv, Iterating
<1>9. FlightInv' /\ MissedInv'
  <2>1. \A s \in Shards : InFlight(s)' = InFlight(s)
    BY <1>1 DEF InFlight
  <2>2. FlightInv'
    BY <1>1, <2>1 DEF IInv, FlightInv, Iterating
  <2>3. MissedInv'
    BY <1>1, <1>2, <2>1, ShardFacts DEF IInv, MissedInv, Default, history, SeenInv
  <2> QED
    BY <2>2, <2>3
<1>10. SeenInv'
  BY <1>1 DEF IInv, SeenInv, map, history, Walking
<1>11. CountInv' /\ CountBounded'
  BY <1>1, <1>2 DEF CountInv, CountBounded
<1> QED
  BY <1>5, <1>6, <1>7, <1>8, <1>9, <1>10, <1>11 DEF IInv

LEMMA StutterIInv ==
  ASSUME IInv, UNCHANGED vars
  PROVE  IInv'
BY WalkUnchanged DEF vars, map, IInv, TypeOK, DefaultNeverPanics

-----------------------------------------------------------------------------
(* The theorems                                                            *)

LEMMA Invariance == Spec => []IInv
<1>1. IInv /\ [Next]_vars => IInv'
  <2> SUFFICES ASSUME IInv, [Next]_vars PROVE IInv'
    OBVIOUS
  <2>1. CASE Client
    BY <2>1, ClientChangeIInv, ClientLockIInv DEF Client
  <2>2. CASE Caller
    BY <2>2, CountEndIInv, IterIInv, CloseIInv, EndIInv DEF Caller
  <2>3. ASSUME NEW s \in AllShards, Enter(s) PROVE IInv'
    BY <2>3, CountShardIInv, RLockIInv DEF Enter
  <2>4. ASSUME NEW s \in AllShards, Loop(s) PROVE IInv'
    BY <2>4, SendIInv, RUnlockIInv DEF Loop
  <2>5. ASSUME NEW s \in Shards, FanIn(s) PROVE IInv'
    BY <2>5, FanInTakeIInv, FanInPassIInv DEF FanIn
  <2>6. CASE ~panic /\ (Receive \/ \E o \in Ops : Begin(o))
    BY <2>6, ReceiveIInv, BeginIInv
  <2>7. CASE UNCHANGED vars
    BY <2>7, StutterIInv
  <2> QED
    BY <2>1, <2>2, <2>3, <2>4, <2>5, <2>6, <2>7 DEF Next
<1> QED
  BY <1>1, InitIInv, PTL DEF Spec

\* Whatever the client changes meanwhile, no count and no channel of a walk grows
\* beyond the number of the keys, and no goroutine works on a shard the map has not.
THEOREM TypeCorrect == Spec => []TypeOK
BY Invariance, PTL DEF IInv

\* Iter, Keys and ForEach hand out only what has been in the map, and miss nothing
\* that has been there all the time, for any keys, shards and changes.
THEOREM WalksWeaklyConsistent == Spec => []WeaklyConsistent
<1>1. IInv => WeaklyConsistent
  <2> SUFFICES ASSUME IInv PROVE WeaklyConsistent
    OBVIOUS
  <2>1. got \subseteq seen
    BY DEF IInv, SeenInv
  <2>2. ASSUME stage = "over", op # "Count", Default, NEW k \in stable
        PROVE  k \in {t[1] : t \in got}
    <3>1. k \in Keys /\ getShard(k) \in Shards /\ getShard(k) \in AllShards
      BY ShardFacts DEF IInv, SeenInv
    <3>2. op \in {"Iter", "Keys", "ForEach"} /\ out.buf = {}
      BY <2>2 DEF IInv, TypeOK, Ops, ControlInv
    <3>3. pc[getShard(k)] = "done"
      BY <2>2, <3>1, <3>2 DEF IInv, ControlInv, ChanInv, Iterating, Drained
    <3>4. left[getShard(k)] = {}
      BY <3>1, <3>3 DEF IInv, ShardInv
    <3>5. chans[getShard(k)].buf = {} /\ hand[getShard(k)] = {}
      BY <2>2, <3>1, <3>2, ChanFacts DEF IInv, ControlInv, ChanInv, Iterating, Drained
    <3>6. InFlight(getShard(k)) = {}
      BY <3>2, <3>4, <3>5, KeysOfFacts DEF InFlight
    <3> QED
      BY <2>2, <3>3, <3>6 DEF IInv, MissedInv, KeysOf
  <2> QED
    BY <2>1, <2>2 DEF WeaklyConsistent
<1> QED
  BY <1>1, Invariance, PTL

\* Count returns no less than the keys that stayed and no more than those that have
\* been there.
THEOREM CountIsBounded == Spec => []CountBounded
BY Invariance, PTL DEF IInv

\* The goroutines of fanIn have a place for every tuple they will ever pass on,
\* although Iter sizes its channel while the shards are still being read.
THEOREM FanInHasRoom == Spec => []FanInNeverWaits
<1>1. IInv => FanInNeverWaits
  <2> SUFFICES ASSUME IInv, NEW s \in Shards, hand[s] # {} PROVE HasRoom(out)
    BY DEF FanInNeverWaits
  <2>1. PICK t : t \in hand[s]
    OBVIOUS
  <2>2. stage = "drain" /\ Iterating /\ out.cap = total
    BY DEF IInv, ChanInv, ControlInv
  <2> DEFINE B == KeysOf(out.buf)
             f == [u \in out.buf |-> u[1]]
  <2>3. /\ OneTuple(out.buf) /\ t[1] \notin B /\ t[1] \in InFlight(s)
        /\ \A u \in out.buf : u[1] \in Keys
    <3>1. t[1] \in KeysOf(hand[s])
      BY <2>1 DEF KeysOf
    <3>2. out.buf \subseteq Tuples
      BY DEF IInv, SeenInv
    <3> QED
      BY <2>2, <3>1, <3>2 DEF IInv, FlightInv, InFlight, Tuples
  <2>4. f \in Injection(out.buf, B)
    BY <2>3 DEF Injection, IsInjective, OneTuple, KeysOf
  <2>5. B \subseteq Keys
    BY <2>3 DEF KeysOf
  <2>6. IsFiniteSet(B) /\ Cardinality(B) \in Nat
    BY <2>5, Finite
  <2>7. IsFiniteSet(out.buf) /\ Cardinality(out.buf) <= Cardinality(B)
    <3> HIDE DEF f, B
    <3> QED
      BY <2>4, <2>6, FS_Injection
  <2>8. B \cup {t[1]} \subseteq InFlightKeys
    <3>1. ASSUME NEW k \in B PROVE k \in InFlight(getShard(k)) /\ getShard(k) \in Shards
      BY <2>5, <3>1, ShardFacts DEF InFlight
    <3> HIDE DEF B
    <3> QED
      BY <2>3, <3>1, Zenon DEF InFlightKeys
  <2>9. Cardinality(B \cup {t[1]}) = Cardinality(B) + 1
    <3> HIDE DEF B
    <3> QED
      BY <2>3, <2>6, FS_AddElement
  <2>10. /\ IsFiniteSet(InFlightKeys) /\ Cardinality(InFlightKeys) <= total
         /\ Cardinality(InFlightKeys) \in Nat /\ total \in Nat
    BY <2>2, RoomForAll
  <2>11. Cardinality(B \cup {t[1]}) <= Cardinality(InFlightKeys)
    <3> HIDE DEF B
    <3> QED
      BY <2>8, <2>10, FS_Subset
  <2>12. Cardinality(out.buf) \in Nat
    BY <2>7, FS_CardinalityType
  <2> HIDE DEF B
  <2> QED
    BY <2>2, <2>6, <2>7, <2>9, <2>10, <2>11, <2>12 DEF HasRoom
<1> QED
  BY <1>1, Invariance, PTL

\* No walk and no call on a key panics in a map with the default number of shards.
THEOREM NoPanics == Spec => []DefaultNeverPanics
BY Invariance, PTL DEF IInv
=============================================================================
