-------------------------------- MODULE Walks --------------------------------
(***************************************************************************)
(* The calls that walk over all shards of a ConcurrentMap, i64map's or     *)
(* strmap's (src/concurrentmap/i64map/map.go, strmap/map.go): Count, which *)
(* IsEmpty calls; Iter, which Items and MarshalJSON call; Keys; and        *)
(* i64map's ForEach.  They hold one read lock per goroutine, hand tuples   *)
(* through channels and wait on wait groups, while a client changes the    *)
(* map.  One walk suffices: walks change nothing and share nothing.        *)
(*                                                                         *)
(* A key lives in the shard of its hash and a change of it is one critical *)
(* section: I64Map and StrMap show that.                                   *)
(***************************************************************************)
EXTENDS Naturals, FiniteSets

CONSTANTS
  Keys, Values, Absent,
  fnv32,
  shardCount,  \* shardCount of i64map, defaultShardCount of strmap
  Sizes,       \* the numbers of shards NewWithOptions of strmap is asked for
  MaxShards,   \* bound on them
  Changes,     \* the changes the client makes: key and new value, or Absent
  MaxChanges,  \* bound on the changes it makes once the walk has begun
  MaxItems,    \* bound on the keys it has in the map
  NoChange

Shards == 0 .. (shardCount - 1)
AllShards == 0 .. (MaxShards - 1)
Tuples == Keys \X Values

ASSUME WalksAssumption ==
  /\ IsFiniteSet(Keys)
  /\ MaxShards \in Nat
  /\ Sizes \subseteq 1 .. MaxShards
  /\ fnv32 \in [Keys -> Nat]
  /\ shardCount \in 1 .. MaxShards
  /\ Changes \subseteq Keys \X (Values \cup {Absent})
  /\ NoChange \notin Changes
  /\ MaxChanges \in Nat /\ MaxItems \in Nat

VARIABLES
  pkg,     \* the package of the map: i64map or strmap
  size,    \* its number of shards
  items,   \* the value of each key
  readers, \* the shards whose read lock the walk holds
  change,  \* the change the client has called Lock for, which lets no reader in
  changes, \* how many it has made since the walk began, up to the bound
  op,      \* the call that walks
  stage,   \* how far it is
  pc,      \* how far it, or its goroutine for the shard, is with each shard
  left,    \* the keys that goroutine has still to send
  chans,   \* the channels of snapshot: made, capacity, buffer, closed
  hand,    \* the tuple that the goroutine of fanIn for a channel holds
  out,     \* the channel ch of Iter or Keys
  got,     \* the tuples the caller has got
  count,   \* the local variable of Count
  panic,   \* the program, or the caller, has panicked
  seen,    \* history: the tuples that have been in the map during the walk
  stable   \* history: the keys that have been in the map all through it

map == <<items, readers, change, changes>>
history == <<seen, stable>>
walk == <<op, stage, pc, left, chans, hand, out, got, count>>
vars == <<pkg, size, map, walk, panic, history>>

MapShards == 0 .. (size - 1)

getShard(k) == fnv32[k] % shardCount
Present(m) == {k \in Keys : m[k] # Absent}

\* A bug: the loop over the shards ranges over the same keys each time.
ItemsOfAll(s) == Present(items)

\* shard.items
ItemsOf(s) == {k \in Present(items) : getShard(k) = s}

ChanType ==
  [made : BOOLEAN, cap : 0 .. Cardinality(Keys), buf : SUBSET Tuples, closed : BOOLEAN]

NilChan == [made |-> FALSE, cap |-> 0, buf |-> {}, closed |-> FALSE]
MakeChan(n) == [NilChan EXCEPT !.made = TRUE, !.cap = n]
HasRoom(c) == Cardinality(c.buf) < c.cap
Put(c, t) == [c EXCEPT !.buf = @ \cup {t}]
Take(c, t) == [c EXCEPT !.buf = @ \ {t}]
Closed(c) == [c EXCEPT !.closed = TRUE]

Ops == {"Count", "Iter", "Keys", "ForEach"}

TypeOK ==
  /\ pkg \in {"i64map", "strmap"}
  /\ size \in Sizes \cup {shardCount}
  /\ items \in [Keys -> Values \cup {Absent}]
  /\ readers \subseteq AllShards
  /\ change \in Changes \cup {NoChange}
  /\ changes \in 0 .. MaxChanges
  /\ op \in Ops \cup {"none"}
  /\ stage \in {"none", "count", "walk", "drain", "over"}
  /\ pc \in [AllShards -> {"todo", "send", "done"}]
  /\ left \in [AllShards -> SUBSET Keys]
  /\ chans \in [Shards -> ChanType]
  /\ hand \in [Shards -> SUBSET Tuples]
  /\ out \in ChanType
  /\ got \subseteq Tuples
  /\ count \in 0 .. Cardinality(Keys)
  /\ panic \in BOOLEAN

\* New, or NewWithOptions.
Init ==
  /\ pkg \in {"i64map", "strmap"}
  /\ size \in IF pkg = "strmap" THEN Sizes \cup {shardCount} ELSE {shardCount}
  /\ items = [k \in Keys |-> Absent]
  /\ readers = {}
  /\ change = NoChange /\ changes = 0
  /\ op = "none" /\ stage = "none"
  /\ pc = [s \in AllShards |-> "todo"]
  /\ left = [s \in AllShards |-> {}]
  /\ chans = [s \in Shards |-> NilChan]
  /\ hand = [s \in Shards |-> {}]
  /\ out = NilChan
  /\ got = {} /\ count = 0 /\ panic = FALSE
  /\ seen = {} /\ stable = Keys

Panics == panic' = TRUE /\ UNCHANGED <<pkg, size, map, walk, history>>

-----------------------------------------------------------------------------
(* The client                                                              *)

Walking(st) == st \notin {"none", "over"}

\* The walk in progress after the step sees the map it leaves.
Sees ==
  /\ seen' = IF Walking(stage')
               THEN seen \cup {<<k, items'[k]>> : k \in Present(items')} ELSE seen
  /\ stable' = IF Walking(stage') THEN stable \cap Present(items') ELSE stable

\* A call on one key indexes the shards by its hash and calls Lock.
ClientLock(c) ==
  LET s == getShard(c[1])
  IN  /\ change = NoChange
      /\ changes < MaxChanges
      /\ c[2] # items[c[1]]
      /\ c[2] # Absent => Cardinality(Present(items) \cup {c[1]}) <= MaxItems
      /\ IF s \notin MapShards THEN Panics
         ELSE /\ change' = c
              /\ changes' = IF stage = "none" THEN 0 ELSE changes + 1
              /\ UNCHANGED <<pkg, size, items, readers, walk, panic, history>>

\* Lock returns; the client changes the key and unlocks.
ClientChange ==
  /\ change # NoChange
  /\ getShard(change[1]) \notin readers
  /\ items' = [items EXCEPT ![change[1]] = change[2]]
  /\ change' = NoChange
  /\ UNCHANGED <<pkg, size, readers, changes, walk, panic>>
  /\ Sees

-----------------------------------------------------------------------------
(* The walk                                                                *)

Begin(o) ==
  /\ stage = "none"
  /\ o = "ForEach" => pkg = "i64map"
  /\ op' = o
  /\ stage' = IF o \in {"Count", "Keys"} THEN "count" ELSE "walk"
  /\ UNCHANGED <<pkg, size, map, pc, left, chans, hand, out, got, count, panic>>
  /\ Sees

\* Count, and the snapshot of i64map, take one shard after the other.
Turn(s) ==
  stage = "count" \/ (op = "Iter" /\ pkg = "i64map") =>
    \A t \in AllShards : t < s => pc[t] = "done"

\* RLock lets no reader in once a writer has called Lock.
MayRead(s) == change # NoChange => getShard(change[1]) # s

\* A bug: the length of a shard replaces the sum.
AddedLast(c, n) == n

\* count += len(shard.items)
Added(c, n) == c + n

\* Count goes by the constant, not by the shards there are.
CountShard(s) ==
  /\ stage = "count" /\ s \in Shards /\ pc[s] = "todo" /\ Turn(s)
  /\ IF s \notin MapShards THEN Panics
     ELSE /\ MayRead(s)
          /\ count' = Added(count, Cardinality(ItemsOf(s)))
          /\ pc' = [pc EXCEPT ![s] = "done"]
          /\ UNCHANGED <<pkg, size, map, op, stage, left, chans, hand, out, got,
                         panic, history>>

\* Count returns, or Keys makes its channel and starts a goroutine per shard.
CountEnd ==
  /\ stage = "count" /\ \A s \in Shards : pc[s] = "done"
  /\ IF op = "Count"
       THEN stage' = "over" /\ UNCHANGED <<pc, out>>
       ELSE /\ stage' = "walk"
            /\ pc' = [s \in AllShards |-> "todo"]
            /\ out' = MakeChan(count)
  /\ UNCHANGED <<pkg, size, map, op, left, chans, hand, got, count, panic, history>>

\* RLock returns and the loop over the items begins.  Before it, snapshot makes
\* the channel of the shard and, in strmap, calls wg.Done().
RLock(s) ==
  /\ op # "Count" /\ stage \in {"walk", "drain", "over"}
  /\ s \in MapShards /\ pc[s] = "todo" /\ Turn(s)
  /\ MayRead(s)
  /\ IF op = "Iter" /\ s \notin Shards THEN Panics
     ELSE /\ readers' = readers \cup {s}
          /\ chans' = IF op = "Iter"
                        THEN [chans EXCEPT ![s] = MakeChan(Cardinality(ItemsOf(s)))]
                        ELSE chans
          /\ left' = [left EXCEPT ![s] = ItemsOf(s)]
          /\ pc' = [pc EXCEPT ![s] = "send"]
          /\ UNCHANGED <<pkg, size, items, change, changes, op, stage, hand, out, got,
                         count, panic, history>>

\* The loop's body: the tuple goes to the channel of the shard, to the function
\* given to ForEach, or to the channel of Keys, which has no buffer when Count
\* found nothing, so that the reader takes it at once.
Send(s, k) ==
  LET t == <<k, items[k]>>
  IN  /\ pc[s] = "send" /\ k \in left[s]
      /\ left' = [left EXCEPT ![s] = @ \ {k}]
      /\ \/ /\ op = "Iter" /\ HasRoom(chans[s])
            /\ chans' = [chans EXCEPT ![s] = Put(@, t)]
            /\ UNCHANGED <<out, got, panic>>
         \/ /\ op = "ForEach" \/ (op = "Keys" /\ out.cap = 0 /\ ~out.closed)
            /\ got' = got \cup {t}
            /\ UNCHANGED <<chans, out, panic>>
         \/ /\ op = "Keys" /\ ~out.closed /\ HasRoom(out)
            /\ out' = Put(out, t)
            /\ UNCHANGED <<chans, got, panic>>
         \/ /\ op = "Keys" /\ out.closed
            /\ panic' = TRUE /\ UNCHANGED <<chans, out, got>>
      /\ UNCHANGED <<pkg, size, map, op, stage, pc, hand, count, history>>

\* What wg.Done() has been called for.
Finished == {s \in MapShards : pc[s] = "done"}

\* A bug: the wait group is one short.
wgAddShort == shardCount - 1

\* wg.Add(shardCount), or wg.Add(defaultShardCount)
wgAdd == shardCount

\* A bug: the goroutine keeps its read lock.
ReleasedNot(s) == readers

\* shard.RUnlock()
Released(s) == readers \ {s}

\* The loop is over: RUnlock, then close the channel of the shard; Keys and
\* ForEach call wg.Done(), which panics when it is called too often.
RUnlock(s) ==
  /\ pc[s] = "send" /\ left[s] = {}
  /\ readers' = Released(s)
  /\ pc' = [pc EXCEPT ![s] = "done"]
  /\ chans' = IF op = "Iter" THEN [chans EXCEPT ![s] = Closed(@)] ELSE chans
  /\ panic' = (op # "Iter" /\ Cardinality(Finished) = wgAdd)
  /\ UNCHANGED <<pkg, size, items, change, changes, op, stage, left, hand, out, got, count,
                 history>>

-----------------------------------------------------------------------------
(* Waiting, and the reader                                                 *)

\* A bug: Iter adds up what the channels hold, not what they will.
totalLen ==
  Cardinality(UNION {{s} \X (1 .. Cardinality(chans[s].buf)) : s \in Shards})

\* The sum of cap(c): the number of the places there are in the channels.
Places == UNION {{s} \X (1 .. chans[s].cap) : s \in Shards}
total == Cardinality(Places)

\* A bug: the snapshot of strmap does not wait for its goroutines.
snapshotEarly == TRUE

\* snapshot returns: in i64map when the loop is over, in strmap when wg.Wait()
\* does, as soon as every channel is made.
snapshotEnds ==
  IF pkg = "i64map" THEN Finished = MapShards
  ELSE Cardinality({s \in Shards : chans[s].made}) = wgAdd

\* Iter makes its channel and starts fanIn.
Iter ==
  /\ stage = "walk" /\ op = "Iter" /\ snapshotEnds
  /\ out' = MakeChan(total)
  /\ stage' = "drain"
  /\ UNCHANGED <<pkg, size, map, op, pc, left, chans, hand, got, count, panic, history>>

\* The goroutine of fanIn for shard s takes a tuple, and passes it on.
FanInTake(s) ==
  /\ stage = "drain" /\ hand[s] = {}
  /\ \E t \in chans[s].buf :
       /\ hand' = [hand EXCEPT ![s] = {t}]
       /\ chans' = [chans EXCEPT ![s] = Take(@, t)]
  /\ UNCHANGED <<pkg, size, map, op, stage, pc, left, out, got, count, panic, history>>

FanInPass(s) ==
  /\ HasRoom(out)
  /\ \E t \in hand[s] : out' = Put(out, t)
  /\ hand' = [hand EXCEPT ![s] = {}]
  /\ UNCHANGED <<pkg, size, map, op, stage, pc, left, chans, got, count, panic, history>>

\* A bug: the loop over a channel ends when it is empty, not when it is closed.
DrainedEmpty(s) == chans[s].buf = {} /\ hand[s] = {}

\* The loop of fanIn over channel s is over.
Drained(s) == chans[s].closed /\ chans[s].buf = {} /\ hand[s] = {}

\* wg.Wait() of fanIn, or of Keys, returns and the channel is closed.
closes ==
  IF op = "Iter" THEN stage = "drain" /\ \A s \in Shards : Drained(s)
  ELSE op = "Keys" /\ stage = "walk" /\ Cardinality(Finished) = wgAdd

Close ==
  /\ closes /\ ~out.closed
  /\ out' = Closed(out)
  /\ UNCHANGED <<pkg, size, map, op, stage, pc, left, chans, hand, got, count, panic,
                 history>>

\* The caller's range loop over the channel of Iter, or that of Keys itself.
Receive ==
  /\ \E t \in out.buf :
       /\ out' = Take(out, t)
       /\ got' = got \cup {t}
  /\ UNCHANGED <<pkg, size, map, op, stage, pc, left, chans, hand, count, panic, history>>

\* The range loop ends, or wg.Wait() of ForEach returns.
End ==
  /\ \/ stage \in {"walk", "drain"} /\ out.closed /\ out.buf = {}
     \/ stage = "walk" /\ op = "ForEach" /\ Cardinality(Finished) = wgAdd
  /\ stage' = "over"
  /\ UNCHANGED <<pkg, size, map, op, pc, left, chans, hand, out, got, count, panic, history>>

-----------------------------------------------------------------------------
Client == ~panic /\ (ClientChange \/ \E c \in Changes : ClientLock(c))

\* The caller of the walk, and its goroutine for a shard, which for Count is the
\* caller itself.
Caller == ~panic /\ (CountEnd \/ Iter \/ Close \/ End)

Enter(s) == ~panic /\ (CountShard(s) \/ RLock(s))

Loop(s) ==
  /\ ~panic
  /\ RUnlock(s) \/ \E k \in Keys : Send(s, k)

FanIn(s) == ~panic /\ (FanInTake(s) \/ FanInPass(s))

Next ==
  \/ Client \/ Caller
  \/ \E s \in AllShards : Enter(s) \/ Loop(s)
  \/ \E s \in Shards : FanIn(s)
  \/ ~panic /\ (Receive \/ \E o \in Ops : Begin(o))

(***************************************************************************)
(* Runnable goroutines run on; a reader gets its turn because an RWMutex   *)
(* lets the readers in that wait when it is unlocked, before the next      *)
(* writer.  The loop that reads from Iter is the                           *)
(* client's and may stop at any time; the one in Keys goes on.             *)
(***************************************************************************)
Spec ==
  /\ Init /\ [][Next]_vars
  /\ WF_vars(~panic /\ ClientChange) /\ WF_vars(Caller)
  /\ WF_vars(~panic /\ op # "Iter" /\ Receive)
  /\ \A s \in AllShards : SF_vars(Enter(s)) /\ WF_vars(Loop(s))
  /\ \A s \in Shards : WF_vars(FanIn(s))

-----------------------------------------------------------------------------
(* Properties                                                              *)

Default == size = shardCount

\* Iter, Keys and ForEach are weakly consistent: they hand out no tuple
\* that was not in the map at some instant of the walk, and once over have
\* missed no key that was there all the time, although each shard is read at
\* another instant and, in strmap, after snapshot has returned.  Keys of a
\* strmap with more shards than the constant may miss some before it panics.
WeaklyConsistent ==
  /\ got \subseteq seen
  /\ stage = "over" /\ op # "Count" /\ Default => stable \subseteq {t[1] : t \in got}

\* Count counts every key that was there all the time, once, and no key that
\* never was; what IsEmpty says may yet be true of no instant.
CountBounded ==
  stage = "over" /\ op = "Count" =>
    /\ Cardinality(stable) <= count
    /\ count <= Cardinality({t[1] : t \in seen})

\* The channel of Iter has room for all that fanIn will ever put in it, although
\* its capacity is fixed before strmap's snapshot has filled a channel: the
\* goroutines of fanIn never wait for a caller that has stopped reading.
FanInNeverWaits == \A s \in Shards : hand[s] # {} => HasRoom(out)

\* Only a strmap made with another number of shards than the constant panics:
\* a missing shard is indexed, a channel beyond the last, or wg.Done() is
\* called too often.
DefaultNeverPanics == panic => ~Default

\* A walk over the default number of shards leaves no goroutine behind and no
\* shard locked, whether or not the caller of Iter reads to the end; the others
\* end.  Keys ends although its channel is sized by a count that may be stale.
WalkEnds ==
  Walking(stage) /\ Default ~>
    /\ \A s \in Shards : pc[s] = "done" /\ s \notin readers /\ hand[s] = {}
    /\ IF op = "Iter" THEN out.closed ELSE stage = "over"

\* A change waits for no walk for ever: not for the goroutines of Keys that
\* hold read locks while they wait for room, nor for a forgotten iterator.
ChangesGetIn == change # NoChange ~> change = NoChange \/ panic
=============================================================================
