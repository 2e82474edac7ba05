# A verification project for vulcan-pkg-tool

vulcan-pkg-tool is a library of small packages for game servers written in Go.
There is no main program and no protocol between its parts: the packages are
used side by side by the goroutines of one process. What is hard in them is
what goroutines do to each other inside one object: the life cycle of a
service (`sync.Stopper`), the sharded maps (`concurrentmap`), the bitmap and
the Bloom filters built on it, the buffer pools of `compress`; and, in
`data/db`, what several processes do to one counter on a replica set. This
project models those objects and the hash rings, checks them with TLC on small
instances and proves the most important results with TLAPS for every value of
the constants.

## Inventory

| Part | State | Operations | What is hard, and what makes it correct |
|---|---|---|---|
| `sync.Stopper` | three channels that are only closed, two flags, two mutexes | DoStop, TriggerStop, IsStopping, Stopping, StopTriggered, WaitStopped | double-checked locking; a second close panics; a deadline races the stop function. Each channel closed once, flags never ahead of channels, waiters always released |
| `concurrentmap/i64map` | 32 shards, each a map and an RWMutex | Get, Has, Set, Upsert, SetIfAbsent, Remove, RemoveCb, Pop; MGet, MSet; Count, IsEmpty, Clear, Resize, ForEach, Iter, Items, Keys, MarshalJSON | calls that visit several shards under one lock at a time. Linearizable per key, atomic per shard, every call returns, bounded answers of the walks, no goroutine or lock left behind |
| `concurrentmap/strmap` | as above | as above, with a goroutine per key in MSet and MGet, GetOrSet, NewWithOptions, and no Resize or ForEach | goroutines that outlive a call; channels filled after snapshot has returned; custom shard counts |
| `bitmap` | byte array, mutex | Set, MSet, Clear, IsSet, Count, Size | bits share bytes; the mutex is not reentrant. Atomic operations, padding stays 0 |
| `bloom` | a bitmap; `BloomFilter` also two hashers | New, Add, AddMany, Contains | hashers shared without a lock. No false negatives |
| `sync` countdown, routines | one time value behind an RWMutex; none | one critical section per method; recover and log | nothing that several steps could break |
| `consistenthash` | sorted ring, RWMutex | AddNode, RemoveNode, GetNode | duplicates and ties; only keys of the node concerned move |
| `compress` | two buffer pools, thresholds | Init, Compress, Decompress | bytes returned from a buffer already back in its pool; a buffer belongs to one call at a time |
| `data/db` | a counter document in Mongo | IncrementID, IncrementBatchID, InitIncrementIDDoc | find-then-insert by several processes, reads from a secondary, failovers, late requests. No id twice |
| `data/cache` | none | open, ping, close | pure I/O |
| `id`, `time`, `camelcase`, `rand`, `ip`, `security/*` | none, or library objects | pure functions and wrappers of libraries | arithmetic at boundaries (`id`, `time`); otherwise library behaviour |

The parts meet in two places: the Bloom filters call the bitmap (modelled by
what `Bitmap` shows of it), and `Items`, `IsEmpty` and `MarshalJSON` of a map
call `Iter` and `Count`.

## Modules

    Lifecycle            what sync.Stoppable promises
      Stopper            the code; StopperProofs
    MapCalls             the calls of a map and their effect on one key
      AtomicMap          what the maps promise
      RWMutex            Go's sync.RWMutex (external)
      I64Map             the sharded map
        I64MapFaults     ... with callbacks that misbehave; MCI64Map
        StrMap           ... used by strmap, with its batches; MCStrMap
          MapProofs      proofs about these three
    Walks                the calls over all shards of both maps, with their
                         channels; MCWalks, WalksProofs
    BitmapCalls          the calls of a bitmap
      AtomicBitmap       what it promises
      Bitmap             the code; MCBitmap, BitmapProofs
    Filter               what both Bloom filters have in common
      Bloom              bloom.BloomFilter; MCBloom
      Int64Bloom         bloom.Int64BloomFilter; MCInt64Bloom
        FilterProofs     proofs about these two
    Compress             package compress; MCCompress, CompressProofs
    Mongo                the increment ids of data/db; MCMongo, MongoProofs
    HashRing             both rings of consistenthash; MCHashRing, HashRingProofs

Operators whose comment begins with "A bug:" are variants of the definition
that follows them, with a mistake that is easy to make in that code. Nothing
uses them; each shows, put in place of the definition, that the property named
with it in PROJECT.json can fail.

**Stopper.** One action per atomic step of DoStop and TriggerStop: load of the
flag, lock, second load, close, store, unlock. `pc[p]` is where goroutine `p`
is. A channel is a Boolean, TRUE once closed. `stopFunc[p]` is the goroutine
that runs the stop function of `p`'s DoStop, and may run for ever. A second
close sets `crash`, after which no step is possible, as a panic that nothing
recovers ends a Go program. The `return` of the check under the lock
(stopper.go:79) leaves only the function literal, and so it is modelled.

**I64Map.** `items[s]` is the map of shard `s`, with `Absent` under the keys
not in it, and `lock[s]` its RWMutex. A call of goroutine `p` is a record
`call[p]` with its operation, keys and values. `pc[p][s]` is how far it is with
shard `s`: `todo`, `rlock` or `lock` (it has called RLock or Lock and is
waiting or inside), `done`. Since this is kept for each shard, the goroutines
that MSet and ForEach start are the visits of one `p` to several shards at
once; the calls in `Sequential` take the shards in their order. Inside the lock
a visit reads and writes one key per step, so a lock that is missing or
released early shows. `RWMutex` keeps Go's rules: a writer that has called
Lock keeps new readers out and waits for those inside; its Unlock lets the
waiting readers in before the next writer. A Resize with a negative capacity is
the call with no keys.

**I64MapFaults.** The same map whose callbacks may misbehave under the lock of
their shard. The one of Upsert or RemoveCb panics after it was given the old
value, and a recover further up, such as RunSafe's, lets the program go on: the
visit is `wedged`, with the write lock held. The one of ForEach reads the map
while a writer waits for the same shard: RWMutex lets no new reader in, the
writer waits for the old one, and the visit is wedged with the read lock held.
One that writes to its shard is both, the reader and the writer that it waits
for. A goroutine that goes on after the recover is another one of the model:
a Go mutex does not know who locked it. `callsOf` says which calls each goroutine makes,
so that one can keep to the shards that no callback holds. Every other step is
I64Map's.

**Walks.** Count, Iter, Keys and ForEach go over all shards, the last two and
strmap's Iter with a goroutine per shard. Here the shards are their keys only
(I64Map and StrMap show that a call on one key is one critical section), and
the channels are in full: the channel of each shard that snapshot makes, what
the goroutine of fanIn has in its hand, the channel the caller reads, with
capacity, buffer and whether it is closed; the wait groups by how many have
called Done. The caller of Iter may stop reading at any time. `size` is what
NewWithOptions was asked for, against the constant the other methods use:
indexing a missing shard or channel, a send on a closed channel and a negative
wait group set `panic`.

**StrMap.** The same shards and visits. `Set` does not read the old value and
is the call "MSet" of one key; GetOrSet is "SetIfAbsent" with another result;
only Count takes the shards in order. `batch[a]` is the MSet or MGet of client
`a`; for each key it starts a goroutine `Worker(a, k)`, a goroutine of I64Map
that calls Set or Get; `wg[a]` is the WaitGroup, by key.

**Bitmap.** A byte is the set of its bits that are 1; Set and Clear load the
byte in one step and store it in the next. MSet is the code as it is, with Set
inside it waiting for the mutex that MSet holds.

**Filter, Bloom, Int64Bloom.** Filter has the variables, the hash functions and
the end of a call, which the two filters share. The bitmap is the set of bits that are 1, its Set and
IsSet one step each (the run `bitmap` shows that they may be). In Bloom each
hash is Reset, the load and the store of Write, and Sum32 on one of two shared
hashers. Hash values are integers modulo `modulus`, for the uint32 of the code.
`size` and `k` are constants, the results of `estimateParameters`. AddMany
computes `indexes`, one for each value, and hands them to MSet, which never
returns: `mset` is what it waits with, and no bit of it is ever set.

**Compress.** A buffer is known by the array behind it, since Reset keeps the
array and a caller's slice shares it. A call gets a buffer of its pool or a new
one, writes twice (so that another call can come in between), may move to a
larger array, and on its return puts the buffer back while the caller keeps
the slice. Decompress looks at its data when it begins and when it ends, and
fails if they have changed. The runtime may empty a pool, and an array that no
one refers to may be handed out again. Init and the two reads of Compress are
behind their RWMutex.

**Mongo.** The replica set is the primary's log of the writes to one name, and
how much of it a majority has. A failover cuts the log anywhere beyond that; a
FindOne sees any prefix (SecondaryPreferred) or fails. InitIncrementIDDoc makes
two round trips: a process whose FindOne has found nothing is at `insert`, and
anything may happen before it sends its InsertOne. `causes` remembers what a
FindOne met: a document it missed, another process at `insert`, an InsertOne on
its way, a document that no majority had. A request is in `net`
until the primary applies it, also when its caller has given up in between,
since a client with SetRetryWrites(false) does not know what became of it. An
answer needs a majority. A write holds `next_id` before and after, so that the
ids a caller takes are `from .. from + batch - 1`. With several documents of a
name, FindOneAndUpdate takes any. A secondary that has yet to roll back, and
so shows a write the new primary never had, is left out.

**HashRing.** Each operation holds the ring's lock throughout, so it is one
step. The hashes of the spots are chosen at the start, in every possible way;
sort.Sort leaves spots of equal hash in any order; RemoveNode is the loop that
writes what it keeps into the array it reads, round by round; GetNode is the
binary search, by halving an interval, with the wrap-around. `members` remembers which names should be in the ring.

## Runs

| Run | Shows | Bounds |
|---|---|---|
| stopper | double checks hold; a panic needs two stops; waiters are released; Stopper implements Lifecycle | 3 goroutines, 2 that stop |
| i64map | one-key calls linearizable, batches atomic per shard, keys in their shard, with callbacks that panic or wait; these cost one shard, every other call returns | 3 goroutines, the third with calls on the second shard only, 3 keys on 2 shards, 1 value |
| walks | Iter, Keys and ForEach weakly consistent, Count bounded; no goroutine, lock or change waits for ever; only another number of shards panics | 2 shards by the constant, maps of 1, 2 and 3 (`MaxShards`); `MaxItems` = 2, `MaxChanges` = 2 after the walk began |
| strmap | batches wait for their goroutines and take effect, against Count, Clear and calls on one key | 2 clients with 2 goroutines each, 2 keys on 2 shards |
| bitmap | Bitmap implements AtomicBitmap, padding stays 0, calls return unless MSet blocks itself | 2 goroutines, 9 bits (two bytes), indexes at and beyond both ends |
| bitmap_mset | *violated*: MSet never returns | 2 goroutines |
| bloom | no false negatives for one goroutine | 3 hashes on 2 hashers, 7 bits |
| bloom_shared | *violated*: false negatives with two goroutines | 2 hashes |
| int64_bloom | no false negatives for two goroutines | 4 hashes on 3 base functions, 3 bits |
| compress | a buffer is one call's at a time; returned bytes are sound until their buffer is handed out again | 2 goroutines, 3 arrays, inputs below, at and above the thresholds, `MaxResults` = 2 slices kept |
| mongo | one document hands out no id twice, in order; a second document, or none, has the causes named | 2 processes, `MaxCalls` = 2 writes each, batches -1, 1 and 2, `MaxLog` = 4 |
| hash_ring | GetNode is clockwise; only the keys concerned move | 3 names of 1 or 2 spots, 4 hashes, `MaxAdded` = 3 additions in the ring at a time |

The bounds let the interesting cases happen: an overlap needs two stoppers, and
a third goroutine to watch; a batch atomic per shard but not as a whole needs
two keys on one shard and one on another, and an update lost under it shows by
the old value found, even if there is one value only; a shard lost to a callback,
and no other, needs a goroutine that keeps to the other shard while two meet on
the first; neighbours in a byte and the padding
need nine bits; a hash function that is a multiple of another needs one more
than there are bases; a stale count needs two changes during a walk; a slice
damaged while it is read needs two calls and a third array; an id handed out
again would need an insert, an increment, a failover and a second increment;
four hashes for six spots make ties, and three additions a name that is in the
ring twice beside another. Stopper, the maps, the bitmap and the filters have no
bound on the calls of a goroutine: their state spaces are finite. Symmetry is
used only where no liveness property is checked.

Deadlock is checked except where the program may stop: after a panic (Stopper,
Walks), where MSet waits for itself (Bitmap, Int64Bloom), and where callbacks
keep all shards locked (I64MapFaults); the one walk of Walks ends, too.

**Fairness.** A goroutine that can run is run (weak fairness of its steps); Go
schedules pre-emptively. A mutex for which a goroutine keeps waiting is given
to it at last (strong fairness of Lock), as sync.Mutex hands itself over after
a millisecond of waiting, and sync.RWMutex serialises its writers with one. The
deadline of DoStop passes. Walks takes RLock as strongly fair, because the
Unlock of an RWMutex lets in the readers that wait before the next writer.
Nothing is assumed of clients, which need not call, of the caller of Iter, who
need not read, of callbacks once they are wedged, or of the stop function,
which need not return. Mongo, Compress and HashRing have safety properties
only.

## Findings

Runs that show a disagreement with a comment of the code:

* `bitmap.go:38`: MSet with an index waits for itself. AddMany of the int64
  filter hangs with it, and would else lose all but one index of each value
  (`int64_bloom.go:44`).
* `bloom.go:64`: the filter called thread-safe shares its hashers.

What the conditions in properties that hold say of the code:

* `stopper.go:78`: the `return` under the lock leaves only the function literal,
  so overlapping calls of DoStop both run their stop functions; the first to
  finish closes `stoppedChan` while the other still stops, and the second
  panics. `CrashNeedsTwoStops`: this overlap is the only way to a panic.
* `i64map/map.go:163`: Count lies between the keys that were there all the time
  and those that ever were (`CountBounded`); IsEmpty can be true of a map that
  was never empty.
* `strmap/map.go:29`: with a ShardCount other than 32 calls panic or, when
  snapshot waits for shards that do not exist, never return. The conditions
  `Default` of the properties of Walks are there for this.
* `i64map/map.go:129` and `:400`: a callback that panics, or that reads the map
  beside a waiting writer, keeps its shard for ever (`DamageContained`).
* `compress.go:114`, `:133`: the bytes returned can be overwritten by a later
  call, without fault of the caller (`atRisk` in DamagedByReuse and RoundTrip).
* `mongo.go:80`: two documents of a name, and so the same ids twice, after a
  FindOne that was behind, or that came after another FindOne had found nothing
  and before its insert had arrived, be that sent or not, and also when its call
  has failed in between; and no document at all after one that found a write later rolled
  back. A unique index on `name` would exclude the first.

## Proofs

Constants are arbitrary, but for the assumptions next to their declarations:
finitely many keys, at least one shard, integer batches, `Absent` not a value,
`NoProc` not a goroutine, total callbacks, goroutines that make known calls, goroutines of batches distinct from
clients, a bitmap that is not empty, a hash space that is not empty, at least
one spot by default. `Procs` and the names of a ring may be infinite.

* **StopperProofs**: `TypeCorrect`, `DoubleCheckWorks`, `PanicNeedsOverlap`,
  `FlagsAreSafeToRead`, `ImplementsLifecycle` (the safety part). The invariant
  adds to the properties who holds which mutex at which `pc` (`LockInv`), that
  channel and flag differ only while the holder is between close and store
  (`StoppingInv`, `TriggerInv`), and that whoever closed `stoppedChan` had
  started a stop function and has left DoStop for good (`StoppedInv`).
* **MapProofs**, I64Map: `TypeCorrect` and `KeysInTheirShard`. `IInv` is the
  type, `LockInv` (the RWMutex agrees with the visits), `VisitInv` (a visit
  belongs to a call whose kind suits the lock, and has touched keys only inside
  it), `ReadInv` (what a visit has read is still in the shard until it writes),
  and `Placement`. ReadInv is what the read-modify-write calls rest on.
  `Linearizable` is the refinement of AtomicMap. A visit that writes takes
  effect with its first store, and the keys it has yet to write count as
  written (`contentMap`); one that reads takes effect with its last lookup,
  which ReadInv makes as good as all of them at once. Each action maps to
  AtomicMap's Invoke, Act or Return, or to no step.
* **MapProofs**, I64MapFaults: `FaultyPlacement` and `FaultyLinearizable`. A
  callback that never comes back leaves the variables of I64Map alone, so every
  behaviour with faults is one of I64Map, and its theorems hold.
* **MapProofs**, StrMap: a step of StrMap is a step of I64Map or leaves it
  alone, so `StrLinearizable` follows from `Linearizable`. `BatchesWait` and
  `BatchesTakeEffect` need `WorkerInv` (exactly the goroutines in `wg` are in
  their calls) and `PastInv` (what they have read or stored is in the history
  of the batch).
* **WalksProofs**: `TypeCorrect`, `WalksWeaklyConsistent`, `CountIsBounded`,
  `FanInHasRoom`, `NoPanics`. The invariant says which call may be at which
  stage and what a closed channel means (`ControlInv`), that a goroutine that
  sends holds the read lock of a shard which still has all it is going to send
  (`ShardInv`), that channels are made, closed and drained with their goroutines
  and that Iter knows all capacities before it sums them up (`ChanInv`); that
  all tuples on their way have been in the map (`SeenInv`) and no key that
  stayed is lost between its shard and the caller (`MissedInv`); and that the
  count lies between the keys that stayed and those seen, in the shards visited
  so far (`CountInv`). FanInHasRoom rests on `FlightInv`: no key is twice on its
  way, and the keys of a shard that are, are no more than its channel has
  places. An injection of these keys into the places (`RoomForAll`) gives the
  room; another one, of places into keys (`TotalBound`), gives the type of the
  capacity. The sum of the capacities is written as the number of the places,
  not as a fold, which the provers can not unfold.
* **BitmapProofs**: `TypeCorrect`, `PaddingStaysClear`, `Linearizable`. The
  invariant says who is inside the mutex at which `pc` (`MutexInv`), what a call
  has left to do there (`CallInv`), when it has a result (`ResultInv`), that a
  loaded byte is still the one in the bitmap when it is stored (`ByteInv`), and
  that Count has counted exactly the bits below the byte it is at
  (`CountInv`), which takes a bijection between the bits of a byte and the
  indexes they stand for. A call takes effect with its load, its store or, for
  Count, its last byte.
* **FilterProofs**: for BloomFilter `BloomTypeCorrect`, with any goroutines, and
  `CompleteAlone`, with one. The steps of a hash function lead from `offset` over
  the mixed state to the position (`HasherInv`), which holds only as long as no
  other goroutine uses the hasher; the run bloom_shared shows what happens else.
  For Int64BloomFilter `Int64TypeCorrect` and `Int64Complete`, with any
  goroutines: bits are never cleared, so the positions an Add has set stay set,
  and a Contains that began after it can only have met them.
* **CompressProofs**: `BuffersExclusive`, `SoundUntilReuse`, `RoundTripHolds`,
  `PairedThresholds`. Besides the properties the invariant has what a goroutine
  holds at each `pc` (`CallInv`), that every slice whose array is in use again
  is at risk (`RiskInv`), that a call about to return has its whole output in
  its buffer (`OutputInv`), what Decompress has read while its data were not at
  risk (`SourceInv`), and that no Init comes between the two reads of Compress
  (`ThresholdInv`). Where the pool takes memory that no one has (`Free`), the
  proof shows that sweeping it changes nothing a call or a caller sees.
* **MongoProofs**: `TypeCorrect`, `IdsUnique`, `IdsInOrder`, `SecondDocument`,
  `ReadyHasDocument`. The invariant says that the writes to one document go on
  from each other (`Chained`), that a request on its way is new to the log
  (`Fresh`), that what was issued is in the majority's part, which no failover
  cuts (`Kept`), and that the write of a call comes after all that had been
  issued when it began (`Later`); that without a stale or concurrent FindOne there
  is one insert at a time, sent or about to be, and only while the log is empty
  (`Single`); and that the document relied on is
  with a majority (`Relied`).
* **HashRingProofs**: `FindsNextClockwise`, `AddMovesToAdded`,
  `RemoveMovesFromRemoved`. The loops of the ring are recursive functions, so
  the proof first says what they compute. The library's induction takes an
  operator as a parameter, which the provers can not instantiate; instead
  `NoLeastBad` says that a set of rounds without a least element is empty
  (from WFMin of WellFoundedInduction), and is used with the set of rounds in
  which the claim fails. `RecursionExists` and `SearchExists` show, in the same
  way, that the recursive definitions have a solution at all. From these come
  three contracts: `SortsContract` (the same spots, in order), `FilteredContract`
  (exactly the spots of the other names, in their order, because the loop never
  writes ahead of where it reads) and `SearchContract` (the first spot at or
  beyond the target). The invariant `RingInv` says that the ring is sorted, has
  only spots of members (`Sound`) and all of them (`Complete`). `Around` and
  `PlaceNearest` turn the order of the hashes into distances modulo the hash
  space, so that the place the search finds, or the first after the wrap, is the
  nearest; and since the filter keeps the order, a spot that stays and was found
  is found again, even among equal hashes (`PlaceUnique`).

Left to TLC: all liveness (`WaitersReleased`, `DamageContained`, `WalkEnds`,
`ChangesGetIn`, `ReturnsUnlessBlocked`, the fairness of Lifecycle), which the
prover does not reach. Every safety invariant and action property that a passing
run checks is stated by a theorem.

## Not modelled

PROJECT.json lists each package with the reason. Of the packages modelled:
the floating point of `estimateParameters`, the bytes that zlib and the JSON
encoder write, the overflow of an int64 id, and a stop function that panics,
which ends the program. The packages left out keep no state between calls:
`id`, `time`, `camelcase`, `rand` and `ip` are functions of their arguments,
which a table of values tests as well, and `security/*` and `data/cache` wrap
libraries whose behaviour is not in this repository. `sync/countdown.go` is one
value behind an RWMutex.

## Plan

1. Two walks at once, to see that they share nothing but locks.
2. Pure functions against reference definitions: CombineZoneId and SplitId, the
   next daily, weekly and monthly times, AES padding.
