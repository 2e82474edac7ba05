------------------------------- MODULE StrMap -------------------------------
(***************************************************************************)
(* strmap.ConcurrentMap (src/concurrentmap/strmap/map.go) with the default *)
(* number of shards.  Its shards and the visits to them are those of       *)
(* I64Map, with these differences: Set does not read the old value (it is  *)
(* the call "MSet" of one key), GetOrSet is "SetIfAbsent" with the value   *)
(* found for its result, Clear and the snapshot of Iter visit all shards   *)
(* at once, and MSet and MGet start a goroutine for every key, which calls *)
(* Set or Get, and wait for all of them.                                   *)
(***************************************************************************)
EXTENDS I64Map

CONSTANTS
  Clients,  \* the goroutines of the program
  Batches,  \* the calls of MSet and MGet they make
  NoBatch

\* The goroutine that client a starts for key k.
Worker(a, k) == <<a, k>>

\* What it calls: Set(key, value) or Get(key).
WorkerCall(b, k) ==
  [op |-> IF b.op = "MSet" THEN "MSet" ELSE "Get", keys |-> {k},
   data |-> [j \in Keys |-> IF j = k THEN b.data[k] ELSE Absent]]

ASSUME StrMapAssumption ==
  /\ Procs = Clients \cup {Worker(a, k) : a \in Clients, k \in Keys}
  /\ \A a \in Clients, k \in Keys : Worker(a, k) \notin Clients
  /\ Batches \subseteq {c \in CallType : c.op \in {"MSet", "MGet"}}
  /\ \A b \in Batches : \A k \in b.keys : WorkerCall(b, k) \in Calls
  /\ NoBatch \notin Batches

VARIABLES
  batch,    \* the MSet or MGet each client is in
  toSpawn,  \* the keys it has still to start a goroutine for
  wg,       \* the keys whose goroutine it waits for
  result,   \* the map MGet returns
  past      \* history: what each key has held since the batch began

batchVars == <<batch, toSpawn, wg, result>>
strVars == <<vars, batchVars, past>>

BatchTypeOK ==
  /\ TypeOK
  /\ batch \in [Clients -> Batches \cup {NoBatch}]
  /\ toSpawn \in [Clients -> SUBSET Keys]
  /\ wg \in [Clients -> SUBSET Keys]
  /\ result \in [Clients -> [Keys -> MaybeValues]]
  /\ past \in [Clients -> [Keys -> SUBSET MaybeValues]]

\* A bug: MGet does not make the map it returns.
StrInitNoResult ==
  /\ Init
  /\ batch = [a \in Clients |-> NoBatch]
  /\ toSpawn = [a \in Clients |-> {}]
  /\ wg = [a \in Clients |-> {}]
  /\ result = [a \in Clients |-> [k \in {} |-> Absent]]
  /\ past = [a \in Clients |-> [k \in Keys |-> {}]]

StrInit ==
  /\ Init
  /\ batch = [a \in Clients |-> NoBatch]
  /\ toSpawn = [a \in Clients |-> {}]
  /\ wg = [a \in Clients |-> {}]
  /\ result = [a \in Clients |-> NoData]
  /\ past = [a \in Clients |-> [k \in Keys |-> {}]]

-----------------------------------------------------------------------------
\* A call on one key, Count, Items or Clear, made by the client itself.
StrInvoke(a, c) ==
  /\ batch[a] = NoBatch
  /\ Invoke(a, c)
  /\ UNCHANGED batchVars

\* MSet and MGet begin.
BatchInvoke(a, b) ==
  /\ call[a] = NoCall
  /\ batch[a] = NoBatch
  /\ batch' = [batch EXCEPT ![a] = b]
  /\ toSpawn' = [toSpawn EXCEPT ![a] = b.keys]
  /\ UNCHANGED <<vars, wg, result>>

\* A bug: the goroutines capture the loop variable instead of taking the key.
SpawnCaptures(a, k) ==
  /\ k \in toSpawn[a]
  /\ toSpawn' = [toSpawn EXCEPT ![a] = @ \ {k}]
  /\ wg' = [wg EXCEPT ![a] = @ \cup {k}]
  /\ \E last \in batch[a].keys : Invoke(Worker(a, k), WorkerCall(batch[a], last))
  /\ UNCHANGED <<batch, result>>

\* wg.Add(1), and the goroutine for key k calls Set or Get.
Spawn(a, k) ==
  /\ k \in toSpawn[a]
  /\ toSpawn' = [toSpawn EXCEPT ![a] = @ \ {k}]
  /\ wg' = [wg EXCEPT ![a] = @ \cup {k}]
  /\ Invoke(Worker(a, k), WorkerCall(batch[a], k))
  /\ UNCHANGED <<batch, result>>

\* The goroutine puts what Get found in the result, behind the mutex, and
\* calls wg.Done().
WorkerDone(a, k) ==
  /\ Return(Worker(a, k))
  /\ result' = [result EXCEPT ![a][k] =
                  IF call[Worker(a, k)].op = "Get"
                    THEN got[Worker(a, k)][k] ELSE @]
  /\ wg' = [wg EXCEPT ![a] = @ \ {k}]
  /\ UNCHANGED <<batch, toSpawn>>

\* A bug: wg.Wait() is forgotten.
WaitNot(a) ==
  /\ batch[a] # NoBatch
  /\ toSpawn[a] = {}
  /\ batch' = [batch EXCEPT ![a] = NoBatch]
  /\ result' = [result EXCEPT ![a] = NoData]
  /\ UNCHANGED <<vars, toSpawn, wg>>

\* wg.Wait() returns, and MSet or MGet with it.
Wait(a) ==
  /\ batch[a] # NoBatch
  /\ toSpawn[a] = {} /\ wg[a] = {}
  /\ batch' = [batch EXCEPT ![a] = NoBatch]
  /\ result' = [result EXCEPT ![a] = NoData]
  /\ UNCHANGED <<vars, toSpawn, wg>>

StrReturn(a) == Return(a) /\ UNCHANGED batchVars

\* A visit to a shard goes on, as in I64Map.
VisitStep(p, s) ==
  /\ RLock(p, s) \/ Lock(p, s) \/ SectionStep(p, s)
  /\ UNCHANGED batchVars

StrStep ==
  \/ \E a \in Clients :
       \/ \E c \in Calls : StrInvoke(a, c)
       \/ \E b \in Batches : BatchInvoke(a, b)
       \/ \E k \in Keys : Spawn(a, k) \/ WorkerDone(a, k)
       \/ Wait(a) \/ StrReturn(a)
  \/ \E p \in Procs, s \in Shards : VisitStep(p, s)

\* A step, and what it adds to the history of the batches in progress.
StrNext ==
  /\ StrStep
  /\ past' = [a \in Clients |-> [k \in Keys |->
                IF batch'[a] = NoBatch THEN {}
                ELSE past[a][k] \cup {items'[getShard(k)][k]}]]

StrSpec == StrInit /\ [][StrNext]_strVars

-----------------------------------------------------------------------------
(* Properties                                                              *)

\* MSet and MGet leave no goroutine behind: once they have returned, none of
\* theirs will still change the map, or the result that the client now owns.
NoStragglers ==
  \A a \in Clients : batch[a] = NoBatch =>
    \A k \in Keys : call[Worker(a, k)] = NoCall

\* What the client has when MSet or MGet returns: every value of MSet has been
\* in the map during the call, and MGet has for every key a value, or the
\* absence, that was the key's at some instant of the call, although another
\* client or Clear may have changed the key since.
BatchEffective ==
  \A a \in Clients : batch[a] # NoBatch /\ toSpawn[a] = {} /\ wg[a] = {} =>
    \A k \in batch[a].keys :
      (IF batch[a].op = "MSet" THEN batch[a].data[k] ELSE result[a][k]) \in past[a][k]
=============================================================================
