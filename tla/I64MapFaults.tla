----------------------------- MODULE I64MapFaults -----------------------------
(***************************************************************************)
(* i64map.ConcurrentMap with client callbacks that misbehave.  They run    *)
(* under the lock of a shard, and no unlock of the map is deferred: a      *)
(* visit whose callback never comes back keeps its shard for ever.  Every  *)
(* step is one of I64Map, or leaves its variables alone.                   *)
(***************************************************************************)
EXTENDS I64Map

CONSTANT callsOf  \* the calls that each goroutine makes

ASSUME CallsOfAssumption == callsOf \in [Procs -> SUBSET Calls]

VARIABLE wedged  \* the visits, goroutine and shard, that never go on

FaultInit == Init /\ wedged = {}

\* The callback of Upsert or RemoveCb panics: the call unwinds past the unlock,
\* up to a recover such as RunSafe's, and never gets to store or to unlock.  What
\* the goroutine calls after that is as good as called by another, since a Go
\* mutex does not know who locked it.  A callback that itself calls the map for a
\* key of its shard, and waits for itself, leaves the same behind.
CallbackPanics(p, s) ==
  /\ Inside(p, s)
  /\ call[p].op \in {"Upsert", "RemoveCb"}
  /\ toRead[p][s] = {} /\ toWrite[p][s] # {}
  /\ wedged' = wedged \cup {<<p, s>>}
  /\ UNCHANGED vars

\* The function given to ForEach calls the map for a key of the shard it is called
\* under, after a writer has called Lock: to read, it waits for the writer, which
\* waits for it.  To write, it is the writer, in a goroutine of its own here.  With
\* no writer there, the nested RLock and RUnlock change nothing.
CallbackWaits(p, s) ==
  /\ Inside(p, s)
  /\ call[p].op = "ForEach"
  /\ toRead[p][s] # {}
  /\ lock[s].writer # NoProc
  /\ wedged' = wedged \cup {<<p, s>>}
  /\ UNCHANGED vars

\* The visits that are not stuck go on as in I64Map.
GoesOn(p, s) ==
  /\ <<p, s>> \notin wedged
  /\ RLock(p, s) \/ SectionStep(p, s)
  /\ UNCHANGED wedged

FaultNext ==
  \E p \in Procs :
    \/ \E c \in callsOf[p] : Invoke(p, c) /\ UNCHANGED wedged
    \/ \E s \in Shards :
         \/ GoesOn(p, s)
         \/ Lock(p, s) /\ UNCHANGED wedged
         \/ <<p, s>> \notin wedged /\ (CallbackPanics(p, s) \/ CallbackWaits(p, s))
    \/ Return(p) /\ UNCHANGED wedged

faultVars == <<vars, wedged>>

FaultSafeSpec == FaultInit /\ [][FaultNext]_faultVars

(***************************************************************************)
(* A runnable goroutine runs on; a client need never call.  Lock is        *)
(* strongly fair because a sync.Mutex hands itself to a writer that has    *)
(* waited long (its starvation mode), however busy the shard is.           *)
(***************************************************************************)
FaultSpec ==
  /\ FaultSafeSpec
  /\ \A p \in Procs :
       /\ WF_faultVars(Return(p) /\ UNCHANGED wedged)
       /\ \A s \in Shards :
            /\ WF_faultVars(GoesOn(p, s))
            /\ SF_faultVars(Lock(p, s) /\ UNCHANGED wedged)

-----------------------------------------------------------------------------
(* Properties                                                              *)

\* A callback that never comes back costs the map one shard and no more: a
\* call returns unless it needs a shard that such a callback keeps, however
\* the others wait for each other.  With callbacks that return, every call
\* does: no path leaves a shard locked and no reader or writer starves.
DamageContained ==
  \A p \in Procs :
    (call[p] # NoCall) ~>
      \/ call[p] = NoCall
      \/ \E q \in Procs, s \in Visits(call[p]) : <<q, s>> \in wedged
=============================================================================
