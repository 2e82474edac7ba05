-------------------------------- MODULE Mongo --------------------------------
(***************************************************************************)
(* The increment ids of src/data/db/mongo.go: a document per name, with    *)
(* the next id, made by InitIncrementIDDoc and advanced by                 *)
(* IncrementBatchID, on a replica set with the client options of NewMongo: *)
(* majority writes, no retries, reads of a secondary.                      *)
(*                                                                         *)
(* The replica set is the primary's log of the writes to one name and how  *)
(* much of it a majority has.  A new primary may lack what a majority does *)
(* not have, a secondary any suffix.  A request travels: its caller can be *)
(* gone by the time it arrives.                                            *)
(***************************************************************************)
EXTENDS Integers, FiniteSets, Sequences

CONSTANTS
  Procs,     \* the client processes, with one call each at a time
  Batches,   \* the batches asked for
  MaxCalls,  \* bound on the calls of a process
  MaxLog     \* bound on the writes

ASSUME MongoAssumption == Batches \subseteq Int /\ MaxCalls \in Nat /\ MaxLog \in Nat

VARIABLES
  log,       \* the writes: document, next_id before and after, request
  majority,  \* how many of them a majority has
  net,       \* the requests on their way; a batch of 0 stands for InsertOne
  pc,        \* down (no connection), idle, insert (FindOne has found nothing, InsertOne
             \* is yet to be sent) or wait (for the answer to a write)
  calls,     \* how many writes the process has sent
  ready,     \* whether a call of InitIncrementIDDoc has returned nil
  issued,    \* history: the writes whose pre-image was returned to a caller
  before,    \* history: what had been issued when the call of a process began
  causes     \* history: what FindOne has been exposed to

vars == <<log, majority, net, pc, calls, ready, issued, before, causes>>

Requests == [by : Procs, call : 1..MaxCalls, batch : {0} \cup {b \in Batches : b > 0}]
Documents == Procs \X (1..MaxCalls)
Writes == [doc : Documents, from : Nat, to : Nat, by : Procs, call : 1..MaxCalls, batch : Nat]

TypeOK ==
  /\ log \in Seq(Writes) /\ majority \in 0..Len(log)
  /\ net \subseteq Requests
  /\ pc \in [Procs -> {"down", "idle", "insert", "wait"}]
  /\ calls \in [Procs -> 0..MaxCalls]
  /\ ready \in BOOLEAN
  /\ issued \subseteq Writes
  /\ before \in [Procs -> SUBSET issued]
  /\ causes \subseteq {"stale", "unsent", "inflight", "uncommitted"}

Init ==
  /\ log = << >> /\ majority = 0
  /\ net = {}
  /\ pc = [p \in Procs |-> "down"]
  /\ calls = [p \in Procs |-> 0]
  /\ ready = FALSE
  /\ issued = {} /\ before = [p \in Procs |-> {}] /\ causes = {}

Goto(p, from, to) == pc[p] = from /\ pc' = [pc EXCEPT ![p] = to]

\* The documents that the first n writes have made.
DocsOf(n) == {log[i].doc : i \in 1..n}

-----------------------------------------------------------------------------
(* The clients                                                             *)

\* NewMongo; a connection or a ping that fails leaves the process without one.
Connect(p) ==
  /\ Goto(p, "down", "idle")
  /\ UNCHANGED <<log, majority, net, calls, ready, issued, before, causes>>

\* cleanup, and the end of a process between two calls.
Disconnect(p) ==
  /\ Goto(p, "idle", "down")
  /\ UNCHANGED <<log, majority, net, calls, ready, issued, before, causes>>

\* A write is sent; its caller waits for the answer.
Request(p, from, b) ==
  /\ calls[p] < MaxCalls
  /\ Goto(p, from, "wait")
  /\ calls' = [calls EXCEPT ![p] = @ + 1]
  /\ net' = net \cup {[by |-> p, call |-> calls'[p], batch |-> b]}

\* A bug: any batch is accepted.
AcceptsAny(batch) == TRUE

\* A batch of 0 or less is refused.
Accepts(batch) == batch > 0

\* IncrementID (batch 1) and IncrementBatchID.
IncrementBatchID(p, batch) ==
  /\ Accepts(batch)
  /\ Request(p, "idle", batch)
  /\ before' = [before EXCEPT ![p] = issued]
  /\ UNCHANGED <<log, majority, ready, issued, causes>>

\* A bug: any error of FindOne is taken for ErrNoDocuments.
AnyError(result) == result # "found"

\* errors.Is(err, mongo.ErrNoDocuments).
NoDocuments(result) == result = "none"

\* FindOne, at a member that has the first n writes; it may also fail.
FindOne(n, result) ==
  result \in {IF DocsOf(n) = {} THEN "none" ELSE "found", "error"}

\* What a FindOne that saw n writes has been exposed to: it missed a document,
\* another call has found nothing and not sent its InsertOne, an InsertOne is on its
\* way, or the document it found is not with a majority.
Exposed(n, result) ==
  {c \in {"stale", "unsent", "inflight", "uncommitted"} :
     CASE c = "stale"       -> result = "none" /\ DocsOf(Len(log)) # {}
       [] c = "unsent"      -> result = "none" /\ \E q \in Procs : pc[q] = "insert"
       [] c = "inflight"    -> result = "none" /\ \E r \in net : r.batch = 0
       [] c = "uncommitted" -> result = "found" /\ DocsOf(majority) = {}}

\* InitIncrementIDDoc finds the document, or fails, or is to insert one.
InitIncrementIDDoc(p) ==
  \E n \in 0..Len(log), result \in {"none", "found", "error"} :
    /\ FindOne(n, result)
    /\ Goto(p, "idle", IF NoDocuments(result) THEN "insert" ELSE "idle")
    /\ ready' = (ready \/ result = "found")
    /\ causes' = causes \cup Exposed(n, result)
    /\ UNCHANGED <<log, majority, net, calls, issued, before>>

\* It goes on to InsertOne, a round trip of its own: what FindOne saw may be no
\* longer so.
InsertOne(p) ==
  /\ Request(p, "insert", 0)
  /\ UNCHANGED <<log, majority, ready, issued, before, causes>>

\* A bug: a write is acknowledged once the primary has it.
AcknowledgedByOne == 1..Len(log)

\* writeconcern.Majority().
Acknowledged == 1..majority

\* A write is answered: InsertOne with nil, FindOneAndUpdate with the pre-image.
Return(p) ==
  /\ Goto(p, "wait", "idle")
  /\ \E i \in Acknowledged :
       /\ log[i].by = p /\ log[i].call = calls[p]
       /\ LET inserted == log[i].doc = <<p, calls[p]>>
          IN  /\ ready' = (ready \/ inserted)
              /\ issued' = IF inserted THEN issued ELSE issued \cup {log[i]}
  /\ before' = [before EXCEPT ![p] = {}]
  /\ UNCHANGED <<log, majority, net, calls, causes>>

\* An error: the context is done, the connection or the primary is lost, or there
\* is no document.  The write may have been applied, or may still be, or was never
\* sent.
Fail(p) ==
  /\ Goto(p, "insert", "idle") \/ Goto(p, "wait", "idle")
  /\ before' = [before EXCEPT ![p] = {}]
  /\ UNCHANGED <<log, majority, net, calls, ready, issued, causes>>

-----------------------------------------------------------------------------
(* The replica set                                                         *)

\* A bug: a call advances the document by one, whatever its batch.
IncrementByOne(from, batch) == from + 1

Increment(from, batch) == from + batch

\* The last write to a document: what the document is now.
Current(i) == \A j \in DOMAIN log : j > i => log[j].doc # log[i].doc

Write(doc, from, to, r) ==
  [doc |-> doc, from |-> from, to |-> to, by |-> r.by, call |-> r.call, batch |-> r.batch]

\* The primary applies a request: InsertOne with NextID 1, or $inc on one document
\* of that name, any one if there are several.
Apply(r) ==
  /\ Len(log) < MaxLog
  /\ net' = net \ {r}
  /\ IF r.batch = 0
       THEN log' = Append(log, Write(<<r.by, r.call>>, 1, 1, r))
       ELSE \/ log = << >> /\ UNCHANGED log
            \/ \E i \in DOMAIN log :
                 /\ Current(i)
                 /\ log' = Append(log, Write(log[i].doc, log[i].to,
                                             Increment(log[i].to, r.batch), r))
  /\ UNCHANGED <<majority, pc, calls, ready, issued, before, causes>>

Replicate ==
  /\ majority < Len(log)
  /\ majority' = majority + 1
  /\ UNCHANGED <<log, net, pc, calls, ready, issued, before, causes>>

\* Another member is primary; it has the first n writes.
Failover(n) ==
  /\ n < Len(log)
  /\ log' = SubSeq(log, 1, n)
  /\ UNCHANGED <<majority, net, pc, calls, ready, issued, before, causes>>

Next ==
  \/ \E p \in Procs :
       \/ Connect(p) \/ Disconnect(p)
       \/ InitIncrementIDDoc(p) \/ InsertOne(p)
       \/ \E b \in Batches : IncrementBatchID(p, b)
       \/ Return(p) \/ Fail(p)
  \/ \E r \in net : Apply(r)
  \/ Replicate
  \/ \E n \in majority..Len(log) : Failover(n)

Spec == Init /\ [][Next]_vars

-----------------------------------------------------------------------------
(* Properties                                                              *)

\* The ids a caller takes from an answer end before this one.
End(r) == r.from + r.batch

\* No id is handed out twice by one document, whatever is lost, late or rolled
\* back: the same id twice takes two documents of one name.
RangesDisjoint ==
  \A r, s \in issued : r # s /\ r.doc = s.doc => End(r) <= s.from \/ End(s) <= r.from

\* The ids a call gets are above all the ids of that document that had been
\* returned when it began, a failover in between or not.
IdsGrow ==
  [][\A p \in Procs : \A r \in issued' \ issued : \A s \in before[p] :
       r.by = p /\ r.doc = s.doc => End(s) <= r.from]_vars

\* There are two documents of one name only if a FindOne missed one that the
\* primary had, or ran between the FindOne of another call and the arrival of its
\* InsertOne, be that call still going on or not: errors, failovers and restarts
\* alone never make a second one.
OneDocument ==
  causes \cap {"stale", "unsent", "inflight"} = {} => Cardinality(DocsOf(Len(log))) <= 1

\* When InitIncrementIDDoc has returned nil there is a document to increment,
\* unless a FindOne took a document for one that no majority had.
ReadyMeansDocument ==
  ready /\ "uncommitted" \notin causes => DocsOf(Len(log)) # {}
=============================================================================
