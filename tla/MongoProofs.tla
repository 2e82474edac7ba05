----------------------------- MODULE MongoProofs -----------------------------
(***************************************************************************)
(* The increment ids, for any number of processes, calls and writes: what  *)
(* a caller was given is in the part of the log that a majority has, and   *)
(* the writes to one document follow each other there.                     *)
(***************************************************************************)
EXTENDS Mongo, FiniteSetTheorems, TLAPS

\* The writes to one document go on from each other.
Chained ==
  /\ \A i \in DOMAIN log : log[i].to = log[i].from + log[i].batch
  /\ \A i, j \in DOMAIN log : i < j /\ log[i].doc = log[j].doc => log[i].to <= log[j].from

\* A request on its way is a new one: the log has no write of it, and no document.
Fresh ==
  /\ \A r \in net : r.call <= calls[r.by]
  /\ \A i \in DOMAIN log : log[i].call <= calls[log[i].by]
  /\ \A i \in DOMAIN log : log[i].doc[2] <= calls[log[i].doc[1]]
  /\ \A r \in net, i \in DOMAIN log : log[i].doc # <<r.by, r.call>>
  /\ \A r, s \in net : r.by = s.by /\ r.call = s.call => r = s

\* What has been issued is never rolled back.
Kept == \A s \in issued : \E i \in 1..majority : log[i] = s

\* The write of a call comes after all that was issued when the call began.
Later ==
  \A p \in Procs : \A s \in before[p], i \in DOMAIN log :
    log[i].by = p /\ log[i].call = calls[p] => \E j \in 1..majority : j < i /\ log[j] = s

\* Without a stale or a concurrent FindOne there is one insert at a time, sent or to
\* be sent, and it is the log's first write.
Alone(l, requests, at) ==
  /\ \A i, j \in DOMAIN l : l[i].doc = l[j].doc
  /\ \A r \in requests : r.batch = 0 => Len(l) = 0
  /\ \A r, s \in requests : r.batch = 0 /\ s.batch = 0 => r = s
  /\ \A q \in Procs : at[q] = "insert" => Len(l) = 0 /\ \A r \in requests : r.batch # 0
  /\ \A p, q \in Procs : at[p] = "insert" /\ at[q] = "insert" => p = q

Single == causes \cap {"stale", "unsent", "inflight"} = {} => Alone(log, net, pc)

\* A document that InitIncrementIDDoc relies on is in the majority's part.
Relied == ready /\ "uncommitted" \notin causes => majority > 0

IInv == TypeOK /\ Chained /\ Fresh /\ Kept /\ Later /\ Single /\ Relied
-----------------------------------------------------------------------------
\* NewMongo has not been called, and there is no write.
LEMMA InitIInv == Init => IInv
<1> SUFFICES ASSUME Init PROVE IInv
    OBVIOUS
<1>1. log = << >>
  BY DEF Init
<1>2. Len(log) = 0 /\ DOMAIN log = {} /\ log \in Seq(Writes)
  BY <1>1
<1>3. TypeOK
  <2>1. majority \in 0..Len(log)
    BY <1>2 DEF Init
  <2>2. calls \in [Procs -> 0..MaxCalls]
    BY MongoAssumption DEF Init
  <2> QED
    BY <1>2, <2>1, <2>2 DEF Init, TypeOK
<1>4. Kept /\ Later /\ Relied
  BY DEF Init, Kept, Later, Relied
<1>5. Chained /\ Fresh
  BY <1>2 DEF Init, Chained, Fresh
<1>6. Single
  <2>1. net = {} /\ \A q \in Procs : pc[q] # "insert"
    BY DEF Init
  <2> QED
    BY <1>2, <2>1 DEF Single, Alone
<1> QED
  BY <1>3, <1>4, <1>5, <1>6 DEF IInv

LEMMA BatchesTyped == \A b \in Batches : b \in Int
BY MongoAssumption

LEMMA RequestsTyped ==
  ASSUME NEW r \in Requests
  PROVE  r.by \in Procs /\ r.call \in Nat /\ r.call \in 1..MaxCalls /\ r.batch \in Nat
<1>1. r.by \in Procs /\ r.call \in 1..MaxCalls
  BY DEF Requests
<1>2. r.batch = 0 \/ (r.batch \in Batches /\ r.batch > 0)
  BY DEF Requests
<1>3. r.batch \in Nat
  BY <1>2, BatchesTyped
<1> QED
  BY <1>1, <1>3, MongoAssumption

LEMMA WritesTyped ==
  ASSUME NEW w \in Writes
  PROVE  /\ w.doc[1] \in Procs /\ w.doc[2] \in Nat /\ w.doc = <<w.doc[1], w.doc[2]>>
         /\ w.from \in Nat /\ w.to \in Nat /\ w.batch \in Nat
         /\ w.by \in Procs /\ w.call \in Nat
<1>1. w.doc \in Documents /\ w.call \in 1..MaxCalls
  BY DEF Writes
<1>2. /\ w.doc[1] \in Procs /\ w.doc[2] \in 1..MaxCalls
      /\ w.doc = <<w.doc[1], w.doc[2]>>
  BY <1>1 DEF Documents
<1>3. w.from \in Nat /\ w.to \in Nat /\ w.batch \in Nat /\ w.by \in Procs
  BY DEF Writes
<1> QED
  BY <1>1, <1>2, <1>3, MongoAssumption

\* The positions of the log.
LEMMA LogTyped ==
  ASSUME TypeOK
  PROVE  /\ Len(log) \in Nat /\ DOMAIN log = 1..Len(log)
         /\ majority \in Nat /\ majority <= Len(log)
         /\ \A i \in DOMAIN log : i \in Nat /\ log[i] \in Writes
         /\ \A i \in 1..majority : i \in DOMAIN log
<1>1. log \in Seq(Writes) /\ majority \in 0..Len(log)
  BY DEF TypeOK
<1>2. Len(log) \in Nat /\ DOMAIN log = 1..Len(log)
  BY <1>1
<1>3. majority \in Nat /\ majority <= Len(log)
  BY <1>1, <1>2
<1>4. \A i \in DOMAIN log : i \in Nat /\ log[i] \in Writes
  BY <1>1, <1>2
<1> QED
  BY <1>2, <1>3, <1>4

-----------------------------------------------------------------------------
\* A request that is sent has a number of its own.
LEMMA RequestFresh ==
  ASSUME IInv, NEW p \in Procs, NEW b \in {0} \cup {c \in Batches : c > 0},
         NEW from, Request(p, from, b), UNCHANGED log
  PROVE  /\ net' \subseteq Requests /\ calls' \in [Procs -> 0..MaxCalls]
         /\ pc' \in [Procs -> {"down", "idle", "insert", "wait"}]
         /\ Fresh'
         /\ \A i \in DOMAIN log : log[i].by = p => log[i].call # calls'[p]
         /\ \A q \in Procs \ {p} : calls'[q] = calls[q]
         /\ \A q \in Procs : pc'[q] = "insert" => q # p /\ pc[q] = "insert"
<1> DEFINE new == [by |-> p, call |-> calls'[p], batch |-> b]
<1>1. TypeOK /\ Fresh
  BY DEF IInv
<1>2. /\ calls \in [Procs -> 0..MaxCalls] /\ net \subseteq Requests
      /\ pc \in [Procs -> {"down", "idle", "insert", "wait"}]
  BY <1>1 DEF TypeOK
<1>3. /\ calls' = [calls EXCEPT ![p] = calls[p] + 1] /\ calls[p] < MaxCalls
      /\ net' = net \cup {new} /\ pc' = [pc EXCEPT ![p] = "wait"]
  BY DEF Request, Goto
<1>4. /\ calls'[p] = calls[p] + 1 /\ calls'[p] \in 1..MaxCalls
      /\ calls' \in [Procs -> 0..MaxCalls]
      /\ \A q \in Procs \ {p} : calls'[q] = calls[q]
      /\ \A q \in Procs : calls[q] \in Nat /\ calls'[q] \in Nat /\ calls[q] <= calls'[q]
  BY <1>2, <1>3, MongoAssumption
<1>5. new \in Requests /\ net' \subseteq Requests
  BY <1>2, <1>3, <1>4 DEF Requests
<1>6. /\ pc' \in [Procs -> {"down", "idle", "insert", "wait"}]
      /\ \A q \in Procs : pc'[q] = "insert" => q # p /\ pc[q] = "insert"
  BY <1>2, <1>3
<1>7. ASSUME NEW r \in net
      PROVE  r.call <= calls'[r.by] /\ (r.by = p => r.call # calls'[p])
  <2>1. r.by \in Procs /\ r.call \in Nat /\ r.call <= calls[r.by]
    BY <1>1, <1>2, RequestsTyped DEF Fresh
  <2> QED
    BY <1>4, <2>1
<1>8. ASSUME NEW i \in DOMAIN log
      PROVE  /\ log[i].call <= calls'[log[i].by] /\ log[i].doc[2] <= calls'[log[i].doc[1]]
             /\ log[i].by = p => log[i].call # calls'[p]
             /\ log[i].doc # <<p, calls'[p]>>
  <2>1. /\ log[i].call <= calls[log[i].by] /\ log[i].doc[2] <= calls[log[i].doc[1]]
        /\ log[i].doc[1] \in Procs /\ log[i].doc[2] \in Nat
        /\ log[i].by \in Procs /\ log[i].call \in Nat
    BY <1>1, LogTyped, WritesTyped DEF Fresh
  <2>2. log[i].doc = <<p, calls'[p]>> => log[i].doc[1] = p /\ log[i].doc[2] = calls'[p]
    OBVIOUS
  <2> QED
    BY <1>4, <2>1, <2>2
<1>9. Fresh'
  <2>1. \A r \in net' : r.call <= calls'[r.by]
    BY <1>3, <1>4, <1>7
  <2>2. \A r \in net', i \in DOMAIN log : log[i].doc # <<r.by, r.call>>
    BY <1>1, <1>3, <1>8 DEF Fresh
  <2>3. \A r, s \in net' : r.by = s.by /\ r.call = s.call => r = s
    BY <1>1, <1>3, <1>7 DEF Fresh
  <2> QED
    BY <1>8, <2>1, <2>2, <2>3 DEF Fresh
<1> QED
  BY <1>4, <1>5, <1>6, <1>8, <1>9

\* IncrementBatchID sends a request of its batch.
LEMMA IncrementIInv ==
  ASSUME IInv, NEW p \in Procs, NEW b \in Batches, IncrementBatchID(p, b)
  PROVE  IInv'
<1>1. /\ b > 0 /\ Request(p, "idle", b) /\ before' = [before EXCEPT ![p] = issued]
      /\ UNCHANGED <<log, majority, ready, issued, causes>>
  BY DEF IncrementBatchID, Accepts
<1>2. /\ TypeOK /\ Chained /\ Kept /\ Later /\ Single /\ Relied
  BY DEF IInv
<1>3. /\ net' \subseteq Requests /\ calls' \in [Procs -> 0..MaxCalls]
      /\ pc' \in [Procs -> {"down", "idle", "insert", "wait"}] /\ Fresh'
      /\ \A i \in DOMAIN log : log[i].by = p => log[i].call # calls'[p]
      /\ \A q \in Procs \ {p} : calls'[q] = calls[q]
      /\ \A q \in Procs : pc'[q] = "insert" => pc[q] = "insert"
  BY <1>1, RequestFresh
<1>4. before' \in [Procs -> SUBSET issued]
  BY <1>1, <1>2 DEF TypeOK
<1>5. TypeOK'
  BY <1>1, <1>2, <1>3, <1>4 DEF TypeOK
<1>6. Chained' /\ Kept' /\ Relied'
  BY <1>1, <1>2 DEF Chained, Kept, Relied
<1>7. Later'
  <2> SUFFICES ASSUME NEW q \in Procs, NEW s \in before'[q], NEW i \in DOMAIN log,
                      log[i].by = q, log[i].call = calls'[q]
               PROVE  \E j \in 1..majority : j < i /\ log[j] = s
    BY <1>1 DEF Later
  <2>1. q # p
    BY <1>3
  <2>2. calls'[q] = calls[q] /\ s \in before[q]
    BY <1>1, <1>2, <1>3, <2>1 DEF TypeOK
  <2> QED
    BY <1>2, <2>2 DEF Later
<1>8. Single'
  <2>1. net' = net \cup {[by |-> p, call |-> calls'[p], batch |-> b]} /\ b # 0
    BY <1>1, BatchesTyped DEF Request
  <2>2. \A r \in net' : r.batch = 0 => r \in net
    BY <2>1
  <2>3. Alone(log, net, pc) => Alone(log, net', pc')
    BY <1>3, <2>2 DEF Alone
  <2> QED
    BY <1>1, <1>2, <2>3 DEF Single
<1> QED
  BY <1>3, <1>5, <1>6, <1>7, <1>8 DEF IInv

\* No write has made a document when there is no write.
LEMMA NoDocs ==
  ASSUME TypeOK, NEW n \in 0..Len(log)
  PROVE  DocsOf(n) = {} <=> n = 0
<1>1. n \in Nat
  BY LogTyped
<1>2. n > 0 => log[1].doc \in DocsOf(n)
  BY <1>1 DEF DocsOf
<1>3. n = 0 => DocsOf(n) = {}
  BY DEF DocsOf
<1> QED
  BY <1>1, <1>2, <1>3

\* InitIncrementIDDoc goes on to insert a document when it has seen none.
LEMMA InitDocIInv ==
  ASSUME IInv, NEW p \in Procs, InitIncrementIDDoc(p)
  PROVE  IInv'
<1>1. PICK n \in 0..Len(log), result \in {"none", "found", "error"} :
        /\ FindOne(n, result)
        /\ Goto(p, "idle", IF NoDocuments(result) THEN "insert" ELSE "idle")
        /\ ready' = (ready \/ result = "found")
        /\ causes' = causes \cup Exposed(n, result)
        /\ UNCHANGED <<log, majority, net, calls, issued, before>>
  BY DEF InitIncrementIDDoc
<1>2. /\ TypeOK /\ Chained /\ Fresh /\ Kept /\ Later /\ Single /\ Relied
  BY DEF IInv
<1>3. /\ Len(log) \in Nat /\ majority \in 0..Len(log) /\ Len(log) \in 0..Len(log)
  BY <1>2, LogTyped
<1>4. causes' \subseteq {"stale", "unsent", "inflight", "uncommitted"}
  BY <1>1, <1>2 DEF TypeOK, Exposed
<1>5. Chained' /\ Kept' /\ Fresh' /\ Later'
  BY <1>1, <1>2 DEF Chained, Kept, Fresh, Later
<1>6. /\ pc' \in [Procs -> {"down", "idle", "insert", "wait"}]
      /\ \A q \in Procs : pc'[q] = "insert" =>
           pc[q] = "insert" \/ (q = p /\ NoDocuments(result))
  BY <1>1, <1>2 DEF Goto, TypeOK
<1>7. TypeOK'
  <2>1. ready' \in BOOLEAN
    BY <1>1
  <2> QED
    BY <1>1, <1>2, <1>4, <1>6, <2>1 DEF TypeOK
<1>8. Single'
  <2> SUFFICES ASSUME causes' \cap {"stale", "unsent", "inflight"} = {}
               PROVE  Alone(log, net, pc')
    BY <1>1 DEF Single
  <2>1. /\ causes \cap {"stale", "unsent", "inflight"} = {}
        /\ "stale" \notin Exposed(n, result) /\ "unsent" \notin Exposed(n, result)
        /\ "inflight" \notin Exposed(n, result)
    BY <1>1
  <2>2. Alone(log, net, pc)
    BY <1>2, <2>1 DEF Single
  <2>3. CASE NoDocuments(result)
    <3>1. /\ DocsOf(Len(log)) = {} /\ \A r \in net : r.batch # 0
          /\ \A q \in Procs : pc[q] # "insert"
      BY <2>1, <2>3 DEF Exposed, NoDocuments
    <3>2. Len(log) = 0
      BY <1>2, <1>3, <3>1, NoDocs
    <3> QED
      BY <1>6, <2>2, <3>1, <3>2 DEF Alone
  <2>4. CASE ~NoDocuments(result)
    BY <1>6, <2>2, <2>4 DEF Alone
  <2> QED
    BY <2>3, <2>4
<1>9. Relied'
  <2> SUFFICES ASSUME ready', "uncommitted" \notin causes'
               PROVE  majority > 0
    BY <1>1 DEF Relied
  <2>1. CASE ready
    BY <1>1, <1>2, <2>1 DEF Relied
  <2>2. CASE result = "found"
    <3>1. DocsOf(majority) # {}
      BY <1>1, <2>2 DEF Exposed
    <3> QED
      BY <1>2, <1>3, <3>1, NoDocs
  <2> QED
    BY <1>1, <2>1, <2>2
<1> QED
  BY <1>5, <1>7, <1>8, <1>9 DEF IInv

\* The InsertOne that was to be sent is on its way.
LEMMA InsertIInv ==
  ASSUME IInv, NEW p \in Procs, InsertOne(p)
  PROVE  IInv'
<1>1. Request(p, "insert", 0) /\ UNCHANGED <<log, majority, ready, issued, before, causes>>
  BY DEF InsertOne
<1>2. /\ TypeOK /\ Chained /\ Kept /\ Later /\ Single /\ Relied
  BY DEF IInv
<1>3. /\ net' \subseteq Requests /\ calls' \in [Procs -> 0..MaxCalls]
      /\ pc' \in [Procs -> {"down", "idle", "insert", "wait"}] /\ Fresh'
      /\ \A i \in DOMAIN log : log[i].by = p => log[i].call # calls'[p]
      /\ \A q \in Procs \ {p} : calls'[q] = calls[q]
      /\ \A q \in Procs : pc'[q] = "insert" => q # p /\ pc[q] = "insert"
  BY <1>1, RequestFresh
<1>4. TypeOK'
  BY <1>1, <1>2, <1>3 DEF TypeOK
<1>5. Chained' /\ Kept' /\ Relied'
  BY <1>1, <1>2 DEF Chained, Kept, Relied
<1>6. Later'
  <2> SUFFICES ASSUME NEW q \in Procs, NEW s \in before[q], NEW i \in DOMAIN log,
                      log[i].by = q, log[i].call = calls'[q]
               PROVE  \E j \in 1..majority : j < i /\ log[j] = s
    BY <1>1 DEF Later
  <2>1. calls'[q] = calls[q]
    BY <1>3
  <2> QED
    BY <1>2, <2>1 DEF Later
<1>7. Single'
  <2>1. /\ net' = net \cup {[by |-> p, call |-> calls'[p], batch |-> 0]}
        /\ pc[p] = "insert"
    BY <1>1 DEF Request, Goto
  <2>2. Alone(log, net, pc) => Alone(log, net', pc')
    <3> SUFFICES ASSUME Alone(log, net, pc) PROVE Alone(log, net', pc')
      OBVIOUS
    <3>1. Len(log) = 0 /\ \A r \in net : r.batch # 0
      BY <2>1 DEF Alone
    <3>2. \A q \in Procs : pc'[q] # "insert"
      BY <1>3, <2>1 DEF Alone
    <3> QED
      BY <2>1, <3>1, <3>2 DEF Alone
  <2> QED
    BY <1>1, <1>2, <2>2 DEF Single
<1> QED
  BY <1>3, <1>4, <1>5, <1>6, <1>7 DEF IInv

\* A call that no longer is to insert a document takes nothing from the others.
LEMMA FewerAtInsert ==
  ASSUME NEW l, NEW requests, NEW at, NEW on, Alone(l, requests, at),
         \A q \in Procs : on[q] = "insert" => at[q] = "insert"
  PROVE  Alone(l, requests, on)
BY DEF Alone

\* A call that returns or fails leaves the log as it is.
LEMMA ReturnIInv ==
  ASSUME IInv, NEW p \in Procs, Return(p)
  PROVE  IInv'
<1>1. PICK i \in 1..majority :
        LET inserted == log[i].doc = <<p, calls[p]>>
        IN  /\ ready' = (ready \/ inserted)
            /\ issued' = IF inserted THEN issued ELSE issued \cup {log[i]}
  BY DEF Return, Acknowledged
<1>2. /\ UNCHANGED <<log, majority, net, calls, causes>>
      /\ pc' = [pc EXCEPT ![p] = "idle"] /\ before' = [before EXCEPT ![p] = {}]
  BY DEF Return, Goto
<1>3. TypeOK /\ Chained /\ Fresh /\ Kept /\ Later /\ Single /\ Relied
  BY DEF IInv
<1>4. log[i] \in Writes /\ majority > 0
  BY <1>3, LogTyped
<1>5. issued \subseteq issued' /\ issued' \subseteq issued \cup {log[i]}
  BY <1>1
<1>6. before' \in [Procs -> SUBSET issued'] /\ \A q \in Procs : before'[q] \subseteq before[q]
  BY <1>2, <1>3, <1>5 DEF TypeOK
<1>7. TypeOK'
  <2>1. issued' \subseteq Writes
    BY <1>3, <1>4, <1>5 DEF TypeOK
  <2>2. pc' \in [Procs -> {"down", "idle", "insert", "wait"}]
    BY <1>2, <1>3 DEF TypeOK
  <2>3. ready' \in BOOLEAN
    BY <1>1
  <2> QED
    BY <1>2, <1>3, <1>6, <2>1, <2>2, <2>3 DEF TypeOK
<1>8. Kept'
  BY <1>2, <1>3, <1>5 DEF Kept
<1>9. Later'
  BY <1>2, <1>3, <1>6 DEF Later
<1>10. Relied'
  BY <1>2, <1>4 DEF Relied
<1>11. Chained' /\ Fresh'
  BY <1>2, <1>3 DEF Chained, Fresh
<1>12. Single'
  <2>1. \A q \in Procs : pc'[q] = "insert" => pc[q] = "insert"
    BY <1>2, <1>3 DEF TypeOK
  <2> QED
    BY <1>2, <1>3, <2>1, FewerAtInsert DEF Single
<1> QED
  BY <1>7, <1>8, <1>9, <1>10, <1>11, <1>12 DEF IInv

\* So do an error, a connection and its end.
LEMMA QuietIInv ==
  ASSUME IInv, NEW p \in Procs, Connect(p) \/ Disconnect(p) \/ Fail(p)
  PROVE  IInv'
<1>1. /\ UNCHANGED <<log, majority, net, calls, ready, issued, causes>>
      /\ pc' \in {[pc EXCEPT ![p] = "idle"], [pc EXCEPT ![p] = "down"]}
      /\ before' \in {before, [before EXCEPT ![p] = {}]}
  BY DEF Connect, Disconnect, Fail, Goto
<1>2. TypeOK /\ Chained /\ Fresh /\ Kept /\ Later /\ Single /\ Relied
  BY DEF IInv
<1>3. before' \in [Procs -> SUBSET issued] /\ \A q \in Procs : before'[q] \subseteq before[q]
  BY <1>1, <1>2 DEF TypeOK
<1>4. pc' \in [Procs -> {"down", "idle", "insert", "wait"}]
  BY <1>1, <1>2 DEF TypeOK
<1>5. TypeOK'
  BY <1>1, <1>2, <1>3, <1>4 DEF TypeOK
<1>6. Later'
  BY <1>1, <1>2, <1>3 DEF Later
<1>7. Chained' /\ Fresh' /\ Kept' /\ Relied'
  BY <1>1, <1>2 DEF Chained, Fresh, Kept, Relied
<1>8. Single'
  <2>1. \A q \in Procs : pc'[q] = "insert" => pc[q] = "insert"
    BY <1>1, <1>2 DEF TypeOK
  <2> QED
    BY <1>1, <1>2, <2>1, FewerAtInsert DEF Single
<1> QED
  BY <1>5, <1>6, <1>7, <1>8 DEF IInv

\* A log of no writes has no positions.
LEMMA EmptyLog ==
  ASSUME NEW s \in Seq(Writes) PROVE Len(s) = 0 <=> DOMAIN s = {}
<1>1. Len(s) \in Nat /\ DOMAIN s = 1..Len(s)
  OBVIOUS
<1>2. ASSUME NEW n \in Nat PROVE n = 0 <=> 1..n = {}
  <2>1. n > 0 => 1 \in 1..n
    OBVIOUS
  <2>2. n = 0 => 1..n = {}
    OBVIOUS
  <2> QED
    BY <2>1, <2>2
<1> QED
  BY <1>1, <1>2

-----------------------------------------------------------------------------
\* A write is appended: it follows the writes to its document, and belongs to a
\* request that is new to the log.
LEMMA AppendIInv ==
  ASSUME IInv, NEW r \in net, NEW w \in Writes,
         log' = Append(log, w), net' = net \ {r},
         UNCHANGED <<majority, pc, calls, ready, issued, before, causes>>,
         w.by = r.by, w.call = r.call, w.to = w.from + w.batch,
         \A i \in DOMAIN log : log[i].doc = w.doc => log[i].to <= w.from,
         \/ w.doc = <<r.by, r.call>> /\ r.batch = 0
         \/ \E i \in DOMAIN log : w.doc = log[i].doc
  PROVE  IInv'
<1> DEFINE n == Len(log) + 1
<1>1. TypeOK /\ Chained /\ Fresh /\ Kept /\ Later /\ Single /\ Relied
  BY DEF IInv
<1>2. /\ log \in Seq(Writes) /\ net \subseteq Requests /\ Len(log) \in Nat
      /\ DOMAIN log = 1..Len(log) /\ majority \in Nat /\ majority <= Len(log)
      /\ majority \in 0..Len(log)
  <2>1. log \in Seq(Writes) /\ net \subseteq Requests /\ majority \in 0..Len(log)
    BY <1>1 DEF TypeOK
  <2> QED
    BY <1>1, <2>1, LogTyped
<1>3. /\ log' \in Seq(Writes) /\ Len(log') = n /\ n \in Nat
      /\ DOMAIN log' = DOMAIN log \cup {n} /\ n \notin DOMAIN log
      /\ log'[n] = w /\ \A i \in DOMAIN log : log'[i] = log[i]
  BY <1>2
<1>4. TypeOK'
  <2>1. majority' \in 0..Len(log')
    BY <1>2, <1>3
  <2> QED
    BY <1>1, <1>2, <1>3, <2>1 DEF TypeOK
<1>5. Chained'
  <2>1. \A i \in DOMAIN log' : log'[i].to = log'[i].from + log'[i].batch
    BY <1>1, <1>3 DEF Chained
  <2>2. ASSUME NEW i \in DOMAIN log', NEW j \in DOMAIN log', i < j, log'[i].doc = log'[j].doc
        PROVE  log'[i].to <= log'[j].from
    <3>1. i \in DOMAIN log
      BY <1>2, <1>3, <2>2
    <3>2. CASE j \in DOMAIN log
      BY <1>1, <1>3, <2>2, <3>1, <3>2 DEF Chained
    <3>3. CASE j = n
      BY <1>3, <2>2, <3>1, <3>3
    <3> QED
      BY <1>3, <3>2, <3>3
  <2> QED
    BY <2>1, <2>2 DEF Chained
<1>6. Fresh'
  <2>1. /\ w.call <= calls[w.by] /\ r \in Requests
        /\ \A i \in DOMAIN log : log[i].call <= calls[log[i].by]
        /\ \A i \in DOMAIN log : log[i].doc[2] <= calls[log[i].doc[1]]
    BY <1>1, <1>2 DEF Fresh
  <2>2. w.doc[2] <= calls[w.doc[1]]
    BY <2>1
  <2>3. ASSUME NEW s \in net \ {r} PROVE w.doc # <<s.by, s.call>>
    BY <1>1, <2>3 DEF Fresh
  <2>4. \A s \in net', i \in DOMAIN log' : log'[i].doc # <<s.by, s.call>>
    BY <1>1, <1>3, <2>3 DEF Fresh
  <2>5. /\ \A s \in net' : s.call <= calls[s.by]
        /\ \A s, t \in net' : s.by = t.by /\ s.call = t.call => s = t
    BY <1>1 DEF Fresh
  <2>6. \A i \in DOMAIN log' : /\ log'[i].call <= calls[log'[i].by]
                               /\ log'[i].doc[2] <= calls[log'[i].doc[1]]
    BY <1>3, <2>1, <2>2
  <2> QED
    BY <2>4, <2>5, <2>6 DEF Fresh
<1>7. \A j \in 1..majority : j \in DOMAIN log /\ log'[j] = log[j] /\ j < n
  BY <1>2, <1>3
<1>8. Kept'
  BY <1>1, <1>7 DEF Kept
<1>9. Later'
  <2> SUFFICES ASSUME NEW p \in Procs, NEW s \in before[p], NEW i \in DOMAIN log',
                      log'[i].by = p, log'[i].call = calls[p]
               PROVE  \E j \in 1..majority : j < i /\ log'[j] = s
    BY DEF Later
  <2>1. CASE i \in DOMAIN log
    BY <1>1, <1>3, <1>7, <2>1 DEF Later
  <2>2. CASE i = n
    <3>1. s \in issued
      BY <1>1 DEF TypeOK
    <3> QED
      BY <1>1, <1>7, <2>2, <3>1 DEF Kept
  <2> QED
    BY <1>3, <2>1, <2>2
<1>10. Single'
  <2> SUFFICES ASSUME Alone(log, net, pc) PROVE Alone(log', net', pc)
    BY <1>1 DEF Single
  <2>1. CASE r.batch = 0
    <3>1. Len(log) = 0 /\ \A q \in Procs : pc[q] # "insert"
      BY <2>1 DEF Alone
    <3>2. DOMAIN log = {}
      BY <1>2, <3>1, EmptyLog
    <3>3. \A s \in net' : s.batch # 0
      BY <2>1 DEF Alone
    <3> QED
      BY <1>3, <3>1, <3>2, <3>3 DEF Alone
  <2>2. CASE r.batch # 0
    <3>1. PICK i \in DOMAIN log : w.doc = log[i].doc
      BY <2>2
    <3>2. Len(log) # 0
      BY <1>2, <3>1, EmptyLog
    <3>3. (\A s \in net' : s.batch # 0) /\ \A q \in Procs : pc[q] # "insert"
      BY <3>2 DEF Alone
    <3>4. \A j \in DOMAIN log' : log'[j].doc = w.doc
      BY <1>3, <3>1 DEF Alone
    <3> QED
      BY <3>3, <3>4 DEF Alone
  <2> QED
    BY <2>1, <2>2
<1>11. Relied'
  BY <1>1 DEF Relied
<1> QED
  BY <1>4, <1>5, <1>6, <1>8, <1>9, <1>10, <1>11 DEF IInv

\* The primary applies a request: an insert makes a new document, an increment
\* goes on where the document is.
LEMMA ApplyIInv ==
  ASSUME IInv, NEW r \in net, Apply(r)
  PROVE  IInv'
<1>1. TypeOK /\ Chained /\ Fresh /\ Kept /\ Later /\ Single /\ Relied
  BY DEF IInv
<1>2. /\ net' = net \ {r}
      /\ UNCHANGED <<majority, pc, calls, ready, issued, before, causes>>
  BY DEF Apply
<1>3. /\ r \in Requests /\ r.by \in Procs /\ r.call \in 1..MaxCalls /\ r.batch \in Nat
  BY <1>1, RequestsTyped DEF TypeOK
<1>4. CASE r.batch = 0
  <2> DEFINE w == Write(<<r.by, r.call>>, 1, 1, r)
  <2>1. log' = Append(log, w)
    BY <1>4 DEF Apply
  <2>2. /\ w.by = r.by /\ w.call = r.call /\ w.doc = <<r.by, r.call>>
        /\ w.from = 1 /\ w.to = 1 /\ w.batch = r.batch
    BY DEF Write
  <2>3. w \in Writes
    BY <1>3 DEF Write, Writes, Documents
  <2>4. w.to = w.from + w.batch
    BY <1>4, <2>2
  <2>5. \A i \in DOMAIN log : log[i].doc # w.doc
    BY <1>1, <2>2 DEF Fresh
  <2> HIDE DEF w
  <2> QED
    BY <1>2, <1>4, <2>1, <2>2, <2>3, <2>4, <2>5, AppendIInv
<1>5. CASE r.batch # 0 /\ log = << >> /\ UNCHANGED log
  <2>1. TypeOK'
    BY <1>1, <1>2, <1>5 DEF TypeOK
  <2>2. Chained' /\ Kept' /\ Later' /\ Relied'
    BY <1>1, <1>2, <1>5 DEF Chained, Kept, Later, Relied
  <2>3. Fresh'
    BY <1>1, <1>2, <1>5 DEF Fresh
  <2>4. Single'
    <3>1. net' \subseteq net /\ log' = log /\ causes' = causes /\ pc' = pc
      BY <1>2, <1>5
    <3>2. Alone(log, net, pc) => Alone(log, net', pc)
      BY <3>1 DEF Alone
    <3> QED
      BY <1>1, <3>1, <3>2 DEF Single
  <2> QED
    BY <2>1, <2>2, <2>3, <2>4 DEF IInv
<1>6. ASSUME r.batch # 0, NEW i \in DOMAIN log, Current(i),
             log' = Append(log, Write(log[i].doc, log[i].to,
                                      Increment(log[i].to, r.batch), r))
      PROVE  IInv'
  <2> DEFINE w == Write(log[i].doc, log[i].to, Increment(log[i].to, r.batch), r)
  <2>1. /\ w.by = r.by /\ w.call = r.call /\ w.doc = log[i].doc
        /\ w.from = log[i].to /\ w.to = log[i].to + r.batch /\ w.batch = r.batch
    BY DEF Write, Increment
  <2>2. log[i] \in Writes /\ i \in Nat /\ log[i].doc \in Documents /\ log[i].to \in Nat
    BY <1>1, LogTyped DEF Writes
  <2>3. Increment(log[i].to, r.batch) \in Nat
    BY <1>3, <2>2 DEF Increment
  <2>4. w \in Writes
    BY <1>3, <2>2, <2>3 DEF Write, Writes
  <2>5. w.to = w.from + w.batch
    BY <2>1
  <2>6. ASSUME NEW j \in DOMAIN log, log[j].doc = w.doc
        PROVE  log[j].to <= w.from
    <3>1. j \in Nat /\ ~(j > i)
      BY <1>1, <1>6, <2>1, <2>6, LogTyped DEF Current
    <3>2. CASE j = i
      BY <2>1, <2>2, <3>2
    <3>3. CASE j < i
      <4>1. /\ log[j].to <= log[i].from /\ log[i].to = log[i].from + log[i].batch
        BY <1>1, <2>1, <2>6, <3>3 DEF Chained
      <4>2. log[j].to \in Nat /\ log[i].from \in Nat /\ log[i].batch \in Nat
        BY <1>1, <2>2, LogTyped, WritesTyped
      <4> QED
        BY <2>1, <2>2, <4>1, <4>2
    <3> QED
      BY <2>2, <3>1, <3>2, <3>3
  <2>7. log' = Append(log, w) /\ \E j \in DOMAIN log : w.doc = log[j].doc
    BY <1>6, <2>1
  <2> HIDE DEF w
  <2> QED
    BY <1>2, <2>1, <2>4, <2>5, <2>6, <2>7, AppendIInv
<1> QED
  BY <1>4, <1>5, <1>6 DEF Apply

\* More of the log is with a majority.
LEMMA ReplicateIInv ==
  ASSUME IInv, Replicate
  PROVE  IInv'
<1>1. TypeOK /\ Chained /\ Fresh /\ Kept /\ Later /\ Single /\ Relied
  BY DEF IInv
<1>2. /\ majority < Len(log) /\ majority' = majority + 1
      /\ UNCHANGED <<log, net, pc, calls, ready, issued, before, causes>>
  BY DEF Replicate
<1>3. /\ majority' \in 0..Len(log) /\ majority' > 0
      /\ \A i \in 1..majority : i \in 1..majority'
  BY <1>1, <1>2, LogTyped
<1>4. TypeOK'
  BY <1>1, <1>2, <1>3 DEF TypeOK
<1>5. Chained' /\ Fresh' /\ Single' /\ Relied'
  BY <1>1, <1>2, <1>3 DEF Chained, Fresh, Single, Relied
<1>6. Kept'
  BY <1>1, <1>2, <1>3 DEF Kept
<1>7. Later'
  BY <1>1, <1>2, <1>3 DEF Later
<1> QED
  BY <1>4, <1>5, <1>6, <1>7 DEF IInv

\* A failover drops the end of the log, and nothing that was issued.
LEMMA FailoverIInv ==
  ASSUME IInv, NEW n \in majority..Len(log), Failover(n)
  PROVE  IInv'
<1>1. TypeOK /\ Chained /\ Fresh /\ Kept /\ Later /\ Single /\ Relied
  BY DEF IInv
<1>2. /\ n < Len(log) /\ log' = SubSeq(log, 1, n)
      /\ UNCHANGED <<majority, net, pc, calls, ready, issued, before, causes>>
  BY DEF Failover
<1>3. /\ log \in Seq(Writes) /\ Len(log) \in Nat /\ majority \in Nat
      /\ DOMAIN log = 1..Len(log) /\ n \in Nat /\ majority <= n
  <2>1. log \in Seq(Writes)
    BY <1>1 DEF TypeOK
  <2> QED
    BY <1>1, <2>1, LogTyped
<1>4. /\ log' \in Seq(Writes) /\ Len(log') = n /\ DOMAIN log' = 1..n
      /\ \A i \in 1..n : log'[i] = log[i] /\ i \in DOMAIN log
  BY <1>2, <1>3
<1>5. \A i \in DOMAIN log' : log'[i] = log[i] /\ i \in DOMAIN log
  BY <1>4
<1>6. \A i \in 1..majority : i \in DOMAIN log' /\ log'[i] = log[i]
  BY <1>3, <1>4
<1>7. TypeOK'
  <2>1. majority' \in 0..Len(log')
    BY <1>2, <1>3, <1>4
  <2> QED
    BY <1>1, <1>2, <1>4, <2>1 DEF TypeOK
<1>8. Chained'
  BY <1>1, <1>5 DEF Chained
<1>9. Fresh'
  BY <1>1, <1>2, <1>5 DEF Fresh
<1>10. Kept'
  BY <1>1, <1>2, <1>6 DEF Kept
<1>11. Later'
  <2> SUFFICES ASSUME NEW p \in Procs, NEW s \in before[p], NEW i \in DOMAIN log',
                      log'[i].by = p, log'[i].call = calls[p]
               PROVE  \E j \in 1..majority : j < i /\ log'[j] = s
    BY <1>2 DEF Later
  <2>1. i \in DOMAIN log /\ log[i].by = p /\ log[i].call = calls[p]
    BY <1>5
  <2>2. PICK j \in 1..majority : j < i /\ log[j] = s
    BY <1>1, <2>1 DEF Later
  <2> QED
    BY <1>6, <2>2
<1>12. Single'
  <2> SUFFICES ASSUME Alone(log, net, pc) PROVE Alone(log', net, pc)
    BY <1>1, <1>2 DEF Single
  <2>1. Len(log) # 0
    BY <1>2, <1>3
  <2>2. (\A r \in net : r.batch # 0) /\ \A q \in Procs : pc[q] # "insert"
    BY <2>1 DEF Alone
  <2> QED
    BY <1>5, <2>2 DEF Alone
<1>13. Relied'
  BY <1>1, <1>2 DEF Relied
<1> QED
  BY <1>7, <1>8, <1>9, <1>10, <1>11, <1>12, <1>13 DEF IInv

-----------------------------------------------------------------------------
\* Every step keeps the invariant.
LEMMA NextIInv == IInv /\ [Next]_vars => IInv'
<1> SUFFICES ASSUME IInv, [Next]_vars PROVE IInv'
    OBVIOUS
<1>1. CASE UNCHANGED vars
  <2>1. TypeOK /\ Chained /\ Fresh /\ Kept /\ Later /\ Single /\ Relied
    BY DEF IInv
  <2>2. TypeOK'
    BY <1>1, <2>1 DEF TypeOK, vars
  <2>3. Chained' /\ Fresh' /\ Kept' /\ Later' /\ Relied'
    BY <1>1, <2>1 DEF Chained, Fresh, Kept, Later, Relied, vars
  <2>4. Single'
    <3>1. net' = net /\ log' = log /\ causes' = causes /\ pc' = pc
      BY <1>1 DEF vars
    <3> QED
      BY <2>1, <3>1 DEF Single
  <2> QED
    BY <2>2, <2>3, <2>4 DEF IInv
<1>2. CASE Next
  BY <1>2, IncrementIInv, InitDocIInv, InsertIInv, ReturnIInv, QuietIInv, ApplyIInv, ReplicateIInv,
     FailoverIInv DEF Next
<1> QED
  BY <1>1, <1>2

\* The invariant holds throughout.
THEOREM Invariance == Spec => []IInv
BY InitIInv, NextIInv, PTL DEF Spec

\* Whatever a failover takes back, the writes that a majority has are a part of the
\* log, and what a call has seen before it began is among the ranges handed out.
THEOREM TypeCorrect == Spec => []TypeOK
  BY Invariance, PTL DEF IInv

\* One document never hands out an id twice, for any number of processes, calls and
\* batches.
THEOREM IdsUnique == Spec => []RangesDisjoint
<1>1. IInv => RangesDisjoint
  <2> SUFFICES ASSUME IInv, NEW r \in issued, NEW s \in issued, r # s, r.doc = s.doc
               PROVE  End(r) <= s.from \/ End(s) <= r.from
    BY DEF IInv, RangesDisjoint
  <2>1. TypeOK /\ Chained /\ Kept
    BY DEF IInv
  <2>2. PICK i \in 1..majority : log[i] = r
    BY <2>1 DEF Kept
  <2>3. PICK j \in 1..majority : log[j] = s
    BY <2>1 DEF Kept
  <2>4. i \in DOMAIN log /\ j \in DOMAIN log /\ i \in Nat /\ j \in Nat
    BY <2>1, LogTyped
  <2>5. End(r) = r.to /\ End(s) = s.to
    BY <2>1, <2>2, <2>3, <2>4 DEF Chained, End
  <2>6. i < j \/ j < i
    BY <2>2, <2>3, <2>4
  <2> QED
    BY <2>1, <2>2, <2>3, <2>4, <2>5, <2>6 DEF Chained
<1> QED
  BY <1>1, Invariance, PTL

\* The ids a call gets are above those its document had given before.
THEOREM IdsInOrder == Spec => IdsGrow
<1>1. IInv /\ [Next]_vars =>
        [\A p \in Procs : \A r \in issued' \ issued : \A s \in before[p] :
           r.by = p /\ r.doc = s.doc => End(s) <= r.from]_vars
  <2> SUFFICES ASSUME IInv, Next, NEW p \in Procs, NEW r \in issued' \ issued,
                      NEW s \in before[p], r.by = p, r.doc = s.doc
               PROVE  End(s) <= r.from
    OBVIOUS
  <2>1. TypeOK /\ Chained /\ Later
    BY DEF IInv
  <2>2. PICK q \in Procs : Return(q)
    BY DEF Next, Connect, Disconnect, InitIncrementIDDoc, InsertOne, IncrementBatchID, Fail,
           Apply, Replicate, Failover
  <2>3. PICK i \in 1..majority :
          /\ log[i].by = q /\ log[i].call = calls[q]
          /\ issued' \subseteq issued \cup {log[i]}
    BY <2>2 DEF Return, Acknowledged
  <2>4. r = log[i] /\ q = p
    BY <2>3
  <2>5. i \in DOMAIN log
    BY <2>1, LogTyped
  <2>6. PICK j \in 1..majority : j < i /\ log[j] = s
    BY <2>1, <2>3, <2>4, <2>5 DEF Later
  <2>7. j \in DOMAIN log
    BY <2>1, LogTyped
  <2>8. End(s) = s.to
    BY <2>1, <2>6, <2>7 DEF Chained, End
  <2> QED
    BY <2>1, <2>4, <2>5, <2>6, <2>7, <2>8 DEF Chained
<1> QED
  BY <1>1, Invariance, PTL DEF Spec, IdsGrow

\* A second document of a name takes a FindOne that was behind, or that ran between
\* another call's FindOne and the arrival of its InsertOne.
THEOREM SecondDocument == Spec => []OneDocument
<1>1. IInv => OneDocument
  <2> SUFFICES ASSUME IInv, causes \cap {"stale", "unsent", "inflight"} = {}
               PROVE  Cardinality(DocsOf(Len(log))) <= 1
    BY DEF OneDocument
  <2>1. TypeOK /\ Single
    BY DEF IInv
  <2>2. \A i, j \in DOMAIN log : log[i].doc = log[j].doc
    BY <2>1 DEF Single, Alone
  <2>3. DOMAIN log = 1..Len(log) /\ Len(log) \in Nat
    BY <2>1, LogTyped
  <2>4. DocsOf(Len(log)) \subseteq {log[1].doc}
    <3> SUFFICES ASSUME NEW i \in DOMAIN log PROVE log[i].doc = log[1].doc
      BY <2>3 DEF DocsOf
    <3>1. 1 \in DOMAIN log
      BY <2>3
    <3> QED
      BY <2>2, <3>1
  <2>5. IsFiniteSet({log[1].doc}) /\ Cardinality({log[1].doc}) = 1
    BY FS_Singleton
  <2>6. Cardinality(DocsOf(Len(log))) <= Cardinality({log[1].doc})
    BY <2>4, <2>5, FS_Subset
  <2> QED
    BY <2>5, <2>6
<1> QED
  BY <1>1, Invariance, PTL

\* A document that InitIncrementIDDoc has found, or made, stays.
THEOREM ReadyHasDocument == Spec => []ReadyMeansDocument
<1>1. IInv => ReadyMeansDocument
  <2> SUFFICES ASSUME IInv, ready, "uncommitted" \notin causes
               PROVE  DocsOf(Len(log)) # {}
    BY DEF ReadyMeansDocument
  <2>1. TypeOK /\ majority > 0
    BY DEF IInv, Relied
  <2>2. Len(log) \in 0..Len(log) /\ Len(log) # 0
    BY <2>1, LogTyped
  <2> QED
    BY <2>1, <2>2, NoDocs
<1> QED
  BY <1>1, Invariance, PTL
=============================================================================
