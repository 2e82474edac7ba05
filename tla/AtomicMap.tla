----------------------------- MODULE AtomicMap -----------------------------
(***************************************************************************)
(* What i64map.ConcurrentMap promises: one map, on which a call takes      *)
(* effect in one instant between its invocation and its return, a call on  *)
(* several keys in one instant per shard ("atomically within each shard",  *)
(* map.go:67).  Count is left free here: it promises less, see             *)
(* Walks.                                                                  *)
(***************************************************************************)
EXTENDS MapCalls

CONSTANT Procs

VARIABLES
  content,  \* the map: [Keys -> MaybeValues]
  call,     \* the call each client has made and not seen return
  left,     \* the keys of that call it has not yet acted on
  found     \* the values it has found under the others

vars == <<content, call, left, found>>

\* The keys at which the effect or the result of a call shows.
Touched(c) == IF c.op = "Count" THEN {} ELSE c.keys

Init ==
  /\ content = NoData
  /\ call = [p \in Procs |-> NoCall]
  /\ left = [p \in Procs |-> {}]
  /\ found = [p \in Procs |-> NoData]

Invoke(p, c) ==
  /\ call[p] = NoCall
  /\ call' = [call EXCEPT ![p] = c]
  /\ left' = [left EXCEPT ![p] = Touched(c)]
  /\ UNCHANGED <<content, found>>

\* The instant at which p's call takes effect in shard s.
Act(p, s) ==
  LET c == call[p]
      G == {k \in left[p] : getShard(k) = s}
  IN  /\ G # {}
      /\ content' = [k \in Keys |-> IF k \in G THEN NewValue(c, k, content[k])
                                               ELSE content[k]]
      /\ found' = [found EXCEPT ![p] =
                     [k \in Keys |-> IF k \in G /\ c.op \in ReadOps
                                       THEN content[k] ELSE @[k]]]
      /\ left' = [left EXCEPT ![p] = @ \ G]
      /\ UNCHANGED call

Return(p) ==
  /\ call[p] # NoCall
  /\ left[p] = {}
  /\ call' = [call EXCEPT ![p] = NoCall]
  /\ found' = [found EXCEPT ![p] = NoData]
  /\ UNCHANGED <<content, left>>

Next ==
  \E p \in Procs :
    \/ \E c \in Calls : Invoke(p, c)
    \/ \E s \in Shards : Act(p, s)
    \/ Return(p)

Spec == Init /\ [][Next]_vars
=============================================================================
