---------------------------- MODULE AtomicBitmap ----------------------------
(***************************************************************************)
(* What a thread-safe bitmap promises: a set of indexes below size, on     *)
(* which a call takes effect in one instant between its invocation and its *)
(* return, or panics at its first index out of range.                      *)
(***************************************************************************)
EXTENDS BitmapCalls

CONSTANT Procs

VARIABLES
  set,   \* the indexes whose bit is 1
  call,  \* the call each client has made and not seen return
  res    \* its result, once it has one

vars == <<set, call, res>>

Init ==
  /\ set = {}
  /\ call = [p \in Procs |-> NoCall]
  /\ res = [p \in Procs |-> NoResult]

Invoke(p, c) ==
  /\ call[p] = NoCall
  /\ call' = [call EXCEPT ![p] = c]
  /\ UNCHANGED <<set, res>>

\* The indexes of the list before the first one out of range.
Before(list) ==
  {list[n] : n \in {n \in 1 .. Len(list) : \A m \in 1 .. n : Valid(list[m])}}

Answer(c) ==
  IF \E n \in 1 .. Len(c.indexes) : ~Valid(c.indexes[n]) THEN Panic
  ELSE CASE c.op = "IsSet" -> Ok(IF c.indexes[1] \in set THEN 1 ELSE 0)
         [] c.op = "Count" -> Ok(Cardinality(set))
         [] OTHER -> Ok(0)

Act(p) ==
  /\ call[p] # NoCall
  /\ res[p] = NoResult
  /\ set' = CASE call[p].op \in {"Set", "MSet"} -> set \cup Before(call[p].indexes)
              [] call[p].op = "Clear" -> set \ Before(call[p].indexes)
              [] OTHER -> set
  /\ res' = [res EXCEPT ![p] = Answer(call[p])]
  /\ UNCHANGED call

Return(p) ==
  /\ res[p] # NoResult
  /\ call' = [call EXCEPT ![p] = NoCall]
  /\ res' = [res EXCEPT ![p] = NoResult]
  /\ UNCHANGED set

Next == \E p \in Procs : (\E c \in Calls : Invoke(p, c)) \/ Act(p) \/ Return(p)

Spec == Init /\ [][Next]_vars
=============================================================================
