------------------------------- MODULE Bitmap -------------------------------
(***************************************************************************)
(* bitmap.Bitmap (src/bitmap/bitmap.go): a byte array behind a mutex, and  *)
(* the goroutines in Procs that call it.  A byte is the set of its bits    *)
(* that are 1.  Setting or clearing a bit loads the byte and stores it     *)
(* back in a later step, which only the mutex makes safe.                  *)
(***************************************************************************)
EXTENDS BitmapCalls

CONSTANTS Procs, NoProc

ASSUME ProcsAssumption == NoProc \notin Procs

VARIABLES
  bits,   \* the byte array
  mutex,  \* the holder of the mutex
  call,   \* the call each goroutine is making
  pc,     \* how far it is
  rest,   \* the indexes it has still to work on
  byte,   \* the byte it has loaded
  next,   \* the next byte Count looks at
  count,  \* what Count has counted
  res     \* its result

vars == <<bits, mutex, call, pc, rest, byte, next, count, res>>
locals == <<byte, next, count>>

bytes == 0 .. ((size + 7) \div 8 - 1)

TypeOK ==
  /\ bits \in [bytes -> SUBSET (0 .. 7)]
  /\ mutex \in Procs \cup {NoProc}
  /\ call \in [Procs -> Calls \cup {NoCall}]
  /\ pc \in [Procs -> {"idle", "outer", "loop", "validate", "lock", "load",
                       "store", "count", "unlock", "return"}]
  /\ rest \in [Procs -> Seq(Int)]
  /\ byte \in [Procs -> SUBSET (0 .. 7)]
  /\ next \in [Procs -> Nat]
  /\ count \in [Procs -> Nat]
  /\ res \in [Procs -> [st : {"none", "ok", "panic"}, val : Nat]]

\* A bug: the array has the bytes that are full, and not the last one.
InitShort ==
  /\ bits = [b \in 0 .. (size \div 8 - 1) |-> {}]
  /\ mutex = NoProc
  /\ call = [p \in Procs |-> NoCall]
  /\ pc = [p \in Procs |-> "idle"]
  /\ rest = [p \in Procs |-> <<>>]
  /\ byte = [p \in Procs |-> {}]
  /\ next = [p \in Procs |-> 0]
  /\ count = [p \in Procs |-> 0]
  /\ res = [p \in Procs |-> NoResult]

\* NewBitmap
Init ==
  /\ bits = [b \in bytes |-> {}]
  /\ mutex = NoProc
  /\ call = [p \in Procs |-> NoCall]
  /\ pc = [p \in Procs |-> "idle"]
  /\ rest = [p \in Procs |-> <<>>]
  /\ byte = [p \in Procs |-> {}]
  /\ next = [p \in Procs |-> 0]
  /\ count = [p \in Procs |-> 0]
  /\ res = [p \in Procs |-> NoResult]

Goto(p, from, to) == pc[p] = from /\ pc' = [pc EXCEPT ![p] = to]

-----------------------------------------------------------------------------
Invoke(p, c) ==
  /\ Goto(p, "idle", CASE c.op = "MSet" -> "outer"
                       [] c.op = "Count" -> "lock"
                       [] OTHER -> "validate")
  /\ call' = [call EXCEPT ![p] = c]
  /\ rest' = [rest EXCEPT ![p] = c.indexes]
  /\ UNCHANGED <<bits, mutex, locals, res>>

\* MSet takes the mutex for the whole of its loop.
MSetLock(p) ==
  /\ Goto(p, "outer", "loop")
  /\ mutex = NoProc
  /\ mutex' = p
  /\ UNCHANGED <<bits, call, rest, locals, res>>

\* MSet calls Set for the next index, or is through.
MSetLoop(p) ==
  /\ Goto(p, "loop", IF rest[p] = <<>> THEN "unlock" ELSE "validate")
  /\ res' = [res EXCEPT ![p] = IF rest[p] = <<>> THEN Ok(0) ELSE @]
  /\ UNCHANGED <<bits, mutex, call, rest, locals>>

\* validateIndex runs before the lock.  Its panic leaves Set, Clear and IsSet
\* at once and MSet through its deferred unlock.
validateIndex(p) ==
  LET valid == Valid(Head(rest[p]))
      out == IF call[p].op = "MSet" THEN "unlock" ELSE "return"
  IN  /\ Goto(p, "validate", IF valid THEN "lock" ELSE out)
      /\ res' = [res EXCEPT ![p] = IF valid THEN @ ELSE Panic]
      /\ rest' = [rest EXCEPT ![p] = IF valid THEN @ ELSE <<>>]
      /\ UNCHANGED <<bits, mutex, call, locals>>

\* A bug: the lock is not taken.
LockNot(p) ==
  /\ Goto(p, "lock", IF call[p].op = "Count" THEN "count" ELSE "load")
  /\ UNCHANGED <<bits, mutex, call, rest, locals, res>>

\* The mutex is not reentrant: it also waits for p itself, inside MSet.
Lock(p) ==
  /\ Goto(p, "lock", IF call[p].op = "Count" THEN "count" ELSE "load")
  /\ mutex = NoProc
  /\ mutex' = p
  /\ UNCHANGED <<bits, call, rest, locals, res>>

\* The byte of the index is loaded, which is all that IsSet does.
Load(p) ==
  LET b == bits[Head(rest[p]) \div 8]
      test == call[p].op = "IsSet"
  IN  /\ Goto(p, "load", IF test THEN "unlock" ELSE "store")
      /\ byte' = [byte EXCEPT ![p] = b]
      /\ res' = [res EXCEPT ![p] =
                   IF test THEN Ok(IF Head(rest[p]) % 8 \in b THEN 1 ELSE 0) ELSE @]
      /\ UNCHANGED <<bits, mutex, call, rest, next, count>>

Store(p) ==
  LET i == Head(rest[p])
  IN  /\ Goto(p, "store", "unlock")
      /\ bits' = [bits EXCEPT ![i \div 8] =
                    IF call[p].op = "Clear" THEN byte[p] \ {i % 8}
                                            ELSE byte[p] \cup {i % 8}]
      /\ res' = [res EXCEPT ![p] = IF call[p].op = "MSet" THEN @ ELSE Ok(0)]
      /\ UNCHANGED <<mutex, call, rest, locals>>

CountByte(p) ==
  /\ pc[p] = "count"
  /\ next[p] \in bytes
  /\ count' = [count EXCEPT ![p] = @ + Cardinality(bits[next[p]])]
  /\ next' = [next EXCEPT ![p] = @ + 1]
  /\ UNCHANGED <<bits, mutex, call, pc, rest, byte, res>>

CountDone(p) ==
  /\ Goto(p, "count", "unlock")
  /\ next[p] \notin bytes
  /\ res' = [res EXCEPT ![p] = Ok(count[p])]
  /\ UNCHANGED <<bits, mutex, call, rest, locals>>

\* A bug: IsSet returns without unlocking.
UnlockUnlessIsSet(p) ==
  /\ Goto(p, "unlock", "return")
  /\ mutex' = IF call[p].op = "IsSet" THEN mutex ELSE NoProc
  /\ rest' = [rest EXCEPT ![p] = <<>>]
  /\ UNCHANGED <<bits, call, locals, res>>

\* The deferred unlock: the one of Set inside MSet goes on with the loop.
Unlock(p) ==
  LET inner == call[p].op = "MSet" /\ rest[p] # <<>>
  IN  /\ Goto(p, "unlock", IF inner THEN "loop" ELSE "return")
      /\ mutex' = NoProc
      /\ rest' = [rest EXCEPT ![p] = IF inner THEN Tail(@) ELSE <<>>]
      /\ UNCHANGED <<bits, call, locals, res>>

Return(p) ==
  /\ Goto(p, "return", "idle")
  /\ call' = [call EXCEPT ![p] = NoCall]
  /\ byte' = [byte EXCEPT ![p] = {}]
  /\ next' = [next EXCEPT ![p] = 0]
  /\ count' = [count EXCEPT ![p] = 0]
  /\ res' = [res EXCEPT ![p] = NoResult]
  /\ rest' = [rest EXCEPT ![p] = <<>>]
  /\ UNCHANGED <<bits, mutex>>

-----------------------------------------------------------------------------
\* What a goroutine does by itself once it has made a call.
Step(p) ==
  \/ MSetLock(p) \/ MSetLoop(p) \/ validateIndex(p) \/ Lock(p)
  \/ Load(p) \/ Store(p) \/ CountByte(p) \/ CountDone(p)
  \/ Unlock(p) \/ Return(p)

Next == \E p \in Procs : (\E c \in Calls : Invoke(p, c)) \/ Step(p)

SafeSpec == Init /\ [][Next]_vars

\* A runnable goroutine runs on, and a sync.Mutex is handed to a goroutine
\* that has waited long (its starvation mode); a client need never call.
Spec == SafeSpec /\ \A p \in Procs : WF_vars(Step(p)) /\ SF_vars(MSetLock(p) \/ Lock(p))

-----------------------------------------------------------------------------
(* Properties                                                              *)

\* The bits of the last byte beyond size stay 0, so that Count never counts
\* an index no one could have set and Size bounds Count.
PaddingClear == \A b \in bytes : \A i \in bits[b] : 8 * b + i < size

setMap == {i \in 0 .. (size - 1) : i % 8 \in bits[i \div 8]}

AB == INSTANCE AtomicBitmap WITH set <- setMap

\* Set, Clear, IsSet and Count are linearizable: neighbours in one byte do
\* not lose each other's updates, and Count, although it walks the bytes one
\* by one, is the number of bits at one instant.  MSet does nothing by halves.
AtomicBitmapSpec == AB!Spec

\* An MSet holds the mutex, and the Set that it calls waits for it.
SelfBlocked == \E q \in Procs : mutex = q /\ pc[q] = "lock"

\* Every call returns unless the mutex is lost in that way, however it came
\* in the way of others: the panic of validateIndex, inside MSet too, leaves
\* the mutex free.
ReturnsUnlessBlocked ==
  \A p \in Procs : (call[p] # NoCall) ~> (call[p] = NoCall \/ SelfBlocked)

\* What "thread-safe" says of a bitmap: every call returns.  MSet with a valid
\* index refutes it.
CallsReturn == \A p \in Procs : (call[p] # NoCall) ~> (call[p] = NoCall)
=============================================================================
