---------------------------- MODULE BitmapProofs ----------------------------
(***************************************************************************)
(* The bitmap, for any size, any number of goroutines and any calls: its   *)
(* type, that the padding of its last byte stays 0, and that it implements *)
(* AtomicBitmap.                                                           *)
(***************************************************************************)
EXTENDS Bitmap, FiniteSetTheorems, FunctionTheorems, TLAPS

\* A goroutine has the mutex.
Inside(p) ==
  \/ pc[p] \in {"loop", "load", "store", "count", "unlock"}
  \/ call[p].op = "MSet" /\ pc[p] \in {"validate", "lock"}

MutexInv == \A p \in Procs : mutex = p <=> Inside(p)

\* What a goroutine has to do at each point of its call.  An MSet never gets past
\* its first index: it panics there, or waits for itself.
CallInv ==
  \A p \in Procs :
    /\ pc[p] = "idle" <=> call[p] = NoCall
    /\ pc[p] \in {"outer", "loop"} => call[p].op = "MSet"
    /\ pc[p] = "validate" => call[p].op # "Count" /\ rest[p] # <<>>
    /\ pc[p] = "lock" /\ call[p].op # "Count" => rest[p] # <<>> /\ Valid(Head(rest[p]))
    /\ pc[p] \in {"load", "store"} =>
         /\ call[p].op \in {"Set", "Clear", "IsSet"}
         /\ rest[p] # <<>> /\ Valid(Head(rest[p]))
    /\ pc[p] = "store" => call[p].op # "IsSet"
    /\ pc[p] = "count" => call[p].op = "Count"
    /\ pc[p] \in {"outer", "loop", "validate", "lock", "load", "store", "count"} =>
         rest[p] = call[p].indexes
    /\ pc[p] = "unlock" /\ call[p].op = "MSet" => rest[p] = <<>>

\* A call has its result once it has taken effect.
ResultInv == \A p \in Procs : res[p] = NoResult <=> pc[p] \notin {"unlock", "return"}

\* The byte that Set and Clear have loaded is the one that is still there.
ByteInv == \A p \in Procs : pc[p] = "store" => byte[p] = bits[Head(rest[p]) \div 8]

\* Count has counted the bits of the bytes before the next one.
Below(n) == {i \in setMap : i < 8 * n}

CountInv ==
  \A p \in Procs :
    /\ pc[p] = "count" => next[p] <= (size + 7) \div 8 /\ count[p] = Cardinality(Below(next[p]))
    /\ pc[p] \notin {"count", "unlock", "return"} => next[p] = 0 /\ count[p] = 0

IInv ==
  TypeOK /\ PaddingClear /\ MutexInv /\ CallInv /\ ResultInv /\ ByteInv /\ CountInv

-----------------------------------------------------------------------------
(* Lemmas on bits and bytes                                                *)

LEMMA BitOf ==
  ASSUME NEW i \in Int, Valid(i)
  PROVE  /\ i \in 0 .. (size - 1)
         /\ i \div 8 \in bytes /\ i % 8 \in 0 .. 7
         /\ i = 8 * (i \div 8) + (i % 8)
BY BitmapAssumption DEF Valid, bytes

LEMMA BitAt ==
  ASSUME NEW b \in Nat, NEW j \in 0 .. 7
  PROVE  (8 * b + j) \div 8 = b /\ (8 * b + j) % 8 = j
OBVIOUS

LEMMA LastByte ==
  /\ (size + 7) \div 8 \in Nat
  /\ size <= 8 * ((size + 7) \div 8)
  /\ \A n \in Nat : n \in bytes <=> n < (size + 7) \div 8
BY BitmapAssumption DEF bytes

LEMMA CallFacts ==
  /\ NoCall \notin Calls
  /\ \A c \in Calls : /\ c.op \in {"Set", "MSet", "Clear", "IsSet", "Count"}
                      /\ c.indexes \in Seq(Int)
                      /\ c.op \in {"Set", "Clear", "IsSet"} => Len(c.indexes) = 1
                      /\ c.op = "Count" => c.indexes = <<>>
BY BitmapAssumption DEF CallType, NoCall

LEMMA BelowFinite ==
  ASSUME NEW n \in Nat
  PROVE  IsFiniteSet(setMap) /\ IsFiniteSet(Below(n)) /\ Cardinality(Below(n)) \in Nat
<1>1. IsFiniteSet(0 .. (size - 1))
  BY FS_Interval, BitmapAssumption
<1>2. IsFiniteSet(setMap)
  BY <1>1, FS_Subset DEF setMap
<1>3. IsFiniteSet(Below(n))
  BY <1>2, FS_Subset DEF Below
<1> QED
  BY <1>2, <1>3, FS_CardinalityType

\* The bits of byte n are the indexes from 8 * n on that Below(n + 1) has more
\* than Below(n): here the padding has to be 0.
LEMMA BelowNext ==
  ASSUME TypeOK, PaddingClear, NEW n \in bytes
  PROVE  Cardinality(Below(n + 1)) = Cardinality(Below(n)) + Cardinality(bits[n])
<1> DEFINE D == {i \in setMap : 8 * n <= i /\ i < 8 * (n + 1)}
           f == [j \in bits[n] |-> 8 * n + j]
<1>1. n \in Nat /\ bits[n] \subseteq 0 .. 7
  BY BitmapAssumption DEF bytes, TypeOK
<1>2. \A i \in setMap : i \in Nat /\ i % 8 \in bits[i \div 8]
  BY BitmapAssumption DEF setMap
<1>3. Below(n + 1) = Below(n) \cup D /\ Below(n) \cap D = {}
  BY <1>1, <1>2 DEF Below
<1>4. \A j \in bits[n] : 8 * n + j \in D
  <2> SUFFICES ASSUME NEW j \in bits[n] PROVE 8 * n + j \in D
    OBVIOUS
  <2>1. 8 * n + j < size
    BY DEF PaddingClear
  <2>2. j \in 0 .. 7 /\ (8 * n + j) \div 8 = n /\ (8 * n + j) % 8 = j
    BY <1>1, BitAt
  <2> QED
    BY <1>1, <2>1, <2>2, BitmapAssumption DEF setMap
<1>5. \A i \in D : i % 8 \in bits[n] /\ i = 8 * n + (i % 8)
  <2> SUFFICES ASSUME NEW i \in D PROVE i % 8 \in bits[n] /\ i = 8 * n + (i % 8)
    OBVIOUS
  <2>1. i \in Nat /\ 8 * n <= i /\ i < 8 * n + 8
    BY <1>1, <1>2
  <2>2. i \div 8 = n /\ i = 8 * n + (i % 8)
    BY <1>1, <2>1
  <2> QED
    BY <1>2, <2>2
<1> HIDE DEF D
<1>6. f \in Bijection(bits[n], D)
  <2>1. f \in [bits[n] -> D]
    BY <1>4
  <2>2. \A i, j \in bits[n] : f[i] = f[j] => i = j
    BY <1>1
  <2>3. \A i \in D : \E j \in bits[n] : f[j] = i
    BY <1>5
  <2> QED
    BY <2>1, <2>2, <2>3, Fun_IsBij
<1>7. IsFiniteSet(D) /\ IsFiniteSet(bits[n]) /\ Cardinality(D) = Cardinality(bits[n])
  <2>1. IsFiniteSet(D)
    BY <1>1, BelowFinite, FS_Subset DEF D
  <2>2. IsFiniteSet(bits[n])
    <3>1. IsFiniteSet(0 .. 7)
      <4>1. 0 \in Int /\ 7 \in Int
        OBVIOUS
      <4> QED
        BY <4>1, FS_Interval, Zenon
    <3> QED
      BY <1>1, <3>1, FS_Subset
  <2>3. ExistsBijection(bits[n], D)
    BY <1>6 DEF ExistsBijection
  <2> QED
    BY <2>1, <2>2, <2>3, FS_Bijection
<1>8. IsFiniteSet(Below(n)) /\ Cardinality(Below(n)) \in Nat /\ Cardinality(D) \in Nat
  BY <1>1, <1>7, BelowFinite, FS_CardinalityType
<1>9. Cardinality(Below(n) \cup D)
        = Cardinality(Below(n)) + Cardinality(D) - Cardinality(Below(n) \cap D)
  BY <1>7, <1>8, FS_Union
<1>10. Cardinality(Below(n) \cap D) = 0
  BY <1>3, FS_EmptySet
<1> QED
  <2>1. Cardinality(Below(n + 1)) = Cardinality(Below(n) \cup D)
    BY <1>3, Zenon
  <2>2. Cardinality(Below(n) \cup D) = Cardinality(Below(n)) + Cardinality(D)
    BY <1>8, <1>9, <1>10
  <2> QED
    BY <1>7, <2>1, <2>2, Zenon

-----------------------------------------------------------------------------
(* The inductive invariant                                                 *)

LEMMA InitIInv == Init => IInv
<1> SUFFICES ASSUME Init PROVE IInv
  OBVIOUS
<1> USE DEF Init
<1>1. TypeOK /\ PaddingClear
  BY DEF TypeOK, PaddingClear, NoResult
<1>2. MutexInv /\ CallInv /\ ResultInv /\ ByteInv
  BY ProcsAssumption DEF MutexInv, Inside, CallInv, ResultInv, ByteInv, NoCall
<1>3. CountInv
  BY DEF CountInv
<1> QED
  BY <1>1, <1>2, <1>3 DEF IInv

LEMMA InvokeIInv ==
  ASSUME IInv, NEW p \in Procs, NEW c \in Calls, Invoke(p, c)
  PROVE  IInv'
<1> USE DEF IInv
<1>1. /\ pc[p] = "idle"
      /\ \E t \in {"outer", "lock", "validate"} :
           /\ pc' = [pc EXCEPT ![p] = t]
           /\ t = "outer" <=> c.op = "MSet"
           /\ t = "lock" <=> c.op = "Count"
      /\ call' = [call EXCEPT ![p] = c]
      /\ rest' = [rest EXCEPT ![p] = c.indexes]
      /\ UNCHANGED <<bits, mutex, byte, next, count, res>>
  BY Zenon DEF Invoke, Goto, locals
<1>2. /\ c.indexes \in Seq(Int) /\ c # NoCall
      /\ c.op \in {"Set", "MSet", "Clear", "IsSet", "Count"}
      /\ c.op \in {"Set", "Clear", "IsSet"} => c.indexes # <<>>
  <2>1. c # NoCall
    BY CallFacts, Zenon
  <2>2. /\ c.indexes \in Seq(Int)
        /\ c.op \in {"Set", "MSet", "Clear", "IsSet", "Count"}
        /\ c.op \in {"Set", "Clear", "IsSet"} => Len(c.indexes) = 1
    BY CallFacts, Zenon
  <2>3. Len(<<>>) = 0 /\ 0 # 1
    OBVIOUS
  <2>4. c.op \in {"Set", "Clear", "IsSet"} => c.indexes # <<>>
    BY <2>2, <2>3, Zenon
  <2> QED
    BY <2>1, <2>2, <2>4
<1>3. TypeOK'
  BY <1>1, <1>2 DEF TypeOK
<1>4. PaddingClear'
  BY <1>1 DEF PaddingClear
<1>5. MutexInv'
  BY <1>1, <1>2 DEF MutexInv, Inside, TypeOK
<1>6. CallInv'
  BY <1>1, <1>2 DEF CallInv, TypeOK
<1>7. ResultInv' /\ ByteInv'
  BY <1>1 DEF ResultInv, ByteInv, TypeOK
<1>8. CountInv'
  <2>1. \A q \in Procs : Below(next[q])' = Below(next[q])
    BY <1>1 DEF Below, setMap
  <2> QED
    BY <1>1, <2>1 DEF CountInv, TypeOK
<1> QED
  BY <1>3, <1>4, <1>5, <1>6, <1>7, <1>8

LEMMA MSetLockIInv ==
  ASSUME IInv, NEW p \in Procs, MSetLock(p)
  PROVE  IInv'
<1> USE DEF IInv, MSetLock, Goto, locals
<1>1. TypeOK' /\ PaddingClear'
  BY DEF TypeOK, PaddingClear
<1>2. MutexInv'
  BY ProcsAssumption DEF MutexInv, Inside, TypeOK, CallInv
<1>3. CallInv' /\ ResultInv' /\ ByteInv'
  BY DEF CallInv, ResultInv, ByteInv, TypeOK
<1>4. CountInv'
  BY DEF CountInv, Below, setMap, TypeOK
<1> QED
  BY <1>1, <1>2, <1>3, <1>4

LEMMA MSetLoopIInv ==
  ASSUME IInv, NEW p \in Procs, MSetLoop(p)
  PROVE  IInv'
<1> USE DEF IInv, MSetLoop, Goto, locals
<1>1. TypeOK' /\ PaddingClear'
  BY DEF TypeOK, PaddingClear, Ok
<1>2. MutexInv'
  BY DEF MutexInv, Inside, TypeOK, CallInv
<1>3. CallInv' /\ ResultInv' /\ ByteInv'
  BY DEF CallInv, ResultInv, ByteInv, TypeOK, Ok, NoResult
<1>4. CountInv'
  BY DEF CountInv, Below, setMap, TypeOK
<1> QED
  BY <1>1, <1>2, <1>3, <1>4

LEMMA validateIndexIInv ==
  ASSUME IInv, NEW p \in Procs, validateIndex(p)
  PROVE  IInv'
<1> USE DEF IInv, validateIndex, Goto, locals
<1>1. TypeOK' /\ PaddingClear'
  BY DEF TypeOK, PaddingClear, Panic
<1>2. MutexInv'
  BY DEF MutexInv, Inside, TypeOK, CallInv
<1>3. CallInv' /\ ResultInv' /\ ByteInv'
  BY DEF CallInv, ResultInv, ByteInv, TypeOK, Panic, NoResult
<1>4. CountInv'
  BY DEF CountInv, Below, setMap, TypeOK
<1> QED
  BY <1>1, <1>2, <1>3, <1>4

LEMMA LockIInv ==
  ASSUME IInv, NEW p \in Procs, Lock(p)
  PROVE  IInv'
<1> USE DEF IInv, Lock, Goto, locals
<1>1. call[p].op \in {"Set", "Clear", "IsSet", "Count"}
  <2>1. call[p] # NoCall /\ call[p] \in Calls \cup {NoCall}
    BY DEF CallInv, TypeOK
  <2>2. call[p].op \in {"Set", "MSet", "Clear", "IsSet", "Count"}
    BY <2>1, CallFacts
  <2>3. call[p].op # "MSet"
    BY ProcsAssumption DEF MutexInv, Inside
  <2> QED
    BY <2>2, <2>3
<1>2. TypeOK' /\ PaddingClear'
  BY DEF TypeOK, PaddingClear
<1>3. MutexInv'
  BY <1>1, ProcsAssumption DEF MutexInv, Inside, TypeOK
<1>4. CallInv' /\ ResultInv' /\ ByteInv'
  BY <1>1 DEF CallInv, ResultInv, ByteInv, TypeOK
<1>5. CountInv'
  <2>1. Below(0) = {} /\ Cardinality({}) = 0
    BY FS_EmptySet, BitmapAssumption DEF Below, setMap
  <2>2. Below(0)' = Below(0) /\ \A q \in Procs : Below(next[q])' = Below(next[q])
    BY DEF Below, setMap
  <2>3. 0 <= (size + 7) \div 8
    BY LastByte
  <2> QED
    BY <2>1, <2>2, <2>3 DEF CountInv, TypeOK
<1> QED
  BY <1>2, <1>3, <1>4, <1>5

LEMMA LoadIInv ==
  ASSUME IInv, NEW p \in Procs, Load(p)
  PROVE  IInv'
<1> USE DEF IInv, Load, Goto
<1>1. bits[Head(rest[p]) \div 8] \in SUBSET (0 .. 7)
  BY BitOf DEF CallInv, TypeOK
<1>2. TypeOK' /\ PaddingClear'
  BY <1>1 DEF TypeOK, PaddingClear, Ok
<1>3. MutexInv'
  BY DEF MutexInv, Inside, TypeOK
<1>4. CallInv' /\ ResultInv'
  BY DEF CallInv, ResultInv, TypeOK, Ok, NoResult
<1>5. ByteInv'
  BY DEF ByteInv, TypeOK
<1>6. CountInv'
  BY DEF CountInv, Below, setMap, TypeOK
<1> QED
  BY <1>2, <1>3, <1>4, <1>5, <1>6

\* While a call is at its store, no other is inside.
LEMMA OneInside ==
  ASSUME IInv, NEW p \in Procs, Inside(p), NEW q \in Procs, q # p
  PROVE  pc[q] \notin {"store", "count"}
BY DEF IInv, MutexInv, Inside

LEMMA StoreIInv ==
  ASSUME IInv, NEW p \in Procs, Store(p)
  PROVE  IInv'
<1> USE DEF IInv
<1> DEFINE i == Head(rest[p])
           new == IF call[p].op = "Clear" THEN byte[p] \ {i % 8} ELSE byte[p] \cup {i % 8}
<1>1. /\ pc[p] = "store" /\ pc' = [pc EXCEPT ![p] = "unlock"]
      /\ bits' = [bits EXCEPT ![i \div 8] = new]
      /\ res' = [res EXCEPT ![p] = Ok(0)]
      /\ UNCHANGED <<mutex, call, rest, byte, next, count>>
  BY DEF Store, Goto, locals, CallInv
<1>2. /\ i \in Int /\ Valid(i)
      /\ i \div 8 \in bytes /\ i % 8 \in 0 .. 7
      /\ i = 8 * (i \div 8) + (i % 8) /\ i < size
  <2>1. i \in Int /\ Valid(i)
    BY <1>1 DEF CallInv, TypeOK
  <2> QED
    BY <2>1, BitOf DEF Valid
<1>3. byte[p] = bits[i \div 8] /\ byte[p] \subseteq 0 .. 7 /\ new \subseteq byte[p] \cup {i % 8}
  BY <1>1 DEF ByteInv, TypeOK
<1> HIDE DEF i, new
<1>4. new \subseteq 0 .. 7
  BY <1>2, <1>3
<1>5. TypeOK'
  BY <1>1, <1>2, <1>4 DEF TypeOK, Ok
<1>6. PaddingClear'
  <2> SUFFICES ASSUME NEW b \in bytes, NEW j \in bits'[b] PROVE 8 * b + j < size
    BY DEF PaddingClear
  <2>1. CASE b # i \div 8
    BY <1>1, <1>2, <2>1 DEF PaddingClear, TypeOK
  <2>2. CASE b = i \div 8
    <3>1. j \in bits[b] \/ j = i % 8
      BY <1>1, <1>2, <1>3, <2>2 DEF TypeOK
    <3> QED
      BY <1>2, <2>2, <3>1 DEF PaddingClear
  <2> QED
    BY <2>1, <2>2
<1>7. MutexInv' /\ CallInv' /\ ResultInv'
  BY <1>1 DEF MutexInv, Inside, CallInv, ResultInv, TypeOK, Ok, NoResult
<1>8. \A q \in Procs : q # p => pc[q] \notin {"store", "count"}
  BY <1>1, OneInside DEF Inside
<1>9. \A q \in Procs : pc'[q] \notin {"store", "count"}
  BY <1>1, <1>8 DEF TypeOK
<1>10. ByteInv' /\ CountInv'
  BY <1>1, <1>9 DEF ByteInv, CountInv, TypeOK
<1> QED
  BY <1>5, <1>6, <1>7, <1>10

LEMMA CountByteIInv ==
  ASSUME IInv, NEW p \in Procs, CountByte(p)
  PROVE  IInv'
<1> USE DEF IInv, CountByte
<1>1. next[p] \in bytes /\ next[p] \in Nat /\ count[p] = Cardinality(Below(next[p]))
  BY DEF CountInv, TypeOK
<1>2. /\ Cardinality(bits[next[p]]) \in Nat
      /\ count[p] + Cardinality(bits[next[p]]) = Cardinality(Below(next[p] + 1))
  <2>1. bits[next[p]] \subseteq 0 .. 7
    BY <1>1 DEF TypeOK
  <2>2. IsFiniteSet(0 .. 7)
    <3>1. 0 \in Int /\ 7 \in Int
      OBVIOUS
    <3> QED
      BY <3>1, FS_Interval, Zenon
  <2>3. Cardinality(bits[next[p]]) \in Nat
    BY <2>1, <2>2, FS_Subset, FS_CardinalityType
  <2> QED
    BY <1>1, <2>3, BelowNext
<1>3. TypeOK' /\ PaddingClear'
  BY <1>2 DEF TypeOK, PaddingClear
<1>4. MutexInv' /\ CallInv' /\ ResultInv' /\ ByteInv'
  BY DEF MutexInv, Inside, CallInv, ResultInv, ByteInv
<1>5. CountInv'
  <2>1. next[p] + 1 <= (size + 7) \div 8
    BY <1>1, LastByte
  <2>2. next'[p] = next[p] + 1 /\ count'[p] = Cardinality(Below(next[p] + 1))
    BY <1>2 DEF TypeOK
  <2>3. setMap' = setMap
    BY DEF setMap
  <2>4. Below(next[p])' = Below(next[p] + 1)
    BY <2>2, <2>3 DEF Below
  <2>5. \A q \in Procs : q # p => /\ next'[q] = next[q] /\ count'[q] = count[q]
                                 /\ Below(next[q])' = Below(next[q])
    BY <2>3 DEF Below, TypeOK
  <2> QED
    BY <2>1, <2>2, <2>4, <2>5 DEF CountInv
<1> QED
  BY <1>3, <1>4, <1>5

LEMMA CountDoneIInv ==
  ASSUME IInv, NEW p \in Procs, CountDone(p)
  PROVE  IInv'
<1> USE DEF IInv, CountDone, Goto, locals
<1>1. TypeOK' /\ PaddingClear'
  BY DEF TypeOK, PaddingClear, Ok
<1>2. MutexInv' /\ CallInv'
  BY DEF MutexInv, Inside, CallInv, TypeOK
<1>3. ResultInv' /\ ByteInv'
  BY DEF ResultInv, ByteInv, TypeOK, Ok, NoResult
<1>4. CountInv'
  BY DEF CountInv, Below, setMap, TypeOK
<1> QED
  BY <1>1, <1>2, <1>3, <1>4

LEMMA UnlockIInv ==
  ASSUME IInv, NEW p \in Procs, Unlock(p)
  PROVE  IInv'
<1> USE DEF IInv
<1>1. /\ pc[p] = "unlock" /\ pc' = [pc EXCEPT ![p] = "return"]
      /\ mutex' = NoProc
      /\ rest' = [rest EXCEPT ![p] = <<>>]
      /\ UNCHANGED <<bits, call, byte, next, count, res>>
  BY DEF Unlock, Goto, locals, CallInv
<1>2. mutex = p
  BY <1>1 DEF MutexInv, Inside
<1>3. TypeOK' /\ PaddingClear'
  BY <1>1 DEF TypeOK, PaddingClear
<1>4. MutexInv'
  BY <1>1, <1>2, ProcsAssumption DEF MutexInv, Inside, TypeOK
<1>5. CallInv' /\ ResultInv' /\ ByteInv'
  BY <1>1 DEF CallInv, ResultInv, ByteInv, TypeOK
<1>6. CountInv'
  BY <1>1 DEF CountInv, Below, setMap, TypeOK
<1> QED
  BY <1>3, <1>4, <1>5, <1>6

LEMMA ReturnIInv ==
  ASSUME IInv, NEW p \in Procs, Return(p)
  PROVE  IInv'
<1> USE DEF IInv, Return, Goto
<1>1. TypeOK' /\ PaddingClear'
  BY DEF TypeOK, PaddingClear, NoResult
<1>2. MutexInv' /\ CallInv'
  BY DEF MutexInv, Inside, CallInv, TypeOK, NoCall
<1>3. ResultInv' /\ ByteInv'
  BY DEF ResultInv, ByteInv, TypeOK
<1>4. CountInv'
  BY DEF CountInv, Below, setMap, TypeOK
<1> QED
  BY <1>1, <1>2, <1>3, <1>4

LEMMA NextIInv == IInv /\ [Next]_vars => IInv'
<1> SUFFICES ASSUME IInv, [Next]_vars PROVE IInv'
  OBVIOUS
<1>1. CASE UNCHANGED vars
  <2>1. TypeOK' /\ PaddingClear' /\ MutexInv' /\ CallInv' /\ ResultInv' /\ ByteInv'
    BY <1>1 DEF vars, IInv, TypeOK, PaddingClear, MutexInv, Inside, CallInv, ResultInv, ByteInv
  <2>2. CountInv'
    BY <1>1 DEF vars, IInv, CountInv, Below, setMap
  <2> QED
    BY <2>1, <2>2 DEF IInv
<1>2. CASE \E p \in Procs : \E c \in Calls : Invoke(p, c)
  BY <1>2, InvokeIInv
<1>3. CASE \E p \in Procs : Step(p)
  BY <1>3, MSetLockIInv, MSetLoopIInv, validateIndexIInv, LockIInv, LoadIInv, StoreIInv,
     CountByteIInv, CountDoneIInv, UnlockIInv, ReturnIInv DEF Step
<1> QED
  BY <1>1, <1>2, <1>3 DEF Next

LEMMA IInvHolds == SafeSpec => []IInv
<1>1. SafeSpec => Init /\ [][Next]_vars
  BY DEF SafeSpec
<1> QED
  BY <1>1, InitIInv, NextIInv, PTL

\* Every variable of the bitmap keeps its type: no store writes beyond the bytes
\* of the array or beyond eight bits.
THEOREM TypeCorrect == SafeSpec => []TypeOK
  BY IInvHolds, PTL DEF IInv

\* No Set, of any index, by any goroutine, sets a bit of the last byte beyond
\* size.
THEOREM PaddingStaysClear == SafeSpec => []PaddingClear
  BY IInvHolds, PTL DEF IInv

-----------------------------------------------------------------------------
(* The bitmap implements AtomicBitmap.  A call takes effect where it gets  *)
(* its result: at its store, at the load of IsSet, where Count has counted *)
(* the last byte, or at the panic.                                         *)

LEMMA SameOperators ==
  /\ AB!NoCall = NoCall
  /\ AB!NoResult = NoResult
  /\ AB!Panic = Panic
  /\ \A v : AB!Ok(v) = Ok(v)
  /\ \A i : AB!Valid(i) <=> Valid(i)
BY DEF AB!NoCall, NoCall, AB!NoResult, NoResult, AB!Panic, Panic, AB!Ok, Ok, AB!Valid, Valid

LEMMA SameCardinality == \A S : AB!Cardinality(S) = Cardinality(S)
BY Zenon DEF AB!Cardinality, Cardinality

\* A call that has to panic does so at its first index, and has set nothing.
LEMMA PanicFirst ==
  ASSUME NEW c, NEW list \in Seq(Int), c.indexes = list, list # <<>>, ~Valid(Head(list))
  PROVE  AB!Before(list) = {} /\ AB!Answer(c) = Panic
<1>1. 1 \in 1 .. Len(list) /\ ~AB!Valid(list[1])
  BY SameOperators
<1>2. \A n \in 1 .. Len(list) : 1 \in 1 .. n
  OBVIOUS
<1>3. AB!Before(list) = {}
  BY <1>1, <1>2 DEF AB!Before
<1> QED
  BY <1>1, <1>3, SameOperators DEF AB!Answer

\* A call of one valid index, or of none, does not panic.
LEMMA NoPanic ==
  ASSUME NEW c, NEW list \in Seq(Int), c.indexes = list,
         list = <<>> \/ (Len(list) = 1 /\ Valid(Head(list)))
  PROVE  /\ AB!Before(list) = IF list = <<>> THEN {} ELSE {Head(list)}
         /\ ~\E n \in 1 .. Len(c.indexes) : ~AB!Valid(c.indexes[n])
<1>1. CASE list = <<>>
  BY <1>1 DEF AB!Before
<1>2. CASE Len(list) = 1 /\ Valid(Head(list))
  <2>1. list # <<>> /\ Head(list) = list[1] /\ 1 .. Len(list) = {1}
    BY <1>2
  <2>2. AB!Valid(list[1])
    BY <1>2, <2>1, SameOperators
  <2>3. {n \in 1 .. Len(list) : \A m \in 1 .. n : AB!Valid(list[m])} = {1}
    BY <2>1, <2>2
  <2>4. AB!Before(list) = {list[1]}
    BY <2>3 DEF AB!Before
  <2> QED
    BY <2>1, <2>2, <2>4
<1> QED
  BY <1>1, <1>2

LEMMA InitMaps == Init => AB!Init
<1> SUFFICES ASSUME Init PROVE AB!Init
  OBVIOUS
<1>1. setMap = {}
  <2> SUFFICES ASSUME NEW i \in setMap PROVE FALSE
    OBVIOUS
  <2>1. i \in Int /\ Valid(i) /\ i % 8 \in bits[i \div 8]
    BY BitmapAssumption DEF setMap, Valid
  <2> QED
    BY <2>1, BitOf DEF Init
<1> QED
  BY <1>1, SameOperators DEF Init, AB!Init

\* What an instant of AtomicBitmap asks for, by the call.
LEMMA ActStep ==
  ASSUME IInv, NEW p \in Procs, pc[p] \notin {"idle", "unlock", "return"},
         UNCHANGED call, NEW v, res' = [res EXCEPT ![p] = v],
         v = AB!Answer(call[p]),
         \/ /\ call[p].op \in {"Set", "MSet"}
            /\ setMap' = setMap \cup AB!Before(call[p].indexes)
         \/ /\ call[p].op = "Clear"
            /\ setMap' = setMap \ AB!Before(call[p].indexes)
         \/ /\ call[p].op \in {"IsSet", "Count"}
            /\ setMap' = setMap
  PROVE  AB!Act(p)
<1>1. call[p] # AB!NoCall /\ res[p] = AB!NoResult
  BY SameOperators DEF IInv, CallInv, ResultInv
<1> QED
  BY <1>1 DEF AB!Act

LEMMA SameSet == bits' = bits => setMap' = setMap
BY DEF setMap

LEMMA InvokeStep ==
  ASSUME IInv, NEW p \in Procs, NEW c \in Calls, Invoke(p, c)
  PROVE  AB!Invoke(p, c)
BY SameOperators, SameSet DEF IInv, CallInv, Invoke, Goto, AB!Invoke

LEMMA MSetLoopStep ==
  ASSUME IInv, NEW p \in Procs, MSetLoop(p)
  PROVE  AB!Act(p) \/ UNCHANGED AB!vars
<1> USE DEF IInv, MSetLoop, Goto
<1>1. setMap' = setMap /\ call' = call
  BY SameSet
<1>2. CASE rest[p] # <<>>
  BY <1>1, <1>2 DEF AB!vars, TypeOK
<1>3. CASE rest[p] = <<>>
  <2>1. call[p].op = "MSet" /\ call[p].indexes = <<>> /\ <<>> \in Seq(Int)
    BY <1>3 DEF CallInv
  <2>2. /\ AB!Before(call[p].indexes) = {}
        /\ ~\E n \in 1 .. Len(call[p].indexes) : ~AB!Valid(call[p].indexes[n])
    BY <2>1, NoPanic
  <2>3. AB!Answer(call[p]) = Ok(0)
    BY <2>1, <2>2, SameOperators DEF AB!Answer
  <2>4. setMap' = setMap \cup AB!Before(call[p].indexes)
    BY <1>1, <2>2
  <2>5. res' = [res EXCEPT ![p] = Ok(0)]
    BY <1>3
  <2> QED
    BY <1>1, <2>1, <2>3, <2>4, <2>5, ActStep
<1> QED
  BY <1>2, <1>3

LEMMA validateIndexStep ==
  ASSUME IInv, NEW p \in Procs, validateIndex(p)
  PROVE  AB!Act(p) \/ UNCHANGED AB!vars
<1> USE DEF IInv, validateIndex, Goto
<1>1. setMap' = setMap /\ call' = call
  BY SameSet
<1>2. CASE Valid(Head(rest[p]))
  BY <1>1, <1>2 DEF AB!vars, TypeOK
<1>3. CASE ~Valid(Head(rest[p]))
  <2>1. rest[p] \in Seq(Int) /\ call[p].indexes = rest[p] /\ rest[p] # <<>>
    BY DEF CallInv, TypeOK
  <2>2. AB!Before(call[p].indexes) = {} /\ AB!Answer(call[p]) = Panic
    BY <1>3, <2>1, PanicFirst
  <2>3. call[p].op \in {"Set", "MSet", "Clear", "IsSet", "Count"}
    <3>1. call[p] \in Calls
      BY DEF CallInv, TypeOK
    <3> QED
      BY <3>1, CallFacts
  <2>4. /\ setMap' = setMap \cup AB!Before(call[p].indexes)
        /\ setMap' = setMap \ AB!Before(call[p].indexes)
    BY <1>1, <2>2
  <2>5. res' = [res EXCEPT ![p] = Panic]
    BY <1>3
  <2> QED
    BY <1>1, <2>2, <2>3, <2>4, <2>5, ActStep
<1> QED
  BY <1>2, <1>3

\* The single index of Set, Clear and IsSet, past validateIndex.
LEMMA OneIndex ==
  ASSUME IInv, NEW p \in Procs, pc[p] \in {"load", "store"}
  PROVE  /\ Head(rest[p]) \in Int /\ Valid(Head(rest[p]))
         /\ AB!Before(call[p].indexes) = {Head(rest[p])}
         /\ call[p].indexes[1] = Head(rest[p])
         /\ ~\E n \in 1 .. Len(call[p].indexes) : ~AB!Valid(call[p].indexes[n])
<1>1. /\ rest[p] \in Seq(Int) /\ rest[p] # <<>> /\ Valid(Head(rest[p]))
      /\ call[p].indexes = rest[p]
      /\ call[p] \in Calls /\ call[p].op \in {"Set", "Clear", "IsSet"}
  BY DEF IInv, CallInv, TypeOK
<1>2. Len(rest[p]) = 1
  BY <1>1, CallFacts
<1>3. Head(rest[p]) \in Int /\ rest[p][1] = Head(rest[p])
  BY <1>1
<1> QED
  BY <1>1, <1>2, <1>3, NoPanic

LEMMA LoadStep ==
  ASSUME IInv, NEW p \in Procs, Load(p)
  PROVE  AB!Act(p) \/ UNCHANGED AB!vars
<1> USE DEF IInv, Load, Goto
<1>1. setMap' = setMap /\ call' = call
  BY SameSet
<1>2. CASE call[p].op # "IsSet"
  BY <1>1, <1>2 DEF AB!vars, TypeOK
<1>3. CASE call[p].op = "IsSet"
  <2> DEFINE i == Head(rest[p])
             v == Ok(IF i % 8 \in bits[i \div 8] THEN 1 ELSE 0)
  <2>1. res' = [res EXCEPT ![p] = v]
    BY <1>3
  <2>2. /\ i \in Int /\ Valid(i) /\ call[p].indexes[1] = i
        /\ ~\E n \in 1 .. Len(call[p].indexes) : ~AB!Valid(call[p].indexes[n])
    BY OneIndex
  <2>3. i \in setMap <=> i % 8 \in bits[i \div 8]
    BY <2>2, BitOf DEF setMap
  <2> HIDE DEF i
  <2>4. AB!Answer(call[p]) = v
    BY <1>3, <2>2, <2>3, SameOperators DEF AB!Answer
  <2> QED
    BY <1>1, <1>3, <2>1, <2>4, ActStep
<1> QED
  BY <1>2, <1>3

LEMMA StoreStep ==
  ASSUME IInv, NEW p \in Procs, Store(p)
  PROVE  AB!Act(p)
<1> USE DEF IInv
<1> DEFINE i == Head(rest[p])
<1>1. /\ pc[p] = "store" /\ call' = call
      /\ bits' = [bits EXCEPT ![i \div 8] =
                    IF call[p].op = "Clear" THEN byte[p] \ {i % 8} ELSE byte[p] \cup {i % 8}]
      /\ res' = [res EXCEPT ![p] = Ok(0)]
      /\ byte[p] = bits[i \div 8]
      /\ call[p].op \in {"Set", "Clear"}
  BY DEF Store, Goto, CallInv, ByteInv
<1>2. /\ i \in Int /\ Valid(i) /\ AB!Before(call[p].indexes) = {i}
      /\ ~\E n \in 1 .. Len(call[p].indexes) : ~AB!Valid(call[p].indexes[n])
  BY <1>1, OneIndex
<1> HIDE DEF i
<1>3. i \in 0 .. (size - 1) /\ i \div 8 \in bytes /\ i = 8 * (i \div 8) + (i % 8)
  BY <1>2, BitOf
<1>4. \A j \in 0 .. (size - 1) :
        j \in setMap' <=> IF call[p].op = "Clear" THEN j \in setMap /\ j # i
                                                 ELSE j \in setMap \/ j = i
  <2> SUFFICES ASSUME NEW j \in 0 .. (size - 1)
               PROVE  j % 8 \in bits'[j \div 8] <=>
                        IF call[p].op = "Clear" THEN j % 8 \in bits[j \div 8] /\ j # i
                                               ELSE j % 8 \in bits[j \div 8] \/ j = i
    BY DEF setMap
  <2>1. j \div 8 \in bytes /\ j = 8 * (j \div 8) + (j % 8)
    BY BitOf, BitmapAssumption DEF Valid
  <2>2. CASE j \div 8 # i \div 8
    <3>1. bits'[j \div 8] = bits[j \div 8]
      BY <1>1, <1>3, <2>1, <2>2 DEF TypeOK
    <3> QED
      BY <2>2, <3>1
  <2>3. CASE j \div 8 = i \div 8
    <3>1. j % 8 = i % 8 <=> j = i
      BY <1>3, <2>1, <2>3
    <3>2. bits'[j \div 8] = IF call[p].op = "Clear" THEN bits[j \div 8] \ {i % 8}
                                                   ELSE bits[j \div 8] \cup {i % 8}
      BY <1>1, <1>3, <2>1, <2>3 DEF TypeOK
    <3> QED
      BY <3>1, <3>2
  <2> QED
    BY <2>2, <2>3
<1>5. setMap \subseteq 0 .. (size - 1) /\ setMap' \subseteq 0 .. (size - 1)
  BY DEF setMap
<1>6. /\ call[p].op = "Set" => setMap' = setMap \cup {i}
      /\ call[p].op = "Clear" => setMap' = setMap \ {i}
  BY <1>3, <1>4, <1>5
<1>7. AB!Answer(call[p]) = Ok(0)
  BY <1>1, <1>2, SameOperators DEF AB!Answer
<1> QED
  BY <1>1, <1>2, <1>6, <1>7, ActStep

LEMMA CountDoneStep ==
  ASSUME IInv, NEW p \in Procs, CountDone(p)
  PROVE  AB!Act(p)
<1> USE DEF IInv, CountDone, Goto
<1>1. setMap' = setMap /\ call' = call /\ res' = [res EXCEPT ![p] = Ok(count[p])]
  BY SameSet
<1>2. /\ next[p] \in Nat /\ next[p] \notin bytes /\ next[p] <= (size + 7) \div 8
      /\ count[p] = Cardinality(Below(next[p]))
  BY DEF CountInv, TypeOK
<1>3. size <= 8 * next[p]
  BY <1>2, LastByte
<1>4. Below(next[p]) = setMap
  BY <1>2, <1>3, BitmapAssumption DEF Below, setMap
<1>5. call[p].op = "Count" /\ call[p].indexes = <<>> /\ <<>> \in Seq(Int)
  <2>1. call[p] \in Calls /\ call[p].op = "Count"
    BY DEF CallInv, TypeOK
  <2> QED
    BY <2>1, CallFacts
<1>6. ~\E n \in 1 .. Len(call[p].indexes) : ~AB!Valid(call[p].indexes[n])
  BY <1>5
<1>7. AB!Answer(call[p]) = Ok(count[p])
  BY <1>2, <1>4, <1>5, <1>6, SameOperators, SameCardinality DEF AB!Answer
<1> QED
  BY <1>1, <1>5, <1>7, ActStep

LEMMA ReturnStep ==
  ASSUME IInv, NEW p \in Procs, Return(p)
  PROVE  AB!Return(p)
BY SameOperators, SameSet DEF IInv, ResultInv, Return, Goto, AB!Return

LEMMA NextMaps == IInv /\ [Next]_vars => [AB!Next]_(AB!vars)
<1> SUFFICES ASSUME IInv, [Next]_vars PROVE AB!Next \/ UNCHANGED AB!vars
  OBVIOUS
<1>1. CASE UNCHANGED vars
  BY <1>1, SameSet DEF vars, AB!vars
<1>2. ASSUME NEW p \in Procs, NEW c \in Calls, Invoke(p, c) PROVE AB!Next
  BY <1>2, InvokeStep DEF AB!Next
<1>3. ASSUME NEW p \in Procs, MSetLock(p) \/ Lock(p) \/ CountByte(p) \/ Unlock(p)
      PROVE  UNCHANGED AB!vars
  BY <1>3, SameSet DEF MSetLock, Lock, CountByte, Unlock, AB!vars
<1>4. ASSUME NEW p \in Procs,
             MSetLoop(p) \/ validateIndex(p) \/ Load(p) \/ Store(p) \/ CountDone(p)
      PROVE  AB!Act(p) \/ UNCHANGED AB!vars
  BY <1>4, MSetLoopStep, validateIndexStep, LoadStep, StoreStep, CountDoneStep
<1>5. ASSUME NEW p \in Procs, Return(p) PROVE AB!Next
  BY <1>5, ReturnStep DEF AB!Next
<1> QED
  BY <1>1, <1>2, <1>3, <1>4, <1>5 DEF Next, Step, AB!Next

\* The bitmap is linearizable: Set, Clear, IsSet and Count of any goroutines take
\* effect in one instant each, an index out of range panics and changes nothing,
\* and MSet does nothing by halves.
THEOREM Linearizable == SafeSpec => AtomicBitmapSpec
<1>1. SafeSpec => Init /\ [][Next]_vars
  BY DEF SafeSpec
<1>2. AtomicBitmapSpec <=> AB!Init /\ [][AB!Next]_(AB!vars)
  BY DEF AtomicBitmapSpec, AB!Spec
<1> QED
  BY <1>1, <1>2, IInvHolds, InitMaps, NextMaps, PTL
=============================================================================
