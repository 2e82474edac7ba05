---------------------------- MODULE FilterProofs ----------------------------
(***************************************************************************)
(* The two Bloom filters, for any data, hashes, number of functions and    *)
(* size.  Both keep their type with any goroutines.  That of Bloom has no  *)
(* false negatives for a goroutine that has it alone, that of Int64Bloom   *)
(* has none for any number of them.                                        *)
(***************************************************************************)
EXTENDS Bloom, Int64Bloom, TLAPS

-----------------------------------------------------------------------------
(* Bloom                                                                   *)

Alone == \A p, q \in Procs : p = q

\* Where hash function n puts d, when no one else touches its hasher meanwhile.
sum(n, d) == mix[idx(n)][<<offset, d>>]
place(n, d) == index(sum(n, d), factor(n))

\* What a goroutine is at, and what it has loaded or found.
CallInv ==
  \A p \in Procs :
    /\ pc[p] = "idle" <=> call[p] = NoCall
    /\ pc[p] = "idle" => i[p] = 0 /\ answer[p]
    /\ pc[p] \notin {"idle", "return"} => i[p] \in 0 .. (k - 1)
    /\ pc[p] = "store" => local[p] \in Hashes
    /\ pc[p] = "bit" => local[p] \in 0 .. (size - 1)
    /\ pc[p] = "return" /\ call[p].op = "Add" => i[p] = k

TypeInv == TypeOK /\ CallInv

\* The hasher of the function in progress, which no other call has touched.
HasherInv ==
  \A p \in Procs :
    /\ pc[p] = "load" => hasher[idx(i[p])] = offset
    /\ pc[p] = "store" => local[p] = offset
    /\ pc[p] = "sum" => hasher[idx(i[p])] = sum(i[p], call[p].data)
    /\ pc[p] = "bit" => local[p] = place(i[p], call[p].data)

\* The bits of what has been added are 1, and so are those an Add has got to.
BitsInv ==
  /\ \A d \in added, n \in 0 .. (k - 1) : place(n, d) \in bits
  /\ \A p \in Procs :
       call[p] # NoCall /\ call[p].op = "Add" =>
         \A n \in 0 .. (i[p] - 1) : place(n, call[p].data) \in bits

KnownInv == \A p \in Procs : call[p] # NoCall /\ known[p] => call[p].data \in added

IInv == TypeInv /\ HasherInv /\ BitsInv /\ KnownInv /\ NoFalseNegatives

-----------------------------------------------------------------------------
LEMMA IndexFacts ==
  ASSUME NEW n \in 0 .. (k - 1)
  PROVE  idx(n) \in 0 .. 1 /\ factor(n) \in Nat /\ n \in Nat /\ n + 1 \in 0 .. k
BY FilterAssumption, BloomAssumption DEF idx, factor

LEMMA ReducedType ==
  ASSUME NEW h \in Hashes, NEW n \in 0 .. (k - 1)
  PROVE  index(h, factor(n)) \in 0 .. (size - 1)
<1>1. h \in Nat /\ factor(n) \in Nat
  BY IndexFacts, FilterAssumption, BloomAssumption
<1> DEFINE x == h * factor(n)
           y == x % modulus
<1>2. x \in Nat
  BY <1>1
<1> HIDE DEF x
<1>3. y \in Nat
  BY <1>2, FilterAssumption, BloomAssumption
<1> HIDE DEF y
<1>4. y % size \in 0 .. (size - 1)
  BY <1>3, FilterAssumption, BloomAssumption
<1> QED
  BY <1>4 DEF x, y, index

LEMMA MixType ==
  ASSUME NEW h \in Hashes, NEW n \in 0 .. (k - 1), NEW d \in Data
  PROVE  mix[idx(n)][<<h, d>>] \in Hashes
BY IndexFacts, FilterAssumption, BloomAssumption

LEMMA CallFacts ==
  \A c : c \in CallType => c.data \in Data /\ c.op \in {"Add", "Contains"} /\ c # NoCall
BY FilterAssumption, BloomAssumption DEF CallType

LEMMA InitTypeInv == Init => TypeInv
<1> SUFFICES ASSUME Init PROVE TypeInv
  OBVIOUS
<1>1. answer \in [Procs -> BOOLEAN] /\ known \in [Procs -> BOOLEAN]
  BY Zenon DEF Init, FilterInit
<1>2. CallInv
  BY DEF Init, FilterInit, CallInv
<1> QED
  BY <1>1, <1>2, FilterAssumption, BloomAssumption
  DEF Init, FilterInit, TypeInv, TypeOK, FilterTypeOK

LEMMA NextTypeInv == TypeInv /\ [Next]_vars => TypeInv'
<1> SUFFICES ASSUME TypeInv, [Next]_vars PROVE TypeInv'
  OBVIOUS
<1> USE DEF TypeInv
<1>1. ASSUME NEW p \in Procs, NEW c \in CallType, Invoke(p, c) PROVE TypeInv'
  <2>1. known' \in [Procs -> BOOLEAN]
    BY <1>1 DEF Invoke, TypeOK, FilterTypeOK
  <2>2. TypeOK'
    BY <1>1, <2>1 DEF Invoke, Goto, TypeOK, FilterTypeOK
  <2>3. CallInv'
    BY <1>1, CallFacts, FilterAssumption, BloomAssumption
    DEF Invoke, Goto, TypeOK, FilterTypeOK, CallInv
  <2> QED
    BY <2>2, <2>3
<1>2. ASSUME NEW p \in Procs, Reset(p) PROVE TypeInv'
  <2>1. idx(i[p]) \in 0 .. 1
    BY <1>2, IndexFacts DEF Reset, Goto, CallInv
  <2> QED
    BY <1>2, <2>1, FilterAssumption, BloomAssumption
    DEF Reset, Goto, TypeOK, FilterTypeOK, CallInv
<1>3. ASSUME NEW p \in Procs, WriteLoad(p) PROVE TypeInv'
  <2>1. idx(i[p]) \in 0 .. 1
    BY <1>3, IndexFacts DEF WriteLoad, Goto, CallInv
  <2>2. hasher[idx(i[p])] \in Hashes /\ hasher[idx(i[p])] \in Nat
    BY <2>1, FilterAssumption, BloomAssumption DEF TypeOK, FilterTypeOK
  <2> QED
    BY <1>3, <2>2 DEF WriteLoad, Goto, TypeOK, FilterTypeOK, CallInv
<1>4. ASSUME NEW p \in Procs, WriteStore(p) PROVE TypeInv'
  <2>1. i[p] \in 0 .. (k - 1) /\ local[p] \in Hashes /\ call[p] \in CallType
    BY <1>4 DEF WriteStore, Goto, CallInv, TypeOK, FilterTypeOK
  <2>2. mix[idx(i[p])][<<local[p], call[p].data>>] \in Hashes /\ idx(i[p]) \in 0 .. 1
    BY <2>1, MixType, CallFacts, IndexFacts
  <2> QED
    BY <1>4, <2>2 DEF WriteStore, Goto, TypeOK, FilterTypeOK, CallInv
<1>5. ASSUME NEW p \in Procs, Sum32(p) PROVE TypeInv'
  <2>1. i[p] \in 0 .. (k - 1) /\ hasher[idx(i[p])] \in Hashes
    BY <1>5, IndexFacts DEF Sum32, Goto, CallInv, TypeOK, FilterTypeOK
  <2>2. local'[p] \in 0 .. (size - 1) /\ local' \in [Procs -> Nat]
    <3> DEFINE x == index(hasher[idx(i[p])], factor(i[p]))
    <3>1. x \in 0 .. (size - 1)
      BY <2>1, ReducedType
    <3>2. local' = [local EXCEPT ![p] = x] /\ local \in [Procs -> Nat]
      BY <1>5 DEF Sum32, TypeOK, FilterTypeOK
    <3> HIDE DEF x
    <3> QED
      BY <3>1, <3>2, FilterAssumption, BloomAssumption
  <2> QED
    BY <1>5, <2>2 DEF Sum32, Goto, TypeOK, FilterTypeOK, CallInv
<1>6. ASSUME NEW p \in Procs, Add(p) PROVE TypeInv'
  <2>1. i[p] \in 0 .. (k - 1) /\ local[p] \in 0 .. (size - 1) /\ i[p] + 1 \in 0 .. k
    BY <1>6, IndexFacts DEF Add, Goto, CallInv
  <2>2. TypeOK'
    BY <1>6, <2>1 DEF Add, Goto, TypeOK, FilterTypeOK
  <2>3. CallInv'
    BY <1>6, <2>1, FilterAssumption, BloomAssumption
    DEF Add, Goto, TypeOK, FilterTypeOK, CallInv
  <2> QED
    BY <2>2, <2>3
<1>7. ASSUME NEW p \in Procs, Contains(p) PROVE TypeInv'
  <2>1. i[p] \in 0 .. (k - 1) /\ i[p] + 1 \in 0 .. k
    BY <1>7, IndexFacts DEF Contains, Goto, CallInv
  <2>2. answer' \in [Procs -> BOOLEAN]
    BY <1>7 DEF Contains, TypeOK, FilterTypeOK
  <2>3. TypeOK'
    BY <1>7, <2>1, <2>2 DEF Contains, Goto, TypeOK, FilterTypeOK
  <2>4. CallInv'
    BY <1>7, <2>1, FilterAssumption, BloomAssumption
    DEF Contains, Goto, TypeOK, FilterTypeOK, CallInv
  <2> QED
    BY <2>3, <2>4
<1>8. ASSUME NEW p \in Procs, Return(p) PROVE TypeInv'
  <2>1. call[p] \in CallType
    BY <1>8 DEF Return, Finish, Goto, CallInv, TypeOK, FilterTypeOK
  <2>2. TypeOK'
    BY <1>8, <2>1, CallFacts, FilterAssumption, BloomAssumption
    DEF Return, Finish, Goto, TypeOK, FilterTypeOK
  <2>3. CallInv'
    BY <1>8 DEF Return, Finish, Goto, TypeOK, FilterTypeOK, CallInv
  <2> QED
    BY <2>2, <2>3
<1>9. CASE UNCHANGED vars
  BY <1>9 DEF vars, TypeOK, FilterTypeOK, CallInv
<1> QED
  BY <1>1, <1>2, <1>3, <1>4, <1>5, <1>6, <1>7, <1>8, <1>9 DEF Next

\* Whatever the goroutines do to each other's hashers, the bits they set and test
\* are within the bitmap, and no hash function beyond the last is called.
THEOREM BloomTypeCorrect == Spec => []TypeOK
BY InitTypeInv, NextTypeInv, PTL DEF Spec, TypeInv

-----------------------------------------------------------------------------
(* One goroutine                                                           *)

LEMMA InitIInv == Init => IInv
<1> SUFFICES ASSUME Init PROVE IInv
  OBVIOUS
<1>1. HasherInv /\ BitsInv /\ KnownInv /\ NoFalseNegatives
  BY DEF Init, FilterInit, HasherInv, BitsInv, KnownInv, NoFalseNegatives
<1> QED
  BY <1>1, InitTypeInv DEF IInv

LEMMA NextIInv ==
  ASSUME Alone, IInv, [Next]_vars
  PROVE  IInv'
<1>0. TypeInv'
  BY NextTypeInv DEF IInv
<1>00. /\ hasher \in [0 .. 1 -> Hashes] /\ call \in [Procs -> CallType \cup {NoCall}]
       /\ pc \in [Procs -> {"idle", "reset", "load", "store", "sum", "bit", "return"}]
       /\ i \in [Procs -> 0 .. k] /\ local \in [Procs -> Nat] /\ answer \in [Procs -> BOOLEAN]
       /\ known \in [Procs -> BOOLEAN] /\ k \in Nat
  BY FilterAssumption, BloomAssumption DEF IInv, TypeInv, TypeOK, FilterTypeOK
<1> SUFFICES HasherInv' /\ BitsInv' /\ KnownInv' /\ NoFalseNegatives'
  BY <1>0 DEF IInv
<1>1. ASSUME NEW p \in Procs, NEW c \in CallType, Invoke(p, c)
      PROVE  HasherInv' /\ BitsInv' /\ KnownInv' /\ NoFalseNegatives'
  <2>1. /\ pc[p] = "idle" /\ call[p] = NoCall /\ i[p] = 0 /\ answer[p]
        /\ pc' = [pc EXCEPT ![p] = "reset"] /\ call' = [call EXCEPT ![p] = c]
        /\ known' = [known EXCEPT ![p] = c.data \in added]
        /\ UNCHANGED <<bits, hasher, i, local, answer, added>>
    BY <1>1 DEF Invoke, Goto, IInv, TypeInv, CallInv
  <2>2. \A q \in Procs : q = p
    BY DEF Alone
  <2>3. pc'[p] = "reset" /\ call'[p] = c /\ (known'[p] <=> c.data \in added)
    BY <1>00, <2>1
  <2>4. HasherInv' /\ BitsInv'
    BY <2>1, <2>2, <2>3 DEF IInv, HasherInv, BitsInv
  <2>5. KnownInv'
    BY <2>1, <2>2, <2>3 DEF KnownInv
  <2>6. NoFalseNegatives'
    BY <2>1, <2>2 DEF NoFalseNegatives
  <2> QED
    BY <2>4, <2>5, <2>6
<1>2. ASSUME NEW p \in Procs, Reset(p)
      PROVE  HasherInv' /\ BitsInv' /\ KnownInv' /\ NoFalseNegatives'
  <2>1. /\ pc' = [pc EXCEPT ![p] = "load"] /\ idx(i[p]) \in 0 .. 1
        /\ hasher' = [hasher EXCEPT ![idx(i[p])] = offset]
        /\ UNCHANGED <<bits, call, i, local, answer, added, known>>
    BY <1>2, IndexFacts DEF Reset, Goto, IInv, TypeInv, CallInv
  <2>2. \A q \in Procs : q = p
    BY DEF Alone
  <2> QED
    BY <1>00, <2>1, <2>2 DEF IInv, HasherInv, BitsInv, KnownInv, NoFalseNegatives
<1>3. ASSUME NEW p \in Procs, WriteLoad(p)
      PROVE  HasherInv' /\ BitsInv' /\ KnownInv' /\ NoFalseNegatives'
  <2>1. /\ pc[p] = "load" /\ pc' = [pc EXCEPT ![p] = "store"]
        /\ local' = [local EXCEPT ![p] = hasher[idx(i[p])]]
        /\ UNCHANGED <<bits, hasher, call, i, answer, added, known>>
    BY <1>3 DEF WriteLoad, Goto
  <2>2. \A q \in Procs : q = p
    BY DEF Alone
  <2> QED
    BY <1>00, <2>1, <2>2 DEF IInv, HasherInv, BitsInv, KnownInv, NoFalseNegatives
<1>4. ASSUME NEW p \in Procs, WriteStore(p)
      PROVE  HasherInv' /\ BitsInv' /\ KnownInv' /\ NoFalseNegatives'
  <2>1. /\ pc[p] = "store" /\ pc' = [pc EXCEPT ![p] = "sum"] /\ idx(i[p]) \in 0 .. 1
        /\ hasher' = [hasher EXCEPT ![idx(i[p])] = mix[idx(i[p])][<<local[p], call[p].data>>]]
        /\ UNCHANGED <<bits, call, i, local, answer, added, known>>
    BY <1>4, IndexFacts DEF WriteStore, Goto, IInv, TypeInv, CallInv
  <2>2. \A q \in Procs : q = p
    BY DEF Alone
  <2>3. hasher'[idx(i[p])] = sum(i[p], call[p].data)
    BY <1>00, <2>1 DEF IInv, HasherInv, sum
  <2> QED
    BY <1>00, <2>1, <2>2, <2>3 DEF IInv, HasherInv, BitsInv, KnownInv, NoFalseNegatives
<1>5. ASSUME NEW p \in Procs, Sum32(p)
      PROVE  HasherInv' /\ BitsInv' /\ KnownInv' /\ NoFalseNegatives'
  <2> DEFINE x == index(hasher[idx(i[p])], factor(i[p]))
  <2>1. /\ pc[p] = "sum" /\ pc' = [pc EXCEPT ![p] = "bit"]
        /\ local' = [local EXCEPT ![p] = x]
        /\ UNCHANGED <<bits, hasher, call, i, answer, added, known>>
    BY <1>5 DEF Sum32, Goto
  <2>2. \A q \in Procs : q = p
    BY DEF Alone
  <2>3. x = place(i[p], call[p].data)
    BY <2>1 DEF IInv, HasherInv, place
  <2> HIDE DEF x
  <2> QED
    BY <1>00, <2>1, <2>2, <2>3 DEF IInv, HasherInv, BitsInv, KnownInv, NoFalseNegatives
<1>6. ASSUME NEW p \in Procs, Add(p)
      PROVE  HasherInv' /\ BitsInv' /\ KnownInv' /\ NoFalseNegatives'
  <2>1. /\ pc[p] = "bit" /\ call[p].op = "Add" /\ pc'[p] \in {"reset", "return"}
        /\ bits' = bits \cup {local[p]} /\ i' = [i EXCEPT ![p] = @ + 1]
        /\ UNCHANGED <<hasher, call, local, answer, added, known>>
    BY <1>6, <1>00 DEF Add, Goto
  <2>2. \A q \in Procs : q = p
    BY DEF Alone
  <2>3. local[p] = place(i[p], call[p].data) /\ i[p] \in Nat /\ i'[p] = i[p] + 1
    BY <1>00, <2>1 DEF IInv, HasherInv
  <2>4. BitsInv'
    <3>1. \A n \in 0 .. (i'[p] - 1) : n \in 0 .. (i[p] - 1) \/ n = i[p]
      BY <2>3
    <3> QED
      BY <2>1, <2>2, <2>3, <3>1 DEF IInv, BitsInv
  <2> QED
    BY <2>1, <2>2, <2>4 DEF IInv, HasherInv, KnownInv, NoFalseNegatives
<1>7. ASSUME NEW p \in Procs, Contains(p)
      PROVE  HasherInv' /\ BitsInv' /\ KnownInv' /\ NoFalseNegatives'
  <2>1. /\ pc[p] = "bit" /\ call[p] # NoCall /\ call[p].op = "Contains"
        /\ pc'[p] \in {"reset", "return"}
        /\ answer' = [answer EXCEPT ![p] = local[p] \in bits]
        /\ UNCHANGED <<bits, hasher, call, local, added, known>>
    BY <1>7, <1>00 DEF Contains, Goto
  <2>2. \A q \in Procs : q = p
    BY DEF Alone
  <2>3. known[p] => local[p] \in bits
    BY <2>1 DEF IInv, HasherInv, KnownInv, BitsInv, TypeInv, CallInv
  <2>4. HasherInv' /\ BitsInv' /\ KnownInv'
    BY <2>1, <2>2 DEF IInv, HasherInv, BitsInv, KnownInv
  <2>5. NoFalseNegatives'
    BY <1>00, <2>1, <2>2, <2>3 DEF NoFalseNegatives
  <2> QED
    BY <2>4, <2>5
<1>8. ASSUME NEW p \in Procs, Return(p)
      PROVE  HasherInv' /\ BitsInv' /\ KnownInv' /\ NoFalseNegatives'
  <2>1. /\ pc[p] = "return" /\ pc'[p] = "idle" /\ call'[p] = NoCall /\ call[p] # NoCall
        /\ added' = IF call[p].op = "Add" THEN added \cup {call[p].data} ELSE added
        /\ bits' = bits
        /\ call[p].op = "Add" => i[p] = k
    BY <1>8, <1>00 DEF Return, Finish, Goto, IInv, TypeInv, CallInv
  <2>2. \A q \in Procs : q = p
    BY DEF Alone
  <2>3. BitsInv'
    BY <2>1, <2>2 DEF IInv, BitsInv
  <2> QED
    BY <2>1, <2>2, <2>3 DEF HasherInv, KnownInv, NoFalseNegatives
<1>9. CASE UNCHANGED vars
  BY <1>9 DEF vars, IInv, HasherInv, BitsInv, KnownInv, NoFalseNegatives
<1> QED
  BY <1>1, <1>2, <1>3, <1>4, <1>5, <1>6, <1>7, <1>8, <1>9 DEF Next

\* A goroutine that has the filter to itself meets no false negative, whatever it
\* has added and looked up before.  (With two goroutines there are: BloomShared.cfg.)
THEOREM CompleteAlone ==
  ASSUME Alone
  PROVE  Spec => []NoFalseNegatives
<1>1. Init => IInv
  BY InitIInv
<1>2. IInv /\ [Next]_vars => IInv'
  BY NextIInv
<1>3. IInv => NoFalseNegatives
  BY DEF IInv
<1> QED
  BY <1>1, <1>2, <1>3, PTL DEF Spec

-----------------------------------------------------------------------------
(* Int64Bloom                                                              *)

\* The bits of what has been added are 1, and so are those that an Add in
\* progress has got to.
Int64BitsInv ==
  /\ \A d \in added, n \in 0 .. (k - 1) : position(n, d) \in bits
  /\ \A p \in Procs :
       call[p] # NoCall /\ call[p].op = "Add" =>
         \A d \in call[p].data, n \in 0 .. (i[p] - 1) : position(n, d) \in bits

\* Contains was called for data that is still added, and AddMany gets to its
\* end for an empty list only.
Int64CallInv ==
  \A p \in Procs :
    /\ call[p] = NoCall => i[p] = 0 /\ answer[p]
    /\ call[p] # NoCall /\ known[p] => call[p].data \subseteq added
    /\ call[p] # NoCall /\ call[p].op = "AddMany" /\ i[p] = k => call[p].data = {}

Int64IInv == Int64TypeOK /\ Int64BitsInv /\ Int64CallInv /\ NoFalseNegatives

LEMMA PositionType ==
  ASSUME NEW n \in 0 .. (k - 1), NEW d \in Data
  PROVE  position(n, d) \in 0 .. (size - 1)
<1> DEFINE b == base[n % 3][d]
           h == (b * (n \div 3 + 1)) % modulus
<1>1. n \in Nat /\ n % 3 \in 0 .. 2 /\ n \div 3 + 1 \in Nat
  BY FilterAssumption, Int64BloomAssumption
<1>2. b \in Nat
  BY <1>1, FilterAssumption, Int64BloomAssumption
<1> HIDE DEF b
<1>3. b * (n \div 3 + 1) \in Nat
  BY <1>1, <1>2
<1>4. h \in Nat
  BY <1>3, FilterAssumption, Int64BloomAssumption
<1> HIDE DEF h
<1>5. h % size \in 0 .. (size - 1)
  BY <1>4, FilterAssumption, Int64BloomAssumption
<1> QED
  BY <1>5 DEF position, index, h, b

LEMMA Int64CallData ==
  \A c \in Int64CallType : c.data \subseteq Data
BY FilterAssumption, Int64BloomAssumption DEF Int64CallType

LEMMA InitInt64IInv == Int64Init => Int64IInv
<1> SUFFICES ASSUME Int64Init PROVE Int64IInv
  OBVIOUS
<1>1. Int64TypeOK
  <2>1. i \in [Procs -> 0 .. k]
    BY FilterAssumption, Int64BloomAssumption DEF Int64Init, FilterInit
  <2>2. /\ mset \subseteq 0 .. (size - 1)
        /\ answer \in [Procs -> BOOLEAN]
        /\ known \in [Procs -> BOOLEAN]
    BY Zenon DEF Int64Init, FilterInit
  <2> QED
    BY <2>1, <2>2 DEF Int64Init, FilterInit, Int64TypeOK, FilterTypeOK
<1>2. Int64BitsInv
  BY DEF Int64Init, FilterInit, Int64BitsInv
<1>3. Int64CallInv /\ NoFalseNegatives
  BY DEF Int64Init, FilterInit, Int64CallInv, NoFalseNegatives
<1> QED
  BY <1>1, <1>2, <1>3 DEF Int64IInv

LEMMA NextInt64IInv == Int64IInv /\ [Int64Next]_int64Vars => Int64IInv'
<1> SUFFICES ASSUME Int64IInv, [Int64Next]_int64Vars PROVE Int64IInv'
  OBVIOUS
<1> USE FilterAssumption, Int64BloomAssumption DEF Int64IInv
<1>1. ASSUME NEW p \in Procs, NEW c \in Int64CallType, Int64Invoke(p, c) PROVE Int64IInv'
  <2>1. Int64TypeOK'
    BY <1>1 DEF Int64TypeOK, FilterTypeOK, Int64Invoke
  <2>2. Int64BitsInv'
    BY <1>1 DEF Int64TypeOK, FilterTypeOK, Int64BitsInv, Int64CallInv, Int64Invoke
  <2>3. Int64CallInv'
    <3>1. known'[p] => c.data \subseteq added
      BY <1>1, Zenon DEF Int64TypeOK, FilterTypeOK, Int64Invoke
    <3>2. /\ \A q \in Procs \ {p} : known'[q] = known[q] /\ call'[q] = call[q]
          /\ call'[p] = c /\ i' = i /\ answer' = answer /\ added' = added
          /\ call[p] = NoCall /\ c # NoCall
      BY <1>1 DEF Int64TypeOK, FilterTypeOK, Int64Invoke
    <3> QED
      BY <3>1, <3>2 DEF Int64CallInv
  <2>4. NoFalseNegatives'
    BY <1>1 DEF Int64TypeOK, FilterTypeOK, Int64CallInv, NoFalseNegatives, Int64Invoke
  <2> QED
    BY <2>1, <2>2, <2>3, <2>4
<1>2. ASSUME NEW p \in Procs, Int64Add(p) PROVE Int64IInv'
  <2>1. Int64TypeOK'
    <3>1. i[p] \in 0 .. (k - 1) /\ call[p].data \subseteq Data
      BY <1>2, Int64CallData DEF Int64TypeOK, FilterTypeOK, Int64Add
    <3>2. \A d \in call[p].data : position(i[p], d) \in 0 .. (size - 1)
      BY <3>1, PositionType
    <3>3. bits' \subseteq 0 .. (size - 1)
      BY <1>2, <3>2 DEF Int64TypeOK, FilterTypeOK, Int64Add
    <3>4. i' \in [Procs -> 0 .. k]
      BY <1>2, <3>1 DEF Int64TypeOK, FilterTypeOK, Int64Add
    <3>5. UNCHANGED <<mset, call, answer, added, known>>
      BY <1>2 DEF Int64Add
    <3> QED
      BY <3>3, <3>4, <3>5 DEF Int64TypeOK, FilterTypeOK
  <2>2. Int64BitsInv'
    <3>1. /\ i[p] \in Nat /\ call' = call /\ added' = added /\ i'[p] = i[p] + 1
          /\ bits' = bits \cup {position(i[p], d) : d \in call[p].data}
          /\ \A q \in Procs \ {p} : i'[q] = i[q]
      BY <1>2 DEF Int64TypeOK, FilterTypeOK, Int64Add
    <3>2. \A n \in 0 .. (i'[p] - 1) : n \in 0 .. (i[p] - 1) \/ n = i[p]
      BY <3>1
    <3> QED
      BY <3>1, <3>2 DEF Int64BitsInv
  <2>3. Int64CallInv'
    BY <1>2 DEF Int64TypeOK, FilterTypeOK, Int64CallInv, Int64Add
  <2>4. NoFalseNegatives'
    BY <1>2 DEF Int64TypeOK, FilterTypeOK, NoFalseNegatives, Int64Add
  <2> QED
    BY <2>1, <2>2, <2>3, <2>4
<1>3. ASSUME NEW p \in Procs, Int64Contains(p) PROVE Int64IInv'
  <2>1. Int64TypeOK'
    BY <1>3 DEF Int64TypeOK, FilterTypeOK, Int64Contains
  <2>2. Int64BitsInv'
    BY <1>3 DEF Int64TypeOK, FilterTypeOK, Int64BitsInv, Int64Contains
  <2>3. Int64CallInv'
    BY <1>3 DEF Int64TypeOK, FilterTypeOK, Int64CallInv, Int64Contains
  <2>4. NoFalseNegatives'
    <3>1. known[p] => \A d \in call[p].data : position(i[p], d) \in bits
      BY <1>3 DEF Int64TypeOK, FilterTypeOK, Int64BitsInv, Int64CallInv, Int64Contains
    <3> QED
      BY <1>3, <3>1 DEF Int64TypeOK, FilterTypeOK, NoFalseNegatives, Int64Contains
  <2> QED
    BY <2>1, <2>2, <2>3, <2>4
<1>4. ASSUME NEW p \in Procs, AddMany(p) PROVE Int64IInv'
  <2>0. /\ mset' = indexes(call[p].data) /\ UNCHANGED <<bits, call, answer, added, known>>
        /\ i' = [i EXCEPT ![p] = IF mset' = {} THEN k ELSE i[p]] /\ call[p].op = "AddMany"
    BY <1>4 DEF AddMany
  <2>1. Int64TypeOK'
    <3>1. k - 1 \in 0 .. (k - 1) /\ k \in 0 .. k /\ call[p].data \subseteq Data
      BY <1>4, FilterAssumption, Int64CallData DEF Int64TypeOK, AddMany
    <3>2. mset' \subseteq 0 .. (size - 1)
      BY <2>0, <3>1, PositionType DEF indexes
    <3>3. i' \in [Procs -> 0 .. k]
      BY <2>0, <3>1 DEF Int64TypeOK, FilterTypeOK
    <3> QED
      BY <2>0, <3>2, <3>3 DEF Int64TypeOK, FilterTypeOK
  <2>2. Int64BitsInv'
    BY <1>4, <2>0 DEF Int64TypeOK, FilterTypeOK, Int64BitsInv
  <2>3. Int64CallInv'
    <3>1. mset' = {} => call[p].data = {}
      BY <2>0 DEF indexes
    <3> QED
      BY <1>4, <2>0, <3>1 DEF Int64TypeOK, FilterTypeOK, Int64CallInv, AddMany
  <2>4. NoFalseNegatives'
    BY <1>4 DEF Int64TypeOK, FilterTypeOK, NoFalseNegatives, AddMany
  <2> QED
    BY <2>1, <2>2, <2>3, <2>4
<1>5. ASSUME NEW p \in Procs, Int64Return(p) PROVE Int64IInv'
  <2>1. Int64TypeOK'
    BY <1>5, Int64CallData DEF Int64TypeOK, FilterTypeOK, Int64Return, Finish
  <2>2. Int64BitsInv'
    BY <1>5
    DEF Int64TypeOK, FilterTypeOK, Int64BitsInv, Int64CallInv, Int64Return, Finish, Int64CallType
  <2>3. Int64CallInv'
    BY <1>5 DEF Int64TypeOK, FilterTypeOK, Int64CallInv, Int64Return, Finish
  <2>4. NoFalseNegatives'
    BY <1>5 DEF Int64TypeOK, FilterTypeOK, NoFalseNegatives, Int64Return, Finish
  <2> QED
    BY <2>1, <2>2, <2>3, <2>4
<1>6. CASE UNCHANGED int64Vars
  BY <1>6
  DEF int64Vars, Int64TypeOK, FilterTypeOK, Int64BitsInv, Int64CallInv, NoFalseNegatives
<1> QED
  BY <1>1, <1>2, <1>3, <1>4, <1>5, <1>6 DEF Int64Next

LEMMA Int64IInvHolds == Int64Spec => []Int64IInv
  BY InitInt64IInv, NextInt64IInv, PTL DEF Int64Spec

\* The filter keeps its type: no position is ever out of the bitmap's range,
\* so Set and IsSet of the bitmap never panic.
THEOREM Int64TypeCorrect == Int64Spec => []Int64TypeOK
  BY Int64IInvHolds, PTL DEF Int64IInv

\* The filter has no false negatives, however many goroutines use it.
THEOREM Int64Complete == Int64Spec => []NoFalseNegatives
  BY Int64IInvHolds, PTL DEF Int64IInv
=============================================================================
