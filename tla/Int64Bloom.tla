----------------------------- MODULE Int64Bloom -----------------------------
(***************************************************************************)
(* bloom.Int64BloomFilter (src/bloom/int64_bloom.go) and the goroutines in *)
(* Procs that use it.  Its hash functions keep no state; a call computes   *)
(* one position after the other and sets or tests its bit.  MSet with      *)
(* indexes takes the bitmap's mutex and waits for it, as Bitmap shows:     *)
(* from then on no call on the bitmap gets through.                        *)
(***************************************************************************)
EXTENDS Filter

CONSTANTS
  base,      \* the three base hashes of each: [0 .. 2 -> [Data -> Nat]]
  Batches    \* the lists given to AddMany, as sets

Int64CallType ==
  [op : {"Add", "Contains"}, data : {{d} : d \in Data}]
  \cup [op : {"AddMany"}, data : Batches]

ASSUME Int64BloomAssumption ==
  /\ base \in [0 .. 2 -> [Data -> Nat]]
  /\ \A b \in Batches : b \subseteq Data
  /\ NoCall \notin Int64CallType

VARIABLE mset   \* the indexes of the MSet that holds the bitmap's mutex and waits for it

int64Vars == <<bits, mset, call, i, answer, added, known>>

\* Hash function n: base function n % 3, times n / 3 + 1.
position(n, d) == index(base[n % 3][d], n \div 3 + 1)

Int64TypeOK ==
  /\ FilterTypeOK
  /\ call \in [Procs -> Int64CallType \cup {NoCall}]
  /\ mset \subseteq 0 .. (size - 1)

\* NewInt64Bloom
Int64Init == FilterInit /\ mset = {}

-----------------------------------------------------------------------------
Int64Invoke(p, c) ==
  /\ call[p] = NoCall
  /\ call' = [call EXCEPT ![p] = c]
  /\ known' = [known EXCEPT ![p] = c.data \subseteq added]
  /\ UNCHANGED <<bits, mset, i, answer, added>>

\* A bug: the first hash function is left out.
AddSkipsFirst(p) ==
  /\ call[p] # NoCall /\ call[p].op = "Add" /\ i[p] < k
  /\ mset = {}
  /\ bits' = IF i[p] = 0 THEN bits
             ELSE bits \cup {position(i[p], d) : d \in call[p].data}
  /\ i' = [i EXCEPT ![p] = @ + 1]
  /\ UNCHANGED <<mset, call, answer, added, known>>

\* One round of Add's loop.
Int64Add(p) ==
  /\ call[p] # NoCall /\ call[p].op = "Add" /\ i[p] < k
  /\ mset = {}
  /\ bits' = bits \cup {position(i[p], d) : d \in call[p].data}
  /\ i' = [i EXCEPT ![p] = @ + 1]
  /\ UNCHANGED <<mset, call, answer, added, known>>

\* One round of Contains's loop, which a bit that is 0 ends.
Int64Contains(p) ==
  LET here == \A d \in call[p].data : position(i[p], d) \in bits
  IN  /\ call[p] # NoCall /\ call[p].op = "Contains" /\ i[p] < k
      /\ mset = {}
      /\ answer' = [answer EXCEPT ![p] = here]
      /\ i' = [i EXCEPT ![p] = IF here THEN @ + 1 ELSE k]
      /\ UNCHANGED <<bits, mset, call, added, known>>

\* What AddMany's loops leave in indexes: every hash function puts its position in
\* the place of the value, where that of the last one stays.
indexes(data) == {position(k - 1, d) : d \in data}

\* AddMany hands them to MSet, which returns for an empty list only.
AddMany(p) ==
  /\ call[p] # NoCall /\ call[p].op = "AddMany" /\ i[p] < k
  /\ mset = {}
  /\ mset' = indexes(call[p].data)
  /\ i' = [i EXCEPT ![p] = IF mset' = {} THEN k ELSE @]
  /\ UNCHANGED <<bits, call, answer, added, known>>

Int64Return(p) ==
  /\ call[p] # NoCall
  /\ i[p] = k
  /\ Finish(p, IF call[p].op = "Contains" THEN {} ELSE call[p].data)
  /\ UNCHANGED mset

Int64Next ==
  \E p \in Procs :
    \/ \E c \in Int64CallType : Int64Invoke(p, c)
    \/ Int64Add(p) \/ Int64Contains(p) \/ AddMany(p) \/ Int64Return(p)

Int64Spec == Int64Init /\ [][Int64Next]_int64Vars
=============================================================================
