------------------------------- MODULE Filter -------------------------------
(***************************************************************************)
(* What the two Bloom filters of src/bloom share: a bitmap, and goroutines *)
(* in Procs that apply one hash function after the other to their data and *)
(* set or test the bit it gives.                                           *)
(*                                                                         *)
(* The bitmap beneath is the set of its bits that are 1; Set and IsSet are *)
(* one step, as Bitmap shows them to be.                                   *)
(***************************************************************************)
EXTENDS Naturals

CONSTANTS
  Data,      \* what is added and looked up
  k,         \* the number of hash functions
  size,      \* the size of the bitmap in bits
  modulus,   \* the number of hash values: 2^32, they are of type uint32
  Procs,
  NoCall

ASSUME FilterAssumption ==
  k \in 1 .. 8 /\ size \in Nat \ {0} /\ modulus \in Nat \ {0}

VARIABLES
  bits,    \* the bits of the bitmap that are 1
  call,    \* the call of each goroutine
  i,       \* the hash function it is at
  answer,  \* what Contains has found so far
  added,   \* history: the data whose Add or AddMany has returned
  known    \* history: Contains was called for data already added

FilterTypeOK ==
  /\ bits \subseteq 0 .. (size - 1)
  /\ i \in [Procs -> 0 .. k]
  /\ answer \in [Procs -> BOOLEAN]
  /\ added \subseteq Data
  /\ known \in [Procs -> BOOLEAN]

\* What New and NewInt64Bloom have in common.
FilterInit ==
  /\ bits = {}
  /\ call = [p \in Procs |-> NoCall]
  /\ i = [p \in Procs |-> 0]
  /\ answer = [p \in Procs |-> TRUE]
  /\ added = {}
  /\ known = [p \in Procs |-> FALSE]

\* A bug: the sum is not reduced to the size of the bitmap.
indexRaw(h, times) == (h * times) % modulus

\* A hash value of a base function, multiplied in uint32 and reduced to the size
\* of the bitmap.
index(h, times) == ((h * times) % modulus) % size

\* The end of a call: data is what it has added.
Finish(p, data) ==
  /\ call' = [call EXCEPT ![p] = NoCall]
  /\ added' = added \cup data
  /\ i' = [i EXCEPT ![p] = 0]
  /\ answer' = [answer EXCEPT ![p] = TRUE]
  /\ known' = [known EXCEPT ![p] = FALSE]
  /\ UNCHANGED bits

-----------------------------------------------------------------------------
\* No false negatives: Contains, called after an Add of the same data has
\* returned, says true.  Goroutines that share an Int64BloomFilter can rely on it,
\* whatever other calls set or test in between, and so can one goroutine that has
\* a BloomFilter to itself; two can not, although the comment on BloomFilter
\* calls it thread-safe: a call that resets or writes to the hasher between
\* another call's Reset and Sum32 makes that call set or test the wrong bit.
NoFalseNegatives ==
  \A p \in Procs :
    call[p] # NoCall /\ call[p].op = "Contains" /\ known[p] => answer[p]
=============================================================================
