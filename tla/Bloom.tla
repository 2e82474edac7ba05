------------------------------- MODULE Bloom -------------------------------
(***************************************************************************)
(* bloom.BloomFilter (src/bloom/bloom.go) and the goroutines in Procs that *)
(* use it.  Its hash functions share two hashers, one of FNV-1a and one of *)
(* FNV-1: each function resets its hasher, writes the data to it and reads *)
(* the sum, with no lock, so the steps of two calls may interleave.  Write *)
(* loads the state of the hasher, mixes the data in and stores it.         *)
(***************************************************************************)
EXTENDS Filter

CONSTANTS
  Hashes,    \* the states of a hasher, which are also its sums
  offset,    \* its state after Reset
  mix        \* what Write makes of a state: [0 .. 1 -> [Hashes \X Data -> Hashes]]

CallType == [op : {"Add", "Contains"}, data : Data]

ASSUME BloomAssumption ==
  /\ Hashes \subseteq Nat
  /\ offset \in Hashes
  /\ mix \in [0 .. 1 -> [Hashes \X Data -> Hashes]]
  /\ NoCall \notin CallType

VARIABLES
  hasher,  \* the state of the two hashers h1 and h2
  pc,      \* how far each goroutine is with the hash function
  local    \* the state Write has loaded, then the position

vars == <<bits, hasher, call, pc, i, local, answer, added, known>>

TypeOK ==
  /\ FilterTypeOK
  /\ hasher \in [0 .. 1 -> Hashes]
  /\ call \in [Procs -> CallType \cup {NoCall}]
  /\ pc \in [Procs -> {"idle", "reset", "load", "store", "sum", "bit", "return"}]
  /\ local \in [Procs -> Nat]

\* New
Init ==
  /\ FilterInit
  /\ hasher = [h \in 0 .. 1 |-> offset]
  /\ pc = [p \in Procs |-> "idle"]
  /\ local = [p \in Procs |-> 0]

Goto(p, from, to) == pc[p] = from /\ pc' = [pc EXCEPT ![p] = to]

\* Hash function n uses hasher n % 2 and multiplies its sum by n / 2 + 1.
idx(n) == n % 2
factor(n) == n \div 2 + 1

-----------------------------------------------------------------------------
Invoke(p, c) ==
  /\ Goto(p, "idle", "reset")
  /\ call' = [call EXCEPT ![p] = c]
  /\ known' = [known EXCEPT ![p] = c.data \in added]
  /\ UNCHANGED <<bits, hasher, i, local, answer, added>>

\* A bug: the hasher is not reset.
ResetNot(p) ==
  /\ Goto(p, "reset", "load")
  /\ UNCHANGED <<bits, hasher, call, i, local, answer, added, known>>

Reset(p) ==
  /\ Goto(p, "reset", "load")
  /\ hasher' = [hasher EXCEPT ![idx(i[p])] = offset]
  /\ UNCHANGED <<bits, call, i, local, answer, added, known>>

WriteLoad(p) ==
  /\ Goto(p, "load", "store")
  /\ local' = [local EXCEPT ![p] = hasher[idx(i[p])]]
  /\ UNCHANGED <<bits, hasher, call, i, answer, added, known>>

WriteStore(p) ==
  /\ Goto(p, "store", "sum")
  /\ hasher' = [hasher EXCEPT ![idx(i[p])] =
                  mix[idx(i[p])][<<local[p], call[p].data>>]]
  /\ UNCHANGED <<bits, call, i, local, answer, added, known>>

Sum32(p) ==
  /\ Goto(p, "sum", "bit")
  /\ local' = [local EXCEPT ![p] = index(hasher[idx(i[p])], factor(i[p]))]
  /\ UNCHANGED <<bits, hasher, call, i, answer, added, known>>

\* The rest of a round of Add's loop.
Add(p) ==
  /\ call[p] # NoCall /\ call[p].op = "Add"
  /\ Goto(p, "bit", IF i[p] + 1 < k THEN "reset" ELSE "return")
  /\ bits' = bits \cup {local[p]}
  /\ i' = [i EXCEPT ![p] = @ + 1]
  /\ UNCHANGED <<hasher, call, local, answer, added, known>>

\* The rest of a round of Contains's loop, which a bit that is 0 ends.
Contains(p) ==
  LET here == local[p] \in bits
  IN  /\ call[p] # NoCall /\ call[p].op = "Contains"
      /\ Goto(p, "bit", IF here /\ i[p] + 1 < k THEN "reset" ELSE "return")
      /\ answer' = [answer EXCEPT ![p] = here]
      /\ i' = [i EXCEPT ![p] = @ + 1]
      /\ UNCHANGED <<bits, hasher, call, local, added, known>>

Return(p) ==
  /\ Goto(p, "return", "idle")
  /\ Finish(p, IF call[p].op = "Add" THEN {call[p].data} ELSE {})
  /\ local' = [local EXCEPT ![p] = 0]
  /\ UNCHANGED hasher

Next ==
  \E p \in Procs :
    \/ \E c \in CallType : Invoke(p, c)
    \/ Reset(p) \/ WriteLoad(p) \/ WriteStore(p) \/ Sum32(p)
    \/ Add(p) \/ Contains(p) \/ Return(p)

Spec == Init /\ [][Next]_vars
=============================================================================
