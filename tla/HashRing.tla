------------------------------ MODULE HashRing ------------------------------
(***************************************************************************)
(* The consistent hash rings of src/consistenthash: HashRing (ketama.go),  *)
(* whose keys are hashed, and Int64HashRing (int64_ketama.go), whose keys  *)
(* are their own hash.  Every operation holds the ring's lock, and is one  *)
(* step.  The hash of a spot, "name:i", is any number: two spots may agree *)
(* and then sort.Sort, which is not stable, leaves them in any order.      *)
(***************************************************************************)
EXTENDS Integers, Sequences, SequencesExt

CONSTANTS
  Names,                \* the names of nodes
  HashSpace,            \* hashes are 0 .. HashSpace - 1
  VirtualSpots,         \* the arguments of NewRing
  DefaultVirtualSpots,
  keyHash,              \* the hash of every string key
  MaxAdded,             \* bound on the additions that are in the ring at a time
  None

\* The keys of an Int64HashRing.  In a HashRing they stand for strings.
Keys == -(HashSpace \div 2) .. (HashSpace - 1) \div 2

Hashes == 0 .. HashSpace - 1

ASSUME HashRingAssumption ==
  /\ HashSpace \in Nat \ {0} /\ DefaultVirtualSpots \in Nat \ {0}
  /\ VirtualSpots \subseteq Int /\ MaxAdded \in Nat
  /\ keyHash \in [Keys -> Hashes] /\ None \notin Names

VARIABLES
  kind,          \* "string" or "int64"
  virtualSpots,
  spotHash,      \* the hash of every spot of every name
  nodes,         \* the spots, as a sequence of name and hash
  members        \* history: the names added and not removed since

vars == <<kind, virtualSpots, spotHash, nodes, members>>

SpotsFor(v) == IF v <= 0 THEN DefaultVirtualSpots ELSE v

\* NewRing and NewInt64Ring.
Init ==
  /\ kind \in {"string", "int64"}
  /\ virtualSpots \in {SpotsFor(v) : v \in VirtualSpots}
  /\ spotHash \in [Names -> [0 .. virtualSpots - 1 -> Hashes]]
  /\ nodes = << >>
  /\ members = {}

-----------------------------------------------------------------------------
\* Every way to put one more spot in a sorted sequence.
Inserts(s, x) ==
  {InsertAt(s, j, x) : j \in {l \in 1 .. Len(s) + 1 :
     /\ \A a \in 1 .. l - 1 : s[a].hash <= x.hash
     /\ \A a \in l .. Len(s) : s[a].hash >= x.hash}}

\* A bug: the new spots are left at the end.
Unsorted(s) == {s}

\* sort.Sort: every order of s by hash, spots with the same hash in any order.
Sorts(s) ==
  LET sorts[n \in 0 .. Len(s)] ==
        IF n = 0 THEN {<< >>} ELSE (UNION {Inserts(t, s[n]) : t \in sorts[n - 1]})
  IN  sorts[Len(s)]

\* The spots of a node, "name:0" and on.
NodesOf(name) ==
  [i \in 1..virtualSpots |-> [nodeName |-> name, hash |-> spotHash[name][i - 1]]]

AddNode(name) ==
  /\ Len(nodes) < MaxAdded * virtualSpots
  /\ nodes' \in Sorts(nodes \o NodesOf(name))
  /\ members' = members \cup {name}
  /\ UNCHANGED <<kind, virtualSpots, spotHash>>

\* One round of RemoveNode's loop: the spot is appended to those that are kept,
\* in the array that the loop reads.
Keep(loop, n, name) ==
  IF loop.array[n].nodeName = name THEN loop
  ELSE [array |-> [loop.array EXCEPT ![loop.len + 1] = loop.array[n]], len |-> loop.len + 1]

\* A bug: the last spot takes the place of the first that is removed.
SwappedOut(s, name) ==
  LET is == {i \in DOMAIN s : s[i].nodeName = name}
      moved == IF is = {} THEN s ELSE Front(ReplaceAt(s, Min(is), Last(s)))
  IN  SelectSeq(moved, LAMBDA x : x.nodeName # name)

Filtered(s, name) ==
  LET loop[n \in 0 .. Len(s)] ==
        IF n = 0 THEN [array |-> s, len |-> 0] ELSE Keep(loop[n - 1], n, name)
  IN  SubSeq(loop[Len(s)].array, 1, loop[Len(s)].len)

RemoveNode(name) ==
  /\ nodes' = Filtered(nodes, name)
  /\ members' = members \ {name}
  /\ UNCHANGED <<kind, virtualSpots, spotHash>>

Next == \E name \in Names : AddNode(name) \/ RemoveNode(name)

Spec == Init /\ [][Next]_vars

-----------------------------------------------------------------------------
(* GetNode, which changes nothing                                          *)

\* uint64(key), or the hash of the string.
targetHash(k) == IF kind = "int64" THEN k % HashSpace ELSE keyHash[k]

\* A bug: a spot right at the key is passed over.
Beyond(hash, target) == hash > target

AtLeast(hash, target) == hash >= target

\* sort.Search: by halving the interval ij, the first index from 0 whose spot is at
\* least target.
Search(s, target) ==
  LET search[ij \in (0 .. Len(s)) \X (0 .. Len(s))] ==
        LET i == ij[1]
            j == ij[2]
            h == (i + j) \div 2
        IN  IF i >= j THEN i
            ELSE IF AtLeast(s[h + 1].hash, target) THEN search[<<i, h>>] ELSE search[<<h + 1, j>>]
  IN  search[<<0, Len(s)>>]

\* The name that GetNode returns, None for false.
GetNode(k) ==
  LET idx == Search(nodes, targetHash(k))
  IN  IF nodes = << >> THEN None
      ELSE nodes[(IF idx = Len(nodes) THEN 0 ELSE idx) + 1].nodeName

-----------------------------------------------------------------------------
(* Properties                                                              *)

\* How far a spot is from a key, clockwise.
Distance(name, i, k) == (spotHash[name][i] - targetHash(k)) % HashSpace

Distances(name, k) == {Distance(name, i, k) : i \in 0 .. virtualSpots - 1}

\* The members that have the first spot clockwise from the key.
Owners(k) ==
  {m \in members : \A n \in members : Min(Distances(m, k)) <= Min(Distances(n, k))}

\* GetNode finds the node with the next spot clockwise of the key, round the end
\* of the hash space too, after any sequence of AddNode, of a name twice as well,
\* and RemoveNode; and finds one whenever there is one.
Clockwise ==
  \A k \in Keys : IF members = {} THEN GetNode(k) = None ELSE GetNode(k) \in Owners(k)

\* AddNode moves keys to the node it adds and to no other.  Only where two
\* nodes have the same hash may the sort move a key between these two.
MovesOnlyToAdded ==
  [][Len(nodes') > Len(nodes) => \A k \in Keys :
       \/ GetNode(k)' = GetNode(k)
       \/ GetNode(k)' \in members' \ members
       \/ {GetNode(k), GetNode(k)'} \subseteq Owners(k)']_vars

\* RemoveNode moves the keys of the node it removes and no other, equal hashes or
\* not: the order of the others is kept.
MovesOnlyFromRemoved ==
  [][Len(nodes') < Len(nodes) => \A k \in Keys :
       GetNode(k) \in members' => GetNode(k)' = GetNode(k)]_vars
=============================================================================
