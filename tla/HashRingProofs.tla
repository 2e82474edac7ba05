--------------------------- MODULE HashRingProofs ---------------------------
(***************************************************************************)
(* The rings of HashRing, for any names, hashes, keys and numbers of       *)
(* spots: GetNode finds the next spot clockwise, AddNode and RemoveNode    *)
(* move only the keys they must.                                           *)
(*                                                                         *)
(* The loops of the code are recursive functions in HashRing.  What they   *)
(* compute is proved by induction on the number of rounds, in the form     *)
(* that a first-order prover can use: a set of rounds that has no least    *)
(* element is empty.                                                       *)
(***************************************************************************)
EXTENDS HashRing, TLAPS, WellFoundedInduction

-----------------------------------------------------------------------------
(* Induction and recursion over 0 .. n                                     *)

LEMMA LeastElement ==
  ASSUME NEW T, T \subseteq Nat, T # {}
  PROVE  \E x \in T : \A y \in T : x <= y
<1> DEFINE R == OpToRel(<, Nat)
<1>1. IsWellFoundedOn(R, Nat)
  BY NatLessThanWellFounded, Zenon
<1>2. \A y \in Nat, z \in Nat : y < z => <<y, z>> \in R
  BY DEF OpToRel
<1> HIDE DEF R
<1>3. PICK x \in T : \A y \in T : ~ (<<y, x>> \in R)
  BY <1>1, WFMin, Zenon
<1>4. ASSUME NEW y \in T PROVE x <= y
  <2>1. x \in Nat /\ y \in Nat
    OBVIOUS
  <2>2. ~ (y < x)
    BY <1>2, <1>3, <2>1
  <2> QED
    BY <2>1, <2>2
<1> QED
  BY <1>4

\* Induction on 0 .. n: Bad are the numbers for which the claim does not hold.
LEMMA NoLeastBad ==
  ASSUME NEW n \in Nat, NEW Bad, Bad \subseteq 0 .. n, 0 \notin Bad,
         \A m \in 1 .. n : m \in Bad => m - 1 \in Bad
  PROVE  Bad = {}
<1> SUFFICES ASSUME Bad # {} PROVE FALSE
  OBVIOUS
<1>1. Bad \subseteq Nat
  OBVIOUS
<1>2. PICK x \in Bad : \A y \in Bad : x <= y
  BY <1>1, LeastElement, Zenon
<1> QED
  BY <1>2

\* f is the function that starts at v0 and takes n steps.
Recursive(n, V, v0, step, f) ==
  f \in [0 .. n -> V] /\ f[0] = v0 /\ \A m \in 1 .. n : f[m] = step[<<m, f[m - 1]>>]

\* Primitive recursion defines a function.
LEMMA RecursionExists ==
  ASSUME NEW n \in Nat, NEW V, NEW v0 \in V, NEW step \in [(1 .. n) \X V -> V]
  PROVE  \E f : Recursive(n, V, v0, step, f)
<1> DEFINE Upto(l) ==
             \E f \in [0 .. l -> V] :
                f[0] = v0 /\ \A m \in 1 .. l : f[m] = step[<<m, f[m - 1]>>]
           Bad == {l \in 0 .. n : ~ Upto(l)}
<1>1. Upto(0)
  <2> WITNESS [x \in 0 .. 0 |-> v0] \in [0 .. 0 -> V]
  <2> QED
    OBVIOUS
<1>2. ASSUME NEW l \in 1 .. n, Upto(l - 1) PROVE Upto(l)
  <2>1. PICK f \in [0 .. l - 1 -> V] :
               f[0] = v0 /\ \A m \in 1 .. l - 1 : f[m] = step[<<m, f[m - 1]>>]
    BY <1>2
  <2>2. step[<<l, f[l - 1]>>] \in V
    OBVIOUS
  <2> DEFINE g == [x \in 0 .. l |-> IF x = l THEN step[<<l, f[l - 1]>>] ELSE f[x]]
  <2>3. g \in [0 .. l -> V]
    BY <2>2
  <2>4. g[0] = v0
    BY <2>1
  <2>5. ASSUME NEW m \in 1 .. l PROVE g[m] = step[<<m, g[m - 1]>>]
    <3>1. m - 1 \in 0 .. l - 1 /\ m \in 0 .. l /\ m - 1 \in 0 .. l
      OBVIOUS
    <3>2. g[m - 1] = f[m - 1]
      BY <3>1
    <3>3. CASE m = l
      BY <3>1, <3>2, <3>3
    <3>4. CASE m # l
      <4>1. m \in 1 .. l - 1 /\ g[m] = f[m]
        BY <3>1, <3>4
      <4> QED
        BY <2>1, <3>2, <4>1
    <3> QED
      BY <3>3, <3>4
  <2> HIDE DEF g
  <2> QED
    BY <2>3, <2>4, <2>5
<1> HIDE DEF Upto
<1>3. Bad \subseteq 0 .. n /\ 0 \notin Bad
  BY <1>1
<1>4. ASSUME NEW m \in 1 .. n, m \in Bad PROVE m - 1 \in Bad
  BY <1>2, <1>4
<1> HIDE DEF Bad
<1>5. Bad = {}
  BY <1>3, <1>4, NoLeastBad, Zenon
<1>6. Upto(n)
  BY <1>5 DEF Bad
<1> QED
  BY <1>6 DEF Upto, Recursive

-----------------------------------------------------------------------------
(* Sorting                                                                 *)

Spot == [nodeName : Names, hash : Hashes]

InOrder(s) == \A a, b \in 1 .. Len(s) : a <= b => s[a].hash <= s[b].hash

LEMMA HashFacts == Hashes \subseteq Nat /\ HashSpace \in Nat /\ HashSpace > 0
BY HashRingAssumption DEF Hashes

\* u is t with x put in as number j.
Inserted(t, x, j, u) ==
  /\ u[j] = x
  /\ \A a \in 1 .. j - 1 : u[a] = t[a] /\ t[a].hash <= x.hash
  /\ \A a \in j .. Len(t) : u[a + 1] = t[a] /\ t[a].hash >= x.hash

LEMMA InsertFacts ==
  ASSUME NEW t \in Seq(Spot), NEW x \in Spot, NEW u \in Inserts(t, x)
  PROVE  /\ u \in Seq(Spot) /\ Len(u) = Len(t) + 1
         /\ \E j \in 1 .. Len(t) + 1 : Inserted(t, x, j, u)
<1>1. PICK j \in 1 .. Len(t) + 1 :
             /\ u = InsertAt(t, j, x)
             /\ \A a \in 1 .. j - 1 : t[a].hash <= x.hash
             /\ \A a \in j .. Len(t) : t[a].hash >= x.hash
  BY DEF Inserts
<1> DEFINE p == SubSeq(t, 1, j - 1)
           q == SubSeq(t, j, Len(t))
<1>2. p \in Seq(Spot) /\ Len(p) = j - 1 /\ \A a \in 1 .. j - 1 : p[a] = t[a]
  OBVIOUS
<1>3. q \in Seq(Spot) /\ Len(q) = Len(t) - j + 1 /\ \A a \in 1 .. Len(q) : q[a] = t[j + a - 1]
  OBVIOUS
<1>4. u = p \o <<x>> \o q
  BY <1>1 DEF InsertAt
<1> HIDE DEF p, q
<1>5. u \in Seq(Spot) /\ Len(u) = Len(t) + 1
  BY <1>2, <1>3, <1>4
<1>6. u[j] = x
  BY <1>2, <1>3, <1>4
<1>7. \A a \in 1 .. j - 1 : u[a] = t[a]
  BY <1>2, <1>3, <1>4
<1>8. ASSUME NEW a \in j .. Len(t) PROVE u[a + 1] = t[a]
  <2>1. u[a + 1] = q[a + 1 - j]
    BY <1>2, <1>3, <1>4
  <2>2. a + 1 - j \in 1 .. Len(q) /\ j + (a + 1 - j) - 1 = a
    BY <1>3
  <2> QED
    BY <1>3, <2>1, <2>2
<1> QED
  BY <1>1, <1>5, <1>6, <1>7, <1>8 DEF Inserted

\* What is sorted after n rounds of insertion: the first n spots of s.
SortedUpto(s, n, t) ==
  /\ t \in Seq(Spot) /\ Len(t) = n /\ InOrder(t)
  /\ \A j \in 1 .. n : \E l \in 1 .. n : t[l] = s[j]
  /\ \A l \in 1 .. n : \E j \in 1 .. n : t[l] = s[j]

LEMMA InsertKeepsSorted ==
  ASSUME NEW s \in Seq(Spot), NEW n \in 1 .. Len(s), NEW t, SortedUpto(s, n - 1, t),
         NEW u \in Inserts(t, s[n])
  PROVE  SortedUpto(s, n, u)
<1>0. t \in Seq(Spot) /\ Len(t) = n - 1 /\ n \in Nat /\ s[n] \in Spot
  BY DEF SortedUpto
<1>1. u \in Seq(Spot) /\ Len(u) = n
  BY <1>0, InsertFacts
<1>2. PICK j \in 1 .. n :
             /\ u[j] = s[n]
             /\ \A a \in 1 .. j - 1 : u[a] = t[a] /\ t[a].hash <= s[n].hash
             /\ \A a \in j .. n - 1 : u[a + 1] = t[a] /\ t[a].hash >= s[n].hash
  <2>1. PICK j \in 1 .. Len(t) + 1 : Inserted(t, s[n], j, u)
    BY <1>0, InsertFacts
  <2>2. Len(t) + 1 = n /\ Len(t) = n - 1
    BY <1>0
  <2> QED
    BY <2>1, <2>2 DEF Inserted
<1>3. \A a \in 1 .. n : u[a].hash \in Nat
  <2>1. \A a \in 1 .. n : u[a] \in Spot
    BY <1>1
  <2> QED
    BY <2>1, HashFacts DEF Spot
<1>4. InOrder(u)
  <2> SUFFICES ASSUME NEW a \in 1 .. n, NEW b \in 1 .. n, a < b
               PROVE  u[a].hash <= u[b].hash
    BY <1>1, <1>3 DEF InOrder
  <2>0. \A c, d \in 1 .. n - 1 : c <= d => t[c].hash <= t[d].hash
    BY <1>0 DEF SortedUpto, InOrder
  <2>1. CASE b < j
    <3>1. u[a] = t[a] /\ u[b] = t[b] /\ a \in 1 .. n - 1 /\ b \in 1 .. n - 1
      BY <1>2, <2>1
    <3> QED
      BY <2>0, <3>1
  <2>2. CASE b = j
    BY <1>2, <2>2
  <2>3. CASE b > j /\ a < j
    <3>1. b - 1 \in j .. n - 1 /\ b = (b - 1) + 1
      BY <2>3
    <3>2. u[b] = t[b - 1] /\ t[b - 1].hash >= s[n].hash /\ u[a].hash <= s[n].hash
      BY <1>2, <2>3, <3>1
    <3> QED
      BY <1>2, <1>3, <3>2
  <2>4. CASE b > j /\ a = j
    <3>1. b - 1 \in j .. n - 1 /\ b = (b - 1) + 1
      BY <2>4
    <3> QED
      BY <1>2, <2>4, <3>1
  <2>5. CASE a > j
    <3>1. a - 1 \in j .. n - 1 /\ b - 1 \in j .. n - 1 /\ a = (a - 1) + 1 /\ b = (b - 1) + 1
      BY <2>5
    <3>2. u[b] = t[b - 1] /\ u[a] = t[a - 1]
      BY <1>2, <3>1
    <3> QED
      BY <2>0, <3>1, <3>2
  <2> QED
    BY <2>1, <2>2, <2>3, <2>4, <2>5
<1>5. ASSUME NEW m \in 1 .. n PROVE \E l \in 1 .. n : u[l] = s[m]
  <2>1. CASE m = n
    BY <1>2, <2>1
  <2>2. CASE m # n
    <3>1. PICK l \in 1 .. n - 1 : t[l] = s[m]
      BY <2>2 DEF SortedUpto
    <3>2. CASE l < j
      <4>1. l \in 1 .. n /\ u[l] = s[m]
        BY <1>2, <3>1, <3>2
      <4> QED
        BY <4>1
    <3>3. CASE l >= j
      <4>1. l + 1 \in 1 .. n /\ u[l + 1] = s[m]
        BY <1>2, <3>1, <3>3
      <4> QED
        BY <4>1
    <3> QED
      BY <3>2, <3>3
  <2> QED
    BY <2>1, <2>2
<1>6. ASSUME NEW l \in 1 .. n PROVE \E m \in 1 .. n : u[l] = s[m]
  <2>0. \A c \in 1 .. n - 1 : \E m \in 1 .. n : t[c] = s[m]
    BY DEF SortedUpto
  <2>1. CASE l = j
    BY <1>2, <2>1
  <2>2. CASE l < j
    <3>1. l \in 1 .. n - 1 /\ u[l] = t[l]
      BY <1>2, <2>2
    <3> QED
      BY <2>0, <3>1
  <2>3. CASE l > j
    <3>1. l - 1 \in j .. n - 1 /\ l = (l - 1) + 1 /\ l - 1 \in 1 .. n - 1
      BY <2>3
    <3>2. u[l] = t[l - 1]
      BY <1>2, <3>1
    <3> QED
      BY <2>0, <3>1, <3>2
  <2> QED
    BY <2>1, <2>2, <2>3
<1> QED
  BY <1>1, <1>4, <1>5, <1>6 DEF SortedUpto

\* sort.Sort in AddNode as the ring needs it: whatever it does with equal hashes, the
\* result has the same spots, in order of their hashes.
THEOREM SortsContract ==
  ASSUME NEW s \in Seq(Spot), NEW u \in Sorts(s)
  PROVE  SortedUpto(s, Len(s), u)
<1> DEFINE n == Len(s)
           V == SUBSET Seq(Spot)
           Round(m, T) == UNION {Inserts(t, s[m]) : t \in T}
           Body(f) == [m \in 0 .. n |-> IF m = 0 THEN {<< >>} ELSE Round(m, f[m - 1])]
           F == CHOOSE f : f = Body(f)
           step == [x \in (1 .. n) \X V |-> Round(x[1], x[2])]
<1>0. n \in Nat
  OBVIOUS
<1>1. u \in F[n]
  BY DEF Sorts
<1>2. step \in [(1 .. n) \X V -> V]
  <2> SUFFICES ASSUME NEW m \in 1 .. n, NEW T \in V PROVE Round(m, T) \in V
    BY Zenon
  <2>1. \A t \in T : Inserts(t, s[m]) \subseteq Seq(Spot)
    BY InsertFacts
  <2> QED
    BY <2>1
<1>3. {<< >>} \in V
  OBVIOUS
<1> HIDE DEF n, V, step
<1>4. PICK f : Recursive(n, V, {<< >>}, step, f)
  BY <1>0, <1>2, <1>3, RecursionExists, Zenon
<1>5. ASSUME NEW m \in 1 .. n PROVE f[m] = Round(m, f[m - 1])
  <2>1. f[m - 1] \in V /\ <<m, f[m - 1]>> \in (1 .. n) \X V /\ f[m] = step[<<m, f[m - 1]>>]
    BY <1>0, <1>4 DEF Recursive
  <2> HIDE DEF Round
  <2> QED
    BY <2>1 DEF step
<1> HIDE DEF Round
<1>6. f = Body(f)
  BY <1>4, <1>5 DEF Recursive
<1>7. F = Body(F)
  BY <1>6
<1> HIDE DEF F
<1>8. F[0] = {<< >>} /\ \A m \in 1 .. n : F[m] = Round(m, F[m - 1])
  <2>1. \A m \in 0 .. n : F[m] = IF m = 0 THEN {<< >>} ELSE Round(m, F[m - 1])
    BY <1>7, Zenon
  <2> QED
    BY <1>0, <2>1
<1> DEFINE Bad == {m \in 0 .. n : ~ \A t \in F[m] : SortedUpto(s, m, t)}
<1>9. SortedUpto(s, 0, << >>)
  BY DEF SortedUpto, InOrder
<1>10. Bad \subseteq 0 .. n /\ 0 \notin Bad
  BY <1>8, <1>9
<1>11. ASSUME NEW m \in 1 .. n, m \in Bad PROVE m - 1 \in Bad
  <2> SUFFICES ASSUME m - 1 \notin Bad PROVE FALSE
    OBVIOUS
  <2>1. \A t \in F[m - 1] : SortedUpto(s, m - 1, t)
    BY <1>0
  <2>2. PICK t \in F[m] : ~ SortedUpto(s, m, t)
    BY <1>11
  <2>3. PICK r \in F[m - 1] : t \in Inserts(r, s[m])
    BY <1>8, <2>2 DEF Round
  <2> QED
    BY <2>1, <2>2, <2>3, InsertKeepsSorted DEF n
<1> HIDE DEF Bad
<1>12. Bad = {}
  BY <1>0, <1>10, <1>11, NoLeastBad, Zenon
<1> QED
  BY <1>0, <1>1, <1>12 DEF Bad, n

-----------------------------------------------------------------------------
(* Filtering                                                               *)

\* The states of the loop of RemoveNode: its array, of the length of s, and how
\* much of it holds what is kept.
Loops(s) == [array : {a \in Seq(Spot) : Len(a) = Len(s)}, len : Nat]

\* The first len spots of u are, in their order, those of the first n of s that are
\* not of the name; e says which.
Picks(s, name, n, u, len, e) ==
  /\ e \in [1 .. len -> 1 .. n]
  /\ \A a, b \in 1 .. len : a < b => e[a] < e[b]
  /\ \A a \in 1 .. len : u[a] = s[e[a]] /\ s[e[a]].nodeName # name
  /\ \A m \in 1 .. n : s[m].nodeName # name => \E a \in 1 .. len : e[a] = m

\* After n rounds nothing that is still to be read has been overwritten.
KeptUpto(s, name, n, l) ==
  /\ l \in Loops(s) /\ l.len <= n
  /\ \A m \in n + 1 .. Len(s) : l.array[m] = s[m]
  /\ \E e : Picks(s, name, n, l.array, l.len, e)

LEMMA KeepType ==
  ASSUME NEW s \in Seq(Spot), NEW n \in 1 .. Len(s), NEW name, NEW l \in Loops(s)
  PROVE  Keep(l, n, name) \in Loops(s)
<1>1. l.array \in Seq(Spot) /\ Len(l.array) = Len(s) /\ l.len \in Nat
  BY DEF Loops
<1> DEFINE array == [l.array EXCEPT ![l.len + 1] = l.array[n]]
<1>2. l.array[n] \in Spot
  BY <1>1
<1>3. array \in Seq(Spot) /\ Len(array) = Len(s)
  <2>1. l.array \in [1 .. Len(s) -> Spot]
    BY <1>1
  <2>2. array \in [1 .. Len(s) -> Spot]
    BY <1>2, <2>1
  <2> HIDE DEF array
  <2> QED
    BY <2>2
<1> HIDE DEF array
<1>4. [array |-> array, len |-> l.len + 1] \in Loops(s)
  BY <1>1, <1>3 DEF Loops
<1> QED
  BY <1>4 DEF Keep, array

LEMMA KeepRound ==
  ASSUME NEW s \in Seq(Spot), NEW n \in 1 .. Len(s), NEW name, NEW l,
         KeptUpto(s, name, n - 1, l)
  PROVE  KeptUpto(s, name, n, Keep(l, n, name))
<1>0. n \in Nat /\ n - 1 \in Nat /\ Len(s) \in Nat
  OBVIOUS
<1>1. l \in Loops(s) /\ l.array \in Seq(Spot) /\ Len(l.array) = Len(s) /\ l.len \in Nat
      /\ l.len <= n - 1
  BY DEF KeptUpto, Loops
<1>2. \A m \in n .. Len(s) : l.array[m] = s[m]
  <2>1. (n - 1) + 1 = n
    BY <1>0
  <2> QED
    BY <2>1 DEF KeptUpto
<1>3. PICK e : Picks(s, name, n - 1, l.array, l.len, e)
  BY DEF KeptUpto
<1>4. l.array[n] = s[n]
  BY <1>0, <1>2
<1>5. CASE s[n].nodeName = name
  <2>1. Keep(l, n, name) = l
    BY <1>4, <1>5 DEF Keep
  <2>2. Picks(s, name, n, l.array, l.len, e)
    BY <1>0, <1>3, <1>5 DEF Picks
  <2> QED
    BY <1>0, <1>1, <1>2, <2>1, <2>2 DEF KeptUpto
<1>6. CASE s[n].nodeName # name
  <2> DEFINE array == [l.array EXCEPT ![l.len + 1] = s[n]]
             g == [a \in 1 .. l.len + 1 |-> IF a = l.len + 1 THEN n ELSE e[a]]
  <2>1. Keep(l, n, name) = [array |-> array, len |-> l.len + 1]
    BY <1>4, <1>6 DEF Keep
  <2>2. Keep(l, n, name) \in Loops(s)
    BY <1>1, KeepType
  <2>3. /\ array[l.len + 1] = s[n]
        /\ \A m \in 1 .. Len(s) : m # l.len + 1 => array[m] = l.array[m]
    BY <1>0, <1>1
  <2>4. \A m \in n + 1 .. Len(s) : array[m] = s[m]
    <3> SUFFICES ASSUME NEW m \in n + 1 .. Len(s) PROVE array[m] = s[m]
      OBVIOUS
    <3>1. m \in 1 .. Len(s) /\ m # l.len + 1 /\ m \in n .. Len(s)
      BY <1>0, <1>1
    <3> HIDE DEF array
    <3> QED
      BY <1>2, <2>3, <3>1
  <2> HIDE DEF array
  <2>5. /\ g[l.len + 1] = n
        /\ \A a \in 1 .. l.len : g[a] = e[a]
    BY <1>1
  <2>6. Picks(s, name, n, array, l.len + 1, g)
    <3>0. /\ e \in [1 .. l.len -> 1 .. n - 1]
          /\ \A a, b \in 1 .. l.len : a < b => e[a] < e[b]
          /\ \A a \in 1 .. l.len : l.array[a] = s[e[a]] /\ s[e[a]].nodeName # name
          /\ \A m \in 1 .. n - 1 : s[m].nodeName # name => \E a \in 1 .. l.len : e[a] = m
      BY <1>3 DEF Picks
    <3>1. g \in [1 .. l.len + 1 -> 1 .. n]
      <4>1. \A a \in 1 .. l.len + 1 : a # l.len + 1 => a \in 1 .. l.len
        BY <1>1
      <4>2. \A a \in 1 .. l.len : e[a] \in 1 .. n
        BY <1>0, <3>0
      <4> QED
        BY <1>0, <4>1, <4>2
    <3> HIDE DEF g
    <3>2. ASSUME NEW a \in 1 .. l.len + 1, NEW b \in 1 .. l.len + 1, a < b PROVE g[a] < g[b]
      <4>1. a \in 1 .. l.len /\ g[a] = e[a] /\ e[a] \in 1 .. n - 1
        BY <1>1, <2>5, <3>0, <3>2
      <4>2. CASE b = l.len + 1
        BY <1>0, <2>5, <4>1, <4>2
      <4>3. CASE b # l.len + 1
        <5>1. b \in 1 .. l.len
          BY <1>1, <4>3
        <5> QED
          BY <2>5, <3>0, <3>2, <4>1, <5>1
      <4> QED
        BY <4>2, <4>3
    <3>3. ASSUME NEW a \in 1 .. l.len + 1
          PROVE  array[a] = s[g[a]] /\ s[g[a]].nodeName # name
      <4>1. CASE a = l.len + 1
        BY <1>6, <2>3, <2>5, <4>1
      <4>2. CASE a # l.len + 1
        <5>1. a \in 1 .. l.len /\ a \in 1 .. Len(s)
          BY <1>0, <1>1, <4>2
        <5> QED
          BY <2>3, <2>5, <3>0, <4>2, <5>1
      <4> QED
        BY <4>1, <4>2
    <3>4. ASSUME NEW m \in 1 .. n, s[m].nodeName # name
          PROVE  \E a \in 1 .. l.len + 1 : g[a] = m
      <4>1. CASE m = n
        BY <1>1, <2>5, <4>1
      <4>2. CASE m # n
        <5>1. m \in 1 .. n - 1
          BY <1>0, <4>2
        <5>2. PICK a \in 1 .. l.len : e[a] = m
          BY <3>0, <3>4, <5>1
        <5>3. a \in 1 .. l.len + 1 /\ g[a] = m
          BY <1>1, <2>5, <5>2
        <5> QED
          BY <5>3
      <4> QED
        BY <4>1, <4>2
    <3> QED
      BY <3>1, <3>2, <3>3, <3>4 DEF Picks
  <2>7. Keep(l, n, name).array = array /\ Keep(l, n, name).len = l.len + 1
    BY <2>1
  <2> HIDE DEF g
  <2> QED
    BY <1>0, <1>1, <2>2, <2>4, <2>6, <2>7 DEF KeptUpto
<1> QED
  BY <1>5, <1>6

\* RemoveNode's loop, though it writes into the array that it reads, leaves exactly
\* the spots of the other names, in their order.
THEOREM FilteredContract ==
  ASSUME NEW s \in Seq(Spot), NEW name
  PROVE  /\ Filtered(s, name) \in Seq(Spot) /\ Len(Filtered(s, name)) <= Len(s)
         /\ \E e : Picks(s, name, Len(s), Filtered(s, name), Len(Filtered(s, name)), e)
<1> DEFINE n == Len(s)
           l0 == [array |-> s, len |-> 0]
           Body(f) == [m \in 0 .. n |-> IF m = 0 THEN l0 ELSE Keep(f[m - 1], m, name)]
           F == CHOOSE f : f = Body(f)
           step == [x \in (1 .. n) \X Loops(s) |-> Keep(x[2], x[1], name)]
<1>0. n \in Nat
  OBVIOUS
<1>1. Filtered(s, name) = SubSeq(F[n].array, 1, F[n].len)
  BY DEF Filtered
<1>2. step \in [(1 .. n) \X Loops(s) -> Loops(s)]
  <2> SUFFICES ASSUME NEW m \in 1 .. n, NEW l \in Loops(s) PROVE Keep(l, m, name) \in Loops(s)
    BY Zenon
  <2> QED
    BY KeepType
<1>3. l0 \in Loops(s)
  BY DEF Loops
<1>4. KeptUpto(s, name, 0, l0)
  <2> DEFINE e == [a \in 1 .. 0 |-> 0]
  <2>1. Picks(s, name, 0, s, 0, e)
    BY DEF Picks
  <2> QED
    BY <1>3, <2>1 DEF KeptUpto
<1> HIDE DEF n, step, l0
<1>5. PICK f : Recursive(n, Loops(s), l0, step, f)
  BY <1>0, <1>2, <1>3, RecursionExists, Zenon
<1>6. ASSUME NEW m \in 1 .. n PROVE f[m] = Keep(f[m - 1], m, name)
  <2>1. /\ f[m - 1] \in Loops(s) /\ <<m, f[m - 1]>> \in (1 .. n) \X Loops(s)
        /\ f[m] = step[<<m, f[m - 1]>>]
    BY <1>0, <1>5 DEF Recursive
  <2> QED
    BY <2>1 DEF step
<1>7. f = Body(f)
  BY <1>5, <1>6 DEF Recursive
<1>8. F = Body(F)
  BY <1>7
<1> HIDE DEF F
<1>9. F[0] = l0 /\ \A m \in 1 .. n : F[m] = Keep(F[m - 1], m, name)
  <2>1. \A m \in 0 .. n : F[m] = IF m = 0 THEN l0 ELSE Keep(F[m - 1], m, name)
    BY <1>8, Zenon
  <2> QED
    BY <1>0, <2>1
<1> DEFINE Bad == {m \in 0 .. n : ~ KeptUpto(s, name, m, F[m])}
<1>10. Bad \subseteq 0 .. n /\ 0 \notin Bad
  BY <1>4, <1>9
<1>11. ASSUME NEW m \in 1 .. n, m \in Bad PROVE m - 1 \in Bad
  <2> SUFFICES ASSUME m - 1 \notin Bad PROVE FALSE
    OBVIOUS
  <2>1. KeptUpto(s, name, m - 1, F[m - 1])
    BY <1>0
  <2> QED
    BY <1>9, <1>11, <2>1, KeepRound DEF n
<1> HIDE DEF Bad
<1>12. Bad = {}
  BY <1>0, <1>10, <1>11, NoLeastBad, Zenon
<1>13. KeptUpto(s, name, n, F[n])
  BY <1>0, <1>12 DEF Bad
<1> DEFINE u == F[n].array
           len == F[n].len
<1>14. u \in Seq(Spot) /\ Len(u) = n /\ len \in Nat /\ len <= n
  BY <1>13 DEF KeptUpto, Loops, n
<1>15. PICK e : Picks(s, name, n, u, len, e)
  BY <1>13 DEF KeptUpto
<1> HIDE DEF u, len
<1>16. /\ SubSeq(u, 1, len) \in Seq(Spot) /\ Len(SubSeq(u, 1, len)) = len
       /\ \A a \in 1 .. len : SubSeq(u, 1, len)[a] = u[a]
  BY <1>0, <1>14
<1>17. Picks(s, name, n, SubSeq(u, 1, len), len, e)
  BY <1>15, <1>16 DEF Picks
<1> QED
  BY <1>1, <1>14, <1>16, <1>17 DEF u, len, n

-----------------------------------------------------------------------------
(* Searching                                                               *)

Intervals(s) == (0 .. Len(s)) \X (0 .. Len(s))

\* The half of a non-empty interval that the search goes on with.
Half(s, target, ij) ==
  LET h == (ij[1] + ij[2]) \div 2
  IN  IF AtLeast(s[h + 1].hash, target) THEN <<ij[1], h>> ELSE <<h + 1, ij[2]>>

\* One call of the search, when f does the rest.
Searching(s, target, f) ==
  [ij \in Intervals(s) |-> IF ij[1] >= ij[2] THEN ij[1] ELSE f[Half(s, target, ij)]]

\* The first r spots are before the target, the others are not.
Splits(s, target, r) ==
  /\ r \in 0 .. Len(s)
  /\ \A m \in 1 .. r : s[m].hash < target
  /\ \A m \in r + 1 .. Len(s) : s[m].hash >= target

\* The target is in the interval.
Within(s, target, ij) ==
  /\ ij[1] <= ij[2]
  /\ \A m \in 1 .. ij[1] : s[m].hash < target
  /\ \A m \in ij[2] + 1 .. Len(s) : s[m].hash >= target

LEMMA HalfFacts ==
  ASSUME NEW s \in Seq(Spot), NEW target, NEW ij \in Intervals(s), ij[1] < ij[2]
  PROVE  /\ Half(s, target, ij) \in Intervals(s)
         /\ Half(s, target, ij)[1] <= Half(s, target, ij)[2]
         /\ Half(s, target, ij)[2] - Half(s, target, ij)[1] <= ij[2] - ij[1] - 1
<1> DEFINE h == (ij[1] + ij[2]) \div 2
<1>1. ij[1] \in 0 .. Len(s) /\ ij[2] \in 0 .. Len(s) /\ Len(s) \in Nat
  BY DEF Intervals
<1>2. h \in Nat /\ ij[1] <= h /\ h < ij[2]
  BY <1>1
<1>3. Half(s, target, ij) \in {<<ij[1], h>>, <<h + 1, ij[2]>>}
  BY DEF Half
<1> HIDE DEF h
<1> QED
  BY <1>1, <1>2, <1>3 DEF Intervals

LEMMA HalfWithin ==
  ASSUME NEW s \in Seq(Spot), InOrder(s), NEW target \in Hashes,
         NEW ij \in Intervals(s), ij[1] < ij[2], Within(s, target, ij)
  PROVE  Within(s, target, Half(s, target, ij))
<1> DEFINE h == (ij[1] + ij[2]) \div 2
<1>1. ij[1] \in 0 .. Len(s) /\ ij[2] \in 0 .. Len(s) /\ Len(s) \in Nat
  BY DEF Intervals
<1>2. h \in Nat /\ ij[1] <= h /\ h < ij[2]
  BY <1>1
<1>3. target \in Nat /\ \A m \in 1 .. Len(s) : s[m].hash \in Nat
  <2>1. \A m \in 1 .. Len(s) : s[m] \in Spot
    OBVIOUS
  <2> QED
    BY <2>1, HashFacts DEF Spot
<1>4. Half(s, target, ij) = IF s[h + 1].hash >= target THEN <<ij[1], h>> ELSE <<h + 1, ij[2]>>
  BY DEF Half, AtLeast
<1> HIDE DEF h
<1>5. CASE s[h + 1].hash >= target
  <2>1. \A m \in h + 1 .. Len(s) : s[h + 1].hash <= s[m].hash
    BY <1>1, <1>2 DEF InOrder
  <2>2. \A m \in h + 1 .. Len(s) : s[m].hash >= target
    BY <1>1, <1>2, <1>3, <1>5, <2>1
  <2>3. Half(s, target, ij) = <<ij[1], h>>
    BY <1>4, <1>5
  <2> QED
    BY <1>2, <2>2, <2>3 DEF Within
<1>6. CASE ~ (s[h + 1].hash >= target)
  <2>1. \A m \in 1 .. h + 1 : s[m].hash <= s[h + 1].hash
    BY <1>1, <1>2 DEF InOrder
  <2>2. \A m \in 1 .. h + 1 : s[m].hash < target
    BY <1>1, <1>2, <1>3, <1>6, <2>1
  <2>3. Half(s, target, ij) = <<h + 1, ij[2]>>
    BY <1>4, <1>6
  <2> QED
    BY <1>1, <1>2, <2>2, <2>3 DEF Within
<1> QED
  BY <1>5, <1>6

\* The recursion of the search is well-founded: after as many rounds as the interval
\* is wide nothing changes any more.
LEMMA SearchExists ==
  ASSUME NEW s \in Seq(Spot), NEW target
  PROVE  \E f : f = Searching(s, target, f)
<1> DEFINE n == Len(s)
           D == Intervals(s)
           V == [D -> 0 .. n]
           v0 == [ij \in D |-> ij[1]]
           step == [x \in (1 .. n + 1) \X V |-> Searching(s, target, x[2])]
<1>0. n \in Nat /\ n + 1 \in Nat
  OBVIOUS
<1>1. v0 \in V
  BY DEF Intervals
<1>2. ASSUME NEW f \in V PROVE Searching(s, target, f) \in V
  <2>1. ASSUME NEW ij \in D
        PROVE  (IF ij[1] >= ij[2] THEN ij[1] ELSE f[Half(s, target, ij)]) \in 0 .. n
    <3>1. ij[1] \in 0 .. n /\ ij[2] \in 0 .. n
      BY DEF Intervals
    <3>2. CASE ij[1] >= ij[2]
      BY <3>1, <3>2
    <3>3. CASE ij[1] < ij[2]
      <4>1. Half(s, target, ij) \in D
        BY <3>3, HalfFacts
      <4> QED
        BY <3>1, <3>3, <4>1
    <3> QED
      BY <3>1, <3>2, <3>3
  <2> QED
    BY <2>1, Zenon DEF Searching
<1>3. step \in [(1 .. n + 1) \X V -> V]
  BY <1>2, Zenon
<1>4. \A ij \in D : v0[ij] = ij[1]
  OBVIOUS
<1> HIDE DEF n, D, V, v0, step
<1>5. PICK g : Recursive(n + 1, V, v0, step, g)
  BY <1>0, <1>1, <1>3, RecursionExists, Zenon
<1>6. ASSUME NEW m \in 1 .. n + 1 PROVE g[m] = Searching(s, target, g[m - 1])
  <2>1. /\ g[m - 1] \in V /\ <<m, g[m - 1]>> \in (1 .. n + 1) \X V
        /\ g[m] = step[<<m, g[m - 1]>>]
    BY <1>0, <1>5 DEF Recursive
  <2> QED
    BY <2>1 DEF step
<1>7. ASSUME NEW m \in 1 .. n + 1, NEW ij \in D
      PROVE  g[m][ij] = IF ij[1] >= ij[2] THEN ij[1] ELSE g[m - 1][Half(s, target, ij)]
  BY <1>6, Zenon DEF Searching, D
<1> DEFINE Stable(m) == \A ij \in D : ij[2] - ij[1] <= m => g[m + 1][ij] = g[m][ij]
           Bad == {m \in 0 .. n : ~ Stable(m)}
<1>8. Stable(0)
  <2> SUFFICES ASSUME NEW ij \in D, ij[2] - ij[1] <= 0 PROVE g[0 + 1][ij] = g[0][ij]
    OBVIOUS
  <2>1. ij[1] >= ij[2]
    BY <1>0 DEF D, Intervals
  <2>2. g[1][ij] = ij[1]
    BY <1>0, <1>7, <2>1
  <2>3. g[0] = v0
    BY <1>5 DEF Recursive
  <2> QED
    BY <1>4, <2>2, <2>3
<1>9. ASSUME NEW m \in 1 .. n, Stable(m - 1) PROVE Stable(m)
  <2> SUFFICES ASSUME NEW ij \in D, ij[2] - ij[1] <= m PROVE g[m + 1][ij] = g[m][ij]
    OBVIOUS
  <2>0. ij[1] \in Nat /\ ij[2] \in Nat
    BY DEF D, Intervals
  <2>1. m + 1 \in 1 .. n + 1 /\ m \in 1 .. n + 1 /\ (m + 1) - 1 = m /\ (m - 1) + 1 = m
    BY <1>0
  <2>2. CASE ij[1] >= ij[2]
    BY <1>7, <2>1, <2>2
  <2>3. CASE ij[1] < ij[2]
    <3> DEFINE H == Half(s, target, ij)
    <3>1. H \in D /\ H[2] - H[1] <= ij[2] - ij[1] - 1 /\ H[1] \in Nat /\ H[2] \in Nat
      <4>1. H \in Intervals(s) /\ H[2] - H[1] <= ij[2] - ij[1] - 1
        BY <2>3, HalfFacts DEF D
      <4> HIDE DEF H
      <4> QED
        BY <4>1 DEF D, Intervals
    <3> HIDE DEF H
    <3>2. H[2] - H[1] <= m - 1
      BY <1>0, <2>0, <3>1
    <3>3. g[m][H] = g[m - 1][H]
      BY <1>9, <2>1, <3>1, <3>2
    <3>4. g[m + 1][ij] = g[m][H] /\ g[m][ij] = g[m - 1][H]
      BY <1>7, <2>0, <2>1, <2>3 DEF H
    <3> QED
      BY <3>3, <3>4
  <2> QED
    BY <2>0, <2>2, <2>3
<1> HIDE DEF Stable
<1>10. Bad \subseteq 0 .. n /\ 0 \notin Bad
  BY <1>8
<1>11. ASSUME NEW m \in 1 .. n, m \in Bad PROVE m - 1 \in Bad
  BY <1>0, <1>9, <1>11
<1> HIDE DEF Bad
<1>12. Bad = {}
  BY <1>0, <1>10, <1>11, NoLeastBad, Zenon
<1>13. \A ij \in D : g[n + 1][ij] = g[n][ij]
  <2>1. Stable(n)
    BY <1>0, <1>12 DEF Bad
  <2>2. \A ij \in D : ij[2] - ij[1] <= n
    BY <1>0 DEF D, Intervals, n
  <2> QED
    BY <2>1, <2>2 DEF Stable
<1>14. g[n + 1] \in [D -> 0 .. n] /\ g[n] \in [D -> 0 .. n]
  BY <1>0, <1>5 DEF Recursive, V
<1>15. g[n + 1] = g[n]
  BY <1>13, <1>14
<1>16. g[n + 1] = Searching(s, target, g[n])
  BY <1>0, <1>6
<1> QED
  BY <1>15, <1>16

\* sort.Search as GetNode needs it: in a sorted sequence it finds the first spot that
\* is at least at the target, or the length when there is none.
THEOREM SearchContract ==
  ASSUME NEW s \in Seq(Spot), InOrder(s), NEW target \in Hashes
  PROVE  Splits(s, target, Search(s, target))
<1> DEFINE n == Len(s)
           F == CHOOSE f : f = Searching(s, target, f)
<1>0. n \in Nat
  OBVIOUS
<1>1. Search(s, target) = F[<<0, n>>]
  BY DEF Search, Searching, Half, Intervals
<1>2. F = Searching(s, target, F)
  BY SearchExists, Zenon
<1> HIDE DEF n, F
<1>3. ASSUME NEW ij \in Intervals(s)
      PROVE  F[ij] = IF ij[1] >= ij[2] THEN ij[1] ELSE F[Half(s, target, ij)]
  BY <1>2, Zenon DEF Searching
<1> DEFINE Right(m) == \A ij \in Intervals(s) :
                         ij[2] - ij[1] <= m /\ Within(s, target, ij) => Splits(s, target, F[ij])
           Bad == {m \in 0 .. n : ~ Right(m)}
<1>4. ASSUME NEW ij \in Intervals(s), ij[1] >= ij[2], Within(s, target, ij)
      PROVE  Splits(s, target, F[ij])
  <2>1. F[ij] = ij[1] /\ ij[1] = ij[2] /\ ij[1] \in 0 .. Len(s)
    BY <1>3, <1>4 DEF Intervals, Within
  <2> QED
    BY <1>4, <2>1 DEF Within, Splits
<1>5. Right(0)
  <2> SUFFICES ASSUME NEW ij \in Intervals(s), ij[2] - ij[1] <= 0, Within(s, target, ij)
               PROVE  Splits(s, target, F[ij])
    OBVIOUS
  <2>1. ij[1] >= ij[2]
    BY DEF Intervals
  <2> QED
    BY <1>4, <2>1
<1>6. ASSUME NEW m \in 1 .. n, Right(m - 1) PROVE Right(m)
  <2> SUFFICES ASSUME NEW ij \in Intervals(s), ij[2] - ij[1] <= m, Within(s, target, ij)
               PROVE  Splits(s, target, F[ij])
    OBVIOUS
  <2>0. ij[1] \in Nat /\ ij[2] \in Nat
    BY DEF Intervals
  <2>1. CASE ij[1] >= ij[2]
    BY <1>4, <2>1
  <2>2. CASE ij[1] < ij[2]
    <3> DEFINE H == Half(s, target, ij)
    <3>1. H \in Intervals(s) /\ H[2] - H[1] <= ij[2] - ij[1] - 1 /\ Within(s, target, H)
      BY <2>2, HalfFacts, HalfWithin
    <3>2. F[ij] = F[H]
      BY <1>3, <2>0, <2>2
    <3> HIDE DEF H
    <3>3. H[1] \in Nat /\ H[2] \in Nat
      BY <3>1 DEF Intervals
    <3>4. H[2] - H[1] <= m - 1
      BY <1>0, <2>0, <3>1, <3>3
    <3> QED
      BY <1>6, <3>1, <3>2, <3>4
  <2> QED
    BY <2>0, <2>1, <2>2
<1> HIDE DEF Right
<1>7. Bad \subseteq 0 .. n /\ 0 \notin Bad
  BY <1>5
<1>8. ASSUME NEW m \in 1 .. n, m \in Bad PROVE m - 1 \in Bad
  BY <1>0, <1>6, <1>8
<1> HIDE DEF Bad
<1>9. Bad = {}
  BY <1>0, <1>7, <1>8, NoLeastBad, Zenon
<1>10. Right(n)
  BY <1>0, <1>9 DEF Bad
<1>11. <<0, n>> \in Intervals(s) /\ n - 0 <= n /\ Within(s, target, <<0, n>>)
  BY <1>0 DEF Intervals, Within, n
<1> QED
  BY <1>1, <1>10, <1>11 DEF Right

-----------------------------------------------------------------------------
(* The ring                                                                *)

\* The spots of the ring are those of its members, each at least once.
Sound ==
  \A j \in 1 .. Len(nodes) :
    /\ nodes[j].nodeName \in members
    /\ \E i \in 0 .. virtualSpots - 1 : nodes[j].hash = spotHash[nodes[j].nodeName][i]
Complete ==
  \A m \in members, i \in 0 .. virtualSpots - 1 :
    \E j \in 1 .. Len(nodes) : nodes[j].nodeName = m /\ nodes[j].hash = spotHash[m][i]

RingType ==
  /\ kind \in {"string", "int64"}
  /\ virtualSpots \in Nat \ {0}
  /\ spotHash \in [Names -> [0 .. virtualSpots - 1 -> Hashes]]
  /\ nodes \in Seq(Spot)
  /\ members \subseteq Names

RingInv == RingType /\ InOrder(nodes) /\ Sound /\ Complete

LEMMA RingInit == Init => RingInv
<1> SUFFICES ASSUME Init PROVE RingInv
  OBVIOUS
<1>1. \A v \in VirtualSpots : SpotsFor(v) \in Nat \ {0}
  BY HashRingAssumption DEF SpotsFor
<1>2. RingType
  BY <1>1 DEF Init, RingType
<1>3. InOrder(nodes) /\ Sound /\ Complete
  BY DEF Init, InOrder, Sound, Complete
<1> QED
  BY <1>2, <1>3 DEF RingInv

LEMMA AddNodeRing ==
  ASSUME RingInv, NEW name \in Names, AddNode(name)
  PROVE  RingInv' /\ Len(nodes') = Len(nodes) + virtualSpots
<1> DEFINE s == nodes \o NodesOf(name)
<1>0. /\ kind' = kind /\ virtualSpots' = virtualSpots /\ spotHash' = spotHash
      /\ members' = members \cup {name} /\ nodes' \in Sorts(s)
  BY DEF AddNode
<1>1. RingType /\ nodes \in Seq(Spot) /\ virtualSpots \in Nat
  BY DEF RingInv, RingType
<1>2. /\ NodesOf(name) \in Seq(Spot) /\ Len(NodesOf(name)) = virtualSpots
      /\ \A i \in 1 .. virtualSpots :
           /\ NodesOf(name)[i].nodeName = name
           /\ NodesOf(name)[i].hash = spotHash[name][i - 1]
  <2>1. \A i \in 1 .. virtualSpots : spotHash[name][i - 1] \in Hashes
    BY <1>1 DEF RingType
  <2>2. NodesOf(name) \in [1 .. virtualSpots -> Spot]
    BY <2>1 DEF NodesOf, Spot
  <2>3. NodesOf(name) \in Seq(Spot) /\ Len(NodesOf(name)) = virtualSpots
    BY <1>1, <2>2
  <2> QED
    BY <2>3 DEF NodesOf
<1>3. /\ s \in Seq(Spot) /\ Len(s) = Len(nodes) + virtualSpots
      /\ \A j \in 1 .. Len(nodes) : s[j] = nodes[j]
      /\ \A i \in 1 .. virtualSpots : s[Len(nodes) + i] = NodesOf(name)[i]
  <2> DEFINE t == NodesOf(name)
  <2>1. t \in Seq(Spot) /\ Len(t) = virtualSpots
    BY <1>2
  <2> HIDE DEF t
  <2>2. nodes \o t \in Seq(Spot) /\ Len(nodes \o t) = Len(nodes) + virtualSpots
    BY <1>1, <2>1
  <2>3. \A j \in 1 .. Len(nodes) : (nodes \o t)[j] = nodes[j]
    BY <1>1, <2>1
  <2>4. ASSUME NEW i \in 1 .. virtualSpots PROVE (nodes \o t)[Len(nodes) + i] = t[i]
    BY <1>1, <2>1
  <2> QED
    BY <2>2, <2>3, <2>4 DEF t
<1> HIDE DEF s
<1>4. SortedUpto(s, Len(s), nodes')
  BY <1>0, <1>3, SortsContract
<1>5. nodes' \in Seq(Spot) /\ Len(nodes') = Len(s) /\ InOrder(nodes')
  BY <1>4 DEF SortedUpto
<1>6. Sound'
  <2> SUFFICES ASSUME NEW l \in 1 .. Len(nodes')
               PROVE  /\ nodes'[l].nodeName \in members'
                      /\ \E i \in 0 .. virtualSpots' - 1 :
                           nodes'[l].hash = spotHash'[nodes'[l].nodeName][i]
    BY DEF Sound
  <2>1. PICK j \in 1 .. Len(s) : nodes'[l] = s[j]
    BY <1>4, <1>5 DEF SortedUpto
  <2>2. CASE j <= Len(nodes)
    <3>1. j \in 1 .. Len(nodes) /\ nodes'[l] = nodes[j]
      BY <1>1, <1>3, <2>1, <2>2
    <3> QED
      BY <1>0, <3>1 DEF RingInv, Sound
  <2>3. CASE j > Len(nodes)
    <3> DEFINE i == j - Len(nodes)
    <3>1. i \in 1 .. virtualSpots /\ Len(nodes) + i = j /\ i - 1 \in 0 .. virtualSpots - 1
      BY <1>1, <1>3, <2>3
    <3> HIDE DEF i
    <3>2. nodes'[l].nodeName = name /\ nodes'[l].hash = spotHash[name][i - 1]
      BY <1>2, <1>3, <2>1, <3>1
    <3> QED
      BY <1>0, <3>1, <3>2
  <2> QED
    BY <1>1, <2>2, <2>3
<1>7. Complete'
  <2> SUFFICES ASSUME NEW m \in members', NEW i \in 0 .. virtualSpots' - 1
               PROVE  \E j \in 1 .. Len(nodes') :
                        nodes'[j].nodeName = m /\ nodes'[j].hash = spotHash'[m][i]
    BY DEF Complete
  <2>0. \A l \in 1 .. Len(s) : \E j \in 1 .. Len(nodes') : nodes'[j] = s[l]
    BY <1>4, <1>5 DEF SortedUpto
  <2>1. CASE m \in members
    <3>1. PICK l \in 1 .. Len(nodes) : nodes[l].nodeName = m /\ nodes[l].hash = spotHash[m][i]
      BY <1>0, <2>1 DEF RingInv, Complete
    <3>2. l \in 1 .. Len(s) /\ s[l] = nodes[l]
      BY <1>1, <1>3
    <3> QED
      BY <1>0, <2>0, <3>1, <3>2
  <2>2. CASE m = name
    <3>1. i + 1 \in 1 .. virtualSpots /\ (i + 1) - 1 = i /\ Len(nodes) + (i + 1) \in 1 .. Len(s)
      BY <1>0, <1>1, <1>3
    <3> DEFINE l == Len(nodes) + (i + 1)
    <3>2. s[l].nodeName = m /\ s[l].hash = spotHash[m][i]
      BY <1>2, <1>3, <2>2, <3>1
    <3> HIDE DEF l
    <3> QED
      BY <1>0, <2>0, <3>1, <3>2 DEF l
  <2> QED
    BY <1>0, <2>1, <2>2
<1>8. RingType'
  BY <1>0, <1>1, <1>5 DEF RingType
<1> QED
  BY <1>3, <1>5, <1>6, <1>7, <1>8 DEF RingInv

LEMMA RemoveNodeRing ==
  ASSUME RingInv, NEW name \in Names, RemoveNode(name)
  PROVE  RingInv' /\ Len(nodes') <= Len(nodes)
<1>0. /\ kind' = kind /\ virtualSpots' = virtualSpots /\ spotHash' = spotHash
      /\ members' = members \ {name} /\ nodes' = Filtered(nodes, name)
  BY DEF RemoveNode
<1>1. RingType /\ nodes \in Seq(Spot) /\ virtualSpots \in Nat
  BY DEF RingInv, RingType
<1>2. nodes' \in Seq(Spot) /\ Len(nodes') <= Len(nodes)
  BY <1>0, <1>1, FilteredContract
<1>3. PICK e : Picks(nodes, name, Len(nodes), nodes', Len(nodes'), e)
  BY <1>0, <1>1, FilteredContract
<1>4. /\ e \in [1 .. Len(nodes') -> 1 .. Len(nodes)]
      /\ \A a, b \in 1 .. Len(nodes') : a < b => e[a] < e[b]
      /\ \A a \in 1 .. Len(nodes') : nodes'[a] = nodes[e[a]] /\ nodes[e[a]].nodeName # name
      /\ \A m \in 1 .. Len(nodes) :
           nodes[m].nodeName # name => \E a \in 1 .. Len(nodes') : e[a] = m
  BY <1>3 DEF Picks
<1>5. InOrder(nodes')
  <2> SUFFICES ASSUME NEW a \in 1 .. Len(nodes'), NEW b \in 1 .. Len(nodes'), a <= b
               PROVE  nodes'[a].hash <= nodes'[b].hash
    BY DEF InOrder
  <2>1. e[a] <= e[b] /\ e[a] \in 1 .. Len(nodes) /\ e[b] \in 1 .. Len(nodes)
    BY <1>2, <1>4
  <2> QED
    BY <1>4, <2>1 DEF RingInv, InOrder
<1>6. Sound'
  <2> SUFFICES ASSUME NEW l \in 1 .. Len(nodes')
               PROVE  /\ nodes'[l].nodeName \in members'
                      /\ \E i \in 0 .. virtualSpots' - 1 :
                           nodes'[l].hash = spotHash'[nodes'[l].nodeName][i]
    BY DEF Sound
  <2>1. e[l] \in 1 .. Len(nodes) /\ nodes'[l] = nodes[e[l]] /\ nodes'[l].nodeName # name
    BY <1>4
  <2> QED
    BY <1>0, <2>1 DEF RingInv, Sound
<1>7. Complete'
  BY <1>0, <1>4 DEF RingInv, Complete
<1>8. RingType'
  BY <1>0, <1>1, <1>2 DEF RingType
<1> QED
  BY <1>2, <1>5, <1>6, <1>7, <1>8 DEF RingInv

LEMMA RingNext == RingInv /\ [Next]_vars => RingInv'
<1> SUFFICES ASSUME RingInv, [Next]_vars PROVE RingInv'
  OBVIOUS
<1>1. ASSUME NEW name \in Names, AddNode(name) PROVE RingInv'
  BY <1>1, AddNodeRing
<1>2. ASSUME NEW name \in Names, RemoveNode(name) PROVE RingInv'
  BY <1>2, RemoveNodeRing
<1>3. CASE UNCHANGED vars
  BY <1>3 DEF vars, RingInv, RingType, InOrder, Sound, Complete
<1> QED
  BY <1>1, <1>2, <1>3 DEF Next

LEMMA RingInvHolds == Spec => []RingInv
BY RingInit, RingNext, PTL DEF Spec

-----------------------------------------------------------------------------
(* What GetNode finds                                                      *)

\* p is where a key at the target belongs: at the first spot that is not before it,
\* or else at the first spot.
Place(s, target, p) ==
  /\ p \in 1 .. Len(s)
  /\ \/ s[p].hash >= target /\ \A m \in 1 .. p - 1 : s[m].hash < target
     \/ p = 1 /\ \A m \in 1 .. Len(s) : s[m].hash < target

PlaceOf(s, target) == (IF Search(s, target) = Len(s) THEN 0 ELSE Search(s, target)) + 1

LEMMA PlaceFound ==
  ASSUME NEW s \in Seq(Spot), InOrder(s), s # << >>, NEW target \in Hashes
  PROVE  Place(s, target, PlaceOf(s, target))
<1> DEFINE r == Search(s, target)
<1>1. Splits(s, target, r)
  BY SearchContract
<1> HIDE DEF r
<1>2. Len(s) \in Nat /\ Len(s) # 0
  OBVIOUS
<1>3. CASE r = Len(s)
  <2>1. PlaceOf(s, target) = 1
    BY <1>3 DEF PlaceOf, r
  <2> QED
    BY <1>1, <1>2, <1>3, <2>1 DEF Splits, Place
<1>4. CASE r # Len(s)
  <2>1. PlaceOf(s, target) = r + 1
    BY <1>4 DEF PlaceOf, r
  <2>2. r \in 0 .. Len(s) - 1 /\ r + 1 \in 1 .. Len(s) /\ (r + 1) - 1 = r
    BY <1>1, <1>2, <1>4 DEF Splits
  <2> QED
    BY <1>1, <2>1, <2>2 DEF Splits, Place
<1> QED
  BY <1>3, <1>4

LEMMA PlaceUnique ==
  ASSUME NEW s \in Seq(Spot), NEW target \in Hashes,
         NEW p, NEW q, Place(s, target, p), Place(s, target, q)
  PROVE  p = q
<1>1. target \in Nat /\ \A m \in 1 .. Len(s) : s[m].hash \in Nat
  <2>1. \A m \in 1 .. Len(s) : s[m] \in Spot
    OBVIOUS
  <2> QED
    BY <2>1, HashFacts DEF Spot
<1>2. ASSUME NEW a, NEW b, Place(s, target, a), Place(s, target, b), a < b PROVE FALSE
  <2>1. a \in 1 .. Len(s) /\ b \in 1 .. Len(s) /\ a \in 1 .. b - 1
    BY <1>2 DEF Place
  <2>2. s[b].hash >= target /\ s[a].hash < target
    BY <1>1, <1>2, <2>1 DEF Place
  <2> QED
    BY <1>1, <1>2, <2>1, <2>2 DEF Place
<1>3. p \in Nat /\ q \in Nat
  BY DEF Place
<1>4. ~ (p < q) /\ ~ (q < p)
  BY <1>2
<1> QED
  BY <1>3, <1>4

LEMMA TargetType ==
  ASSUME RingType, NEW k \in Keys
  PROVE  targetHash(k) \in Hashes
<1>1. HashSpace \in Nat /\ HashSpace > 0
  BY HashFacts
<1>2. k \in Int
  BY <1>1 DEF Keys
<1>3. k % HashSpace \in 0 .. HashSpace - 1
  BY <1>1, <1>2
<1> QED
  BY <1>3, HashRingAssumption DEF targetHash, Hashes

\* The clockwise distance from b to a, in a space of H hashes.
LEMMA Around ==
  ASSUME NEW H \in Nat, H > 0, NEW a \in 0 .. H - 1, NEW b \in 0 .. H - 1
  PROVE  (a - b) % H = IF a >= b THEN a - b ELSE a - b + H
<1> DEFINE d == a - b
           q == d \div H
           r == d % H
<1>1. d \in Int /\ d > -H /\ d < H
  OBVIOUS
<1>2. r \in 0 .. H - 1 /\ q \in Int /\ d = H * q + r
  BY <1>1
<1> HIDE DEF q, r
<1>3. CASE d >= 0
  <2>1. q >= 0 
    <3> SUFFICES ASSUME q <= -1 PROVE FALSE
      BY <1>2
    <3>1. H * q <= -H
      BY <1>2
    <3> QED
      BY <1>2, <1>3, <3>1
  <2>2. q <= 0
    <3> SUFFICES ASSUME q >= 1 PROVE FALSE
      BY <1>2
    <3>1. H * q >= H
      BY <1>2
    <3> QED
      BY <1>1, <1>2, <3>1
  <2> QED
    BY <1>2, <1>3, <2>1, <2>2 DEF r
<1>4. CASE d < 0
  <2>1. q >= -1
    <3> SUFFICES ASSUME q <= -2 PROVE FALSE
      BY <1>2
    <3>1. H * q <= -2 * H
      BY <1>2
    <3> QED
      BY <1>1, <1>2, <3>1
  <2>2. q <= -1
    <3> SUFFICES ASSUME q >= 0 PROVE FALSE
      BY <1>2
    <3>1. H * q >= 0
      BY <1>2
    <3> QED
      BY <1>2, <1>4, <3>1
  <2>3. q = -1
    BY <1>2, <2>1, <2>2
  <2> QED
    BY <1>2, <1>4, <2>3 DEF r
<1> QED
  BY <1>1, <1>3, <1>4

\* No spot is nearer, clockwise, than the one at the place.
LEMMA PlaceNearest ==
  ASSUME NEW s \in Seq(Spot), InOrder(s), NEW target \in Hashes, NEW p, Place(s, target, p),
         NEW j \in 1 .. Len(s)
  PROVE  (s[p].hash - target) % HashSpace <= (s[j].hash - target) % HashSpace
<1>0. p \in 1 .. Len(s) /\ Len(s) \in Nat /\ HashSpace \in Nat /\ HashSpace > 0
  BY HashFacts DEF Place
<1>1. /\ target \in 0 .. HashSpace - 1 /\ s[p].hash \in 0 .. HashSpace - 1
      /\ s[j].hash \in 0 .. HashSpace - 1
  <2>1. \A m \in 1 .. Len(s) : s[m] \in Spot
    OBVIOUS
  <2> QED
    BY <1>0, <2>1 DEF Spot, Hashes
<1> DEFINE H == HashSpace
           Away(h) == IF h >= target THEN h - target ELSE h - target + H
<1>2. /\ (s[p].hash - target) % H = Away(s[p].hash)
      /\ (s[j].hash - target) % H = Away(s[j].hash)
  BY <1>0, <1>1, Around
<1>3. Away(s[p].hash) <= Away(s[j].hash)
  <2>1. CASE j >= p
    <3>1. s[p].hash <= s[j].hash
      BY <1>0, <2>1 DEF InOrder
    <3>2. s[p].hash >= target \/ s[j].hash < target
      BY DEF Place
    <3> QED
      BY <1>0, <1>1, <3>1, <3>2
  <2>2. CASE j < p
    <3>1. s[p].hash >= target /\ s[j].hash < target
      BY <1>0, <2>2 DEF Place
    <3> QED
      BY <1>0, <1>1, <3>1
  <2> QED
    BY <1>0, <2>1, <2>2
<1> HIDE DEF Away
<1> QED
  BY <1>2, <1>3

LEMMA DistanceFacts ==
  ASSUME RingType, NEW m \in Names, NEW k \in Keys
  PROVE  /\ \A i \in 0 .. virtualSpots - 1 :
              Min(Distances(m, k)) <= Distance(m, i, k) /\ Distance(m, i, k) \in Nat
         /\ \E i \in 0 .. virtualSpots - 1 : Min(Distances(m, k)) = Distance(m, i, k)
         /\ Min(Distances(m, k)) \in Nat
<1>0. HashSpace \in Nat /\ HashSpace > 0 /\ virtualSpots \in Nat /\ virtualSpots > 0
  BY HashFacts DEF RingType
<1>1. ASSUME NEW i \in 0 .. virtualSpots - 1 PROVE Distance(m, i, k) \in Nat
  <2>1. spotHash[m][i] \in Nat /\ targetHash(k) \in Nat
    BY TargetType, HashFacts DEF RingType
  <2>2. spotHash[m][i] - targetHash(k) \in Int
    BY <2>1
  <2> QED
    BY <1>0, <2>2 DEF Distance
<1> DEFINE T == Distances(m, k)
<1>2. T \subseteq Nat /\ T # {}
  BY <1>0, <1>1 DEF Distances
<1>3. \A i \in 0 .. virtualSpots - 1 : Distance(m, i, k) \in T
  BY DEF Distances
<1>4. \A d \in T : \E i \in 0 .. virtualSpots - 1 : d = Distance(m, i, k)
  BY DEF Distances
<1> HIDE DEF T
<1>5. \E x \in T : \A y \in T : x <= y
  BY <1>2, LeastElement, Zenon
<1>6. Min(T) \in T /\ \A y \in T : Min(T) <= y
  BY <1>5 DEF Min
<1>7. Min(T) \in Nat
  BY <1>2, <1>6
<1> QED
  BY <1>1, <1>3, <1>4, <1>6, <1>7 DEF T

LEMMA EmptyRing ==
  ASSUME RingInv
  PROVE  nodes = << >> <=> members = {}
<1>1. nodes \in Seq(Spot) /\ virtualSpots \in Nat /\ virtualSpots > 0
  BY DEF RingInv, RingType
<1>2. ASSUME NEW m \in members PROVE nodes # << >>
  <2>1. 0 \in 0 .. virtualSpots - 1
    BY <1>1
  <2>2. \E j \in 1 .. Len(nodes) : TRUE
    BY <2>1 DEF RingInv, Complete
  <2> QED
    BY <1>1, <2>2
<1>3. ASSUME nodes # << >> PROVE members # {}
  <2>1. 1 \in 1 .. Len(nodes)
    BY <1>1, <1>3
  <2> QED
    BY <2>1 DEF RingInv, Sound
<1> QED
  BY <1>2, <1>3

LEMMA FoundPlace ==
  ASSUME RingInv, NEW k \in Keys, nodes # << >>
  PROVE  LET p == PlaceOf(nodes, targetHash(k))
         IN  Place(nodes, targetHash(k), p) /\ GetNode(k) = nodes[p].nodeName
<1>1. targetHash(k) \in Hashes /\ nodes \in Seq(Spot) /\ InOrder(nodes)
  BY TargetType DEF RingInv, RingType
<1>2. Place(nodes, targetHash(k), PlaceOf(nodes, targetHash(k)))
  BY <1>1, PlaceFound
<1> QED
  BY <1>2 DEF GetNode, PlaceOf

LEMMA RingClockwise == RingInv => Clockwise
<1> SUFFICES ASSUME RingInv, NEW k \in Keys
             PROVE  IF members = {} THEN GetNode(k) = None ELSE GetNode(k) \in Owners(k)
  BY DEF Clockwise
<1>1. CASE members = {}
  BY <1>1, EmptyRing DEF GetNode
<1>2. CASE members # {}
  <2> DEFINE t == targetHash(k)
             p == PlaceOf(nodes, t)
  <2>1. nodes # << >> /\ RingType /\ t \in Hashes /\ nodes \in Seq(Spot) /\ InOrder(nodes)
    BY <1>2, EmptyRing, TargetType DEF RingInv, RingType
  <2>2. Place(nodes, t, p) /\ GetNode(k) = nodes[p].nodeName
    BY <2>1, FoundPlace
  <2> HIDE DEF p
  <2>3. p \in 1 .. Len(nodes)
    BY <2>2 DEF Place
  <2> DEFINE m == nodes[p].nodeName
  <2>4. PICK i \in 0 .. virtualSpots - 1 : nodes[p].hash = spotHash[m][i]
    BY <2>3 DEF RingInv, Sound
  <2>5. m \in members
    BY <2>3 DEF RingInv, Sound
  <2>6. ASSUME NEW n \in members PROVE Min(Distances(m, k)) <= Min(Distances(n, k))
    <3>1. PICK l \in 0 .. virtualSpots - 1 : Min(Distances(n, k)) = Distance(n, l, k)
      BY <2>1, DistanceFacts DEF RingType
    <3>2. PICK j \in 1 .. Len(nodes) : nodes[j].nodeName = n /\ nodes[j].hash = spotHash[n][l]
      BY DEF RingInv, Complete
    <3>3. (nodes[p].hash - t) % HashSpace <= (nodes[j].hash - t) % HashSpace
      BY <2>1, <2>2, PlaceNearest
    <3>4. Distance(m, i, k) <= Distance(n, l, k)
      BY <2>4, <3>2, <3>3 DEF Distance
    <3>5. /\ Min(Distances(m, k)) <= Distance(m, i, k) /\ Min(Distances(m, k)) \in Nat
          /\ Distance(m, i, k) \in Nat /\ Distance(n, l, k) \in Nat
      BY <2>1, <2>5, DistanceFacts DEF RingType
    <3> HIDE DEF m
    <3> QED
      BY <3>1, <3>4, <3>5
  <2> QED
    BY <1>2, <2>2, <2>5, <2>6 DEF Owners
<1> QED
  BY <1>1, <1>2

\* For any names, hashes, keys, numbers of spots and any sequence of AddNode and
\* RemoveNode: GetNode finds the node with the next spot clockwise of the key, round
\* the end of the hash space too, and finds one whenever there is one.
THEOREM FindsNextClockwise == Spec => []Clockwise
BY RingInvHolds, RingClockwise, PTL

-----------------------------------------------------------------------------
(* What AddNode and RemoveNode move                                        *)

LEMMA AddMoves ==
  ASSUME RingInv, RingInv', Clockwise, Clockwise', NEW name \in Names, AddNode(name),
         NEW k \in Keys
  PROVE  \/ GetNode(k)' \in members' \ members
         \/ {GetNode(k), GetNode(k)'} \subseteq Owners(k)'
<1>0. /\ kind' = kind /\ virtualSpots' = virtualSpots /\ spotHash' = spotHash
      /\ members' = members \cup {name}
  BY DEF AddNode
<1>1. \A m : Min(Distances(m, k))' = Min(Distances(m, k))
  BY <1>0 DEF Distances, Distance, targetHash
<1> DEFINE a == GetNode(k)
           b == GetNode(k)'
           Far(m) == Min(Distances(m, k))
<1>2. b \in members' /\ \A n \in members' : Far(b) <= Far(n)
  <2>1. b \in Owners(k)'
    BY <1>0 DEF Clockwise
  <2> QED
    BY <1>1, <2>1 DEF Owners
<1>3. CASE b \notin members
  BY <1>2, <1>3
<1>4. CASE b \in members
  <2>1. a \in members /\ \A n \in members : Far(a) <= Far(n)
    BY <1>4 DEF Clockwise, Owners
  <2>2. \A n \in Names : Far(n) \in Nat
    BY DistanceFacts DEF RingInv
  <2>3. a \in members' /\ b \in members' /\ members' \subseteq Names
    BY <1>0, <1>2, <2>1 DEF RingInv, RingType
  <2> HIDE DEF a, b, Far
  <2>4. \A n \in members' : Far(a) <= Far(n)
    BY <1>2, <1>4, <2>1, <2>2, <2>3
  <2>5. {a, b} \subseteq Owners(k)'
    BY <1>1, <1>2, <2>3, <2>4 DEF Owners, Far
  <2> QED
    BY <2>5 DEF a, b
<1> QED
  BY <1>3, <1>4

LEMMA RemoveKeeps ==
  ASSUME RingInv, RingInv', NEW name \in Names, RemoveNode(name),
         NEW k \in Keys, GetNode(k) \in members'
  PROVE  GetNode(k)' = GetNode(k)
<1>0. /\ kind' = kind /\ members' = members \ {name} /\ nodes' = Filtered(nodes, name)
  BY DEF RemoveNode
<1> DEFINE t == targetHash(k)
           p == PlaceOf(nodes, t)
<1>1. targetHash(k)' = t
  BY <1>0 DEF targetHash
<1>2. /\ t \in Hashes /\ nodes \in Seq(Spot) /\ nodes' \in Seq(Spot)
      /\ InOrder(nodes) /\ InOrder(nodes')
  BY TargetType DEF RingInv, RingType
<1>3. nodes # << >>
  BY <1>0, EmptyRing
<1>4. Place(nodes, t, p) /\ GetNode(k) = nodes[p].nodeName
  BY <1>3, FoundPlace
<1> HIDE DEF p
<1>5. p \in 1 .. Len(nodes) /\ nodes[p].nodeName # name
  BY <1>0, <1>4 DEF Place
<1>6. PICK e : Picks(nodes, name, Len(nodes), nodes', Len(nodes'), e)
  BY <1>0, <1>2, FilteredContract
<1>7. /\ e \in [1 .. Len(nodes') -> 1 .. Len(nodes)]
      /\ \A a, b \in 1 .. Len(nodes') : a < b => e[a] < e[b]
      /\ \A a \in 1 .. Len(nodes') : nodes'[a] = nodes[e[a]]
      /\ \E a \in 1 .. Len(nodes') : e[a] = p
  BY <1>5, <1>6 DEF Picks
<1>8. PICK a \in 1 .. Len(nodes') : e[a] = p
  BY <1>7
<1>9. Place(nodes', t, a)
  <2>1. CASE nodes[p].hash >= t /\ \A m \in 1 .. p - 1 : nodes[m].hash < t
    <3>1. nodes'[a].hash >= t
      BY <1>7, <1>8, <2>1
    <3>2. ASSUME NEW b \in 1 .. a - 1 PROVE nodes'[b].hash < t
      <4>1. b \in 1 .. Len(nodes') /\ b < a
        BY <1>2
      <4>2. e[b] \in 1 .. p - 1 /\ nodes'[b] = nodes[e[b]]
        BY <1>5, <1>7, <1>8, <4>1
      <4> QED
        BY <2>1, <4>2
    <3> QED
      BY <3>1, <3>2 DEF Place
  <2>2. CASE p = 1 /\ \A m \in 1 .. Len(nodes) : nodes[m].hash < t
    <3>1. a = 1
      <4>1. ~ (1 < a)
        <5> SUFFICES ASSUME 1 < a PROVE FALSE
          OBVIOUS
        <5>1. 1 \in 1 .. Len(nodes') /\ e[1] \in 1 .. Len(nodes) /\ e[1] < e[a]
          BY <1>2, <1>7
        <5> QED
          BY <1>8, <2>2, <5>1
      <4> QED
        BY <4>1
    <3>2. \A m \in 1 .. Len(nodes') : nodes'[m].hash < t
      BY <1>7, <2>2
    <3> QED
      BY <3>1, <3>2 DEF Place
  <2> QED
    BY <1>4, <2>1, <2>2 DEF Place
<1> DEFINE q == PlaceOf(nodes', t)
<1>10. nodes' # << >>
  BY <1>2, <1>8
<1>11. Place(nodes', t, q)
  BY <1>2, <1>10, PlaceFound
<1>12. GetNode(k)' = nodes'[q].nodeName
  BY <1>1, <1>10 DEF GetNode, PlaceOf
<1> HIDE DEF q
<1>13. q = a
  BY <1>2, <1>9, <1>11, PlaceUnique
<1> QED
  BY <1>4, <1>7, <1>8, <1>12, <1>13

\* AddNode moves keys to the node it adds and to no other, for any ring; only between
\* nodes whose spots have the same hash may the sort move a key besides.
THEOREM AddMovesToAdded == Spec => MovesOnlyToAdded
<1> DEFINE Moves == Len(nodes') > Len(nodes) => \A k \in Keys :
                      \/ GetNode(k)' = GetNode(k)
                      \/ GetNode(k)' \in members' \ members
                      \/ {GetNode(k), GetNode(k)'} \subseteq Owners(k)'
<1>1. RingInv /\ Clockwise /\ RingInv' /\ Clockwise' /\ [Next]_vars => [Moves]_vars
  <2> SUFFICES ASSUME RingInv, Clockwise, RingInv', Clockwise', Next, Len(nodes') > Len(nodes),
                      NEW k \in Keys
               PROVE  \/ GetNode(k)' = GetNode(k)
                      \/ GetNode(k)' \in members' \ members
                      \/ {GetNode(k), GetNode(k)'} \subseteq Owners(k)'
    OBVIOUS
  <2>1. ASSUME NEW name \in Names, RemoveNode(name) PROVE FALSE
    <3>1. Len(nodes') <= Len(nodes)
      BY <2>1, RemoveNodeRing
    <3>2. nodes \in Seq(Spot) /\ nodes' \in Seq(Spot)
      BY DEF RingInv, RingType
    <3> QED
      BY <3>1, <3>2
  <2>2. PICK name \in Names : AddNode(name)
    BY <2>1 DEF Next
  <2> QED
    BY <2>2, AddMoves
<1> QED
  BY <1>1, RingInvHolds, FindsNextClockwise, PTL DEF Spec, MovesOnlyToAdded

\* RemoveNode moves the keys of the node it removes and no other, for any ring, equal
\* hashes or not.
THEOREM RemoveMovesFromRemoved == Spec => MovesOnlyFromRemoved
<1> DEFINE Moves == Len(nodes') < Len(nodes) => \A k \in Keys :
                      GetNode(k) \in members' => GetNode(k)' = GetNode(k)
<1>1. RingInv /\ RingInv' /\ [Next]_vars => [Moves]_vars
  <2> SUFFICES ASSUME RingInv, RingInv', Next, Len(nodes') < Len(nodes),
                      NEW k \in Keys, GetNode(k) \in members'
               PROVE  GetNode(k)' = GetNode(k)
    OBVIOUS
  <2>1. ASSUME NEW name \in Names, AddNode(name) PROVE FALSE
    <3>1. Len(nodes') = Len(nodes) + virtualSpots
      BY <2>1, AddNodeRing
    <3>2. nodes \in Seq(Spot) /\ virtualSpots \in Nat
      BY DEF RingInv, RingType
    <3> QED
      BY <3>1, <3>2
  <2>2. PICK name \in Names : RemoveNode(name)
    BY <2>1 DEF Next
  <2> QED
    BY <2>2, RemoveKeeps
<1> QED
  BY <1>1, RingInvHolds, PTL DEF Spec, MovesOnlyFromRemoved
=============================================================================
