----------------------------- MODULE MCHashRing -----------------------------
(* Rings of one spot and of two, the default, for each name.               *)
EXTENDS HashRing, TLC

MCVirtualSpots == {-1, 1}

MCkeyHash == [k \in Keys |-> (2 - k) % HashSpace]

Symmetry == Permutations(Names)
=============================================================================
