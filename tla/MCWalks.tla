------------------------------ MODULE MCWalks ------------------------------
(* Three keys on two shards, two of them together on one: one comes and    *)
(* goes, one changes its value, one only comes.                            *)
EXTENDS Walks, TLC

CONSTANTS k1, k2, k3, v1, v2

MCKeys == {k1, k2, k3}
MCValues == {v1, v2}
MCfnv32 == (k1 :> 4) @@ (k2 :> 6) @@ (k3 :> 5)
MCChanges ==
  {<<k1, v1>>, <<k1, v2>>, <<k2, v1>>, <<k3, v1>>, <<k3, Absent>>}
=============================================================================
