---------------------------- MODULE MCInt64Bloom ----------------------------
(* Words of 4 bits in halves of 2 for the int64 in halves of 32: the base  *)
(* hashes are the high half, the low half, and the middle bits combined    *)
(* with the low half.                                                      *)
EXTENDS Int64Bloom

MCData == {1, 6, 11}
MCBase ==
  [n \in 0 .. 2 |-> [d \in MCData |->
     CASE n = 0 -> d \div 4
       [] n = 1 -> d % 4
       [] n = 2 -> ((d \div 2) + d) % 4]]
MCBatches == {{}, {1, 6}}
=============================================================================
