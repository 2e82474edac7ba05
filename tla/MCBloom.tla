------------------------------ MODULE MCBloom ------------------------------
(* Three pieces of data and hashers of 4 bits.  FNV is scaled down to them: *)
(* the state is combined with the data, then multiplied by an odd prime, or *)
(* the other way round, with addition for exclusive or.                    *)
EXTENDS Bloom

MCData == {1, 2, 6}
MCHashes == 0 .. 15
MCMix ==
  [h \in 0 .. 1 |->
     [a \in MCHashes \X MCData |->
        IF h = 0 THEN ((a[1] + a[2]) * 3) % 16 ELSE (a[1] * 3 + a[2]) % 16]]
=============================================================================
