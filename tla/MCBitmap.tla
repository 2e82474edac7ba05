------------------------------ MODULE MCBitmap ------------------------------
(* A bitmap of nine bits in two bytes, with indexes at every boundary: 0   *)
(* and 7 share a byte, 8 is the last one, 9 is beyond it but in the byte.  *)
EXTENDS Bitmap

One(op, i) == [op |-> op, indexes |-> <<i>>]

Single ==
  {One(op, i) : op \in {"Set", "Clear"}, i \in {0, 7, 8, 9}}
  \cup {One("IsSet", 7), One("IsSet", -1), [op |-> "Count", indexes |-> <<>>],
        [op |-> "MSet", indexes |-> <<>>]}

WithMSet == Single \cup {[op |-> "MSet", indexes |-> <<9, 0>>],
                         [op |-> "MSet", indexes |-> <<0, 8>>]}

Few == {One("Set", 0), One("IsSet", 0), [op |-> "MSet", indexes |-> <<0, 8>>]}
=============================================================================
