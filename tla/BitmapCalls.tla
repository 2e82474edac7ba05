---------------------------- MODULE BitmapCalls ----------------------------
(***************************************************************************)
(* The calls a client of bitmap.Bitmap can make (src/bitmap/bitmap.go) and *)
(* the results they can have.                                              *)
(***************************************************************************)
EXTENDS Integers, Sequences, FiniteSets

CONSTANTS
  size,   \* the size given to NewBitmap, in bits
  Calls   \* the calls the clients make

\* Set, Clear and IsSet have one index, Count has none.
CallType ==
  {c \in [op : {"Set", "MSet", "Clear", "IsSet", "Count"}, indexes : Seq(Int)] :
     /\ c.op \in {"Set", "Clear", "IsSet"} => Len(c.indexes) = 1
     /\ c.op = "Count" => c.indexes = <<>>}

ASSUME BitmapAssumption ==
  /\ size \in Nat
  /\ \A c \in Calls : c \in CallType

NoCall == [op |-> "none", indexes |-> <<>>]

\* A call has no result yet, has panicked, or has returned a number (1 for
\* true, 0 for false or nothing).
NoResult == [st |-> "none", val |-> 0]
Panic == [st |-> "panic", val |-> 0]
Ok(v) == [st |-> "ok", val |-> v]

\* A bug: the bound itself passes.
ValidOffByOne(index) == index >= 0 /\ index <= size

\* validateIndex does not panic.
Valid(index) == index >= 0 /\ index < size
=============================================================================
