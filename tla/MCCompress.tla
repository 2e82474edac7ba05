----------------------------- MODULE MCCompress -----------------------------
(* Inputs of length 0 to 2, thresholds of 1 and 2, and settings of         *)
(* both thresholds and of none.                                            *)
EXTENDS Compress, TLC

CONSTANTS x0, x1, x2

MCInputs == {x0, x1, x2}
MClen == (x0 :> 0) @@ (x1 :> 1) @@ (x2 :> 2)
MCDefaults == [weak |-> 1, strong |-> 2]
MCSettings == {[weak |-> 2, strong |-> 3], [weak |-> 0, strong |-> 0]}

Symmetry == Permutations(Procs) \cup Permutations(Arrays)
=============================================================================
