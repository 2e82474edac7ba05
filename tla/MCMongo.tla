------------------------------- MODULE MCMongo -------------------------------
(* The batches asked for, one of them refused.                             *)
EXTENDS Mongo, TLC

MCBatches == {-1, 1, 2}

Symmetry == Permutations(Procs)
=============================================================================
