------------------------------ MODULE MCBatches ------------------------------
(* Instances of Batches.                                                   *)
EXTENDS Batches, TLC

CONSTANTS o1, o2, o3

BatchOps == {o1, o2, o3}

OneBuilder == {o3}

Interchangeable == Permutations(Threads) \cup Permutations(Ops \ Builders)
=============================================================================
