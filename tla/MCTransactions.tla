--------------------------- MODULE MCTransactions ---------------------------
(* Instances of Transactions for TLC.                                      *)
EXTENDS Transactions, TLC

(* Threads and operations are interchangeable.                             *)
Interchangeable == Permutations(Threads) \cup Permutations(Ops)
=============================================================================
