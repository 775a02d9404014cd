------------------------- MODULE MCDeadlockSearch --------------------------
(* Transactions and tags are interchangeable. *)
EXTENDS DeadlockSearch, TLC

TxnTagSymmetry == Permutations(Txns) \cup Permutations(Tags)
=============================================================================
