--------------------------- MODULE MCLockManager ---------------------------
(* Small instances of LockManager.  Transactions are interchangeable, and so *)
(* are tags, so both are symmetry sets in the runs that check safety only.   *)
EXTENDS LockManager, TLC

TxnTagSymmetry == Permutations(Txns) \cup Permutations(Tags)
=============================================================================
