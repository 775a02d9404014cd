----------------------- MODULE MCTransactionContext ------------------------
(* Small instances of TransactionContext; transactions and tags are          *)
(* interchangeable in the runs that check invariants only.                   *)
EXTENDS TransactionContext, TLC

TxnTagSymmetry == Permutations(Txns) \cup Permutations(Tags)
=============================================================================
