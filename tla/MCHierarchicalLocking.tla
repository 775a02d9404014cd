----------------------- MODULE MCHierarchicalLocking -----------------------
(* One table with a few tuples; transactions and tuples are interchangeable. *)
EXTENDS HierarchicalLocking, TLC

TxnTupleSymmetry == Permutations(Txns) \cup Permutations(Tuples)
=============================================================================
