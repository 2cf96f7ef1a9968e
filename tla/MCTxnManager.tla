---------------------------- MODULE MCTxnManager ----------------------------
(* TxnManager on small instances.                                          *)
EXTENDS TxnManager, TLC

(* Transactions that begin in the same way are interchangeable.            *)
Symmetry == Permutations(Txn \ CkpTxn) \cup Permutations(Row)

=============================================================================
