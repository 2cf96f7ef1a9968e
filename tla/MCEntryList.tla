---------------------------- MODULE MCEntryList ----------------------------
(* An instance of EntryList for TLC; its transactions are interchangeable. *)
EXTENDS EntryList, TLC

CONSTANTS t1, t2, t3

Symmetry == Permutations(Txns)
=============================================================================
