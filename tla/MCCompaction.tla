---------------------------- MODULE MCCompaction ---------------------------
(* Instances of Compaction for TLC.  The last segment is appended to, the  *)
(* others are sealed and fit into one.                                     *)
EXTENDS Compaction, TLC

CONSTANTS d1, d2, i1, c1

Sealed == <<3, 1, 1>>
MostRows == {<<1, 1>>, <<1, 2>>, <<1, 3>>, <<2, 1>>}
Growing == <<1, 3>>
SomeRows == {<<1, 1>>, <<2, 2>>}
Symmetry == Permutations(Deleters)
=============================================================================
