----------------------------- MODULE MCBuffer -----------------------------
(* Small instances of Buffer for TLC.                                        *)
EXTENDS Buffer

CONSTANTS o1, o2, w1, w2, bg

(* Both objects fit into the memory until the second one grows.              *)
Sizes == (o1 :> 1) @@ (o2 :> 1)

Symmetry == Permutations({w1, w2})
===========================================================================
