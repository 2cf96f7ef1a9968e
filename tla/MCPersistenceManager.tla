------------------------ MODULE MCPersistenceManager ------------------------
(* Instances of PersistenceManager for TLC.                                  *)
EXTENDS PersistenceManager

CONSTANTS p1, p2, w1, bg

(* p2 can be empty, small, or as large as an object.                         *)
SomeSizes == (p1 :> {3} @@ p2 :> {0, 1, 6})

(* Two sizes whose padding exceeds the room that is left.                    *)
PaddedSizes == (p1 :> {3} @@ p2 :> {2})
=============================================================================
