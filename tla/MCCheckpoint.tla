---------------------------- MODULE MCCheckpoint ----------------------------
(* Instances of Checkpoint for TLC.                                        *)
EXTENDS Checkpoint

CONSTANTS a, b

MCCkpId == {a, b}
MCSymmetry == {[k \in MCCkpId |-> k], [k \in MCCkpId |-> IF k = a THEN b ELSE a]}
MCExclusive == {"flush", "periodic"}
MCWithCleanup == {"flush", "periodic", "cleanup"}
MCWithSnapshot == {"flush", "periodic", "snapshot"}
=============================================================================
