-------------------------- MODULE MCCheckpointTask --------------------------
(* An instance of CheckpointTask for TLC.                                  *)
EXTENDS CheckpointTask

CONSTANTS f1, f2, c1, c2

MCFlusher == {f1, f2}
MCCommander == {c1, c2}
MCTrigger == {"full", "delta"}
=============================================================================
