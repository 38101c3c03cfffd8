-------------------------- MODULE MCSnapshotRecorder --------------------------
(* Small instances of SnapshotRecorder for TLC. *)
EXTENDS SnapshotRecorder, TLC

CONSTANTS first, second, agreed, changed

Symmetric == Permutations(Recorder)
=============================================================================
