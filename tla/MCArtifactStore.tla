-------------------------- MODULE MCArtifactStore --------------------------
(***************************************************************************)
(* Instances of ArtifactStore for TLC: a directory in a directory, each    *)
(* with one target, as a run's directory and its parsed/ below it.         *)
(***************************************************************************)
EXTENDS ArtifactStore, TLC

CONSTANTS p1, p2, run, parsed

Directory == p1 :> run @@ p2 :> parsed

Nested == run :> {run} @@ parsed :> {run, parsed}
=============================================================================
