---------------------------- MODULE MCReplayRuns ----------------------------
(* Instances of ReplayRuns for TLC; no action tells one run from another.  *)
EXTENDS ReplayRuns

CONSTANTS r1, r2, r3, noRun

ThreeRuns == {r1, r2, r3}
=============================================================================
