\* Three overlapping replays while events commit out of order.
CONSTANTS
  r1 = r1
  r2 = r2
  r3 = r3
  noRun = noRun
  Runs <- ThreeRuns
  NoRun = noRun
  MaxLedger = 2
  MaxReplayFaults = 1
SPECIFICATION ReplaySpec
CHECK_DEADLOCK FALSE
INVARIANTS HeadIsSound
PROPERTIES HeadNeverBack
