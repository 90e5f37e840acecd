\* Retries, duplicates, reused keys and competing commands on one project:
\* what the commands leave behind, and that every call ends.
CONSTANTS
  p1 = p1
  p2 = p2
  c1 = c1
  c2 = c2
  noProject = noProject
  noResult = noResult
  Projects <- TwoProjects
  Requests <- AllRequests
  Calls <- TwoCalls
  NoProject = noProject
  NoResult = noResult
  Faults = TRUE
  MaxCalls = 3
SPECIFICATION FairCommandSpec
CHECK_DEADLOCK FALSE
INVARIANTS VersionHistory SuccessIsOriginal
PROPERTIES ImplementsLedger EveryCallEnds
