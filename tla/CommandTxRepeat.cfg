\* What a retry that overlaps the original is told.
CONSTANTS
  p1 = p1
  p2 = p2
  c1 = c1
  c2 = c2
  noProject = noProject
  noResult = noResult
  Projects <- TwoProjects
  Requests <- FewRequests
  Calls <- TwoCalls
  NoProject = noProject
  NoResult = noResult
  Faults = FALSE
  MaxCalls = 4
SPECIFICATION CommandSpec
CHECK_DEADLOCK FALSE
PROPERTIES RepeatReturnsOriginal
