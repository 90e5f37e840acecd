CONSTANTS
  Startpos <- Promoting
  Games <- Mixed
SPECIFICATION FairSpec
INVARIANTS PositionsStayValid UnmakeRestores MovesFollowTheRules BoardIsOneGame OneSearchAtATime
PROPERTIES EngineReplies
