CONSTANTS
  alice = alice
  bot = bot
  carol = carol
  Actors <- Everyone
  Humans <- People
  Principal <- ActsFor
  Claims = {"built"}
  MaxDeliverables = 2
  May <- Divided
  Contracts <- HardOrSoft
  Limit <- Bounds
  Budgets <- PlanThenReview
SPECIFICATION Spec
INVARIANT RebuildMatchesLive
INVARIANT AcceptedIsReviewed
INVARIANT FindingsHoldUp
INVARIANT CorrectionsAreChains
PROPERTY FrozenInReview
CHECK_DEADLOCK FALSE
