\* Two searches of small games, cut off anywhere.
CONSTANTS
  none = none
  NoMove = none
  Positions <- Board8
  Games <- AllGames
  Slots <- TwoSlots
  SlotOf <- ByRemainder
  MaxQuiescencePly = 2
  MaxPly = 10
  MaxDepth = 3
  MaxSearches = 2
SPECIFICATION Spec
CHECK_DEADLOCK FALSE
PROPERTIES ScoresAreMinimax MatesAreForced
