\* Every input of up to four lines, with panics and a failing output.
SPECIFICATION FairSpec
CONSTANTS
  Positions = {"start", "e2e4"}
  StartPos = "start"
  Options = {"hash64", "hash16", "entries65536"}
  DefaultOption = "hash64"
  OwnOption = "entries65536"
  Commands <- EveryKind
  MaxInput = 4
  Faults = TRUE
INVARIANTS CommandsInOrder AnswersMatchSearches EngineUpToDate
PROPERTIES EverySearchAnswered
\* The reader stops after MaxInput lines and the loop may have returned.
CHECK_DEADLOCK FALSE
