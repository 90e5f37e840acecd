\* Sheets of three records, and of a start, a count and holidays.
CONSTANTS
  Sheets = {"records", "dates"}
  MaxRows = 3
  Characters <- SomeCharacters
  LowerCase <- SomeLowerCase
  Keys <- SomeKeys
  AmountLists <- SomeAmounts
  Wanted <- Lookedup
  Operands <- SomeOperands
  Patterns <- SomePatterns
  Starts <- Days
  Counts <- Offsets
  DaysOff <- MayBeOff
SPECIFICATION Spec
INVARIANTS LookupsAgree CriteriaAgree DatesAgree
