\* The reference that INDIRECT makes is changed by an edit.
CONSTANTS
  Limit = 3
  Raws <- WithIndirect
  Starts <- SelfReference
  Budgets <- OneEdit
SPECIFICATION Spec
INVARIANTS CircularIsCurrent
CHECK_DEADLOCK FALSE
