\* Edits, formats, resizes, insertions and deletions, undone and redone.
CONSTANTS
  Limit = 3
  Raws <- Formulas
  Starts <- Sheets
  Budgets <- Mixes
SPECIFICATION Spec
INVARIANTS GraphMatchesSheet ValuesExact RoundTrip
PROPERTIES UndoRestores StructuralEditsCarry
CHECK_DEADLOCK FALSE
