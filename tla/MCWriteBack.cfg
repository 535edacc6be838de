SPECIFICATION MCSpec
CONSTANTS
  d1 = d1
  d2 = d2
  Docs = {d1, d2}
  Sourceless = {}
  NoDoc = NoDoc
  Texts <- MCTexts
  NewText <- MCNewText
  MaxLines = 3
  SpacedLines = 5
  MaxStatements = 2
  MaxEdits = 1
  MaxRows = 1
INVARIANTS
  UpdateIsExact
  DeleteIsExact
  InsertIsExact
  StaleOnlyWhenKnown
CHECK_DEADLOCK FALSE
