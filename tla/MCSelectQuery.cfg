SPECIFICATION Spec
CONSTANTS
  WordOrder <- MCWordOrder
  Cases <- MCCases
  MaxRounds = 5
INVARIANTS
  JoinsAreFilteredProducts
  WhereKeepsTruth
  RowsAreSorted
  GroupsAreClasses
  SetOperationsCount
  RecursionReaches
CHECK_DEADLOCK FALSE
