SPECIFICATION Spec
CONSTANTS
  WordOrder <- MCWordOrder
  Cases <- MCCases
  MaxRounds = 5
INVARIANTS
  HashJoinsMatchProducts
CHECK_DEADLOCK FALSE
