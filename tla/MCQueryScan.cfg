SPECIFICATION Spec
CONSTANTS
  Lower <- MCLower
  Cjk = {"k", "m"}
  Separators = {"-"}
  NoLang <- MCNoLang
  Stores <- MCStores
  Kinds = {"word", "bigram"}
  Clauses <- MCClauses
  PreWidth = 8
  DepthWidth = 4
INVARIANTS
  IndexesDescribeBlocks
  FindsAllMatching
  ReturnsOnlyMatching
  SubstringsMatch
CHECK_DEADLOCK FALSE
