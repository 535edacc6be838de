SPECIFICATION AnchorSpec
CONSTANTS
  Slugs <- MCSlugs
  Types <- MCTypes
  NoName <- MCNoName
  Blank <- MCBlank
  MaxDepth = 3
  MaxNodes = 5
INVARIANTS
  ContainsIsUnder
  NavigationFollowsSections
  AnchorsFollowIntervals
  AnchorsIdentify
CHECK_DEADLOCK FALSE
