CONSTANTS
  Paths = {p1, p2}
  NoPath = NoPath
  Contents = {a}
  NoBlocks = NoBlocks
  Missing = Missing
  MaxId = 1
  MaxPages = 8
  MaxWrites = 3
  VacuumUnloaded = TRUE
  WritesAfterVacuum = FALSE
SPECIFICATION Spec
INVARIANT CatalogReadable
