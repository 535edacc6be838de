CONSTANTS
  Paths = {p1, p2}
  NoPath = NoPath
  Contents = {a}
  NoBlocks = NoBlocks
  Missing = Missing
  MaxId = 1
  MaxPages = 8
  MaxWrites = 3
  VacuumUnloaded = FALSE
  WritesAfterVacuum = FALSE
SPECIFICATION Spec
SYMMETRY Symmetry
INVARIANTS
  IdsAreFresh
  CatalogReadable
  ReopensAsIs
  CachesAgree
  HashesMatch
PROPERTY ReindexesAll
