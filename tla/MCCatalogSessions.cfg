CONSTANTS
  Sessions = {s1, s2}
  Names = {t, u}
  Columns = {"a", "b"}
  Layouts <- MCLayouts
  Cells = {x, y}
  ViewDefs = {q}
  MaxRows = 2
  MaxSelected = 1
  MaxStatements = 4
  NoView = NoView
  NoTx = NoTx
SYMMETRY Symmetry
SPECIFICATION Spec
INVARIANTS
  DiskLoads
  DiskIsMemory
  UniqueHolds
PROPERTIES
  ForeignChangesSurvive
  ImplementsSerial
