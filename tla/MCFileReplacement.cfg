CONSTANTS
  Procs = {p, q}
  db = db
  alias = alias
  Names = {db, alias}
  NoProc = NoProc
  NoName = NoName
  Layouts <- MCLayouts
  MaxInodes = 3
  MaxCommits = 2
SYMMETRY Symmetry
SPECIFICATION Spec
INVARIANTS
  SingleWriter
  AcknowledgedSurvive
  BackupIsOriginal
CHECK_DEADLOCK FALSE
