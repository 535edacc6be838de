CONSTANTS
  Values = {v1, v2}
  NoValue = NoValue
  Readers = {r1}
  MaxPage = 7
  MaxGen = 4
SPECIFICATION Spec
INVARIANTS
  Durable
  VisibleCommitted
  RecordsNameStablePages
  SnapshotIntact
  BoundedStaleness
PROPERTY ImplementsRegister
