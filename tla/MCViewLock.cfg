CONSTANTS
  Sessions = {s1, s2, s3}
  v = v
  w = w
  Names = {v, w}
  Builtin = Builtin
  Queries <- MCQueries
  NoView = NoView
SPECIFICATION Spec
INVARIANTS
  PathInForce
PROPERTY FlatViewsEnd
CHECK_DEADLOCK FALSE
