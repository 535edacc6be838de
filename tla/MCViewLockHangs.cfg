CONSTANTS
  Sessions = {s1, s2}
  v = v
  w = w
  Names = {v, w}
  Builtin = Builtin
  Queries <- MCQueries
  NoView = NoView
SPECIFICATION Spec
PROPERTY StatementsEnd
CHECK_DEADLOCK FALSE
