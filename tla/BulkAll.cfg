\* Loaders with failing statements, cancelled contexts and restarts.
SPECIFICATION Spec
CONSTANTS
  s1 = s1
  s2 = s2
  a = a
  b = b
  bad = bad
  main = main
  side = side
  NoLabel = NoLabel
  EmptyStmt = EmptyStmt
  c1 = c1
  c2 = c2
  Conn = {c1, c2}
  Loaded = {main}
  Part = {main, side}
  Default = main
  RouteLabel <- Routes
  Stmt = {s1, s2}
  GoodLabel = {a, b}
  BadLabel = {bad}
  AddChoice <- Adds
  BatchRows = 2
  Failures = {"readSync", "readJournal", "insert", "drop", "create", "setSync", "setJournal"}
  MaxLoads = 2
  MaxAdds = 3
INVARIANTS
  NothingLost
  IndexesBack
PROPERTY
  SlotComesBack
CHECK_DEADLOCK FALSE
