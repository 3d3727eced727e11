\* Migrations of a source that is written to, with failures and re-runs.
SPECIFICATION MSpec
CONSTANTS
  s1 = s1
  s2 = s2
  a = a
  b = b
  lost = lost
  main = main
  side = side
  nowhere = nowhere
  EmptyName = EmptyName
  NoLabel = NoLabel
  EmptyStmt = EmptyStmt
  c1 = c1
  c2 = c2
  x1 = x1
  x2 = x2
  Conn = {c1, c2}
  Loaded = {main, side}
  Part = {main, side}
  Default = main
  RouteLabel <- Routes
  Stmt = {s1, s2}
  GoodLabel = {a, b, lost}
  BadLabel = {}
  AddChoice <- Nothing
  BatchRows = 2
  Failures = {"readSync", "insert"}
  MaxLoads = 4
  MaxAdds = 4
  SrcPart = {x1}
  SourceChoice <- Writes
  Since = {0, 2}
  MaxSource = 2
  MaxRuns = 2
INVARIANTS
  CopyComplete
  AuditTrailWhole
CHECK_DEADLOCK FALSE
