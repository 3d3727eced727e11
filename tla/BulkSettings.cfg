\* One loader and one reader, and nothing fails.
SPECIFICATION Spec
CONSTANTS
  s1 = s1
  s2 = s2
  a = a
  b = b
  bad = bad
  main = main
  side = side
  NoLabel = NoLabel
  EmptyStmt = EmptyStmt
  c1 = c1
  c2 = c2
  Conn = {c1, c2}
  Loaded = {main}
  Part = {main}
  Default = main
  RouteLabel <- Routes
  Stmt = {s1, s2}
  GoodLabel = {a, b}
  BadLabel = {bad}
  AddChoice <- OneAdd
  BatchRows = 1
  Failures = {}
  MaxLoads = 1
  MaxAdds = 1
INVARIANT
  CloseRestoresDefaults
CHECK_DEADLOCK FALSE
