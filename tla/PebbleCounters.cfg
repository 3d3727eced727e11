\* All kinds of writes under the usage the label counters are meant for.
SPECIFICATION Spec
CONSTANTS
  p1 = p1
  p2 = p2
  s1 = s1
  s2 = s2
  a = a
  b = b
  bad = bad
  NoLabel = NoLabel
  EmptyStmt = EmptyStmt
  Proc = {p1, p2}
  Stmt = {s1, s2}
  GoodLabel = {a, b}
  BadLabel = {}
  BatchChoice <- MoveBatches
  IngestChoice <- OwnIngests
  Kinds = {"writer", "loader", "ingest", "rebuild"}
  Owner <- SplitOwner
  Careful = TRUE
  PauseForRebuild = TRUE
  BatchSize = 2
  MaxWrites = 3
INVARIANT
  CountersExact
