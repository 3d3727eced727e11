\* Every kind of write over shared statements, with crashes.
SPECIFICATION Spec
CONSTANTS
  p1 = p1
  p2 = p2
  s1 = s1
  s2 = s2
  a = a
  b = b
  bad = bad
  NoLabel = NoLabel
  EmptyStmt = EmptyStmt
  Proc = {p1, p2}
  Stmt = {s1, s2}
  GoodLabel = {a}
  BadLabel = {}
  BatchChoice <- AllBatches
  IngestChoice <- Ingests
  Kinds = {"writer", "loader", "ingest", "rebuild"}
  Owner <- AnyOwner
  Careful = FALSE
  PauseForRebuild = FALSE
  BatchSize = 2
  MaxWrites = 2
INVARIANTS
  KeyspacesAgree
  SyncedWritesSurvive
PROPERTY
  ImplementsQuadGraph
