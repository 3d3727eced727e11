\* Two partitions; commits, prunes and the older calls, with crashes.
SPECIFICATION Spec
CONSTANTS
  s1 = s1
  s2 = s2
  a = a
  b = b
  bad = bad
  main = main
  side = side
  nowhere = nowhere
  NoLabel = NoLabel
  EmptyStmt = EmptyStmt
  g1 = g1
  g2 = g2
  g3 = g3
  Proc = {g1, g2}
  Part = {main, side}
  Default = main
  RouteLabel <- Routes
  Stmt = {s1, s2}
  GoodLabel = {a, b}
  BadLabel = {bad}
  BatchChoice <- AllBatches
  LegacyChoice <- AllLegacy
  Prune = TRUE
  MaxCommits = 2
  MaxClock = 2
SYMMETRY Symmetry
INVARIANTS
  OneWriterPerPartition
  RightPartition
  JournalWhole
PROPERTY
  ImplementsQuadGraph
CHECK_DEADLOCK FALSE
