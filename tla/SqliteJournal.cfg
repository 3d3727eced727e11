\* Three goroutines take turns at one file, which nobody else writes.
SPECIFICATION Spec
CONSTANTS
  s1 = s1
  s2 = s2
  a = a
  b = b
  bad = bad
  main = main
  side = side
  nowhere = nowhere
  NoLabel = NoLabel
  EmptyStmt = EmptyStmt
  g1 = g1
  g2 = g2
  g3 = g3
  Proc = {g1, g2, g3}
  Part = {main}
  Default = main
  RouteLabel <- Routes
  Stmt = {s1, s2}
  GoodLabel = {a, b}
  BadLabel = {bad}
  BatchChoice <- JournalBatches
  LegacyChoice <- NoBatches
  Prune = FALSE
  MaxCommits = 3
  MaxClock = 1
INVARIANT
  JournalReplays
PROPERTY
  WaitingEnds
CHECK_DEADLOCK FALSE
