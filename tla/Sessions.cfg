\* Reads of a partitioned store while it is written and pruned; opening files
\* of any age; the index tool; the clusters; the copy to Pebble.
SPECIFICATION SessionSpec
CONSTANTS
  g1 = g1
  a = a
  b = b
  bad = bad
  main = main
  side = side
  nowhere = nowhere
  n1 = n1
  n2 = n2
  n3 = n3
  knows = knows
  likes = likes
  NoLabel = NoLabel
  EmptyStmt = EmptyStmt
  Wild = Wild
  Proc = {g1}
  Part = {main, side}
  Default = main
  RouteLabel <- Routes
  Stmt <- Statements
  GoodLabel = {a, b}
  BadLabel = {bad}
  BatchChoice <- Batches
  LegacyChoice <- Legacy
  Prune = FALSE
  MaxCommits = 2
  MaxClock = 2
  PartOrder <- Order
  RoutePattern <- PatternRouter
  PatternChoice <- Patterns
  PathChoice <- Paths
  CutoffChoice = {0, 2}
  MaxVariables = 3
  o1 = o1
  o2 = o2
  f1 = f1
  f2 = f2
  Opener = {o1, o2}
  DbFile = {f1, f2}
  DiskChoice <- Disks
  ConfigChoice <- Configs
  NoName = NoName
  Junk = Junk
  e1 = e1
  e2 = e2
  e3 = e3
  Entry = {e1, e2, e3}
  PageNo = {0, 1, 2, 3}
  Words <- TermWords
  Dismissed = {}
  WeightChoice <- Weights
  Foreground <- Quarters
  BookPages = 12
  AtomLimit = 2
  BroadLimit = 1
  RedundantLimit = 2
  LongTerm = 3
  MaxErrors = 2
  PagesRead = {1, 2, 3, 4, 5, 6}
  TextChoice <- Texts
  q1 = q1
  q2 = q2
  q3 = q3
  q4 = q4
  CopyQuad = {q1, q2, q3, q4}
  SubjectOf <- SubjectIs
  PredicateOf <- PredicateIs
  HeldBefore <- Held0
  BufferSize = 2
  SampleSize = 2
  MaxSourceWrites = 1
INVARIANTS
  ScopedReadsComplete
  TotalsConsistent
  PathMeaning
  PreviewHolds
  OpenedWhole
  CurveReachesAll
  GreedyNearBest
  RemovedWithCause
  ClustersExact
  CopyVerified
CHECK_DEADLOCK FALSE
