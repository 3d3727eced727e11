\* One reader beside two goroutines, each writing its own statements; audited
\* commits and ingests, some of them invalid, and crashes.  A second byte of a
\* uvarint from 2 on.
SPECIFICATION RSpec
CONSTANTS
  p1 = p1
  p2 = p2
  Proc = {p1, p2}
  Stmt <- Statements
  EmptyStmt <- NoStmt
  GoodLabel <- Labels
  BadLabel <- NoPrefix
  NoLabel <- NoText
  BatchChoice <- Batches
  IngestChoice <- BadIngests
  Kinds = {"writer", "ingest"}
  Owner <- Owners
  Careful = TRUE
  PauseForRebuild = TRUE
  BatchSize = 2
  MaxWrites = 3
  PatternChoice <- Patterns
  CutoffChoice = {0, 2, 3}
  VarintBase = 2
INVARIANTS
  TypeOK
  LabelsEnforced
  JournalReplays
  ReadsOfAMoment
  JournalOfAMoment
  BackupWhole
CHECK_DEADLOCK FALSE
