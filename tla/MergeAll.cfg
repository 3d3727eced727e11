\* Up to three runs of up to three keys each, every choice of them.
SPECIFICATION Spec
CONSTANTS
  Key = {1, 2, 3}
  MaxRuns = 3
  MaxRunLength = 3
  RunsChoice <- AllRuns
INVARIANTS
  TypeOK
  TableIncreases
  TableComplete
  AgreesWithInMemory
PROPERTY
  MergeEnds
CHECK_DEADLOCK FALSE
