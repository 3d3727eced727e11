\* Both methods, unbuffered and buffered channels, cancellation at any time.
\* The goroutines end, or wait for a caller that went silent.
SPECIFICATION Spec
CONSTANTS
  s1 = s1
  s2 = s2
  a = a
  bad = bad
  NoLabel = NoLabel
  EmptyStmt = EmptyStmt
  Stmt = {s1, s2}
  GoodLabel = {a}
  BadLabel = {bad}
  InputChoice <- Inputs
  DefaultChoice = {NoLabel, a, bad}
  ChunkSize = 2
  CapChoice = {0, 1, 2}
  ForwardedChoice = {TRUE, FALSE}
  Cancellable = TRUE
INVARIANTS
  WholeOrNothing
  BoundedMemory
PROPERTIES
  CallReturns
  CancelFreesForwarder
CHECK_DEADLOCK FALSE
