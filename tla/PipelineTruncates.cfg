\* A cancelled call of the public method.
SPECIFICATION Spec
CONSTANTS
  s1 = s1
  s2 = s2
  a = a
  bad = bad
  NoLabel = NoLabel
  EmptyStmt = EmptyStmt
  Stmt = {s1, s2}
  GoodLabel = {a}
  BadLabel = {bad}
  InputChoice <- GoodInputs
  DefaultChoice = {a}
  ChunkSize = 2
  CapChoice = {1}
  ForwardedChoice = {TRUE}
  Cancellable = TRUE
INVARIANTS
  ReadsUntilClosed
CHECK_DEADLOCK FALSE
