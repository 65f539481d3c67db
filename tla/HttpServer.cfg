SPECIFICATION Spec
CONSTANTS
  Request = {r1, r2}
  Big = {r2}
  Conn = {c1, c2, c3}
  NullId = NullId
  MaxBody = 3
  MayDrop = TRUE
  Hint = 2
  Routed = {r1}
  Trailing = {r1}
  Empty = Empty
  Freed = Freed
INVARIANTS
  TypeOK
  OneReceives
  HeldOnce
  WholeBodyHandled
  AnswerIsResponse
PROPERTIES
  RequestsAnswered
  ShutdownDrains
