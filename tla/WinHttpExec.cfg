SPECIFICATION Spec
CONSTANTS
  MaxLen = 2
  MaxBody = 3
INVARIANTS
  TypeOK
  ReadWithinPrepared
  NothingDropped
  FirstErrorIsResult
PROPERTIES
  ExecSpec
