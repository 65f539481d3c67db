SPECIFICATION Spec
CONSTANTS
  MaxLen = 2
  MaxBody = 3
INVARIANTS
  TypeOK
  ShortReadMeansEnd
  ReadInOrder
  WholeRequestBeforeResponse
PROPERTY OperationsEnd
