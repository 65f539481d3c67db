SPECIFICATION Spec
CONSTANTS
  Client = {c1, c2}
  Instance = {i1, i2, i3}
  NoClient = NoClient
  NoInstance = NoInstance
  GiveUp = TRUE
  MaxThreads = 2
  Servers = {"movable", "coroutine"}
  MaxFailures = 1
  Few = {c1, c2}
INVARIANTS
  TypeOK
  OneOwner
  AcceptsForever
  OneThreadKeepsName
PROPERTY SessionsEnd
