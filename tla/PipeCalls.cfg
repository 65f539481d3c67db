SPECIFICATION Spec
CONSTANTS
  Client = {c1, c2, c3}
  Instance = {i1, i2, i3, i4}
  NoClient = NoClient
  NoInstance = NoInstance
  GiveUp = FALSE
  MaxThreads = 2
  Servers = {"echo", "http"}
  MaxFailures = 0
  Few = {c1, c2}
INVARIANTS
  OneOwner
  NoReplyLost
PROPERTIES
  ClientsEnd
  SessionsEnd
