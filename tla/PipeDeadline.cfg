SPECIFICATION SpecServerOnly
CONSTANTS
  Client = {c1, c2}
  Instance = {i1, i2, i3}
  NoClient = NoClient
  NoInstance = NoInstance
  GiveUp = FALSE
  MaxThreads = 1
  Servers = {"http"}
  MaxFailures = 0
  Few = {c1, c2}
PROPERTY SessionsEnd
