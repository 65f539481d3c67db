SPECIFICATION SafeSpec
CONSTANTS
  Client = {c1, c2}
  Instance = {i1, i2, i3}
  NoClient = NoClient
  NoInstance = NoInstance
  GiveUp = TRUE
  MaxThreads = 1
  Servers = {"http"}
  MaxFailures = 0
  Few = {c1, c2}
INVARIANT AcceptsForever
