SPECIFICATION MCSpec
CONSTANTS
  loop = loop
  a = a
  b = b
  all = all
  Sockets = {1, 2}
  Blocks = {1, 2}
  Remotes <- MCRemotes
  Clients <- MCClients
  Broadcast <- MCBroadcast
  Loop = loop
  Zero = zero
  Low = 10
  High = 12
  Services = {1}
  Timeouts = {1}
  None = none
  Files = {1, 2}
  SessionTicks = 2
  MaxChecks = 1
  Page = 2
  Length = 3
  ReadWindow = 2
  WriteWindow = 2
  Hashes = {1, 2, 3}
  Data = {0, 1}
  Tags = {0, 1}
  Nothing = 0
  InitialSize = 1
  Increment = 2
  MaxEntries = 3
  Batches = TRUE
  KeySeq <- MCKeySeq
  Direct = {"c"}
  Values = {0, 1}
  Default = 0
  Junk = 2
  Faults = {"open"}
  MaxCells = 6
  MaxLosses = 1
INVARIANTS SocketsSound ServerSound WholeTransfer
PROPERTIES WorkEnds ImplementsMap ImplementsPersist EventuallySaved
CHECK_DEADLOCK FALSE
