SPECIFICATION KvSpec
CONSTANTS
  Hashes = {1, 2, 3}
  Data = {0, 1}
  Tags = {0, 1}
  Nothing = 0
  InitialSize = 1
  Increment = 2
  MaxEntries = 3
  Batches = FALSE
INVARIANT CacheTrue
