SPECIFICATION Spec
CONSTANTS
  NBlocks = 5
  NFiles = 2
  DataPages = 2
  SparePages = 1
  Attempts = 3
  user = user
  gc_data = gc_data
  v1 = v1
  v2 = v2
  counts = counts
  Counts = counts
  Names <- MCNames
  GcName = gc_data
  Absent = Absent
  Values <- MCValues
  Contents <- MCContents
  MetaPages = 1
  MaxData = 2
  MaxWrite = 1
  Threshold = 2
  MaxLosses = 1
  Safe = {}
SYMMETRY Symmetric
VIEW State
INVARIANTS BlocksAccounted
