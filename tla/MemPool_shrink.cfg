SPECIFICATION Spec
CONSTANTS
  MaxHandles = 2
  HeapSize = 26
  Threshold = 8
  WordSize = 256
  Sizes = {1, 3}
  Types = {t1}
  Data = {d1, d2}
  Shrinking = TRUE
INVARIANT NoAssertFires
