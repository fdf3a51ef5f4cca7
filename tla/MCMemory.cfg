SPECIFICATION MCSpec
CONSTANTS
  MaxHandles = 3
  HeapSize = 26
  Threshold = 8
  WordSize = 256
  Sizes = {1, 3}
  Types = {t1}
  Data = {d1, d2}
  Shrinking = FALSE
INVARIANTS HandlesNameBlocks SpaceAccounted HeldPointersValid NoAssertFires
PROPERTIES Refines DirtyReclaimed DamageStopsAll
