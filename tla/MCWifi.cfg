SPECIFICATION MCSpec
CONSTANTS
  Ports = {1, 2}
  Slots = 2
  RxSize = 2
  TxSize = 2
  PortDepth = 1
  Width = 4
  Sends = 2
  Reopens = FALSE
  Datagrams = 2
  Chunks = 2
  MaxFaults = 2
  NPixels = 4
  Modulus = 8
  Attrs = {"hue", "val"}
  Fades = {0, 3}
  Objects <- MCObjects
  Params <- MCParams
  Levels = {7}
  MaxCalls = 2
  MaxPixels = 5
  Word = 32
  Modes = {"ws2801", "apa102"}
  PerBuf <- MCPerBuf
  Counts = {0, 9}
  Gap = 3
  Watchdog = 9
  MaxChanges = 2
  Parts = 2
  Slab = 3
  FileSets <- MCFileSets
  MaxFailures = 2
  MaxRequests = 1
INVARIANTS DatagramsWhole QueuesAccounted PixelsTrue FramesWhole ProgramWhole ScriptsMean
PROPERTIES LinkLives ShowGoesOn
CHECK_DEADLOCK FALSE
