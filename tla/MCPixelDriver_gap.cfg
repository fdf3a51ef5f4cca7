SPECIFICATION DriverSpec
CONSTANTS
  MaxPixels = 6
  Word = 32
  Modes = {"pixie"}
  PerBuf <- MCPerBuf
  Counts = {6}
  Gap = 2
  Watchdog = 15
  MaxChanges = 0
INVARIANT FramesApart
CHECK_DEADLOCK FALSE
