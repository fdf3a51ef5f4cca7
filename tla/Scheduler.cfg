SPECIFICATION Spec
CONSTANTS
  Nodes = {main, t2}
  None = none
  Main = main
  Signals = {s1}
  ClockMod = 4
  Delays = {1}
  PassTime = 1
  MaxSpawns = 1
  SignalRunsRemove = FALSE
INVARIANTS NoneSkipped AlarmsTrue CursorLive NoneStranded
PROPERTIES EveryThreadRuns
