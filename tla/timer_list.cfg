SPECIFICATION Spec
CONSTANTS
  Timers = {t1, t2, t3}
  NoTimer = NoTimer
  Apps = {p1}
  Settings <- ManySettings
  CountMod = 4
  MinDelay = 2
  QueueLen = 1
  Retraces = TRUE
  MaxLag = 1
  MaxSets = 3
INVARIANTS ListTrue
PROPERTIES NeverEarly
SYMMETRY Interchangeable
