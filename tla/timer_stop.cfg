SPECIFICATION Spec
CONSTANTS
  Timers = {t1, t2}
  NoTimer = NoTimer
  Apps = {p1}
  Settings <- FewSettings
  CountMod = 8
  MinDelay = 2
  QueueLen = 2
  Retraces = FALSE
  MaxLag = 3
  MaxSets = 2
INVARIANTS StopsActiveOnly
