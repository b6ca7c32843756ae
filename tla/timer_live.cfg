SPECIFICATION LiveSpec
CONSTANTS
  Timers = {t1, t2}
  NoTimer = NoTimer
  Apps = {p1}
  Settings <- FewSettings
  CountMod = 8
  MinDelay = 2
  QueueLen = 1
  Retraces = FALSE
  MaxLag = 2
  MaxSets = 2
PROPERTIES Fires
