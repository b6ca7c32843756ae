SPECIFICATION LiveSpec
CONSTANTS
  t1 = t1
  t2 = t2
  Threads = {t1, t2}
  Programs <- Uses
  Channels = {1, 2}
  Values = {1, 2}
  Retry = 1
  Is16K = TRUE
  VoiceErrors = FALSE
  Overlapping = FALSE
  MaxCalls = 3
  MaxFaults = 1
INVARIANTS NeverRefused AnswersBelong EepromWaits
PROPERTIES Returns
CHECK_DEADLOCK FALSE
