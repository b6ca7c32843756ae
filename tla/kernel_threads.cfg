SPECIFICATION Spec
CONSTANTS
  Idle = Idle
  a = a
  b = b
  c = c
  Threads = {Idle, a, b}
  Queues = {q1}
  NoThread = NoThread
  ThreadTail = ThreadTail
  NoQueue = NoQueue
  NoMsg = NoMsg
  Capacity <- CapacityOne
  Msgs = {"m1"}
  Prios = {1, 2}
  HwEvents = {"VI", "SP", "SP_BREAK"}
  RegEvents = {"VI", "FAULT", "CPU_BREAK"}
  Clients = {Idle}
  UserCalls = {"send", "recv", "stop", "yield", "setpri", "destroy", "fault", "break"}
INVARIANTS Placement ListsSorted UrgentRuns TailNeverRuns
PROPERTIES Turns
SYMMETRY AppThreads
