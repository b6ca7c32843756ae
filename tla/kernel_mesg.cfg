SPECIFICATION Spec
CONSTANTS
  Idle = Idle
  a = a
  b = b
  c = c
  Threads = {Idle, a, b, c}
  Queues = {q1}
  NoThread = NoThread
  ThreadTail = ThreadTail
  NoQueue = NoQueue
  NoMsg = NoMsg
  Capacity <- CapacityTwo
  Msgs = {"m1"}
  Prios = {1, 2}
  HwEvents = {"VI"}
  RegEvents = {"VI"}
  Clients = {Idle}
  UserCalls = {"send", "jam", "recv", "stop"}
INVARIANTS TypeOK NoLostWakeup
PROPERTIES ImplementsBox
SYMMETRY AppThreads
