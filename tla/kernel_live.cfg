SPECIFICATION LiveSpec
CONSTANTS
  Idle = Idle
  a = a
  b = b
  c = c
  Threads = {Idle, a, b}
  Queues = {q1}
  NoThread = NoThread
  ThreadTail = ThreadTail
  NoQueue = NoQueue
  NoMsg = NoMsg
  Capacity <- CapacityOne
  Msgs = {"m1"}
  Prios = {1, 2}
  HwEvents = {"PRENMI", "VI", "CART", "PI"}
  RegEvents = {"PRENMI", "VI"}
  Clients = {a}
  UserCalls = {"send", "recv", "yield"}
PROPERTIES NmiServedOnce TopReceives
