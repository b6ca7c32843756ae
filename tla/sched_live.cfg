SPECIFICATION LiveSpec
CONSTANTS
  g1 = g1
  g2 = g2
  h1 = h1
  h2 = h2
  a1 = a1
  a2 = a2
  gc = gc
  ac = ac
  NoTask = NoTask
  Tasks = {g1, a1}
  Kind <- Kinds
  Mixes <- AnyMix
  Swaps <- Frames
  Clients = {gc}
  Owner <- OneOwner
  QueueLen = 4
  ClientLen = 1
  MaxVideo = 1
  Ndebug = FALSE
PROPERTIES TasksReturn
