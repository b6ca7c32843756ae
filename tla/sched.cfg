SPECIFICATION Spec
CONSTANTS
  g1 = g1
  g2 = g2
  h1 = h1
  h2 = h2
  a1 = a1
  a2 = a2
  gc = gc
  ac = ac
  NoTask = NoTask
  Tasks = {g1, g2, h1, h2, a1}
  Kind <- Kinds
  Mixes <- EachMix
  Swaps <- Frames
  Clients = {gc, ac}
  Owner <- Owners
  QueueLen = 4
  ClientLen = 1
  MaxVideo = 1
  Ndebug = FALSE
INVARIANTS TasksAccounted NoAssert DrawsAfterSwap
