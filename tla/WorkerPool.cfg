SPECIFICATION FairSpec
CONSTANTS
  c1 = c1
  c2 = c2
  Callers <- TwoCallers
  Workers = {w1, w2, w3, w4, w5, w6}
  Tiles = 1
  Parts <- TwoAndOne
  MaxFrames = 1
  None = None
INVARIANTS
  LockOrder
  PushAsserts
  TaskDataAlive
  OccupiedAwaited
PROPERTIES
  Completes
