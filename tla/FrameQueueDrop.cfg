SPECIFICATION FairDrop
CONSTANTS
  Max = 3
  MaxFrames = 8
  NoSlot = NoSlot
INVARIANTS
  TypeOK
  NoOverlap
  InOrder
PROPERTIES
  IsFifo
  Leaves
CHECK_DEADLOCK FALSE
