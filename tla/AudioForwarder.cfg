SPECIFICATION FairSpec
CONSTANTS
  Max = 2
  Frames = 2
  MaxParts = 2
INVARIANTS
  TypeOK
  BagExclusive
  NothingLostToEncoder
  SentWasEncoded
PROPERTIES
  PipelineDrains
CONSTRAINT
  Calm
CHECK_DEADLOCK FALSE
