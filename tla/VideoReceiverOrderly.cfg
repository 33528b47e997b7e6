SPECIFICATION FairSpec
CONSTANTS
  Max = 2
  PacketsPer = 2
  TsMod = 16
  TsBase = 0
  SeqMod = 16
  SeqBase = 0
  Frames = 4
  Window = 1
  Lossy = TRUE
  StateChanges = 0
  NoSlot = NoSlot
  FrameKinds = {"INTRA"}
INVARIANTS
  CommittedInOrder
  SettledOnce
PROPERTIES
  CompleteIsSettled
CHECK_DEADLOCK FALSE
