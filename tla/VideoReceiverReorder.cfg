SPECIFICATION Spec
CONSTANTS
  Max = 2
  PacketsPer = 2
  TsMod = 16
  TsBase = 0
  SeqMod = 8
  SeqBase = 4
  Frames = 3
  Window = 2
  Lossy = FALSE
  StateChanges = 2
  NoSlot = NoSlot
  FrameKinds = {"INTRA", "BFRAME", "OTHER", "BAD"}
INVARIANTS
  TypeOK
  StartsWithIntra
  NewestFirst
CHECK_DEADLOCK FALSE
