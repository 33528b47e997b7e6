SPECIFICATION Spec
CONSTANTS
  MaxSize = 10
  Lengths = {1, 5, 6, 7, 8, 9, 16, 17}
  MaxNals = 2
  MaxLost = 2
  Junk = Junk
INVARIANTS
  PacketsFit
  LossIsLocal
  RoundTrip
