SPECIFICATION Spec
CONSTANTS
  MaxSize = 10
  Lengths = {6}
  MaxNals = 2
  MaxLost = 0
  Junk = Junk
INVARIANTS
  EveryByteWritten
