SPECIFICATION Spec
CONSTANTS
  Max = 3
INVARIANTS
  ThreadResistant
