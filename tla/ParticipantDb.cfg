SPECIFICATION Spec
CONSTANTS
  Ssrcs = {1, 2, 3, 4, 5}
  Addresses = {11, 12, 13, 14, 15}
  Nil = Nil
INVARIANTS
  Validates
PROPERTIES
  IsDictionary
