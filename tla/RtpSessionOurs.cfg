SPECIFICATION Spec
CONSTANTS
  Self = self
  Remote = {a}
  Speakers = {a, self}
  Media = {self}
  Mentioned = {a, self}
  SeqMod = 6
  MaxDropout = 2
  MaxMisorder = 2
  MinSequential = 2
  ByeDelay = 0
  InactiveAge = 1
  ReportAge = 1
  DeadAge = 2
  MaxStall = 1
  MaxSenders = 2
INVARIANT DatabasesAgree
PROPERTY OursStays
CHECK_DEADLOCK FALSE
