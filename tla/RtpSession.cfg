SPECIFICATION FairSpec
CONSTANTS
  Self = self
  Remote = {a, b}
  Speakers = {a, b}
  Media = {a}
  Mentioned = {b}
  SeqMod = 6
  MaxDropout = 2
  MaxMisorder = 2
  MinSequential = 2
  ByeDelay = 0
  InactiveAge = 1
  ReportAge = 1
  DeadAge = 2
  MaxStall = 1
  MaxSenders = 2
INVARIANTS
  DatabasesAgree
  AdmitsSequence
  SendersCounted
  NeverDeletedTwice
PROPERTIES
  SilentSourceGoes
CHECK_DEADLOCK FALSE
