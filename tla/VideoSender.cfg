SPECIFICATION FairSpec
CONSTANTS
  Max = 2
  Frames = 4
  Clients = {c1}
  NoFrame = NoFrame
INVARIANTS
  SentWhole
  LossCounted
  ParticipantAlive
PROPERTIES
  NeverSentBack
  StopEnds
  EncodedIsSent
CONSTRAINT
  Calm
CHECK_DEADLOCK FALSE
