CONSTANTS
  Bots = {b1, b2}
  MakeShare = 1
  MaxMakers = 10
  SendShare = 2
  MaxSenders = 20
  Receivers = {r1, r2}
  Garbage = garbage
  MaxReplies <- MCMaxReplies
SPECIFICATION FairSpec
INVARIANTS
  EveryBotOnce
  LastStatusKept
PROPERTIES
  EveryBotServed
CHECK_DEADLOCK FALSE
