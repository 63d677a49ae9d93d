CONSTANTS
  Handles = {h1}
  Receivers = {r1, r2}
  Senders = {s1}
  MaxConns = 2
  MaxData <- MCMaxData
  MaxReplies = 1
SPECIFICATION FairSpec
INVARIANTS
  BlocksAccounted
  OneReceive
PROPERTIES
  NobodyIsCutOff
  GoneIsClosed
CHECK_DEADLOCK FALSE
