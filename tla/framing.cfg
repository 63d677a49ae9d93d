CONSTANTS
  Size <- MCSize
  BufSize = 13
SPECIFICATION FairSpec
INVARIANTS
  SafeSplitsKeepFraming
PROPERTIES
  AllDelivered
