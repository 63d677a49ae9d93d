CONSTANTS
  Handlers = {h1, h2}
  Enqueuers = {e1}
  SendThreads = {g1}
  SendworkCallers = {t1, t2}
  Replies = {m1, m2, m3}
  Stops = TRUE
SPECIFICATION FairSendSpec
INVARIANTS
  EveryReplyOnce
PROPERTIES
  ReplySent
CHECK_DEADLOCK FALSE
