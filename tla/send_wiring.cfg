CONSTANTS
  Handlers = {h1}
  Enqueuers = {}
  SendThreads = {g1}
  SendworkCallers = {}
  Replies = {m1}
  Stops = FALSE
SPECIFICATION FairSendSpec
PROPERTY ReplySent
