CONSTANTS
  c1 = c1
  c2 = c2
  Conns = {c1, c2}
  Receivers = {r1, r2}
  Workers = {w1, w2}
  MaxPacket <- MCMaxPacket
  Splitting = {c2}
  FileSends <- MCFileSends
SPECIFICATION FairSpec
INVARIANTS
  EveryJobOnce
  QueuesInOrder
  PacketsCounted
PROPERTIES
  EveryJobHandled
  ReceivesGoOn
