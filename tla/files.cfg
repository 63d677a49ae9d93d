CONSTANTS
  c1 = c1
  c2 = c2
  report = report
  Clients = {c1, c2}
  Workers = {w1, w2}
  FileName <- MCFileName
  Garbled = Garbled
  None = None
  Size <- MCSize
  MaxFaults = 1
SYMMETRY Symmetry
CONSTRAINT FewOut
SPECIFICATION Spec
CHECK_DEADLOCK FALSE
INVARIANTS
  StoredAsSent
  ClientsInStep
  RecvFileIsFed
