CONSTANTS
  c1 = c1
  c2 = c2
  report = report
  Clients = {c1, c2}
  Workers = {w1, w2}
  FileName <- MCFileName
  Garbled = Garbled
  None = None
  Size <- MCSize
  MaxFaults = 0
SYMMETRY Symmetry
SPECIFICATION Spec
CHECK_DEADLOCK FALSE
INVARIANT
  EveryMemberHasFile
