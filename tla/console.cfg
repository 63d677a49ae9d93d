CONSTANTS
  Workers = {w1, w2}
  Lines <- MCLines
  MaxSent = 4
  MaxEvents = 1
  MaxDown = 2
CONSTRAINT FewAfterOverlap
SPECIFICATION FairSpec
INVARIANTS
  InStep
PROPERTIES
  CatchesUp
CHECK_DEADLOCK FALSE
