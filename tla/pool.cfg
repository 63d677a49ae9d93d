CONSTANTS
  Threads = {t1, t2}
  Initial = 2
  GrowBy = 2
  MaxBlocks = 4
  MaxHeld = 2
SPECIFICATION Spec
INVARIANTS
  TypeOK
  BlockHasOneOwner
PROPERTIES
  IsAllocator
