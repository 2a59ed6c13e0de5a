CONSTANTS
  Slots = {1, 2, 3}
  ClearsHandles = FALSE
  FreesActive = FALSE
  Prealloc = 2
  Block = 2
  MaxBlocks = 2
SPECIFICATION Spec
INVARIANTS HandlesApart
CHECK_DEADLOCK FALSE
