CONSTANTS
  PageSize = 4
  NumPages = 4
  Sizes = {1, 3, 5}
  Aligns = {1, 2, 4, 8}
  MaxCalls = 3
SPECIFICATION Spec
\* ~DefaultArenaMemoryManager ends the arena: nothing may follow it.
CHECK_DEADLOCK FALSE
INVARIANTS
  TypeOK
  AllocationsDisjoint
  AllocationsBacked
  AllocationsAligned
  BlocksWellFormed
PROPERTIES
  BlocksOnlyGrow
