CONSTANTS
  u1 = u1
  u2 = u2
  a1 = a1
  none = none
  Slots <- MCSlots
  Arenas <- MCArenas
  NoArena <- none
  MaxObjs = 3
SPECIFICATION Spec
CHECK_DEADLOCK FALSE
INVARIANTS
  TypeOK
  DestructorRunsOnce
  NoHeapLeak
  NoUseAfterDestroy
