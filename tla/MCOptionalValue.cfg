CONSTANTS
  s1 = s1
  s2 = s2
  a1 = a1
  a2 = a2
  none = none
  Slots <- MCSlots
  Arenas <- MCArenas
  NoArena <- none
  ValPool <- MCVals
  MaxCells = 3
SPECIFICATION Spec
INVARIANTS
  TypeOK
  ValueRoundTrip
  NoDanglingOptional
  DestructorsRunOnce
