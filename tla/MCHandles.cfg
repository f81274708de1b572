CONSTANTS
  o1 = o1
  o2 = o2
  o3 = o3
  x1 = x1
  h1 = h1
  h2 = h2
  b1 = b1
  b2 = b2
  Null = Null
  Objs <- MCObjs
  Locals <- MCLocals
  Borrows <- MCBorrows
  ArenaObjs <- MCArenaObjs
  AliasedSource = FALSE
SPECIFICATION Spec
SYMMETRY MCSymmetry
INVARIANTS
  TypeOK
  CountMatchesOwners
  NoDanglingHandle
  NoMemoryFault
