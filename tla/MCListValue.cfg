\* Mutable lists on an arena, builders on an arena and reference counted,
\* up to three Add/Append calls, Reserve(3);
\* copies onto the list's arena a1 and onto a2.
CONSTANTS
  a1 = a1
  a2 = a2
  none = none
  NoArena <- none
  ValPool <- MCVals
  MutableAllocs = {a1}
  BuilderAllocs = {a1, none}
  ReserveCaps = {3}
  MaxAdds = 3
  CloneArenas = {a1, a2}

SPECIFICATION Spec

INVARIANTS
  TypeOK
  IterationSeesSnapshot
  CopyAgrees
  CompatSelfContained
  ListJsonMatchesSpec


  
