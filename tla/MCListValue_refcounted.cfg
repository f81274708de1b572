\* The reference-counted mutable list: its vector frees the buffer it
\* grows out of.
CONSTANTS
  a1 = a1
  a2 = a2
  none = none
  NoArena <- none
  ValPool <- MCVals
  MutableAllocs = {none}
  BuilderAllocs = {}
  ReserveCaps = {3}
  MaxAdds = 3
  CloneArenas = {a1}

SPECIFICATION Spec

INVARIANT
  NoUseAfterFree
