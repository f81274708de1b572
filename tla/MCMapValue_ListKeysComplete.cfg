\* Builders and mutable maps on an arena and reference counted, two
\* arenas to clone between, up to three Put calls.
CONSTANTS
  a1 = a1
  a2 = a2
  none = none
  NoArena <- none
  Arenas <- MCArenas
  KeyPool <- MCKeys
  ValPool <- MCVals
  MutableAllocs <- MCMutableAllocs
  MaxPuts = 3

SPECIFICATION Spec

\* The program drops the map and destroys its arenas; nothing follows.
CHECK_DEADLOCK FALSE

INVARIANT
  ListKeysComplete
