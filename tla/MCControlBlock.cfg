CONSTANTS
  t1 = t1
  t2 = t2
  Threads <- MCThreads
  Managers = {"global", "arena"}
  Sizes = {1, 8, 9, 24}
  Aligns = {1, 4, 8, 16, 32}
  CBSize = 16
  CBAlign = 8
  MaxAlign = 16
  W = 8
  Addrs = {32, 48, 64, 96, 128}
  MaxRefs = 3
SPECIFICATION FairSpec
INVARIANTS
  TypeOK
  AlignUpRoundsUp
  PlacementSound
  FreedOnceWhenUnowned
  NoAllocatorMisuse
PROPERTIES
  EventuallyFreed
