------------------------- MODULE MCArenaBlockPool -------------------------
(* A page of 4 bytes and 4 pages: room for a two-page block, for a block   *)
(* placed right after the last one (the bridge) and for one placed with a  *)
(* gap.  Sizes 1 and 3 leave tails that alignment 2 and 4 use up; size 5   *)
(* needs two pages; alignment 8 exceeds the page and is refused.           *)
EXTENDS ArenaBlockPool
====
