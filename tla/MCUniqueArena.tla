---------------------------- MODULE MCUniqueArena ----------------------------
EXTENDS UniqueArena

CONSTANTS u1, u2, a1, none

MCSlots == {u1, u2}
MCArenas == {a1}
====
