--------------------------- MODULE MCOptionalValue ---------------------------
EXTENDS OptionalValue

CONSTANTS s1, s2, a1, a2, none

MCSlots == {s1, s2}
MCArenas == {a1, a2}

(* Two scalars of different kinds with the same payload, a duration, a    *)
(* reference-counted string (its cel::Value holds a reference, so it has  *)
(* a destructor), the same string stored on an arena, as its clone is     *)
(* (trivially destructible), and an arena list (trivially destructible).  *)
MCVals == {[kind |-> "int", id |-> 1, trivial |-> TRUE],
           [kind |-> "uint", id |-> 1, trivial |-> TRUE],
           [kind |-> "duration", id |-> 1, trivial |-> TRUE],
           [kind |-> "string", id |-> 1, trivial |-> FALSE],
           [kind |-> "string", id |-> 1, trivial |-> TRUE],
           [kind |-> "list", id |-> 1, trivial |-> TRUE]}
====
