----------------------------- MODULE MCMapValue -----------------------------
(* MapValue with two arenas and keys that exercise every branch of the    *)
(* lookup: int 1 and uint 1 (equal payloads, different kinds), a string   *)
(* key whose bytes a trivial map copies into its arena, a double key (not *)
(* a key kind) and an error key; values of a plain, a string, an error    *)
(* and an unknown kind.                                                    *)
EXTENDS MapValue

CONSTANTS a1, a2, none

MCArenas == {a1, a2}

MCKeys == {[kind |-> "int", id |-> 1], [kind |-> "uint", id |-> 1],
           [kind |-> "string", id |-> "a"], [kind |-> "double", id |-> 1],
           [kind |-> "error", id |-> "e"]}

MCVals == {[kind |-> "int", id |-> 2], [kind |-> "string", id |-> "v"],
           [kind |-> "error", id |-> "e"], [kind |-> "unknown", id |-> "u"]}

MCMutableAllocs == {a1, none}
====
