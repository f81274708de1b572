----------------------------- MODULE MCListValue -----------------------------
(* ListValue with values of a plain, a string, an error and an unknown    *)
(* kind, builders on an arena and reference counted, and one Reserve      *)
(* capacity that forces a reallocation; copies onto the list's own arena *)
(* and onto a second one.                                                  *)
EXTENDS ListValue

CONSTANTS a1, a2, none

MCVals == {[kind |-> "int", id |-> 1], [kind |-> "string", id |-> "s"],
           [kind |-> "error", id |-> "e"], [kind |-> "unknown", id |-> "u"]}
====
