----------------------------- MODULE MCHandles -----------------------------
(* Instantiation of Handles for TLC: two heap objects, so that a chain    *)
(* o1 -> o2 -> x1 of member handles and a cycle can both be built, one    *)
(* object on the arena, which can hold and be held by heap objects, two    *)
(* locals, so that assignments between distinct variables happen, and two *)
(* borrows, so that a borrow can be copied and outlive its lender.          *)
EXTENDS Handles, TLC

CONSTANTS o1, o2, o3, x1, h1, h2, b1, b2

MCHeapObjs == {o1, o2}
MCArenaObjs == {x1}
MCObjs == MCHeapObjs \cup MCArenaObjs
MCLocals == {h1, h2}
MCBorrows == {b1, b2}

(* Heap objects, locals and borrows are interchangeable model values: no  *)
(* action or property names one of them.                                  *)
MCSymmetry == Permutations(MCHeapObjs) \cup Permutations(MCLocals) \cup Permutations(MCBorrows)

====
