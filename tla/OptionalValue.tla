---------------------------- MODULE OptionalValue ----------------------------
(***************************************************************************)
(* OptionalValue of common/values/optional_value.cc.  An optional is a    *)
(* dispatcher and an inline content: one static dispatcher per scalar     *)
(* kind keeps the scalar itself in the content; any other value is       *)
(* boxed -- a cel::Value placement-constructed in arena memory, with its  *)
(* destructor registered with the arena when it has one.  The model       *)
(* holds a few optional variables (slots), the arena cells boxed values   *)
(* were put in, which arenas are alive and which cells' destructors ran.  *)
(***************************************************************************)
EXTENDS Naturals, Sequences, FiniteSets

CONSTANTS
  Slots,     \* OptionalValue variables of the calling code
  Arenas,    \* google::protobuf::Arena instances
  NoArena,   \* get_arena() of an optional that owns no arena memory
  ValPool,   \* values callers wrap: [kind, id, trivial]
  MaxCells   \* bound on the number of boxed allocations

VARIABLES
  opts,       \* opts[s]: the optional in slot s, or NoOpt
  cells,      \* cells[i]: [arena, val, registered], the boxed allocations
  alive,      \* alive[a]: arena a not yet destroyed
  destroyed,  \* the cells whose destructor ran, in order
  origin,     \* origin[s]: the value slot s was made to wrap (history)
  last        \* the operation of the last step and what it returned

vars == <<opts, cells, alive, destroyed, origin, last>>

(* The kinds with their own static dispatcher in OptionalValue::Of.        *)
Scalars == {"null", "bool", "int", "uint", "double", "duration", "timestamp"}
Dispatchers == Scalars \cup {"none", "boxed"}

NoValue == [kind |-> "none", id |-> 0, trivial |-> TRUE]
(* ErrorValue(FailedPreconditionError("optional.none() dereference")).     *)
NoneDeref == [kind |-> "error", id |-> 0, trivial |-> TRUE]
NoOpt == [disp |-> "unset", payload |-> 0, cell |-> 0, arena |-> NoArena]

TypeOK ==
  /\ opts \in [Slots -> [disp : Dispatchers \cup {"unset"},
                         payload : {v.id : v \in ValPool} \cup {0},
                         cell : 0..Len(cells), arena : Arenas \cup {NoArena}]]
  /\ cells \in Seq([arena : Arenas, val : ValPool, registered : BOOLEAN])
  /\ Len(cells) <= MaxCells
  /\ alive \in [Arenas -> BOOLEAN]
  /\ destroyed \in Seq(1..Len(cells))
  /\ origin \in [Slots -> ValPool \cup {NoValue, NoneDeref}]

-----------------------------------------------------------------------------
(* The value dispatcher: none gives the dereference error, null a null,  *)
(* a scalar dispatcher rebuilds its kind from the content, the boxed one *)
(* reads the cel::Value in the cell.                                       *)
ValueOf(o) ==
  CASE o.disp = "none"  -> NoneDeref
    [] o.disp = "null"  -> [kind |-> "null", id |-> 0, trivial |-> TRUE]
    [] o.disp = "boxed" -> cells[o.cell].val
    [] OTHER            -> [kind |-> o.disp, id |-> o.payload, trivial |-> TRUE]

(* has_value: false only for the empty dispatcher.                         *)
HasValue(o) == o.disp # "none"

(* Boxing v on arena a: AllocateAligned, placement new, and OwnDestructor *)
(* when the value is not trivially destructible.                           *)
Box(v, a) ==
  [opt |-> [disp |-> "boxed", payload |-> 0, cell |-> Len(cells) + 1, arena |-> a],
   cells |-> Append(cells, [arena |-> a, val |-> v, registered |-> ~v.trivial])]

(* Variant of Of whose uint case uses the int dispatcher.                  *)
OfUintAsInt(v, a) ==
  IF v.kind \in Scalars
  THEN [opt |-> [disp |-> IF v.kind = "uint" THEN "int" ELSE v.kind,
                 payload |-> IF v.kind = "null" THEN 0 ELSE v.id,
                 cell |-> 0, arena |-> NoArena], cells |-> cells]
  ELSE Box(v, a)

(* Variant of Of that never registers the boxed value's destructor.        *)
OfWithoutOwnDestructor(v, a) ==
  IF v.kind \in Scalars
  THEN [opt |-> [disp |-> v.kind, payload |-> IF v.kind = "null" THEN 0 ELSE v.id,
                 cell |-> 0, arena |-> NoArena], cells |-> cells]
  ELSE [opt |-> [disp |-> "boxed", payload |-> 0, cell |-> Len(cells) + 1,
                 arena |-> a],
        cells |-> Append(cells, [arena |-> a, val |-> v, registered |-> FALSE])]

(* OptionalValue::Of(value, arena): a scalar kind selects its dispatcher  *)
(* and goes into the content; every other kind is boxed on the arena.     *)
Of(v, a) ==
  IF v.kind \in Scalars
  THEN [opt |-> [disp |-> v.kind, payload |-> IF v.kind = "null" THEN 0 ELSE v.id,
                 cell |-> 0, arena |-> NoArena], cells |-> cells]
  ELSE Box(v, a)

(* OptionalValue::None().                                                   *)
None == [disp |-> "none", payload |-> 0, cell |-> 0, arena |-> NoArena]

(* Variant of the boxed dispatcher's clone that keeps pointing at the     *)
(* source's cell while reporting the target arena.                         *)
CloneSharingCell(o, a) ==
  IF o.disp # "boxed" THEN [opt |-> o, cells |-> cells]
  ELSE [opt |-> [o EXCEPT !.arena = a], cells |-> cells]

(* Variant of the boxed clone that constructs into a cell it never       *)
(* obtained from AllocateAligned.                                           *)
CloneWithoutAllocating(o, a) ==
  IF o.disp # "boxed" THEN [opt |-> o, cells |-> cells]
  ELSE [opt |-> [o EXCEPT !.cell = Len(cells) + 1, !.arena = a], cells |-> cells]

(* value->Clone(arena) of the wrapped cel::Value.  A string is copied    *)
(* into the arena, so the copy is trivially destructible; a list is a new *)
(* list implementation on the arena (TrivialListValueImpl::Clone), still  *)
(* trivially destructible, with the same kind and elements.  Where a list *)
(* keeps its elements' bytes is not told apart here (H32).                 *)
InnerClone(v) == IF v.kind = "string" THEN [v EXCEPT !.trivial = TRUE] ELSE v

(* The clone entry of the dispatchers: the static ones return the same   *)
(* dispatcher and content; the boxed one placement-constructs             *)
(* value->Clone(arena) in a new cell on the target arena and registers    *)
(* its destructor there when the clone is not trivially destructible.     *)
CloneOpt(o, a) ==
  IF o.disp # "boxed" THEN [opt |-> o, cells |-> cells]
  ELSE Box(InnerClone(cells[o.cell].val), a)

(* OptionalValueEqual against another optional: unequal presence is      *)
(* false, two nones are true, else the values are compared.                *)
OptionalEqual(x, y) ==
  IF HasValue(x) # HasValue(y) THEN FALSE
  ELSE IF ~HasValue(x) THEN TRUE
  ELSE ValueOf(x) = ValueOf(y)

-----------------------------------------------------------------------------
(* OptionalValue::Of into an empty variable.                               *)
MakeOf(s, v, a) ==
  /\ opts[s] = NoOpt /\ alive[a]
  /\ v.kind \in Scalars \/ Len(cells) < MaxCells
  /\ LET r == Of(v, a) IN opts' = [opts EXCEPT ![s] = r.opt] /\ cells' = r.cells
  /\ origin' = [origin EXCEPT ![s] = v]
  /\ last' = [op |-> "of", val |-> v, res |-> NoValue]
  /\ UNCHANGED <<alive, destroyed>>

MakeNone(s) ==
  /\ opts[s] = NoOpt
  /\ opts' = [opts EXCEPT ![s] = None]
  /\ origin' = [origin EXCEPT ![s] = NoneDeref]
  /\ last' = [op |-> "none", val |-> NoValue, res |-> NoValue]
  /\ UNCHANGED <<cells, alive, destroyed>>

(* dst = src.Clone(arena).                                                 *)
Clone(dst, src, a) ==
  /\ opts[dst] = NoOpt /\ opts[src] # NoOpt /\ dst # src /\ alive[a]
  /\ opts[src].disp # "boxed" \/ Len(cells) < MaxCells
  /\ LET r == CloneOpt(opts[src], a)
     IN opts' = [opts EXCEPT ![dst] = r.opt] /\ cells' = r.cells
  /\ origin' = [origin EXCEPT ![dst] = origin[src]]
  /\ last' = [op |-> "clone", val |-> NoValue, res |-> NoValue]
  /\ UNCHANGED <<alive, destroyed>>

(* Value(): what the dispatcher's value entry writes.                      *)
GetValue(s) ==
  /\ opts[s] # NoOpt
  /\ last' = [op |-> "value", val |-> NoValue, res |-> ValueOf(opts[s])]
  /\ UNCHANGED <<opts, cells, alive, destroyed, origin>>

(* Equal(other) between two optional variables.                            *)
Equal(s, t) ==
  /\ opts[s] # NoOpt /\ opts[t] # NoOpt
  /\ last' = [op |-> "equal", val |-> NoValue,
              res |-> [kind |-> "bool",
                       id |-> IF OptionalEqual(opts[s], opts[t]) THEN 1 ELSE 0,
                       trivial |-> TRUE]]
  /\ UNCHANGED <<opts, cells, alive, destroyed, origin>>

(* The variable goes out of scope; arena memory is not given back.         *)
Drop(s) ==
  /\ opts[s] # NoOpt
  /\ opts' = [opts EXCEPT ![s] = NoOpt]
  /\ origin' = [origin EXCEPT ![s] = NoValue]
  /\ last' = [op |-> "drop", val |-> NoValue, res |-> NoValue]
  /\ UNCHANGED <<cells, alive, destroyed>>

(* ~Arena: once no variable reports this arena through get_arena(), the *)
(* registered destructors of its cells run, in registration order.        *)
DestroyArena(a) ==
  /\ alive[a]
  /\ \A s \in Slots : opts[s].arena # a
  /\ alive' = [alive EXCEPT ![a] = FALSE]
  /\ destroyed' = destroyed \o
       SelectSeq([i \in 1..Len(cells) |-> i],
                 LAMBDA i : cells[i].arena = a /\ cells[i].registered)
  /\ last' = [op |-> "destroy", val |-> NoValue, res |-> NoValue]
  /\ UNCHANGED <<opts, cells, origin>>

Init ==
  /\ opts = [s \in Slots |-> NoOpt]
  /\ cells = <<>>
  /\ alive = [a \in Arenas |-> TRUE]
  /\ destroyed = <<>>
  /\ origin = [s \in Slots |-> NoValue]
  /\ last = [op |-> "init", val |-> NoValue, res |-> NoValue]

Next ==
  \/ \E s \in Slots, v \in ValPool, a \in Arenas : MakeOf(s, v, a)
  \/ \E s \in Slots : MakeNone(s) \/ GetValue(s) \/ Drop(s)
  \/ \E s, t \in Slots, a \in Arenas : Clone(s, t, a)
  \/ \E s, t \in Slots : Equal(s, t)
  \/ \E a \in Arenas : DestroyArena(a)

Spec == Init /\ [][Next]_vars

-----------------------------------------------------------------------------
(* What value() lets a caller tell apart: the kind and the payload; a     *)
(* clone may change how the value is stored.                               *)
Observed(v) == [kind |-> v.kind, id |-> v.id]

(* Every optional, made by Of or None and carried through any chain of    *)
(* Clones across arenas, reports through has_value and value exactly what *)
(* it was made from: the dispatcher Of picked, the content it stored and   *)
(* the boxed cell each clone copied agree.  None dereferences to the       *)
(* "optional.none() dereference" error (Scenario D).                       *)
ValueRoundTrip ==
  \A s \in Slots : opts[s] # NoOpt =>
     /\ Observed(ValueOf(opts[s])) = Observed(origin[s])
     /\ HasValue(opts[s]) = (origin[s] # NoneDeref)

(* While a variable still reports an arena through get_arena(), the      *)
(* cel::Value cell its content points to is on a live arena: a boxed      *)
(* clone taken to arena b owns its own cell on b and does not keep the    *)
(* source's cell on a, so destroying a leaves it readable.  What the       *)
(* wrapped value itself references is its own Clone's business: a list    *)
(* cloned shallowly still points into a (H32, map_clone_dangling).         *)
NoDanglingOptional ==
  \A s \in Slots : opts[s].disp = "boxed" => alive[cells[opts[s].cell].arena]

(* Occurrences of cell i in the run destructors.                           *)
TimesDestroyed(i) == Len(SelectSeq(destroyed, LAMBDA j : j = i))

(* Every boxed value with a destructor, made by Of or by a clone, is      *)
(* destroyed exactly once when its arena goes, and a trivially            *)
(* destructible one never: the OwnDestructor calls match the arena's      *)
(* teardown.                                                               *)
DestructorsRunOnce ==
  \A i \in 1..Len(cells) :
     ~alive[cells[i].arena] =>
        TimesDestroyed(i) = IF cells[i].val.trivial THEN 0 ELSE 1
====
