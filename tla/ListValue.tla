------------------------------ MODULE ListValue ------------------------------
(***************************************************************************)
(* List values of common/values/value_builder.cc: the builders (Add,      *)
(* Reserve, Build), the mutable lists (Append, Reserve), and the readers  *)
(* of a list -- the legacy Get, ForEach and ListValueImplIterator.  The   *)
(* elements live in a std::vector whose buffer is replaced when it grows; *)
(* the model keeps every buffer the list ever had (bufs), so that a       *)
(* reader still holding an old one can be followed.  A buffer from the    *)
(* NewDeleteAllocator is freed when the vector moves out of it; one from  *)
(* the ArenaAllocator stays until the arena goes.  A value is a record     *)
(* [kind, id].                                                             *)
(***************************************************************************)
EXTENDS Integers, Sequences

CONSTANTS
  NoArena,        \* the null arena: reference counting
  ValPool,        \* values callers add, of every kind
  MutableAllocs,  \* allocators NewMutableListValue is called with
  BuilderAllocs,  \* allocators NewListValueBuilder is called with
  ReserveCaps,    \* capacities callers Reserve
  MaxAdds,        \* bound on the number of Add/Append calls
  CloneArenas     \* arenas the list is cloned onto or made compat on

VARIABLES
  l,        \* the list: [impl, arena, buf, cap, size]
  bufs,     \* bufs[b]: [elems, freed], every buffer elements_ has used
  it,       \* the live ListValueImplIterator, or NoIter
  fe,       \* the ForEach loop in progress, or NoLoop
  adds,     \* number of Add/Append calls so far
  faults,   \* memory errors committed so far
  last,     \* the operation of the last step and what it returned
  cp,       \* the copy last taken by Clone or MakeCompatListValue, or NoCopy
  orig      \* the elements of the list that copy was taken from (history)

vars == <<l, bufs, it, fe, adds, faults, last, cp, orig>>

Builders == {"TrivialBuilder", "NonTrivialBuilder"}
Mutables == {"TrivialMutable", "NonTrivialMutable"}
Impls == Builders \cup Mutables \cup {"Trivial", "NonTrivial", "Empty"}

NoValue == [kind |-> "none", id |-> 0]
NoIter == [buf |-> -1, len |-> 0, index |-> 0, snap |-> <<>>]
NoLoop == [size |-> 0, i |-> 0, seen |-> <<>>, snap |-> <<>>]
NoCopy == [impl |-> "none", arena |-> NoArena, elems |-> <<>>]

(* ConvertToJson.  A JSON message is its kind (the Value oneof) and the  *)
(* sequence of its list values.  The JSON of an element (number for the  *)
(* numeric kinds, string, bool, null) is its value class's business,      *)
(* outside this tree; the list code only places it at its index.          *)
JsonKind(k) == CASE k \in {"int", "uint", "double"} -> "number"
                 [] OTHER -> k
JsonOf(v) == [kind |-> JsonKind(v.kind), id |-> v.id]

(* The google.protobuf.Value a caller converts into: a new one, or one it *)
(* converted another list into before.                                    *)
FreshJson == [kind |-> "unset", elems |-> <<>>]
StaleJson == [kind |-> "list", elems |-> <<[kind |-> "null", id |-> 0]>>]
Messages == {FreshJson, StaleJson}
NoJson == [kind |-> "none", elems |-> <<>>]

(* The record every step leaves in last; json is the message a            *)
(* conversion left.                                                        *)
Step(op, val, status, result) ==
  [op |-> op, val |-> val, status |-> status, result |-> result, json |-> NoJson]

MaxLen == MaxAdds + 1

TypeOK ==
  /\ l \in [impl : Impls, arena : {NoArena} \cup MutableAllocs \cup BuilderAllocs,
            buf : 0..Len(bufs), cap : Nat, size : 0..MaxAdds]
  /\ bufs \in Seq([elems : Seq(ValPool), freed : BOOLEAN])
  /\ it.index <= it.len
  /\ fe.i <= fe.size
  /\ adds \in 0..MaxAdds
  /\ faults \subseteq {"read_freed"}
  /\ cp.elems \in Seq([val : ValPool, home : SUBSET (MutableAllocs \cup BuilderAllocs \cup CloneArenas)])
  /\ orig \in Seq(ValPool)

(* The elements of the list: the first size slots of its buffer.           *)
ElemsIn(x, bs) == IF x.buf = 0 THEN <<>> ELSE SubSeq(bs[x.buf].elems, 1, x.size)
Elems(x) == ElemsIn(x, bufs)

(* A slot of a buffer: its element, or -- past what was ever written --  *)
(* whatever the uninitialised bytes hold.                                  *)
Slot(b, i) == IF b > 0 /\ i <= Len(bufs[b].elems) THEN {bufs[b].elems[i]} ELSE ValPool

(* Reading a buffer that has been freed.                                   *)
ReadFreed(b) == b > 0 /\ bufs[b].freed

(* Is x's storage from the arena allocator (TrivialValueVector)?           *)
OnArena(x) == x.arena # NoArena

-----------------------------------------------------------------------------
(* CheckListElement: errors and unknowns are refused.                      *)
CheckListElement(v) ==
  CASE v.kind = "error"   -> "error_value"
    [] v.kind = "unknown" -> "unknown_value"
    [] OTHER              -> "ok"

(* Moving elements_ to a new buffer of capacity n: the first size        *)
(* elements are copied, and the old buffer is handed back to the         *)
(* allocator -- freed by NewDeleteAllocator, kept by the arena.            *)
Reallocate(x, n) ==
  LET nb == Len(bufs) + 1
      bs == IF x.buf = 0 \/ OnArena(x) THEN bufs
            ELSE [bufs EXCEPT ![x.buf].freed = TRUE]
  IN [list |-> [x EXCEPT !.buf = nb, !.cap = n],
      bufs |-> Append(bs, [elems |-> Elems(x), freed |-> FALSE])]

(* std::vector growth when size reaches capacity: the capacity doubles. *)
Grow(x) == Reallocate(x, IF x.cap = 0 THEN 1 ELSE 2 * x.cap)

(* elements_.emplace_back(v): grow if full, then write slot size + 1.     *)
EmplaceBack(x, v) ==
  LET g == IF x.size = x.cap THEN Grow(x) ELSE [list |-> x, bufs |-> bufs]
      y == g.list
  IN [list |-> [y EXCEPT !.size = @ + 1],
      bufs |-> [g.bufs EXCEPT ![y.buf].elems = Append(@, v)]]

(* Add/Append: CheckListElement, then emplace_back.                        *)
AddElement(v) ==
  /\ adds < MaxAdds
  /\ adds' = adds + 1
  /\ IF CheckListElement(v) # "ok"
     THEN /\ last' = Step("add", v, CheckListElement(v), NoValue)
          /\ UNCHANGED <<l, bufs>>
     ELSE LET r == EmplaceBack(l, v) IN
          /\ l' = r.list /\ bufs' = r.bufs
          /\ last' = Step("add", v, "ok", NoValue)

(* ListValueBuilder::Add on a builder.                                     *)
Add(v) ==
  /\ l.impl \in Builders
  /\ AddElement(v)
  /\ UNCHANGED <<it, fe, faults>>

(* NativeTypeId::Of a list's interface: NonTrivialListValueImpl reports *)
(* its own id; the other implementations do not override                 *)
(* GetNativeTypeId and report the id of the class they derive from.       *)
NativeTypeIdOf(x) ==
  CASE x.impl = "NonTrivial"        -> "NonTrivialListValueImpl"
    [] x.impl = "Trivial"           -> "CompatListValue"
    [] x.impl = "TrivialMutable"    -> "MutableCompatListValue"
    [] x.impl = "NonTrivialMutable" -> "MutableListValue"

(* IsMutableListValue: a custom list (the empty ListValue() is not one)  *)
(* whose interface has the id of MutableListValue or of                    *)
(* MutableCompatListValue.                                                 *)
IsMutableListValue(x) ==
  /\ x.impl \notin Builders \cup {"Empty"}
  /\ NativeTypeIdOf(x) \in {"MutableListValue", "MutableCompatListValue"}

(* AsMutableListValue / GetMutableListValue: the interface down-cast to  *)
(* the mutable class its id names, or nullptr (none here) for any other.  *)
AsMutableListValue(x) == {y \in {x} : IsMutableListValue(y)}

(* GetMutableListValue(list).Append(v) -- also from inside a ForEach      *)
(* callback or between the calls of an iterator.                           *)
MutableAppend(v) ==
  /\ AsMutableListValue(l) # {}
  /\ AddElement(v)
  /\ UNCHANGED <<it, fe, faults>>

(* Reserve(n): a larger capacity moves elements_ to a new buffer.          *)
Reserve(n) ==
  /\ l.impl \in Builders \/ AsMutableListValue(l) # {}
  /\ n > l.cap
  /\ LET r == Reallocate(l, n) IN l' = r.list /\ bufs' = r.bufs
  /\ last' = Step("reserve", NoValue, "ok", NoValue)
  /\ UNCHANGED <<it, fe, adds, faults>>

(* Build(): the empty ListValue() for no elements, else the builder's    *)
(* vector moved into a TrivialListValueImpl or NonTrivialListValueImpl.   *)
Build ==
  /\ l.impl \in Builders
  /\ l' = IF l.size = 0 THEN [impl |-> "Empty", arena |-> NoArena, buf |-> 0,
                              cap |-> 0, size |-> 0]
          ELSE [l EXCEPT !.impl = IF l.impl = "TrivialBuilder" THEN "Trivial"
                                  ELSE "NonTrivial"]
  /\ last' = Step("build", NoValue, "ok", NoValue)
  /\ UNCHANGED <<bufs, it, fe, adds, faults>>

(* The legacy Get(arena, index) of the trivial lists: an index outside   *)
(* [0, size) is an IndexOutOfBoundsError, else the element.                *)
Get(i) ==
  /\ l.impl \in {"Trivial", "TrivialMutable"}
  /\ last' = IF i < 0 \/ i >= l.size
             THEN Step("get", NoValue, "index_out_of_bounds", NoValue)
             ELSE Step("get", NoValue, "ok", Elems(l)[i + 1])
  /\ UNCHANGED <<l, bufs, it, fe, adds, faults>>

(* NewIterator(): a ListValueImplIterator over MakeConstSpan(elements_).  *)
SpanIterator ==
  [buf |-> l.buf, len |-> l.size, index |-> 0, snap |-> Elems(l)]

NewIterator ==
  /\ l.impl \notin Builders
  /\ it = NoIter
  /\ it' = SpanIterator
  /\ last' = Step("new_iterator", NoValue, "ok", NoValue)
  /\ UNCHANGED <<l, bufs, fe, adds, faults>>

(* Variant of Next without the index_ >= size check.                       *)
NextUnchecked ==
  /\ it # NoIter /\ it.index < MaxLen
  /\ \E v \in Slot(it.buf, it.index + 1) :
       last' = Step("next", NoValue, "ok", v)
  /\ it' = [it EXCEPT !.index = @ + 1]
  /\ faults' = IF ReadFreed(it.buf) THEN faults \cup {"read_freed"} ELSE faults
  /\ UNCHANGED <<l, bufs, fe, adds>>

(* ListValueImplIterator::Next: FailedPrecondition once the span is      *)
(* exhausted, else *elements_[index_++] read through the span.            *)
IteratorNext ==
  /\ it # NoIter
  /\ IF it.index >= it.len
     THEN /\ last' = Step("next", NoValue, "failed_precondition", NoValue)
          /\ UNCHANGED <<it, faults>>
     ELSE /\ \E v \in Slot(it.buf, it.index + 1) :
               last' = Step("next", NoValue, "ok", v)
          /\ it' = [it EXCEPT !.index = @ + 1]
          /\ faults' = IF ReadFreed(it.buf) THEN faults \cup {"read_freed"}
                       ELSE faults
  /\ UNCHANGED <<l, bufs, fe, adds>>

(* The caller destroys the iterator.                                       *)
DropIterator ==
  /\ it # NoIter
  /\ it' = NoIter
  /\ last' = Step("drop_iterator", NoValue, "ok", NoValue)
  /\ UNCHANGED <<l, bufs, fe, adds, faults>>

(* ForEach: size = elements_.size() is read once, before the loop.         *)
ForEachBegin ==
  /\ l.impl \notin Builders
  /\ fe = NoLoop
  /\ fe' = [size |-> l.size, i |-> 0, seen |-> <<>>, snap |-> Elems(l)]
  /\ last' = Step("foreach_begin", NoValue, "ok", NoValue)
  /\ UNCHANGED <<l, bufs, it, adds, faults>>

ForEachCond(f) == f.i < f.size

(* One iteration: callback(i, *elements_[i]) through the current vector; *)
(* the callback asks to go on or to stop.  The loop ends when the         *)
(* condition fails or the callback returns false.                          *)
ForEachStep ==
  /\ fe # NoLoop
  /\ IF ForEachCond(fe)
     THEN LET f == [fe EXCEPT !.i = @ + 1,
                              !.seen = Append(@, Elems(l)[fe.i + 1])]
          IN \/ fe' = f /\ last' = Step("foreach_call", NoValue, "ok", NoValue)
             \/ fe' = NoLoop /\ last' = Step("foreach_stop", NoValue, "ok", NoValue)
     ELSE /\ fe' = NoLoop
          /\ last' = [Step("foreach_done", NoValue, "ok", NoValue)
                        EXCEPT !.result = fe.seen]
  /\ UNCHANGED <<l, bufs, it, adds, faults>>

(* NewMutableListValue(allocator): trivial on an arena, else non-trivial.*)
NewMutableListValue(alloc) ==
  [impl |-> IF alloc # NoArena THEN "TrivialMutable" ELSE "NonTrivialMutable",
   arena |-> alloc, buf |-> 0, cap |-> 0, size |-> 0]

(* NewListValueBuilder(allocator): the same choice for the builders.      *)
NewListValueBuilder(alloc) ==
  [impl |-> IF alloc # NoArena THEN "TrivialBuilder" ELSE "NonTrivialBuilder",
   arena |-> alloc, buf |-> 0, cap |-> 0, size |-> 0]

-----------------------------------------------------------------------------
(* An element as the list stores it: a TrivialValue made by              *)
(* MakeTrivialValue(v, a) keeps a string's bytes on arena a; a            *)
(* NonTrivialValue holds its string by reference count, on no arena.      *)
MakeTrivialValue(v, a) == [val |-> v, home |-> IF v.kind = "string" THEN {a} ELSE {}]
NonTrivialValue(v) == [val |-> v, home |-> {}]

Stored(x) ==
  [k \in 1..x.size |-> IF OnArena(x) THEN MakeTrivialValue(Elems(x)[k], x.arena)
                                    ELSE NonTrivialValue(Elems(x)[k])]

Lists == Mutables \cup {"Trivial", "NonTrivial", "Empty"}
Copied(c) == [k \in DOMAIN c.elems |-> c.elems[k].val]

(* TrivialListValueImpl::Clone, TrivialMutableListValueImpl::Clone: the  *)
(* TrivialValueVector is copy-constructed with the new arena's allocator. *)
TrivialClone(x, a) == [impl |-> "Trivial", arena |-> a, elems |-> Stored(x)]

(* Variant of the non-trivial Clone whose loop stops one element early.   *)
NonTrivialCloneShort(x, a) ==
  [impl |-> "Trivial", arena |-> a,
   elems |-> [k \in 1..(IF x.size = 0 THEN 0 ELSE x.size - 1) |->
                MakeTrivialValue(Elems(x)[k], a)]]

(* NonTrivialListValueImpl::Clone, NonTrivialMutableListValueImpl::Clone: *)
(* every element through MakeTrivialValue onto the new arena.             *)
NonTrivialClone(x, a) ==
  [impl |-> "Trivial", arena |-> a,
   elems |-> [k \in 1..x.size |-> MakeTrivialValue(Elems(x)[k], a)]]

(* CustomListValue::Clone: the empty value and a list already on the     *)
(* arena are returned as they are, any other goes to its implementation.  *)
CloneList(x, a) ==
  CASE x.impl = "Empty"  -> [impl |-> "Empty", arena |-> NoArena, elems |-> <<>>]
    [] x.arena = a       -> [impl |-> x.impl, arena |-> a, elems |-> Stored(x)]
    [] OnArena(x)        -> TrivialClone(x, a)
    [] OTHER             -> NonTrivialClone(x, a)

(* Variant of MakeCompatListValue that pushes the stored element as it is.*)
MakeCompatShallow(x, a) ==
  IF x.size = 0 THEN [impl |-> "EmptyCompat", arena |-> NoArena, elems |-> <<>>]
  ELSE [impl |-> "Compat", arena |-> a, elems |-> Stored(x)]

(* MakeCompatListValue: EmptyCompatListValue() for an empty list, else a *)
(* TrivialListValueImpl of MakeTrivialValue(element, arena) over ForEach; *)
(* CheckListElement cannot fail, since no list holds an error or unknown. *)
MakeCompatListValue(x, a) ==
  IF x.size = 0 THEN [impl |-> "EmptyCompat", arena |-> NoArena, elems |-> <<>>]
  ELSE [impl |-> "Compat", arena |-> a,
        elems |-> [k \in 1..x.size |-> MakeTrivialValue(Elems(x)[k], a)]]

(* list.Clone(arena).                                                      *)
Clone(a) ==
  /\ l.impl \in Lists
  /\ cp' = CloneList(l, a)
  /\ orig' = Elems(l)
  /\ last' = Step("clone", NoValue, "ok", NoValue)
  /\ UNCHANGED <<l, bufs, it, fe, adds, faults>>

(* MakeCompatListValue(list, ..., arena).                                  *)
Compat(a) ==
  /\ l.impl \in Lists
  /\ cp' = MakeCompatListValue(l, a)
  /\ orig' = Elems(l)
  /\ last' = Step("compat", NoValue, "ok", NoValue)
  /\ UNCHANGED <<l, bufs, it, fe, adds, faults>>

(* ValueReflection::MutableListValue: the list already set is kept,      *)
(* another kind is replaced by a new empty list.                           *)
MutableListValue(j) == IF j.kind = "list" THEN j ELSE [kind |-> "list", elems |-> <<>>]

(* Variant of ListValueToJsonArray that returns on an empty vector before *)
(* json->Clear().                                                          *)
ListValueToJsonArrayEmptyFirst(es, j) ==
  IF es = <<>> THEN j ELSE [j EXCEPT !.elems = [k \in DOMAIN es |-> JsonOf(es[k])]]

(* ListValueToJsonArray: json->Clear(), then the elements in order, each  *)
(* converted into reflection.AddValues(json).  No element fails: a list   *)
(* never holds an error or unknown value.                                  *)
ListValueToJsonArray(es, j) ==
  LET cleared == [j EXCEPT !.elems = <<>>] IN
  IF es = <<>> THEN cleared
  ELSE [cleared EXCEPT !.elems = [k \in DOMAIN es |-> JsonOf(es[k])]]

(* ConvertToJson of the four implementations (ListValueToJson over        *)
(* elements_) and of the empty list value, which sets an empty list.      *)
ListValueToJson(x, j) ==
  IF x.impl = "Empty" THEN [kind |-> "list", elems |-> <<>>]
  ELSE ListValueToJsonArray(Elems(x), MutableListValue(j))

(* list.ConvertToJson into the caller's message j.                        *)
ConvertToJson(j) ==
  /\ l.impl \in Lists
  /\ last' = [Step("json", NoValue, "ok", NoValue) EXCEPT !.json = ListValueToJson(l, j)]
  /\ UNCHANGED <<l, bufs, it, fe, adds, faults>>

Init ==
  /\ \/ \E al \in MutableAllocs : l = NewMutableListValue(al)
     \/ \E al \in BuilderAllocs : l = NewListValueBuilder(al)
  /\ bufs = <<>>
  /\ it = NoIter
  /\ fe = NoLoop
  /\ adds = 0
  /\ faults = {}
  /\ last = Step("init", NoValue, "ok", NoValue)
  /\ cp = NoCopy
  /\ orig = <<>>

ListStep ==
  \/ \E v \in ValPool : Add(v) \/ MutableAppend(v)
  \/ \E n \in ReserveCaps : Reserve(n)
  \/ Build
  \/ \E i \in -1..MaxLen : Get(i)
  \/ NewIterator \/ IteratorNext \/ DropIterator
  \/ ForEachBegin \/ ForEachStep
  \/ \E j \in Messages : ConvertToJson(j)

Next ==
  \/ ListStep /\ UNCHANGED <<cp, orig>>
  \/ \E a \in CloneArenas : Clone(a) \/ Compat(a)

Spec == Init /\ [][Next]_vars

-----------------------------------------------------------------------------
(* Every element the iterator hands out is the element at that index of  *)
(* the list as it was when NewIterator was called, and it hands out no    *)
(* more than that list held -- however the list was appended to or       *)
(* reserved in the meantime.                                               *)
IterationSeesSnapshot ==
  last.op = "next" /\ last.status = "ok" =>
    /\ it.index <= Len(it.snap)
    /\ last.result = it.snap[it.index]

CopyAgrees == Copied(cp) = orig

(* The compat list MakeCompatListValue builds for the legacy evaluator   *)
(* keeps no string bytes outside its own arena, whatever arena or         *)
(* reference counting the source list used.                                *)
CompatSelfContained ==
  cp.impl = "Compat" => \A k \in DOMAIN cp.elems : cp.elems[k].home \subseteq {cp.arena}

(* ConvertToJson leaves a JSON list holding the JSON of the list's        *)
(* elements in order, and nothing of what the caller's message held       *)
(* before, whichever implementation the list has.                          *)
ListJsonMatchesSpec ==
  last.op = "json" =>
    last.json = [kind |-> "list", elems |-> [k \in 1..l.size |-> JsonOf(Elems(l)[k])]]

(* No reader of the list touches a buffer the vector has freed.            *)
NoUseAfterFree == faults = {}

====
