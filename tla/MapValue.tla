------------------------------ MODULE MapValue ------------------------------
(***************************************************************************)
(* Map values of common/values/value_builder.cc and the lookup entry      *)
(* points of custom_map_value.cc.  One map value m is followed from its   *)
(* creation -- a builder or a mutable map, trivial (on an arena) or       *)
(* non-trivial (reference counted) -- through Put, Build, ListKeys, the   *)
(* Find/Get/Has lookups and Clone into an arena, together with the clone  *)
(* c and the arenas' lifetimes.  A value is a record [kind, id]; an entry *)
(* also records the arenas its key and value bytes live in ("home").      *)
(***************************************************************************)
EXTENDS Naturals, FiniteSets, Sequences

CONSTANTS
  Arenas,         \* google::protobuf::Arena instances (model values)
  NoArena,        \* the null arena: reference counting
  KeyPool,        \* keys callers pass, of every kind
  ValPool,        \* values callers pass, of every kind
  MutableAllocs,  \* allocators NewMutableMapValue is called with
  MaxPuts         \* bound on the number of Put calls

VARIABLES
  m,      \* the map value under test, or NoMap once it is dropped
  c,      \* the result of the last Clone, or NoMap
  alive,  \* alive[a]: arena a has not been destroyed
  puts,   \* number of Put calls so far
  last,   \* the operation of the last step and what it returned
  it      \* the open MapValueImplIterator or ForEach loop over m, or NoIter

vars == <<m, c, alive, puts, last, it>>

KeyKinds == {"bool", "int", "uint", "string"}

NoMap == [impl |-> "none"]

NoValue == [kind |-> "none", id |-> 0]
NullVal == [kind |-> "null", id |-> 0]
BoolVal(b) == [kind |-> "bool", id |-> b]
NoSuchKeyErr == [kind |-> "error", id |-> "no_such_key"]
InvalidKeyErr == [kind |-> "error", id |-> "invalid_key"]

Impls == {"TrivialBuilder", "NonTrivialBuilder", "TrivialMutable",
          "NonTrivialMutable", "Trivial", "NonTrivial", "Empty"}
Builders == {"TrivialBuilder", "NonTrivialBuilder"}
TrivialImpls == {"Trivial", "TrivialMutable", "TrivialBuilder"}

Entry == [key : KeyPool, val : ValPool, home : SUBSET Arenas]
Map == [impl : Impls, arena : Arenas \cup {NoArena},
        entries : SUBSET Entry, once : BOOLEAN, keys : SUBSET KeyPool]

(* A newly constructed implementation: keys_once_ not yet run, keys_ empty.*)
Fresh(impl, a, entries) ==
  [impl |-> impl, arena |-> a, entries |-> entries, once |-> FALSE, keys |-> {}]
EmptyMap == Fresh("Empty", NoArena, {})

(* ConvertToJson.  A JSON message is its kind (the Value oneof) and its    *)
(* struct fields [name, val].  The JSON of a stored value (number for the *)
(* numeric kinds, string, bool, null) is the value class's business,      *)
(* outside this tree; the map code only places it under its key.          *)
JsonKind(k) == CASE k \in {"int", "uint", "double"} -> "number"
                 [] OTHER -> k
JsonOf(v) == [kind |-> JsonKind(v.kind), id |-> v.id]
Field == [name : {k.id : k \in {x \in KeyPool : x.kind = "string"}} \cup {"old"},
          val : {JsonOf(v) : v \in ValPool} \cup {[kind |-> "null", id |-> 0]}]

(* The google.protobuf.Value a caller converts into: a new one, or one it *)
(* converted something else into before.                                  *)
FreshJson == [kind |-> "unset", fields |-> {}]
StaleJson == [kind |-> "struct", fields |-> {[name |-> "old", val |-> [kind |-> "null", id |-> 0]]}]
Messages == {FreshJson, StaleJson}
NoJson == [kind |-> "none", fields |-> {}]

(* The record every step leaves in last; json is the message a            *)
(* conversion left.                                                        *)
Step(op, key, val, status, found, result, keys) ==
  [op |-> op, key |-> key, val |-> val, status |-> status, found |-> found,
   result |-> result, keys |-> keys, json |-> NoJson]
Other(op) == Step(op, NoValue, NoValue, "ok", FALSE, NoValue, {})

TypeOK ==
  /\ m \in Map \cup {NoMap}
  /\ c \in Map \cup {NoMap}
  /\ alive \in [Arenas -> BOOLEAN]
  /\ puts \in 0..MaxPuts
  /\ it \in [open : BOOLEAN, loop : BOOLEAN, pos : SUBSET Entry,
             seen : SUBSET KeyPool, stale : BOOLEAN]
  /\ \A x \in {m, c} \ {NoMap} : \A e \in x.entries :
       e.key.kind \in KeyKinds /\ e.val.kind \notin {"error", "unknown"}

-----------------------------------------------------------------------------
(* CheckMapKey (common/values/map_value.cc, outside this tree): only     *)
(* bool, int, uint and string keys are accepted.                           *)
CheckMapKey(k) == IF k.kind \in KeyKinds THEN "ok" ELSE "invalid_key"

(* Variant of CheckMapValue that lets unknown values in.                   *)
CheckMapValueAcceptingUnknown(v) ==
  IF v.kind = "error" THEN "error_value" ELSE "ok"

(* CheckMapValue: an error value is refused with its own status, an       *)
(* unknown value with InvalidArgument.                                     *)
CheckMapValue(v) ==
  CASE v.kind = "error"   -> "error_value"
    [] v.kind = "unknown" -> "unknown_value"
    [] OTHER              -> "ok"

(* ValueHash(const Value&): absl::HashOf(kind, payload) for the four key *)
(* kinds; CheckMapKey has run before any hash is taken.                    *)
ValueHash(v) == <<v.kind, v.id>>

(* Variant of ValueHash(const CelValue&) that tags the payload with       *)
(* CelValue::type() instead of the ValueKind the Value hash uses.          *)
CelValueHashByType(v) == <<"CelValue::Type", v.kind, v.id>>

(* ValueHash(const CelValue&): the same HashOf(ValueKind, payload) as the *)
(* Value hash, so that a CelValue key probes the bucket of its Value.     *)
CelValueHash(v) == <<v.kind, v.id>>

(* ValueHash/ValueEquals: keys are equal only if they have the same kind *)
(* and payload; int 1 and uint 1 are different keys.                       *)
KeyEquals(a, b) == a.kind = b.kind /\ a.id = b.id

(* map_.find(key) on the flat hash map: ValueHasher picks the bucket,    *)
(* ValueEqualer compares the keys found there.                             *)
Lookup(entries, k) ==
  {e \in entries : ValueHash(e.key) = ValueHash(k) /\ KeyEquals(e.key, k)}

KeySet(x) == {e.key : e \in x.entries}

(* MakeTrivialValue(v, arena): strings are copied into the arena.         *)
Home(v, a) == IF v.kind = "string" THEN {a} ELSE {}
TrivialEntry(k, v, a) == [key |-> k, val |-> v, home |-> Home(k, a) \cup Home(v, a)]
(* NonTrivialValue(v): the value keeps its own reference-counted storage. *)
NonTrivialEntry(k, v) == [key |-> k, val |-> v, home |-> {}]

(* Put of the trivial map and builder: check the key, check the value,    *)
(* refuse a key that map_.find already finds, insert the arena copies.    *)
TrivialPut(x, k, v) ==
  IF CheckMapKey(k) # "ok" THEN [status |-> CheckMapKey(k), map |-> x]
  ELSE IF CheckMapValue(v) # "ok" THEN [status |-> CheckMapValue(v), map |-> x]
  ELSE IF Lookup(x.entries, k) # {} THEN [status |-> "duplicate", map |-> x]
  ELSE [status |-> "ok",
        map |-> [x EXCEPT !.entries = @ \cup {TrivialEntry(k, v, x.arena)}]]

(* Variant of the non-trivial Put that ignores insert(...).second.        *)
NonTrivialPutIgnoringInserted(x, k, v) ==
  IF CheckMapKey(k) # "ok" THEN [status |-> CheckMapKey(k), map |-> x]
  ELSE IF CheckMapValue(v) # "ok" THEN [status |-> CheckMapValue(v), map |-> x]
  ELSE IF Lookup(x.entries, k) # {} THEN [status |-> "ok", map |-> x]
  ELSE [status |-> "ok",
        map |-> [x EXCEPT !.entries = @ \cup {NonTrivialEntry(k, v)}]]

(* Put of the non-trivial map and builder: after the checks, insert and  *)
(* report DuplicateKeyError when insert(...).second is false.             *)
NonTrivialPut(x, k, v) ==
  IF CheckMapKey(k) # "ok" THEN [status |-> CheckMapKey(k), map |-> x]
  ELSE IF CheckMapValue(v) # "ok" THEN [status |-> CheckMapValue(v), map |-> x]
  ELSE IF Lookup(x.entries, k) # {} THEN [status |-> "duplicate", map |-> x]
  ELSE [status |-> "ok",
        map |-> [x EXCEPT !.entries = @ \cup {NonTrivialEntry(k, v)}]]

(* FindImpl/HasImpl of every implementation: CheckMapKey, then          *)
(* map_.find; the empty singleton answers false without any check.        *)
FindImpl(x, k) ==
  IF x.impl = "Empty" THEN [status |-> "ok", found |-> FALSE, result |-> NoValue]
  ELSE IF CheckMapKey(k) # "ok"
  THEN [status |-> CheckMapKey(k), found |-> FALSE, result |-> NoValue]
  ELSE LET hit == Lookup(x.entries, k) IN
       [status |-> "ok", found |-> hit # {},
        result |-> IF hit = {} THEN NoValue ELSE (CHOOSE e \in hit : TRUE).val]

(* CustomMapValueInterface::Find: an error or unknown key is the result  *)
(* itself; a key of another non-key kind gives InvalidMapKeyTypeError as  *)
(* the result; otherwise FindImpl, and a miss sets the result to null.    *)
Find(x, k) ==
  IF k.kind \in {"error", "unknown"}
  THEN [status |-> "ok", found |-> FALSE, result |-> k]
  ELSE IF k.kind \notin KeyKinds
  THEN [status |-> "ok", found |-> FALSE, result |-> InvalidKeyErr]
  ELSE LET f == FindImpl(x, k) IN
       IF f.status # "ok" \/ f.found THEN f ELSE [f EXCEPT !.result = NullVal]

(* CustomMapValueInterface::Get: Find, then a miss whose result is not an *)
(* error or unknown becomes NoSuchKeyError.                                *)
Get(x, k) ==
  LET f == Find(x, k) IN
  IF f.status = "ok" /\ ~f.found /\ f.result.kind \notin {"error", "unknown"}
  THEN [f EXCEPT !.result = NoSuchKeyErr]
  ELSE f

(* CustomMapValueInterface::Has: error and unknown keys are the result;  *)
(* any other non-key kind returns InvalidMapKeyTypeError as a status.      *)
Has(x, k) ==
  IF k.kind \in {"error", "unknown"}
  THEN [status |-> "ok", found |-> FALSE, result |-> k]
  ELSE IF k.kind \notin KeyKinds
  THEN [status |-> "invalid_key", found |-> FALSE, result |-> NoValue]
  ELSE LET f == FindImpl(x, k) IN
       IF f.status # "ok" THEN f ELSE [f EXCEPT !.result = BoolVal(f.found)]

(* CelValueEquals, under ValueHash(const CelValue&): a legacy CelValue key *)
(* equals a stored key only with the same kind and payload.               *)
CelValueEquals(a, b) == a.kind = b.kind /\ a.id = b.id

(* map_.find(CelValue) through the transparent ValueHasher/ValueEqualer: *)
(* the CelValue's hash picks the bucket, CelValueEquals compares.          *)
LegacyFind(entries, k) ==
  {e \in entries : CelValueHash(k) = ValueHash(e.key) /\ CelValueEquals(k, e.key)}

(* Legacy Get(arena, key) (and operator[]) of the compat maps: a key that *)
(* CelValue::CheckMapKeyType refuses is absl::nullopt, as is a miss; a hit *)
(* is the stored value.                                                    *)
LegacyGet(x, k) ==
  IF k.kind \notin KeyKinds
  THEN [status |-> "ok", found |-> FALSE, result |-> NoValue]
  ELSE LET hit == LegacyFind(x.entries, k) IN
       [status |-> "ok", found |-> hit # {},
        result |-> IF hit = {} THEN NoValue ELSE (CHOOSE e \in hit : TRUE).val]

(* Legacy Has(key): CheckMapKeyType's error is the returned status.        *)
LegacyHas(x, k) ==
  IF k.kind \notin KeyKinds
  THEN [status |-> "invalid_key", found |-> FALSE, result |-> NoValue]
  ELSE LET hit == LegacyFind(x.entries, k) IN
       [status |-> "ok", found |-> hit # {}, result |-> BoolVal(hit # {})]

(* TrivialMapValueBuilderImpl::Build: the empty MapValue() when nothing  *)
(* was put, else a TrivialMapValueImpl on the builder's arena.             *)
TrivialBuild(x) ==
  IF x.entries = {} THEN EmptyMap
  ELSE Fresh("Trivial", x.arena, x.entries)

(* NonTrivialMapValueBuilderImpl::Build: the same, reference counted.      *)
NonTrivialBuild(x) ==
  IF x.entries = {} THEN EmptyMap ELSE [x EXCEPT !.impl = "NonTrivial"]

(* ProjectKeys of TrivialMapValueImpl and TrivialMutableMapValueImpl:    *)
(* absl::call_once fills keys_ from map_ on the first call only.           *)
ProjectKeys(x) == IF x.once THEN x ELSE [x EXCEPT !.once = TRUE, !.keys = KeySet(x)]

(* Variant of the trivial Clone that builds cloned_entries from the       *)
(* allocator alone and never copies map_.                                  *)
TrivialCloneWithoutEntries(x, a) ==
  Fresh("Trivial", a, {})

(* TrivialMapValueImpl::Clone and TrivialMutableMapValueImpl::Clone: the *)
(* flat hash map is copy-constructed with the target arena's allocator,   *)
(* so the TrivialValue entries are copied as they are.                     *)
TrivialClone(x, a) ==
  Fresh("Trivial", a, x.entries)

(* NonTrivial(Mutable)MapValueImpl::Clone: every entry goes through       *)
(* MakeTrivialValue(_, arena) into a new TrivialMapValueImpl.              *)
NonTrivialClone(x, a) ==
  Fresh("Trivial", a, {TrivialEntry(e.key, e.val, a) : e \in x.entries})

(* interface_.arena(): the arena of a pooled implementation, none for a  *)
(* reference-counted one or for the static empty singleton.                *)
InterfaceArena(x) == IF x.impl \in TrivialImpls THEN x.arena ELSE NoArena

(* CustomMapValue::Clone(arena): an interface on another arena is cloned  *)
(* by its implementation's Clone (the singleton's returns                  *)
(* CustomMapValue()); one already on the target arena is returned.         *)
Clone(x, a) ==
  IF InterfaceArena(x) = a THEN x
  ELSE CASE x.impl = "Empty"         -> EmptyMap
         [] x.impl \in TrivialImpls  -> TrivialClone(x, a)
         [] OTHER                    -> NonTrivialClone(x, a)

(* MakeCompatMapValue: the empty compat singleton, or a deep copy into a *)
(* TrivialMapValueImpl on the arena through ForEach, which re-checks each *)
(* key and value.                                                          *)
MakeCompatMapValue(x, a) ==
  IF x.entries = {} THEN EmptyMap
  ELSE Fresh("Trivial", a, {TrivialEntry(e.key, e.val, a) : e \in x.entries})

(* NewMutableMapValue(allocator): trivial on an arena, else non-trivial. *)
NewMutableMapValue(alloc) ==
  IF alloc # NoArena
  THEN Fresh("TrivialMutable", alloc, {})
  ELSE Fresh("NonTrivialMutable", NoArena, {})

(* NewMapValueBuilder(allocator): the same choice for the builders.       *)
NewMapValueBuilder(alloc) ==
  IF alloc # NoArena
  THEN Fresh("TrivialBuilder", alloc, {})
  ELSE Fresh("NonTrivialBuilder", NoArena, {})

-----------------------------------------------------------------------------
(* ValueToJsonString: the text of a string key is the field name; the    *)
(* fields the entries with string keys give.                              *)
JsonFields(x) ==
  {[name |-> e.key.id, val |-> JsonOf(e.val)] : e \in {f \in x.entries : f.key.kind = "string"}}

(* ValueReflection::MutableStructValue: the struct already set is kept,  *)
(* another kind is replaced by a new empty struct.                         *)
MutableStructValue(j) == IF j.kind = "struct" THEN j ELSE [kind |-> "struct", fields |-> {}]

(* Variant of MapValueToJsonObject that returns on an empty map before    *)
(* json->Clear().                                                          *)
MapValueToJsonObjectEmptyFirst(x, j) ==
  IF x.entries = {} THEN {[status |-> "ok", json |-> j]}
  ELSE IF \A e \in x.entries : e.key.kind = "string"
  THEN {[status |-> "ok", json |-> [j EXCEPT !.fields = JsonFields(x)]]}
  ELSE {[status |-> "type_conversion", json |-> [j EXCEPT !.fields = f]] :
          f \in SUBSET JsonFields(x)}

(* MapValueToJsonObject: json->Clear(), then for each entry in the hash  *)
(* map's order ValueToJsonString(key) -- a string, else a                 *)
(* TypeConversionError returned at once -- and the value's ConvertToJson *)
(* into InsertField(json, key).  A failure leaves the fields of the      *)
(* entries met before it, which may be any of the string-keyed ones.     *)
MapValueToJsonObject(x, j) ==
  LET cleared == [j EXCEPT !.fields = {}] IN
  IF x.entries = {} THEN {[status |-> "ok", json |-> cleared]}
  ELSE IF \A e \in x.entries : e.key.kind = "string"
  THEN {[status |-> "ok", json |-> [cleared EXCEPT !.fields = JsonFields(x)]]}
  ELSE {[status |-> "type_conversion", json |-> [cleared EXCEPT !.fields = f]] :
          f \in SUBSET JsonFields(x)}

(* EmptyMapValue::ConvertToJson: value_reflection.MutableListValue(json) *)
(* ->Clear(), an empty list.                                               *)
EmptyMapToJson(j) == [kind |-> "list", fields |-> {}]

(* ConvertToJson of every implementation: the singleton's own, the       *)
(* others MapValueToJson (MutableStructValue, then MapValueToJsonObject). *)
ConvertToJson(x, j) ==
  IF x.impl = "Empty" THEN {[status |-> "ok", json |-> EmptyMapToJson(j)]}
  ELSE MapValueToJsonObject(x, MutableStructValue(j))

-----------------------------------------------------------------------------

(* An iterator whose map_ was inserted into or destroyed: its begin_ and *)
(* end_ no longer mean anything, and what it is used for is undefined.    *)
Invalidate(i) == IF i.open THEN [i EXCEPT !.stale = TRUE, !.pos = {}, !.seen = {}]
                 ELSE i

(* NativeTypeId::Of a map's interface: NonTrivialMapValueImpl reports   *)
(* its own id; the other implementations do not override                 *)
(* GetNativeTypeId and report the id of the class they derive from.       *)
NativeTypeIdOf(x) ==
  CASE x.impl = "NonTrivial"        -> "NonTrivialMapValueImpl"
    [] x.impl = "Trivial"           -> "CompatMapValue"
    [] x.impl = "TrivialMutable"    -> "MutableCompatMapValue"
    [] x.impl = "NonTrivialMutable" -> "MutableMapValue"

(* IsMutableMapValue: a custom map (the empty MapValue() is not one)     *)
(* whose interface has the id of MutableMapValue or of                     *)
(* MutableCompatMapValue.                                                  *)
IsMutableMapValue(x) ==
  /\ x.impl \in Impls \ (Builders \cup {"Empty"})
  /\ NativeTypeIdOf(x) \in {"MutableMapValue", "MutableCompatMapValue"}

(* AsMutableMapValue / GetMutableMapValue: the interface down-cast to    *)
(* the mutable class its id names, or nullptr (none here) for any other.  *)
AsMutableMapValue(x) == {y \in {x} : IsMutableMapValue(y)}

(* Put(key, value) on a builder, or on GetMutableMapValue(map) -- also   *)
(* from a ForEach callback or between the calls of an iterator.  An       *)
(* insertion may rehash map_, which invalidates every iterator into it.   *)
Put(k, v) ==
  /\ m.impl \in Builders \/ AsMutableMapValue(m) # {}
  /\ puts < MaxPuts
  /\ LET r == IF m.impl \in TrivialImpls THEN TrivialPut(m, k, v)
              ELSE NonTrivialPut(m, k, v)
     IN /\ m' = r.map
        /\ last' = Step("put", k, v, r.status, FALSE, NoValue, {})
        /\ it' = IF r.status = "ok" THEN Invalidate(it) ELSE it
  /\ puts' = puts + 1
  /\ UNCHANGED <<c, alive>>

(* Build() on the builder, which it consumes.                               *)
Build ==
  /\ m.impl \in Builders
  /\ m' = IF m.impl = "TrivialBuilder" THEN TrivialBuild(m) ELSE NonTrivialBuild(m)
  /\ last' = Other("build")
  /\ UNCHANGED <<c, alive, puts, it>>

(* ListKeys: the trivial maps hand out the memoised keys_ list, the      *)
(* non-trivial ones build a new list from map_, the singleton an empty one.*)
ListKeys ==
  /\ m \in Map /\ m.impl \notin Builders
  /\ IF m.impl \in TrivialImpls
     THEN /\ m' = ProjectKeys(m)
          /\ last' = Step("listkeys", NoValue, NoValue, "ok", FALSE, NoValue,
                          ProjectKeys(m).keys)
     ELSE /\ last' = Step("listkeys", NoValue, NoValue, "ok", FALSE, NoValue,
                          KeySet(m))
          /\ UNCHANGED m
  /\ UNCHANGED <<c, alive, puts, it>>

(* Find, Get or Has with a caller's key.                                   *)
Lookup3(op, k) ==
  /\ m \in Map /\ m.impl \notin Builders
  /\ LET r == CASE op = "find" -> Find(m, k)
                [] op = "get"  -> Get(m, k)
                [] op = "has"  -> Has(m, k)
     IN last' = Step(op, k, NoValue, r.status, r.found, r.result, {})
  /\ UNCHANGED <<m, c, alive, puts, it>>

(* The legacy evaluator's Get or Has on a compat map (the trivial ones).  *)
LegacyLookup(op, k) ==
  /\ m \in Map /\ m.impl \in {"Trivial", "TrivialMutable"}
  /\ LET r == IF op = "legacy_get" THEN LegacyGet(m, k) ELSE LegacyHas(m, k)
     IN last' = Step(op, k, NoValue, r.status, r.found, r.result, {})
  /\ UNCHANGED <<m, c, alive, puts, it>>

(* Clone(arena) of the map into a live arena.                              *)
DoClone(a) ==
  /\ m \in Map /\ m.impl \notin Builders /\ alive[a]
  /\ c' = Clone(m, a)
  /\ last' = Other("clone")
  /\ UNCHANGED <<m, alive, puts, it>>

(* MakeCompatMapValue(map, ..., arena).                                     *)
DoCompat(a) ==
  /\ m \in Map /\ m.impl \notin Builders /\ alive[a]
  /\ c' = MakeCompatMapValue(m, a)
  /\ last' = Other("compat")
  /\ UNCHANGED <<m, alive, puts, it>>

(* ConvertToJson of the map into the caller's message j.                  *)
DoConvertToJson(j) ==
  /\ m \in Map /\ m.impl \notin Builders
  /\ \E r \in ConvertToJson(m, j) :
       last' = [Step("json", NoValue, NoValue, r.status, FALSE, NoValue, {})
                  EXCEPT !.json = r.json]
  /\ UNCHANGED <<m, c, alive, puts, it>>

(* The caller drops the map value.                                          *)
DropMap ==
  /\ m # NoMap
  /\ m' = NoMap
  /\ last' = Other("drop")
  /\ it' = Invalidate(it)
  /\ UNCHANGED <<c, alive, puts>>

(* An arena is destroyed once no value allocated on it is held any more. *)
DestroyArena(a) ==
  /\ alive[a]
  /\ \A x \in {m, c} \ {NoMap} : x.arena # a
  /\ alive' = [alive EXCEPT ![a] = FALSE]
  /\ last' = Other("destroy")
  /\ UNCHANGED <<m, c, puts, it>>

-----------------------------------------------------------------------------
(* Iteration.  The hash map's order is unspecified, so begin_ may stand   *)
(* before any of the entries not yet passed (pos); seen is what the       *)
(* caller has been handed so far.                                          *)
NoIter == [open |-> FALSE, loop |-> FALSE, pos |-> {}, seen |-> {}, stale |-> FALSE]

(* The entries between begin_ and end_.                                    *)
Remaining(x, i) == x.entries \ i.pos

(* Variant of the step past an entry that forgets ++begin_.               *)
AdvanceWithoutIncrement(i, e) == [i EXCEPT !.seen = @ \cup {e.key}]

(* *result = *begin_->first; ++begin_ (and the range-for's increment).     *)
Advance(i, e) == [i EXCEPT !.pos = @ \cup {e}, !.seen = @ \cup {e.key}]

(* The clone c and the arenas take no part in an iteration over m, and   *)
(* every map m reaches is reached with no clone taken and every arena     *)
(* alive: iterations are started from those states.                        *)
IterationStart == c = NoMap /\ \A a \in Arenas : alive[a]

(* NewIterator(): a MapValueImplIterator over [map_.begin(), map_.end()); *)
(* the empty singleton's NewEmptyValueIterator has no entries either.     *)
MapNewIterator ==
  /\ m \in Map /\ m.impl \notin Builders /\ ~it.open
  /\ IterationStart
  /\ it' = [NoIter EXCEPT !.open = TRUE]
  /\ last' = Other("new_iterator")
  /\ UNCHANGED <<m, c, alive, puts>>

(* HasNext(): begin_ != end_.  Through an invalidated iterator the        *)
(* comparison reads freed or moved slots: any answer.                      *)
MapIteratorHasNext ==
  /\ it.open /\ ~it.loop
  /\ IF it.stale
     THEN \E b \in BOOLEAN : last' = Step("has_next", NoValue, NoValue, "undefined", b, NoValue, {})
     ELSE last' = Step("has_next", NoValue, NoValue, "ok", Remaining(m, it) # {}, NoValue, {})
  /\ UNCHANGED <<m, c, alive, puts, it>>

(* Next(): FailedPrecondition at the end, else the key at begin_, which   *)
(* then moves on.  Through an invalidated iterator: any key, or the end.  *)
MapIteratorNext ==
  /\ it.open /\ ~it.loop
  /\ \/ /\ it.stale
        /\ \E k \in KeyPool \cup {NoValue} :
             last' = Step("next", k, NoValue, "undefined", k # NoValue, k, {})
        /\ UNCHANGED it
     \/ /\ ~it.stale /\ Remaining(m, it) = {}
        /\ last' = Step("next", NoValue, NoValue, "failed_precondition", FALSE, NoValue, {})
        /\ UNCHANGED it
     \/ /\ ~it.stale
        /\ \E e \in Remaining(m, it) :
             /\ Cardinality(it.seen) < MaxPuts
             /\ it' = Advance(it, e)
             /\ last' = Step("next", e.key, NoValue, "ok", TRUE, e.key, it.seen)
  /\ UNCHANGED <<m, c, alive, puts>>

(* The caller destroys the iterator.                                       *)
MapDropIterator ==
  /\ it.open /\ ~it.loop
  /\ it' = NoIter
  /\ last' = Other("drop_iterator")
  /\ UNCHANGED <<m, c, alive, puts>>

(* ForEach(callback): the range-for over map_ of every implementation     *)
(* (the singleton's generic ForEach walks its empty iterator).             *)
MapForEachBegin ==
  /\ m \in Map /\ m.impl \notin Builders /\ ~it.open
  /\ IterationStart
  /\ it' = [NoIter EXCEPT !.open = TRUE, !.loop = TRUE]
  /\ last' = Other("foreach_begin")
  /\ UNCHANGED <<m, c, alive, puts>>

(* One turn of the loop: at the end ForEach returns OkStatus; else the    *)
(* callback gets the entry's key and value and returns true (go on),     *)
(* false (break, then OkStatus) or an error, which ForEach returns.  A     *)
(* callback may Put into a mutable map between two turns.                  *)
MapForEachStep ==
  /\ it.open /\ it.loop
  /\ IF it.stale
     THEN /\ it' = NoIter
          /\ last' = Step("foreach_done", NoValue, NoValue, "undefined", FALSE, NoValue, {})
     ELSE IF Remaining(m, it) = {}
     THEN /\ it' = NoIter
          /\ last' = Step("foreach_done", NoValue, NoValue, "ok", FALSE, NoValue, it.seen)
     ELSE \E e \in Remaining(m, it), ok \in {"true", "false", "error"} :
            /\ it' = IF ok = "true" THEN Advance(it, e) ELSE NoIter
            /\ last' = Step("foreach_call", e.key, e.val, ok, TRUE, NoValue, it.seen)
  /\ UNCHANGED <<m, c, alive, puts>>

Init ==
  /\ \/ \E al \in MutableAllocs : m = NewMutableMapValue(al)
     \/ \E al \in Arenas \cup {NoArena} : m = NewMapValueBuilder(al)
  /\ c = NoMap
  /\ alive = [a \in Arenas |-> TRUE]
  /\ puts = 0
  /\ last = Other("init")
  /\ it = NoIter

(* The calls that leave map_ and every iterator alone commute with the    *)
(* steps of an open iteration; they are taken while none is open.          *)
Independent ==
  \/ Build
  \/ ListKeys
  \/ \E op \in {"find", "get", "has"}, k \in KeyPool : Lookup3(op, k)
  \/ \E op \in {"legacy_get", "legacy_has"}, k \in KeyPool : LegacyLookup(op, k)
  \/ \E a \in Arenas : DoClone(a) \/ DoCompat(a) \/ DestroyArena(a)
  \/ \E j \in Messages : DoConvertToJson(j)

Next ==
  \/ \E k \in KeyPool, v \in ValPool : Put(k, v)
  \/ ~it.open /\ Independent
  \/ DropMap
  \/ MapNewIterator \/ MapIteratorHasNext \/ MapIteratorNext \/ MapDropIterator
  \/ MapForEachBegin \/ MapForEachStep

Spec == Init /\ [][Next]_vars

-----------------------------------------------------------------------------
(* The contract of a lookup, from the key alone: error and unknown keys   *)
(* propagate, other non-key kinds are an InvalidMapKeyTypeError, a stored *)
(* key gives its value, an absent one null (Find), NoSuchKeyError (Get)    *)
(* or false (Has).  Keys are compared as whole values.                     *)
Stored(x, k) == {e.val : e \in {f \in x.entries : f.key = k}}

SpecLookup(op, x, k) ==
  CASE k.kind \in {"error", "unknown"} -> [status |-> "ok", result |-> k]
    [] k.kind \notin KeyKinds /\ op = "has" ->
         [status |-> "invalid_key", result |-> NoValue]
    [] k.kind \notin KeyKinds -> [status |-> "ok", result |-> InvalidKeyErr]
    [] op = "has" -> [status |-> "ok", result |-> BoolVal(Stored(x, k) # {})]
    [] Stored(x, k) # {} ->
         [status |-> "ok", result |-> CHOOSE v \in Stored(x, k) : TRUE]
    [] op = "find" -> [status |-> "ok", result |-> NullVal]
    [] OTHER -> [status |-> "ok", result |-> NoSuchKeyErr]

(* The legacy CelMap contract: a key of no key kind is absent for Get and *)
(* an error status for Has; otherwise the stored value, or absent.         *)
SpecLegacy(op, x, k) ==
  CASE k.kind \notin KeyKinds /\ op = "legacy_has" ->
         [status |-> "invalid_key", result |-> NoValue]
    [] k.kind \notin KeyKinds -> [status |-> "ok", result |-> NoValue]
    [] op = "legacy_has" -> [status |-> "ok", result |-> BoolVal(Stored(x, k) # {})]
    [] Stored(x, k) # {} ->
         [status |-> "ok", result |-> CHOOSE v \in Stored(x, k) : TRUE]
    [] OTHER -> [status |-> "ok", result |-> NoValue]

(* Find, Get and Has answer every key as the contract says, on every      *)
(* implementation: the kind switch of CustomMapValueInterface, the        *)
(* CheckMapKey of FindImpl, the kind-strict ValueEquals of the hash map   *)
(* and Get's rewrite of a miss together give the contract's answer.  The  *)
(* legacy Get and Has of the compat maps, which look the same map_ up     *)
(* with a CelValue -- hashed by ValueHash(const CelValue&), compared by   *)
(* CelValueEquals -- answer as the legacy contract says, so both          *)
(* evaluators see the same entries.                                        *)
LookupMatchesSpec ==
  /\ last.op \in {"find", "get", "has"} =>
       [status |-> last.status, result |-> last.result]
         = SpecLookup(last.op, m, last.key)
  /\ last.op \in {"legacy_get", "legacy_has"} =>
       [status |-> last.status, result |-> last.result]
         = SpecLegacy(last.op, m, last.key)

(* Put succeeds exactly when the key has a key kind, the value is neither *)
(* an error nor unknown and the key is new; a success adds that one key   *)
(* with the value Get then returns, a failure leaves the map unchanged.   *)
PutContract ==
  [][last'.op = "put" =>
       LET k == last'.key
           v == last'.val
       IN /\ (last'.status = "ok") =
               (k.kind \in KeyKinds /\ v.kind \notin {"error", "unknown"}
                /\ k \notin KeySet(m))
          /\ last'.status = "ok" =>
               /\ KeySet(m') = KeySet(m) \cup {k}
               /\ Get(m', k).result = v
          /\ last'.status # "ok" => m' = m]_vars

(* A clone or compat copy answers every lookup as the map it was taken   *)
(* from, whichever implementation Clone dispatched to.                     *)
CloneAgrees ==
  last.op \in {"clone", "compat"} =>
    /\ KeySet(c) = KeySet(m)
    /\ \A k \in KeyPool : Get(c, k) = Get(m, k)

(* ListKeys lists exactly the keys the map holds when it is called.        *)
ListKeysComplete ==
  last.op = "listkeys" => last.keys = KeySet(m)

(* No entry of a map value that is still held refers to bytes in an arena *)
(* that has been destroyed: a clone owns its strings on its own arena.     *)
NoDanglingEntry ==
  \A x \in {m, c} \ {NoMap} : \A e \in x.entries : \A a \in e.home : alive[a]

(* ConvertToJson succeeds exactly when every key of the map is a string  *)
(* (ValueToJsonString refuses the others); the message then holds one    *)
(* field per entry, and whether it succeeds or fails part-way it holds    *)
(* nothing of what it held before the call, whatever the hash map's       *)
(* iteration order.                                                        *)
JsonMatchesSpec ==
  last.op = "json" =>
    /\ (last.status = "ok") = (\A k \in KeySet(m) : k.kind = "string")
    /\ last.json.fields \subseteq JsonFields(m)
    /\ last.status = "ok" => last.json.fields = JsonFields(m)

(* Iterating a map -- NewIterator with HasNext/Next, or ForEach -- hands *)
(* out only keys the map holds, none of them twice, each callback with    *)
(* the value Get gives for its key, and by the time HasNext says false or *)
(* ForEach returns at the end every key has been handed out, in whatever  *)
(* order the hash map keeps.  This is claimed of an iterator that no Put   *)
(* (from a ForEach callback or between Next calls) has invalidated.       *)
MapIterationSound ==
  /\ last.op = "next" /\ last.status = "ok" =>
       last.key \in KeySet(m) /\ last.key \notin last.keys
  /\ last.op = "foreach_call" =>
       /\ last.key \in KeySet(m) /\ last.key \notin last.keys
       /\ last.val = Get(m, last.key).result
  /\ last.op = "has_next" /\ last.status = "ok" /\ ~last.found =>
       it.seen = KeySet(m)
  /\ last.op = "foreach_done" /\ last.status = "ok" => last.keys = KeySet(m)

(* P5, empty canonicalization: an empty map is observably the canonical   *)
(* empty map -- whichever implementation holds it (the singleton Build    *)
(* returns, an empty mutable map, an empty clone or compat copy), it       *)
(* converts to the same JSON message as the singleton.                     *)
EmptyCanonical ==
  \A x \in {m, c} \ {NoMap} :
     x.impl \notin Builders /\ x.entries = {} =>
       \A j \in Messages : ConvertToJson(x, j) = ConvertToJson(EmptyMap, j)

====
