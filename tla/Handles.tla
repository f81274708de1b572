------------------------------ MODULE Handles ------------------------------
(***************************************************************************)
(* The reference-counting handles of common/memory.h: Owned<T>, Shared<T>  *)
(* and Owner.  Each is a (value, refcount) pair -- Owner packs the same    *)
(* pair into one tagged word -- so a handle is modelled by the heap object *)
(* it points to, or Null.  The model tracks every handle variable the     *)
(* calling code can name: the locals, and one member handle inside every  *)
(* object (a node holding Owned<Node> next).  Destroying an object runs   *)
(* its destructor, which destroys that member handle: the release cascade.*)
(* Borrowed<T> and Borrower are the same pair without a count; the model  *)
(* records which handle a borrow was taken from, since its use is bound   *)
(* to that handle's lifetime (ABSL_ATTRIBUTE_LIFETIME_BOUND).              *)
(*                                                                         *)
(* StrongRef/StrongUnref live in common/internal/reference_count.h, which  *)
(* is not part of this source tree; Ref and Release model them from the    *)
(* specification: a null refcount is a no-op, Unref that drops the count   *)
(* to zero deletes the object.                                             *)
(*                                                                         *)
(* Objects of ArenaObjs live on one google::protobuf::Arena instead     *)
(* (PoolingMemoryManager::MakeShared): their handles carry no refcount --  *)
(* Owned's refcount_ is null, Owner's word has the arena bit -- so copies  *)
(* and releases of them touch no count.  The arena lives until the caller *)
(* destroys it, which runs the destructors registered with it; an arena    *)
(* object's destructor releases its member handle, which may hold a heap   *)
(* object.                                                                 *)
(*                                                                         *)
(* Every handler is one atomic step: the count updates are atomic RMWs    *)
(* and a handle variable is only touched by the thread that owns it.       *)
(***************************************************************************)
EXTENDS Naturals, FiniteSets

CONSTANTS
  Objs,              \* heap objects with a reference count (model values)
  Locals,            \* handle variables of the calling code (model values)
  Null,              \* the empty handle
  AliasedSource,     \* may a source lie in storage its assignment releases?
  Borrows,           \* Borrowed<T>/Borrower variables of the calling code
  ArenaObjs          \* the objects that are allocated on the arena

ASSUME Objs \cap Locals = {} /\ Null \notin Objs \cup Locals \cup Borrows
ASSUME AliasedSource \in BOOLEAN
ASSUME ArenaObjs \subseteq Objs

HeapObjs == Objs \ ArenaObjs

(* A handle variable: a local, or the member handle of an object, which  *)
(* is named by the object that contains it.                              *)
Slots == Locals \cup Objs

Faults == {"read_freed", "write_freed", "ref_dead", "unref_dead"}

VARIABLES
  slot,    \* slot[s]: the object handle variable s refers to, or Null
  refs,    \* refs[o]: the strong count in o's ReferenceCount
  life,    \* life[o]: "unallocated", "live" or "destroyed"
  faults,  \* memory errors the code has committed so far
  borrow,  \* borrow[b]: the object b points to and the handle it was taken from
  arenaAlive, \* the arena has not been destroyed
  dtors    \* arena objects whose destructor is registered with the arena

vars == <<slot, refs, life, faults, borrow, arenaAlive, dtors>>

NoBorrow == [obj |-> Null, from |-> Null]

TypeOK ==
  /\ slot \in [Slots -> Objs \cup {Null}]
  /\ refs \in [Objs -> 0..Cardinality(Slots)]
  /\ life \in [Objs -> {"unallocated", "live", "destroyed"}]
  /\ faults \subseteq Faults
  /\ borrow \in [Borrows -> [obj : Objs \cup {Null}, from : Slots \cup {Null}]]
  /\ arenaAlive \in BOOLEAN
  /\ dtors \subseteq ArenaObjs

(* The state as one record, so that a handler can be written as a chain  *)
(* of state transformers.                                                 *)
Cur == [slot |-> slot, refs |-> refs, life |-> life, faults |-> faults]

Commit(r) ==
  /\ slot' = r.slot
  /\ refs' = r.refs
  /\ life' = r.life
  /\ faults' = r.faults
  /\ UNCHANGED <<borrow, arenaAlive, dtors>>

Fault(r, f) == [r EXCEPT !.faults = @ \cup {f}]

(* The storage of slot s still exists: locals always, a member as long as *)
(* the object that contains it has not been destroyed.                    *)
StorageLive(r, s) == s \in Locals \/ (s \in Objs /\ r.life[s] = "live")

(* Reading and writing a handle variable; freed storage keeps its bytes, *)
(* so a read after free returns the stale handle.                         *)
Read(r, s) == r.slot[s]
ReadChecked(r, s) == IF StorageLive(r, s) THEN r ELSE Fault(r, "read_freed")
Write(r, s, v) ==
  IF StorageLive(r, s) THEN [r EXCEPT !.slot[s] = v]
  ELSE Fault([r EXCEPT !.slot[s] = v], "write_freed")

(* Owner::Own, and StrongRef on Owned's refcount_: only a reference-count *)
(* word is counted; a null refcount or an arena word is left alone.        *)
Ref(r, o) ==
  IF o = Null \/ o \in ArenaObjs THEN r
  ELSE IF r.life[o] # "live" THEN Fault(r, "ref_dead")
  ELSE [r EXCEPT !.refs[o] = @ + 1]

(* Owner::Unown, and StrongUnref on Owned's refcount_: decrements a       *)
(* reference count only; the last Unref deletes the object, whose         *)
(* destructor releases its member handle.                                  *)
RECURSIVE Release(_, _)
Release(r, o) ==
  IF o = Null \/ o \in ArenaObjs THEN r
  ELSE IF r.life[o] # "live" THEN Fault(r, "unref_dead")
  ELSE IF r.refs[o] > 1 THEN [r EXCEPT !.refs[o] = @ - 1]
  ELSE Release([r EXCEPT !.refs[o] = 0, !.life[o] = "destroyed"], r.slot[o])

(* What the calling code can name: a local h, or h->member through a     *)
(* local handle h to a live object.                                       *)
Nameable(s) ==
  \/ s \in Locals
  \/ /\ s \in Objs
     /\ life[s] = "live"
     /\ \E l \in Locals : slot[l] = s

(* The source of an assignment: in the run without AliasedSource it is a *)
(* local variable, never h->member of the object the assignment releases.  *)
AssignSource(s) == Nameable(s) /\ (AliasedSource \/ s \in Locals)

-----------------------------------------------------------------------------
(* Variant of MakeShared that wraps the new refcount with the Ref-ing   *)
(* constructor Shared(T*, refcount) instead of kAdoptRef.                  *)
MakeSharedWithRef(dst) ==
  /\ dst \in Locals /\ slot[dst] = Null
  /\ \E o \in HeapObjs :
       /\ life[o] = "unallocated"
       /\ Commit([Cur EXCEPT !.life[o] = "live", !.refs[o] = 2,
                             !.slot[dst] = o])

(* ReferenceCountingMemoryManager::MakeShared into an empty local: a new  *)
(* object with its member handle empty and the count adopted at 1.        *)
MakeShared(dst) ==
  /\ dst \in Locals /\ slot[dst] = Null
  /\ \E o \in HeapObjs :
       /\ life[o] = "unallocated"
       /\ Commit([Cur EXCEPT !.life[o] = "live", !.refs[o] = 1,
                             !.slot[dst] = o])

(* Variant of the copy constructor that forgets StrongRef.               *)
CopyConstructWithoutRef(dst, src) ==
  /\ dst \in Locals /\ slot[dst] = Null /\ Nameable(src) /\ dst # src
  /\ Commit([Cur EXCEPT !.slot[dst] = slot[src]])

(* Owned(const Owned&): copy the pair, then StrongRef(refcount_).         *)
CopyConstruct(dst, src) ==
  /\ dst \in Locals /\ slot[dst] = Null /\ Nameable(src) /\ dst # src
  /\ Commit(Ref([Cur EXCEPT !.slot[dst] = slot[src]], slot[src]))

(* Owned(Owned&&): take the pair and null the source.                     *)
MoveConstruct(dst, src) ==
  /\ dst \in Locals /\ slot[dst] = Null /\ Nameable(src) /\ dst # src
  /\ Commit([Cur EXCEPT !.slot[dst] = slot[src], !.slot[src] = Null])

(* ~Owned() on a local followed by its reuse, or Owned::reset().          *)
Reset(dst) ==
  /\ dst \in Locals /\ slot[dst] # Null
  /\ Commit([Release(Cur, slot[dst]) EXCEPT !.slot[dst] = Null])

(* Owned::operator=(const Owned&): if this != &other, StrongRef(other),   *)
(* StrongUnref(this), then read other's pair into this.                   *)
OwnedCopyAssign(dst, src) ==
  /\ Nameable(dst) /\ AssignSource(src) /\ dst # src
  /\ LET r1 == Release(Ref(Cur, slot[src]), slot[dst])
         r2 == ReadChecked(r1, src)
     IN  Commit(Write(r2, dst, Read(r2, src)))

(* Variant of Shared's copy assignment that unrefs before it refs.       *)
SharedCopyAssignUnrefFirst(dst, src) ==
  /\ Nameable(dst) /\ AssignSource(src)
  /\ LET r1 == Ref(Release(Cur, slot[dst]), slot[src])
         r2 == ReadChecked(r1, src)
     IN  Commit(Write(r2, dst, Read(r2, src)))

(* Shared::operator=(const Shared&): the same order, with no self check. *)
SharedCopyAssign(dst, src) ==
  /\ Nameable(dst) /\ AssignSource(src)
  /\ LET r1 == Release(Ref(Cur, slot[src]), slot[dst])
         r2 == ReadChecked(r1, src)
     IN  Commit(Write(r2, dst, Read(r2, src)))

(* EncodeOwnerImpl: the word an Owner keeps for an object -- its reference *)
(* count, or the arena it lives on, which all objects on it share.         *)
OwnerWord(o) == IF o \in ArenaObjs THEN "arena" ELSE o

(* Variant of Owner's copy assignment without the ptr_ != other.ptr_     *)
(* check.                                                                  *)
OwnerCopyAssignUnchecked(dst, src) ==
  /\ Nameable(dst) /\ AssignSource(src)
  /\ LET r1 == ReadChecked(Release(Cur, slot[dst]), src)
         v  == Read(r1, src)
     IN  Commit(Write(Ref(r1, v), dst, v))

(* Owner::operator=(const Owner&): if ptr_ != other.ptr_, Destroy(ptr_)   *)
(* first, then ptr_ = CopyFrom(other.ptr_), which reads and Owns it.  Two *)
(* Owners of objects on the arena hold the same word: nothing happens.     *)
OwnerCopyAssign(dst, src) ==
  /\ Nameable(dst) /\ AssignSource(src)
  /\ OwnerWord(slot[dst]) # OwnerWord(slot[src])
  /\ LET r1 == ReadChecked(Release(Cur, slot[dst]), src)
         v  == Read(r1, src)
     IN  Commit(Write(Ref(r1, v), dst, v))

(* Owned::operator=(Owned&&) (and Owner's, which has the same shape): if  *)
(* this != &other, StrongUnref(this), take other's pair, null other.      *)
OwnedMoveAssign(dst, src) ==
  /\ Nameable(dst) /\ AssignSource(src) /\ dst # src
  /\ LET r1 == ReadChecked(Release(Cur, slot[dst]), src)
     IN  Commit(Write(Write(r1, dst, Read(r1, src)), src, Null))

(* Shared::operator=(Shared&&): the same steps with no self check, so     *)
(* s = std::move(s) releases s and leaves it empty.                       *)
SharedMoveAssign(dst, src) ==
  /\ Nameable(dst) /\ AssignSource(src)
  /\ LET r1 == ReadChecked(Release(Cur, slot[dst]), src)
     IN  Commit(Write(Write(r1, dst, Read(r1, src)), src, Null))

(* TypeHandleBase::Unref and Ref of base/internal/type.post.h: the count *)
(* of the type is touched unless rep_ carries the kTypeHandleUnmanaged     *)
(* tag, which marks an arena-allocated type and also the empty handle      *)
(* (rep_'s default).  Ref returns rep_.                                    *)
TypeHandleUnref(r, o) == IF o = Null \/ o \in ArenaObjs THEN r ELSE Release(r, o)
TypeHandleRef(r, o) == IF o = Null \/ o \in ArenaObjs THEN r ELSE Ref(r, o)

(* TypeHandle<kPersistent>(const TypeHandle&): rep_ = other.Ref().        *)
TypeHandleCopyConstruct(dst, src) ==
  /\ dst \in Locals /\ slot[dst] = Null /\ Nameable(src) /\ dst # src
  /\ Commit(TypeHandleRef([Cur EXCEPT !.slot[dst] = slot[src]], slot[src]))

(* TypeHandle<kPersistent>(TypeHandle&&): take rep_, leave other with the *)
(* kTypeHandleUnmanaged tag, i.e. empty.                                   *)
TypeHandleMoveConstruct(dst, src) ==
  /\ dst \in Locals /\ slot[dst] = Null /\ Nameable(src) /\ dst # src
  /\ Commit([Cur EXCEPT !.slot[dst] = slot[src], !.slot[src] = Null])

(* ~TypeHandle(): Unref(), on a local that is then reused empty.          *)
TypeHandleDestroy(dst) ==
  /\ dst \in Locals /\ slot[dst] # Null
  /\ Commit([TypeHandleUnref(Cur, slot[dst]) EXCEPT !.slot[dst] = Null])

(* TypeHandle<kPersistent>::operator=(const TypeHandle&): Unref(), then   *)
(* rep_ = other.Ref(), which reads other and refs it.  There is no self    *)
(* check, so t = t releases before it reads: the run without AliasedSource *)
(* leaves that self-assignment out.                                        *)
TypeHandleCopyAssign(dst, src) ==
  /\ Nameable(dst) /\ AssignSource(src) /\ (AliasedSource \/ dst # src)
  /\ LET r1 == ReadChecked(TypeHandleUnref(Cur, slot[dst]), src)
         v  == Read(r1, src)
     IN  Commit(Write(TypeHandleRef(r1, v), dst, v))

(* TypeHandle<kPersistent>::operator=(TypeHandle&&): Unref(), rep_ =      *)
(* other.rep_, other.rep_ = kTypeHandleUnmanaged; with no self check,     *)
(* t = std::move(t) releases t and leaves it empty.                        *)
TypeHandleMoveAssign(dst, src) ==
  /\ Nameable(dst) /\ AssignSource(src)
  /\ LET r1 == ReadChecked(TypeHandleUnref(Cur, slot[dst]), src)
     IN  Commit(Write(Write(r1, dst, Read(r1, src)), src, Null))

(* swap(Owned&, Owned&) and swap(Shared&, Shared&): exchange the two     *)
(* (value, refcount) pairs; no count moves.  Either side may be the       *)
(* member of the object the other one holds.                               *)
Swap(lhs, rhs) ==
  /\ Nameable(lhs) /\ AssignSource(rhs) /\ lhs # rhs
  /\ Commit(Write(Write(Cur, lhs, slot[rhs]), rhs, slot[lhs]))

(* EnableSharedFromThis::shared_from_this() in a member function called  *)
(* through handle h: MakeShared(this, GetReferenceCountForThat of this),  *)
(* the Ref-ing Shared(T*, refcount) constructor, into an empty local.  An  *)
(* object on the arena has no reference count and takes no Ref.            *)
SharedFromThis(dst, h) ==
  /\ dst \in Locals /\ slot[dst] = Null /\ Nameable(h) /\ slot[h] # Null
  /\ LET this == slot[h]
     IN  Commit(Ref([Cur EXCEPT !.slot[dst] = this], this))

(* Borrowed(const Owned&), Borrower(const Owner&) and their assignments: *)
(* copy the (value, refcount) pair without StrongRef.                     *)
BorrowFrom(b, s) ==
  /\ Nameable(s)
  /\ borrow' = [borrow EXCEPT ![b] = [obj |-> slot[s], from |-> s]]
  /\ UNCHANGED <<slot, refs, life, faults, arenaAlive, dtors>>

(* The defaulted copy of a Borrowed or Borrower, and the converting ones: *)
(* the copy is bound to the lifetime of the same handle.                  *)
CopyBorrow(b, c) ==
  /\ b # c /\ borrow[b] # borrow[c]
  /\ borrow' = [borrow EXCEPT ![b] = borrow[c]]
  /\ UNCHANGED <<slot, refs, life, faults, arenaAlive, dtors>>

(* A borrow may be used while the handle it was taken from, whose         *)
(* lifetime it is bound to, exists and still holds the same object.       *)
InLifetime(b) ==
  /\ borrow[b].obj # Null
  /\ StorageLive(Cur, borrow[b].from)
  /\ slot[borrow[b].from] = borrow[b].obj

(* Owned(Borrowed) and Owner(Borrower) into an empty local: take the pair *)
(* and StrongRef(refcount_) (Owner::Own).                                  *)
Upgrade(dst, b) ==
  /\ dst \in Locals /\ slot[dst] = Null /\ InLifetime(b)
  /\ Commit(Ref([Cur EXCEPT !.slot[dst] = borrow[b].obj], borrow[b].obj))

(* Owned::operator=(Borrowed): StrongRef(other), StrongUnref(this), then  *)
(* take other's pair; other is a by-value copy, read before either.       *)
OwnedAssignBorrowed(dst, b) ==
  /\ Nameable(dst) /\ InLifetime(b)
  /\ LET o == borrow[b].obj
     IN  Commit(Write(Release(Ref(Cur, o), slot[dst]), dst, o))

(* Owner::operator=(const Owned&): Unown(ptr_) first, then EncodeOwner of *)
(* owned's pair with acquire, which reads owned and StrongRefs it.        *)
OwnerAssignOwned(dst, src) ==
  /\ Nameable(dst) /\ AssignSource(src) /\ dst # src
  /\ LET r1 == ReadChecked(Release(Cur, slot[dst]), src)
         v  == Read(r1, src)
     IN  Commit(Write(Ref(r1, v), dst, v))

(* Owner::operator=(Owned&&): Unown(ptr_) first, then EncodeOwner of     *)
(* owned's pair without acquire -- the reference moves -- and owned is    *)
(* nulled.                                                                 *)
OwnerMoveAssignOwned(dst, src) ==
  /\ Nameable(dst) /\ AssignSource(src) /\ dst # src
  /\ LET r1 == ReadChecked(Release(Cur, slot[dst]), src)
     IN  Commit(Write(Write(r1, dst, Read(r1, src)), src, Null))

(* Borrowed::reset(): null the pair; the borrow is bound to nothing.      *)
BorrowedReset(b) ==
  /\ borrow[b] # NoBorrow
  /\ borrow' = [borrow EXCEPT ![b] = NoBorrow]
  /\ UNCHANGED <<slot, refs, life, faults, arenaAlive, dtors>>

(* Variant of PoolingMemoryManager::MakeShared that never calls          *)
(* OwnCustomDestructor.                                                    *)
PoolingMakeSharedWithoutDestructor(dst) ==
  /\ dst \in Locals /\ slot[dst] = Null /\ arenaAlive
  /\ \E o \in ArenaObjs :
       /\ life[o] = "unallocated"
       /\ slot' = [slot EXCEPT ![dst] = o]
       /\ life' = [life EXCEPT ![o] = "live"]
       /\ UNCHANGED <<refs, faults, borrow, arenaAlive, dtors>>

(* PoolingMemoryManager::MakeShared into an empty local: placement new on *)
(* the arena, OwnCustomDestructor(DefaultDestructor) since the object,    *)
(* which holds an Owned member, is not trivially destructible and does    *)
(* not skip its destructor; the Shared is adopted with a null refcount.   *)
PoolingMakeShared(dst) ==
  /\ dst \in Locals /\ slot[dst] = Null /\ arenaAlive
  /\ \E o \in ArenaObjs :
       /\ life[o] = "unallocated"
       /\ slot' = [slot EXCEPT ![dst] = o]
       /\ life' = [life EXCEPT ![o] = "live"]
       /\ dtors' = dtors \cup {o}
       /\ UNCHANGED <<refs, faults, borrow, arenaAlive>>

(* MemoryManager::MakeShared: ReferenceCounting() (a null arena_) goes to  *)
(* ReferenceCountingMemoryManager, Pooling(arena) to PoolingMemoryManager. *)
MemoryManagerMakeShared(dst, pooling) ==
  IF pooling THEN PoolingMakeShared(dst) ELSE MakeShared(dst)

(* AllocateShared(allocator): on an arena, allocator.new_object<T>, which *)
(* registers T's destructor with the arena, and a null refcount; without  *)
(* one, MakeEmplacedReferenceCount, a count of 1 adopted by the Owned.    *)
AllocateShared(dst, arena) ==
  IF arena THEN PoolingMakeShared(dst) ELSE MakeShared(dst)

(* WrapShared(object) of an object the caller has just made: one whose   *)
(* GetArena() is set (made by Arena::Create, which registered its         *)
(* destructor) gets a null refcount, any other a                          *)
(* MakeDeletingReferenceCount, a count of 1.                               *)
WrapShared(dst) ==
  /\ dst \in Locals /\ slot[dst] = Null
  /\ \E o \in Objs :
       /\ life[o] = "unallocated"
       /\ o \in ArenaObjs => arenaAlive
       /\ slot' = [slot EXCEPT ![dst] = o]
       /\ life' = [life EXCEPT ![o] = "live"]
       /\ refs' = IF o \in ArenaObjs THEN refs ELSE [refs EXCEPT ![o] = 1]
       /\ dtors' = IF o \in ArenaObjs THEN dtors \cup {o} ELSE dtors
       /\ UNCHANGED <<faults, borrow, arenaAlive>>

(* The arena's teardown runs the registered destructors one by one; each *)
(* destroys its object's member handle (~Owned: StrongUnref).            *)
RECURSIVE ReleaseMembers(_, _)
ReleaseMembers(r, S) ==
  IF S = {} THEN r
  ELSE LET x == CHOOSE y \in S : TRUE
       IN  ReleaseMembers(Release(r, r.slot[x]), S \ {x})

(* ~Arena: the destructors run, then the memory of every object on it     *)
(* goes.  The caller destroys the arena only when no handle that outlives *)
(* the teardown still refers to an object on it.                           *)
DestroyArena ==
  /\ arenaAlive
  /\ LET ran == ReleaseMembers(Cur, {x \in dtors : life[x] = "live"})
         r   == [ran EXCEPT !.life = [o \in Objs |->
                   IF o \in ArenaObjs /\ @[o] = "live" THEN "destroyed" ELSE @[o]]]
     IN /\ \A s \in Slots : StorageLive(r, s) => r.slot[s] \notin ArenaObjs
        /\ slot' = r.slot /\ refs' = r.refs /\ life' = r.life /\ faults' = r.faults
  /\ arenaAlive' = FALSE
  /\ UNCHANGED <<borrow, dtors>>

Init ==
  /\ slot = [s \in Slots |-> Null]
  /\ refs = [o \in Objs |-> 0]
  /\ life = [o \in Objs |-> "unallocated"]
  /\ faults = {}
  /\ borrow = [b \in Borrows |-> NoBorrow]
  /\ arenaAlive = TRUE
  /\ dtors = {}

Next ==
  \/ \E d \in Slots : \/ \E pooling \in BOOLEAN : MemoryManagerMakeShared(d, pooling)
                                                \/ AllocateShared(d, pooling)
                     \/ WrapShared(d)
                     \/ Reset(d) \/ TypeHandleDestroy(d)
  \/ DestroyArena
  \/ \E b \in Borrows :
       \/ \E s \in Slots : BorrowFrom(b, s) \/ Upgrade(s, b) \/ OwnedAssignBorrowed(s, b)
       \/ \E c \in Borrows : CopyBorrow(b, c)
       \/ BorrowedReset(b)
  \/ \E d, s \in Slots :
       \/ CopyConstruct(d, s) \/ MoveConstruct(d, s)
       \/ OwnedCopyAssign(d, s) \/ SharedCopyAssign(d, s)
       \/ OwnerCopyAssign(d, s) \/ OwnerAssignOwned(d, s)
       \/ OwnedMoveAssign(d, s) \/ SharedMoveAssign(d, s)
       \/ OwnerMoveAssignOwned(d, s)
       \/ Swap(d, s) \/ SharedFromThis(d, s)
       \/ TypeHandleCopyConstruct(d, s) \/ TypeHandleMoveConstruct(d, s)
       \/ TypeHandleCopyAssign(d, s) \/ TypeHandleMoveAssign(d, s)

Spec == Init /\ [][Next]_vars

-----------------------------------------------------------------------------
(* Handle variables whose storage still exists.                           *)
LiveSlots == {s \in Slots : StorageLive(Cur, s)}

(* P1, counting: the strong count of every live heap object equals the    *)
(* number of live handle variables that refer to it, and is never zero -- *)
(* the copy constructors' StrongRef, the assignments' Ref/Unref pairs, the *)
(* release cascade of ~T and the destructors the arena runs at teardown    *)
(* keep refcount and handles in step -- while an object on the arena is    *)
(* never counted, however its handles are copied, assigned or released.   *)
CountMatchesOwners ==
  \A o \in Objs :
    life[o] = "live" =>
      IF o \in ArenaObjs THEN refs[o] = 0
      ELSE /\ refs[o] >= 1
           /\ refs[o] = Cardinality({s \in LiveSlots : slot[s] = o})

(* P1, never earlier: no live handle variable refers to a destroyed       *)
(* object, so the last StrongUnref happens only when no handle is left.   *)
NoDanglingHandle ==
  \A s \in LiveSlots : slot[s] # Null => life[slot[s]] = "live"

(* No handler reads or writes a handle inside a freed object, and none   *)
(* increments or decrements the count of a deleted object.                *)
NoMemoryFault == faults = {}

=============================================================================
