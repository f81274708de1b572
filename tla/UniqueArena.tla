----------------------------- MODULE UniqueArena -----------------------------
(***************************************************************************)
(* cel::Unique<T> of common/memory.h with AllocateUnique, and the         *)
(* conversion of a Unique into an Owned.  On an arena, a T that is not    *)
(* arena-constructible is placement-constructed without registering its  *)
(* destructor: Unique keeps arena_ and either runs ~T itself (Delete) or *)
(* registers it with the arena on release().  An arena-constructible T   *)
(* goes through Arena::Create, which registers it, and arena_ is nullptr. *)
(* Without an arena the object is on the heap and Delete deletes it.      *)
(***************************************************************************)
EXTENDS Naturals, Sequences, FiniteSets

CONSTANTS
  Slots,     \* Unique<T> variables of the calling code
  Arenas,    \* google::protobuf::Arena instances
  NoArena,   \* arena_ == nullptr, or an object on the heap
  MaxObjs    \* bound on the number of objects allocated

VARIABLES
  objs,    \* objs[o]: [arena, ctor, skip, registered, dtors, freed]
  u,       \* u[s]: [ptr, arena], the members ptr_ and arena_ of slot s
  raws,    \* pointers release() handed to the caller, who must delete them
  owned,   \* objects held by an Owned<T> made from a Unique, or a Shared<T>
  alive,   \* alive[a]: arena a not yet destroyed
  faults,  \* memory errors committed
  pending, \* raw allocations constructed, destructor not yet handed over
  mine     \* raw allocations whose destructor the caller must run itself

vars == <<objs, u, raws, owned, alive, faults, pending, mine>>
rawVars == <<pending, mine>>

Null == [ptr |-> 0, arena |-> NoArena]

Objs == 1..Len(objs)

TypeOK ==
  /\ objs \in Seq([arena : Arenas \cup {NoArena}, ctor : BOOLEAN, skip : BOOLEAN,
                   registered : BOOLEAN, dtors : 0..2, freed : BOOLEAN])
  /\ Len(objs) <= MaxObjs
  /\ u \in [Slots -> [ptr : 0..Len(objs), arena : Arenas \cup {NoArena}]]
  /\ raws \subseteq {o \in Objs : objs[o].arena = NoArena}
  /\ owned \subseteq Objs
  /\ alive \in [Arenas -> BOOLEAN]
  /\ faults \subseteq {"destroy_dead", "delete_arena"}
  /\ pending \subseteq Objs /\ mine \subseteq Objs

-----------------------------------------------------------------------------
(* ~T on object o (ptr_->~T() or the destructor inside delete).           *)
RunDtor(os, o) == [os EXCEPT ![o].dtors = @ + 1]

(* Arena::Destroy(ptr): delete when the object is on no arena, nothing    *)
(* for an arena object (its destructor is the arena's business).          *)
ArenaDestroy(os, o) ==
  IF os[o].arena = NoArena
  THEN [RunDtor(os, o) EXCEPT ![o].freed = TRUE]
  ELSE os

(* Variant of Delete without the Arena::Destroy branch.                   *)
DeleteSkippingHeap(os, v) ==
  IF v.ptr # 0 /\ v.arena # NoArena /\ ~os[v.ptr].skip
  THEN RunDtor(os, v.ptr) ELSE os

(* Unique::Delete: with arena_ set, run ~T unless skippable (the arena   *)
(* never heard of it); otherwise Arena::Destroy.                           *)
Delete(os, v) ==
  IF v.ptr = 0 THEN os
  ELSE IF v.arena # NoArena
       THEN IF os[v.ptr].skip THEN os ELSE RunDtor(os, v.ptr)
       ELSE ArenaDestroy(os, v.ptr)

(* A step that destroys through v is a fault when the object is gone.    *)
Gone(o) == objs[o].dtors > 0 \/ objs[o].freed
DeleteFault(v) == IF v.ptr # 0 /\ Gone(v.ptr) THEN {"destroy_dead"} ELSE {}

(* Variant of AllocateUnique that keeps the arena for an arena-          *)
(* constructible T as well.                                                *)
AllocateUniqueKeepingArena(a, ctor, skip) ==
  [obj |-> [arena |-> a, ctor |-> ctor, skip |-> skip,
            registered |-> ctor /\ a # NoArena /\ ~skip, dtors |-> 0, freed |-> FALSE],
   handle |-> [ptr |-> Len(objs) + 1, arena |-> a]]

(* AllocateUnique(allocator): Arena::Create registers a non-skippable    *)
(* destructor and leaves arena_ null; otherwise the bytes come from the  *)
(* allocator, the object is placement-new'd and arena_ is the arena.      *)
AllocateUnique(a, ctor, skip) ==
  [obj |-> [arena |-> a, ctor |-> ctor, skip |-> skip,
            registered |-> ctor /\ a # NoArena /\ ~skip, dtors |-> 0, freed |-> FALSE],
   handle |-> [ptr |-> Len(objs) + 1, arena |-> IF ctor THEN NoArena ELSE a]]

(* Slot s is constructed from AllocateUnique.                              *)
Allocate(s, a, ctor, skip) ==
  /\ u[s].ptr = 0 /\ Len(objs) < MaxObjs
  /\ a \in {b \in Arenas : alive[b]} \cup {NoArena}
  /\ LET r == AllocateUnique(a, ctor, skip)
     IN objs' = Append(objs, r.obj) /\ u' = [u EXCEPT ![s] = r.handle]
  /\ UNCHANGED <<raws, owned, alive, faults, rawVars>>

(* Variant of the move constructor that leaves other.ptr_ set.           *)
MoveConstructKeepingSource(d, s) ==
  /\ d # s /\ u[d].ptr = 0 /\ u[s].ptr # 0
  /\ u' = [u EXCEPT ![d] = u[s]]
  /\ UNCHANGED <<objs, raws, owned, alive, faults, rawVars>>

(* ReferenceCountingMemoryManager::MakeUnique (new U, arena_ null) and    *)
(* PoolingMemoryManager::MakeUnique (placement new on the arena, nothing  *)
(* registered, arena_ = arena), whatever the type.                         *)
MakeUniqueHandle(a, skip) ==
  [obj |-> [arena |-> a, ctor |-> FALSE, skip |-> skip, registered |-> FALSE,
            dtors |-> 0, freed |-> FALSE],
   handle |-> [ptr |-> Len(objs) + 1, arena |-> a]]

(* MemoryManager::MakeUnique: the manager's arena_ picks the branch.      *)
MakeUnique(s, a, skip) ==
  /\ u[s].ptr = 0 /\ Len(objs) < MaxObjs
  /\ a \in {b \in Arenas : alive[b]} \cup {NoArena}
  /\ LET r == MakeUniqueHandle(a, skip)
     IN objs' = Append(objs, r.obj) /\ u' = [u EXCEPT ![s] = r.handle]
  /\ UNCHANGED <<raws, owned, alive, faults, rawVars>>

(* MemoryManager::MakeShared: reference counted on the heap, or placement *)
(* new on the arena with OwnCustomDestructor unless the destructor is     *)
(* trivial or NativeType::SkipDestructor says so; the Shared has no count. *)
MakeShared(a, skip) ==
  /\ Len(objs) < MaxObjs
  /\ a \in {b \in Arenas : alive[b]} \cup {NoArena}
  /\ objs' = Append(objs, [arena |-> a, ctor |-> FALSE, skip |-> skip,
                           registered |-> a # NoArena /\ ~skip,
                           dtors |-> 0, freed |-> FALSE])
  /\ owned' = owned \cup {Len(objs) + 1}
  /\ UNCHANGED <<u, raws, alive, faults, rawVars>>

(* Unique(Unique&& other): d is constructed from s, s keeps its arena_.  *)
MoveConstruct(d, s) ==
  /\ d # s /\ u[d].ptr = 0 /\ u[s].ptr # 0
  /\ u' = [u EXCEPT ![d] = u[s], ![s].ptr = 0]
  /\ UNCHANGED <<objs, raws, owned, alive, faults, rawVars>>

(* operator=(Unique&&): when this != &other, Delete, take other's ptr_ *)
(* and arena_, null other's ptr_.                                          *)
(* A self move leaves everything as it is: a stutter.                      *)
MoveAssign(d, s) ==
  /\ d # s
  /\ objs' = Delete(objs, u[d])
  /\ faults' = faults \cup DeleteFault(u[d])
  /\ u' = [u EXCEPT ![d] = u[s], ![s].ptr = 0]
  /\ UNCHANGED <<raws, owned, alive, rawVars>>

(* reset() / operator=(nullptr) / ~Unique: Delete, ptr_ = nullptr; the   *)
(* arena_ member is left as it was.                                        *)
Reset(s) ==
  /\ u[s].ptr # 0
  /\ objs' = Delete(objs, u[s])
  /\ faults' = faults \cup DeleteFault(u[s])
  /\ u' = [u EXCEPT ![s].ptr = 0]
  /\ UNCHANGED <<raws, owned, alive, rawVars>>

(* reset(T* ptr) with a pointer the caller owns: Delete, then own it     *)
(* with arena_ = nullptr.                                                  *)
ResetTo(s, o) ==
  /\ o \in raws
  /\ objs' = Delete(objs, u[s])
  /\ faults' = faults \cup DeleteFault(u[s])
  /\ u' = [u EXCEPT ![s] = [ptr |-> o, arena |-> NoArena]]
  /\ raws' = raws \ {o}
  /\ UNCHANGED <<owned, alive, rawVars>>

(* Variant of release() whose caller judges ownership by arena_ alone,   *)
(* which is null for an arena-constructible object on an arena too.       *)
ReleaseByArenaMember(s) ==
  /\ u[s].ptr # 0
  /\ LET o == u[s].ptr
     IN /\ objs' = IF u[s].arena # NoArena /\ ~objs[o].skip
                   THEN [objs EXCEPT ![o].registered = TRUE] ELSE objs
        /\ raws' = IF u[s].arena = NoArena THEN raws \cup {o} ELSE raws
  /\ u' = [u EXCEPT ![s].ptr = 0]
  /\ UNCHANGED <<owned, alive, faults, rawVars>>

(* release(): register the destructor that was never registered, hand   *)
(* the pointer back.  The caller must delete it when it is on the heap.  *)
Release(s) ==
  /\ u[s].ptr # 0
  /\ LET o == u[s].ptr
     IN /\ objs' = IF u[s].arena # NoArena /\ ~objs[o].skip
                   THEN [objs EXCEPT ![o].registered = TRUE] ELSE objs
        /\ raws' = IF objs[o].arena = NoArena THEN raws \cup {o} ELSE raws
  /\ u' = [u EXCEPT ![s].ptr = 0]
  /\ UNCHANGED <<owned, alive, faults, rawVars>>

(* delete on a pointer release() returned.                                 *)
DeleteRaw(o) ==
  /\ o \in raws
  /\ objs' = [RunDtor(objs, o) EXCEPT ![o].freed = TRUE]
  /\ faults' = faults \cup (IF objs[o].arena = NoArena THEN {} ELSE {"delete_arena"})
  /\ raws' = raws \ {o}
  /\ UNCHANGED <<u, owned, alive, rawVars>>

Swap(s, t) ==
  /\ s # t /\ u[s].ptr # 0
  /\ u' = [u EXCEPT ![s] = u[t], ![t] = u[s]]
  /\ UNCHANGED <<objs, raws, owned, alive, faults, rawVars>>

(* Owned(Unique&&) or a Shared, for an arena-constructible T: a heap object gets a   *)
(* deleting reference count, then the Unique is released.                 *)
ToOwned(s) ==
  /\ u[s].ptr # 0 /\ objs[u[s].ptr].ctor
  /\ LET o == u[s].ptr
     IN /\ owned' = owned \cup {o}
        /\ objs' = IF u[s].arena # NoArena /\ ~objs[o].skip
                   THEN [objs EXCEPT ![o].registered = TRUE] ELSE objs
  /\ u' = [u EXCEPT ![s].ptr = 0]
  /\ UNCHANGED <<raws, alive, faults, rawVars>>

(* The last Owned or Shared goes: the deleting reference count deletes a heap      *)
(* object; an arena object has no count.                                   *)
DropOwned(o) ==
  /\ o \in owned
  /\ objs' = ArenaDestroy(objs, o)
  /\ owned' = owned \ {o}
  /\ UNCHANGED <<u, raws, alive, faults, rawVars>>

-----------------------------------------------------------------------------
(* Raw memory through MemoryManager::Allocate, OwnCustomDestructor and    *)
(* Deallocate, used the way PoolingMemoryManager::MakeShared uses them: a  *)
(* T is constructed in the bytes, its destructor is offered to the         *)
(* manager, and the caller destroys and deallocates it itself when the     *)
(* manager declines.  A null result (heap exhaustion) changes nothing; a   *)
(* size of 0, which the pooling manager answers with nullptr, is never     *)
(* passed.                                                                 *)

(* MemoryManager::Allocate(size, alignment): null arena_ goes to          *)
(* ReferenceCountingMemoryManager::Allocate (the global allocator),        *)
(* otherwise PoolingMemoryManager::Allocate (arena->AllocateAligned).  A   *)
(* T with a trivial (or skippable, k) destructor is never offered to the  *)
(* manager: the caller only owes the Deallocate.                           *)
RawAllocate(a, k) ==
  /\ Len(objs) < MaxObjs
  /\ a \in {b \in Arenas : alive[b]} \cup {NoArena}
  /\ objs' = Append(objs, [arena |-> a, ctor |-> FALSE, skip |-> k,
                           registered |-> FALSE, dtors |-> 0, freed |-> FALSE])
  /\ IF k THEN /\ mine' = mine \cup {Len(objs) + 1} /\ UNCHANGED pending
     ELSE /\ pending' = pending \cup {Len(objs) + 1} /\ UNCHANGED mine
  /\ UNCHANGED <<u, raws, owned, alive, faults>>

(* PoolingMemoryManager::OwnCustomDestructor: arena->OwnCustomDestructor. *)
PoolingOwnCustomDestructor(os, o) == [os EXCEPT ![o].registered = TRUE]

(* Variant of MemoryManager::OwnCustomDestructor that answers true for    *)
(* reference counting as well.                                             *)
OwnCustomDestructorAlwaysTrue(os, o) ==
  [result |-> TRUE,
   objs |-> IF os[o].arena = NoArena THEN os ELSE PoolingOwnCustomDestructor(os, o)]

(* MemoryManager::OwnCustomDestructor: false, nothing registered, for     *)
(* reference counting; the arena registers it and answers true.            *)
MemoryManagerOwnCustomDestructor(os, o) ==
  IF os[o].arena = NoArena THEN [result |-> FALSE, objs |-> os]
  ELSE [result |-> TRUE, objs |-> PoolingOwnCustomDestructor(os, o)]

(* MemoryManager::Deallocate(ptr, size, alignment): reference counting    *)
(* hands the bytes back to the global allocator (true); the pooling       *)
(* manager answers false and the bytes stay with the arena.                *)
MemoryManagerDeallocate(os, o) ==
  IF os[o].arena = NoArena THEN [os EXCEPT ![o].freed = TRUE] ELSE os

(* The caller offers ~T: on true it forgets the pointer, the destructor   *)
(* being the manager's business; on false it keeps the duty.               *)
RawOwnDestructor(o) ==
  /\ o \in pending
  /\ LET r == MemoryManagerOwnCustomDestructor(objs, o)
     IN /\ objs' = r.objs
        /\ mine' = IF r.result THEN mine ELSE mine \cup {o}
  /\ pending' = pending \ {o}
  /\ UNCHANGED <<u, raws, owned, alive, faults>>

(* The caller runs ~T on an object it kept the duty for (none for a      *)
(* trivial one), then Deallocate.                                          *)
RawDestroy(o) ==
  /\ o \in mine
  /\ objs' = MemoryManagerDeallocate(IF objs[o].skip THEN objs ELSE RunDtor(objs, o), o)
  /\ mine' = mine \ {o}
  /\ UNCHANGED <<u, raws, owned, alive, faults, pending>>

(* ~Arena, once nothing the code still uses lives on it: the registered  *)
(* destructors run and the memory goes.                                    *)
DestroyArena(a) ==
  /\ alive[a]
  /\ \A s \in Slots : u[s].ptr # 0 => objs[u[s].ptr].arena # a
  /\ \A o \in owned \cup pending \cup mine : objs[o].arena # a
  /\ alive' = [alive EXCEPT ![a] = FALSE]
  /\ objs' = [o \in Objs |->
                IF objs[o].arena # a THEN objs[o]
                ELSE [objs[o] EXCEPT !.freed = TRUE,
                        !.dtors = IF objs[o].registered THEN @ + 1 ELSE @]]
  /\ UNCHANGED <<u, raws, owned, faults, rawVars>>

Init ==
  /\ objs = <<>> /\ u = [s \in Slots |-> Null] /\ raws = {} /\ owned = {}
  /\ alive = [a \in Arenas |-> TRUE] /\ faults = {}
  /\ pending = {} /\ mine = {}

Next ==
  \/ \E s \in Slots, a \in Arenas \cup {NoArena}, c, k \in BOOLEAN :
       Allocate(s, a, c, k)
  \/ \E s \in Slots, a \in Arenas \cup {NoArena}, k \in BOOLEAN : MakeUnique(s, a, k)
  \/ \E a \in Arenas \cup {NoArena}, k \in BOOLEAN : MakeShared(a, k)
  \/ \E d, s \in Slots : MoveConstruct(d, s) \/ MoveAssign(d, s) \/ Swap(d, s)
  \/ \E s \in Slots : Reset(s) \/ Release(s) \/ ToOwned(s)
  \/ \E s \in Slots, o \in raws : ResetTo(s, o)
  \/ \E o \in raws : DeleteRaw(o)
  \/ \E o \in owned : DropOwned(o)
  \/ \E a \in Arenas : DestroyArena(a)
  \/ \E a \in Arenas \cup {NoArena}, k \in BOOLEAN : RawAllocate(a, k)
  \/ \E o \in pending : RawOwnDestructor(o)
  \/ \E o \in mine : RawDestroy(o)

Spec == Init /\ [][Next]_vars

-----------------------------------------------------------------------------
(* Whoever still refers to object o: a Unique, the caller after release  *)
(* or after a raw allocation, or an Owned.                                 *)
Referenced(o) ==
  \/ \E s \in Slots : u[s].ptr = o
  \/ o \in raws \cup owned \cup pending \cup mine

(* Every object's destructor runs at most once, and once the object's    *)
(* memory is gone (deleted, or its arena destroyed) it has run exactly   *)
(* once unless the type's arena destructor is skippable: Delete, release *)
(* and Arena::Create between them register or run it exactly once.        *)
DestructorRunsOnce ==
  \A o \in Objs :
     /\ objs[o].dtors <= 1
     /\ objs[o].freed /\ ~objs[o].skip => objs[o].dtors = 1

(* A heap object nobody refers to any more has been deleted: no Unique   *)
(* operation drops a heap pointer on the floor.                            *)
NoHeapLeak ==
  \A o \in Objs : objs[o].arena = NoArena /\ ~Referenced(o) => objs[o].freed

(* No Unique, released pointer or Owned refers to an object whose        *)
(* destructor already ran or whose memory is gone, and nothing was       *)
(* destroyed twice or deleted off an arena.                                *)
NoUseAfterDestroy ==
  /\ \A o \in Objs : Referenced(o) => ~Gone(o)
  /\ faults = {}
====
