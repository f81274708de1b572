----------------------------- MODULE ControlBlock -----------------------------
(***************************************************************************)
(* The reference-counting path of base/memory_manager.cc: a               *)
(* MemoryManager that is not allocation-only embeds a ControlBlock (an    *)
(* atomic count and a pointer back to the manager) before or after every  *)
(* allocation, depending on alignment.  Ref, Unref and DeallocateInternal *)
(* find the block again from the user pointer and the unadjusted size.    *)
(*                                                                         *)
(* The placement arithmetic is a set of operators over W-bit addresses.   *)
(* The protocol is one allocation at a time, shared by a few threads that *)
(* copy (Ref), hand over and drop (Unref) their references.  Each fetch_add *)
(* and fetch_sub is one atomic step; the deallocation that follows the    *)
(* last Unref is a step of its own.                                        *)
(***************************************************************************)
EXTENDS Naturals, Bitwise, FiniteSets, Functions

CONSTANTS
  Threads,     \* threads holding copies of the handle
  Managers,    \* {"global", "arena"}: allocation_only_ is true for "arena"
  Sizes,       \* sizeof(T) requests
  Aligns,      \* alignof(T) requests, powers of two
  CBSize,      \* kControlBlockSize
  CBAlign,     \* kControlBlockAlign
  MaxAlign,    \* alignof(std::max_align_t), also what plain new guarantees
  W,           \* width of uintptr_t in the model
  Addrs,       \* addresses operator new may return
  MaxRefs      \* bound on the count

VARIABLES
  obj,      \* the allocation: [state, mgr, base, len, cb] as new returned
            \* and built it, and the handle's [user, size, align]
  refs,     \* ControlBlock::refs, or 0 when there is no block
  hold,     \* hold[t]: references thread t owns
  pending,  \* threads whose Unref returned true and must deallocate
  frees,    \* number of memory_manager->Deallocate calls
  faults    \* memory errors committed

vars == <<obj, refs, hold, pending, frees, faults>>

Word == 2^W

-----------------------------------------------------------------------------
(* Variant that adds align instead of align - 1.                           *)
AlignUpPastBoundary(n, al) == ((n + al) % Word) & ((Word - 1) - (al - 1))

(* AlignUp(size, align) with the mask of the non-builtin branch.           *)
AlignUp(n, al) == ((n + al - 1) % Word) & ((Word - 1) - (al - 1))

GetPlacement(al) == IF al <= CBAlign THEN "before" ELSE "after"

(* Variant that rounds only the payload, not the block's offset.           *)
AdjustAllocationSizeUnaligned(size, al) == size + CBSize

(* AdjustAllocationSize: with the block after the payload, the payload is *)
(* padded to the block's alignment first.                                  *)
AdjustAllocationSize(size, al) ==
  (IF GetPlacement(al) = "after" THEN AlignUp(size, CBAlign) ELSE size) + CBSize

(* AdjustAfterAllocation: where the block is built and the user pointer.  *)
AdjustAfterAllocation(p, adjusted, al) ==
  IF GetPlacement(al) = "before"
  THEN [cb |-> p, user |-> (p + CBSize) % Word]
  ELSE [cb |-> (p + adjusted - CBSize) % Word, user |-> p]

AdjustForDeallocation(p, al) ==
  IF GetPlacement(al) = "before" THEN (p - CBSize) % Word ELSE p

(* GetControlBlock(pointer, size, align), size already adjusted.          *)
GetControlBlock(p, adjusted, al) ==
  IF GetPlacement(al) = "before" THEN (p - CBSize) % Word
  ELSE (p + adjusted - CBSize) % Word

(* GlobalMemoryManager::Allocate: plain new up to max_align_t, aligned new *)
(* above it.  Both may fail with nullptr (std::nothrow).                   *)
NewAlignment(al) == IF al <= MaxAlign THEN MaxAlign ELSE al
Allocate(al) == {p \in Addrs : p % NewAlignment(al) = 0} \cup {0}

(* The block found from the live allocation's user pointer.                *)
BlockOf(o) == GetControlBlock(o.user, AdjustAllocationSize(o.size, o.align), o.align)

NoObj == [state |-> "none", mgr |-> "global", base |-> 0, len |-> 0, cb |-> 0,
          size |-> 0, align |-> 0, user |-> 0]

TypeOK ==
  /\ obj.state \in {"none", "live", "freed"} /\ obj.mgr \in Managers
  /\ refs \in 0..MaxRefs
  /\ hold \in [Threads -> 0..MaxRefs]
  /\ pending \subseteq Threads
  /\ frees \in 0..2
  /\ faults \subseteq {"ref_dead", "unref_dead", "wrong_block", "read_freed",
                     "bad_delete"}

-----------------------------------------------------------------------------
(* ControlBlock::Unref: fetch_sub, and true when the old count was 1.     *)
UnrefReturnsOnZero(cnt) == cnt = 0
Unref(cnt) == cnt = 1

(* MemoryManager::AllocateInternal followed by construction, by thread t, *)
(* once every handle on the previous allocation is gone.  A failed or     *)
(* allocation-only allocation zeroes size and align, so the handle        *)
(* carries no block.                                                       *)
New(t, mgr, size, al) ==
  /\ \A u \in Threads : hold[u] = 0
  /\ pending = {}
  /\ \E p \in Allocate(al) :
       LET adjusted == IF mgr = "arena" THEN size ELSE AdjustAllocationSize(size, al)
           placed == AdjustAfterAllocation(p, adjusted, al)
           ok == p # 0 /\ mgr = "global"
       IN /\ obj' = [state |-> IF p = 0 THEN "none" ELSE "live", mgr |-> mgr,
                     base |-> p, len |-> adjusted,
                     cb |-> IF ok THEN placed.cb ELSE 0,
                     size |-> IF ok THEN size ELSE 0,
                     align |-> IF ok THEN al ELSE 0,
                     user |-> IF ok THEN placed.user ELSE p]
          /\ refs' = IF ok THEN 1 ELSE 0
          /\ hold' = [hold EXCEPT ![t] = IF p = 0 THEN 0 ELSE 1]
  /\ frees' = 0
  /\ UNCHANGED <<pending, faults>>

(* MemoryManager::Ref from a handle thread t owns (a copy).               *)
Ref(t) ==
  /\ obj.state # "none" /\ hold[t] >= 1 /\ hold[t] < MaxRefs /\ refs < MaxRefs
  /\ hold' = [hold EXCEPT ![t] = @ + 1]
  /\ IF obj.size # 0
     THEN /\ refs' = refs + 1
          /\ faults' = faults
                \cup (IF refs >= 1 /\ obj.state = "live" THEN {} ELSE {"ref_dead"})
                \cup (IF BlockOf(obj) = obj.cb THEN {} ELSE {"wrong_block"})
     ELSE UNCHANGED <<refs, faults>>
  /\ UNCHANGED <<obj, pending, frees>>

(* Moving a handle to another thread: no count change.                    *)
HandOver(t, u) ==
  /\ obj.state # "none" /\ t # u /\ hold[t] >= 1 /\ hold[u] < MaxRefs
  /\ hold' = [hold EXCEPT ![t] = @ - 1, ![u] = @ + 1]
  /\ UNCHANGED <<obj, refs, pending, frees, faults>>

(* Variant of UnrefInternal without the size != 0 test.                  *)
DropIgnoringSize(t) ==
  /\ obj.state # "none" /\ hold[t] >= 1 /\ t \notin pending
  /\ hold' = [hold EXCEPT ![t] = @ - 1]
  /\ refs' = (refs - 1) % Word
  /\ pending' = IF Unref(refs) THEN pending \cup {t} ELSE pending
  /\ faults' = faults
        \cup (IF refs >= 1 THEN {} ELSE {"unref_dead"})
        \cup (IF BlockOf(obj) = obj.cb THEN {} ELSE {"wrong_block"})
  /\ UNCHANGED <<obj, frees>>

(* MemoryManager::UnrefInternal from a handle thread t drops.             *)
Drop(t) ==
  /\ obj.state # "none" /\ hold[t] >= 1 /\ t \notin pending
  /\ hold' = [hold EXCEPT ![t] = @ - 1]
  /\ IF obj.size # 0
     THEN /\ refs' = (refs - 1) % Word
          /\ pending' = IF Unref(refs) THEN pending \cup {t} ELSE pending
          /\ faults' = faults
                \cup (IF refs >= 1 THEN {} ELSE {"unref_dead"})
                \cup (IF BlockOf(obj) = obj.cb THEN {} ELSE {"wrong_block"})
     ELSE UNCHANGED <<refs, pending, faults>>
  /\ UNCHANGED <<obj, frees>>

(* Variant of DeallocateInternal that hands back the unadjusted size.     *)
DeallocateUnadjusted(o) ==
  [base |-> AdjustForDeallocation(o.user, o.align), len |-> o.size]

(* DeallocateInternal: re-adjust the size, find the block, read its       *)
(* manager, step back to the base and call the manager's Deallocate.     *)
DeallocateInternal(o) ==
  [base |-> AdjustForDeallocation(o.user, o.align),
   len |-> AdjustAllocationSize(o.size, o.align)]

Deallocate(t) ==
  /\ t \in pending
  /\ LET d == DeallocateInternal(obj)
     IN faults' = faults
          \cup (IF obj.state = "live" THEN {} ELSE {"read_freed"})
          \cup (IF BlockOf(obj) = obj.cb THEN {} ELSE {"wrong_block"})
          \cup (IF d.base = obj.base /\ d.len = obj.len THEN {} ELSE {"bad_delete"})
  /\ obj' = [obj EXCEPT !.state = "freed"]
  /\ pending' = pending \ {t}
  /\ frees' = frees + 1
  /\ UNCHANGED <<refs, hold>>

Init ==
  /\ obj = NoObj /\ refs = 0 /\ hold = [t \in Threads |-> 0]
  /\ pending = {} /\ frees = 0 /\ faults = {}

Next ==
  \/ \E t \in Threads, mgr \in Managers, s \in Sizes, al \in Aligns :
       New(t, mgr, s, al)
  \/ \E t \in Threads : Ref(t) \/ Drop(t) \/ Deallocate(t)
  \/ \E t, u \in Threads : HandOver(t, u)

Spec == Init /\ [][Next]_vars

(* The thread whose fetch_sub saw 1 goes on, in the same call, to        *)
(* DeallocateInternal: nothing it waits for, so it is weakly fair.  The  *)
(* other threads' calls are up to the program and get no fairness.        *)
FairSpec == Spec /\ \A t \in Threads : WF_vars(Deallocate(t))

-----------------------------------------------------------------------------
(* The least multiple of al that is at least n.                            *)
LeastMultiple(n, al) == CHOOSE m \in n..(n + al) : m % al = 0

(* The mask form of AlignUp agrees with rounding up to the next multiple, *)
(* for the size of every allocation made and every alignment.             *)
AlignUpRoundsUp ==
  obj.state = "live" /\ obj.size # 0 =>
    \A al \in Aligns : AlignUp(obj.size, al) = LeastMultiple(obj.size, al)

(* P3 and the placement policy, for every allocation made with a block:   *)
(* the pointer and size Ref, Unref and DeallocateInternal get lead back  *)
(* to the block AdjustAfterAllocation built and to the base new returned; *)
(* the payload is aligned to its alignment, the block to its own, and     *)
(* both lie disjoint inside what new returned.                            *)
PlacementSound ==
  obj.state = "live" /\ obj.size # 0 =>
    /\ AdjustForDeallocation(obj.user, obj.align) = obj.base
    /\ BlockOf(obj) = obj.cb
    /\ obj.user % obj.align = 0
    /\ obj.cb % CBAlign = 0
    /\ obj.base <= obj.user /\ obj.user + obj.size <= obj.base + obj.len
    /\ obj.base <= obj.cb /\ obj.cb + CBSize <= obj.base + obj.len
    /\ \/ obj.user + obj.size <= obj.cb
       \/ obj.cb + CBSize <= obj.user

(* References the threads own.                                             *)
Held == SumFunction(hold)

(* While the allocation has a block, its count is the number of handles  *)
(* the threads own, and the allocation is freed exactly once, by the     *)
(* thread whose Unref saw 1, as soon as no handle is left; an            *)
(* allocation-only or failed allocation is never freed through a block.  *)
FreedOnceWhenUnowned ==
  /\ frees <= 1
  /\ obj.size = 0 => frees = 0
  /\ obj.size # 0 /\ obj.state = "live" => refs = Held
  /\ obj.size # 0 /\ Held = 0 /\ pending = {} => frees = 1

(* No Ref or Unref on a dead count, no read of a freed block and no      *)
(* sized delete with a size or base new did not return.                   *)
NoAllocatorMisuse == faults = {}

(* An allocation with a control block whose last handle has been dropped *)
(* is eventually given back to operator delete: whichever of the racing   *)
(* Unrefs saw the count at 1 goes on to DeallocateInternal.               *)
EventuallyFreed ==
  (obj.state = "live" /\ obj.size # 0 /\ Held = 0) ~> (obj.state = "freed")

====
