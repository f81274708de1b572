--------------------------- MODULE ArenaBlockPool ---------------------------
(***************************************************************************)
(* DefaultArenaMemoryManager of base/memory_manager.cc: a bump allocator  *)
(* over blocks of pages obtained from mmap.  Addresses are small naturals,*)
(* the page size is a constant and mmap may place a block on any free run *)
(* of pages -- at the hinted address or elsewhere -- or fail.  Allocate   *)
(* and OwnDestructor take mutex_ for their whole body, so each is one     *)
(* atomic step; the destructor runs after every other call has returned.  *)
(***************************************************************************)
EXTENDS Naturals, Sequences, FiniteSets

CONSTANTS
  PageSize,   \* base_internal::GetPageSize()
  NumPages,   \* the pages of address space mmap can hand out (page 0 never)
  Sizes,      \* the sizes callers request
  Aligns,     \* the alignments callers request
  MaxCalls    \* bound on the number of Allocate calls

ASSUME PageSize \in Nat \ {0} /\ NumPages \in Nat
ASSUME Sizes \subseteq Nat \ {0} /\ Aligns \subseteq Nat \ {0}

VARIABLES
  blocks,    \* blocks_: sequence of [begin, end, current]
  owned,     \* owned_: allocation indices, in registration order
  allocs,    \* history: the [ptr, size, align] of every non-null result
  calls,     \* number of Allocate calls so far
  destroyed, \* history: allocation indices whose destructor has run
  phase      \* "running", or "destroyed" once ~DefaultArenaMemoryManager ran

vars == <<blocks, owned, allocs, calls, destroyed, phase>>

(* The addresses of the modelled address space. *)
Addr == 0..((NumPages + 1) * PageSize)

Block == [begin : Addr, end : Addr, current : Addr]

TypeOK ==
  /\ blocks \in Seq(Block)
  /\ allocs \in Seq([ptr : Addr, size : Sizes, align : Aligns])
  /\ owned \in Seq(DOMAIN allocs)
  /\ destroyed \in Seq(DOMAIN allocs)
  /\ calls \in 0..MaxCalls
  /\ phase \in {"running", "destroyed"}

(* Variant of AlignUp that rounds down.                                   *)
AlignUpRoundingDown(x, a) == (x \div a) * a

(* AlignUp from the internal headers: the least multiple of a >= x.       *)
AlignUp(x, a) == ((x + a - 1) \div a) * a

MinOf(a, b) == IF a < b THEN a ELSE b

(* Variants of remaining() off by one and of Align() that does nothing.  *)
RemainingOffByOne(b) == b.end - b.current + 1
AlignBlockSkipped(b, a) == b

(* ArenaBlock::remaining and ArenaBlock::Align.                           *)
Remaining(b) == b.end - b.current
AlignBlock(b, a) == [b EXCEPT !.current = MinOf(b.end, AlignUp(b.current, a))]

(* ArenaBlock::Allocate(n): bump current by n.                            *)
Bump(b, n) == [b EXCEPT !.current = @ + n]

(* The blocks ArenaBlockAllocate(len, hint) can return: any run of len    *)
(* bytes starting on a page that no block of this arena occupies.  The    *)
(* hint is only a suggestion, so it does not narrow the choice.           *)
Mmap(len) ==
  { [begin |-> p * PageSize, end |-> p * PageSize + len,
     current |-> p * PageSize] :
      p \in {q \in 1..NumPages :
               /\ q * PageSize + len <= (NumPages + 1) * PageSize
               /\ \A i \in DOMAIN blocks :
                    \/ q * PageSize + len <= blocks[i].begin
                    \/ blocks[i].end <= q * PageSize} }

(* Variant of the bridge_gap test that ignores where mmap put the block.  *)
BridgeGapAlways(last, nb) == TRUE

(* bridge_gap: the new block starts where the last one ends.              *)
BridgeGap(last, nb) == last.end = nb.begin

Result(ptr, size, align) == [ptr |-> ptr, size |-> size, align |-> align]

(* Allocate(size, align): the page-size refusal before the lock.          *)
AllocateRefused(size, align) ==
  /\ align > PageSize
  /\ UNCHANGED <<blocks, allocs>>

(* Allocate with the lock held.  blocks_.back().Align(align) has already  *)
(* moved the last block's current, whatever happens next.                 *)
AllocateLocked(size, align) ==
  LET n   == Len(blocks)
      ab  == IF n = 0 THEN blocks
             ELSE [blocks EXCEPT ![n] = AlignBlock(@, align)]
      len == AlignUp(size, PageSize)
  IN
  /\ align <= PageSize
  /\ IF n = 0 \/ Remaining(ab[n]) = 0
     THEN \* no block, or alignment used up the last one: a fresh block
          \/ blocks' = ab /\ UNCHANGED allocs          \* mmap failed
          \/ \E nb \in Mmap(len) :
               /\ blocks' = Append(ab, Bump(nb, size))
               /\ allocs' = Append(allocs, Result(nb.begin, size, align))
     ELSE IF Remaining(ab[n]) >= size
     THEN \* bump allocation from the aligned last block
          /\ blocks' = [ab EXCEPT ![n] = Bump(@, size)]
          /\ allocs' = Append(allocs, Result(ab[n].current, size, align))
     ELSE \* too small: a new block hinted at last_block.end
          \/ blocks' = ab /\ UNCHANGED allocs          \* mmap failed
          \/ \E nb \in Mmap(len) :
               LET rem == Remaining(ab[n]) IN
               IF BridgeGap(ab[n], nb)
               THEN \* bridge_gap: span the tail of the last block
                    /\ blocks' = Append([ab EXCEPT ![n] = Bump(@, rem)],
                                        Bump(nb, size - rem))
                    /\ allocs' = Append(allocs,
                                        Result(ab[n].current, size, align))
               ELSE /\ blocks' = Append(ab, Bump(nb, size))
                    /\ allocs' = Append(allocs, Result(nb.begin, size, align))

Allocate(size, align) ==
  /\ phase = "running" /\ calls < MaxCalls
  /\ calls' = calls + 1
  /\ AllocateRefused(size, align) \/ AllocateLocked(size, align)
  /\ UNCHANGED <<owned, destroyed, phase>>

(* OwnDestructor(pointer, destruct): record the pair in owned_.  Callers  *)
(* register an object they allocated from this arena, once.               *)
OwnDestructor(i) ==
  /\ phase = "running"
  /\ i \in DOMAIN allocs
  /\ \A k \in DOMAIN owned : owned[k] # i
  /\ owned' = Append(owned, i)
  /\ UNCHANGED <<blocks, allocs, calls, destroyed, phase>>

(* ~DefaultArenaMemoryManager: run every owned destructor in order, then *)
(* munmap every block.                                                    *)
Destroy ==
  /\ phase = "running"
  /\ destroyed' = owned
  /\ blocks' = <<>>
  /\ phase' = "destroyed"
  /\ UNCHANGED <<owned, allocs, calls>>

Init ==
  /\ blocks = <<>>
  /\ owned = <<>>
  /\ allocs = <<>>
  /\ calls = 0
  /\ destroyed = <<>>
  /\ phase = "running"

Next ==
  \/ \E s \in Sizes, a \in Aligns : Allocate(s, a)
  \/ \E i \in 1..MaxCalls : OwnDestructor(i)
  \/ Destroy

Spec == Init /\ [][Next]_vars

-----------------------------------------------------------------------------
Bytes(a) == a.ptr .. (a.ptr + a.size - 1)

(* No two results of Allocate overlap: neither the bridge that spans two  *)
(* blocks nor the Align side effect on a failed call hands out a byte     *)
(* twice.                                                                  *)
AllocationsDisjoint ==
  \A i, j \in DOMAIN allocs : i # j => Bytes(allocs[i]) \cap Bytes(allocs[j]) = {}

(* While the arena lives, every byte of every result lies in a mapped     *)
(* block below its current pointer: a bridged result is backed by the     *)
(* second-to-last block and by the block mmap placed right after it.      *)
AllocationsBacked ==
  phase = "running" =>
    \A i \in DOMAIN allocs : \A x \in Bytes(allocs[i]) :
      \E k \in DOMAIN blocks : blocks[k].begin <= x /\ x < blocks[k].current

(* Every result is aligned as requested.                                   *)
AllocationsAligned ==
  \A i \in DOMAIN allocs : allocs[i].ptr % allocs[i].align = 0

(* Each block keeps begin <= current <= end (ArenaBlock::Allocate's       *)
(* ABSL_ASSERT, compiled out in release builds), starts on a page and     *)
(* does not overlap another block.                                        *)
BlocksWellFormed ==
  /\ \A k \in DOMAIN blocks :
       /\ blocks[k].begin <= blocks[k].current
       /\ blocks[k].current <= blocks[k].end
       /\ blocks[k].begin % PageSize = 0
  /\ \A k, l \in DOMAIN blocks :
       k # l => blocks[k].end <= blocks[l].begin \/ blocks[l].end <= blocks[k].begin

(* A call never gives back memory: it keeps every existing block where it *)
(* is and never moves a current pointer backwards.                         *)
BlocksOnlyGrow ==
  [][phase' = "running" =>
       /\ Len(blocks') >= Len(blocks)
       /\ \A k \in DOMAIN blocks :
            /\ blocks'[k].begin = blocks[k].begin
            /\ blocks'[k].end = blocks[k].end
            /\ blocks'[k].current >= blocks[k].current]_vars

=============================================================================
