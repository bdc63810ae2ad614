---------------------------- MODULE Suballocator ----------------------------
(***************************************************************************)
(* Upload and readback memory (BlockAllocators.inl, Allocator.h): a buddy  *)
(* allocator hands out blocks of a virtual range that is cut into buckets, *)
(* each of them backed by one buffer while a block in it is in use; what   *)
(* is too large, or may not have an offset, has a buffer of its own.       *)
(* Every call holds the allocator's lock, and the buffer of a new block is *)
(* asked for in a second call.  A block is given back only when no list    *)
(* uses it any longer, which is CommandLists' subject.                     *)
(***************************************************************************)
EXTENDS Integers, FiniteSets, FiniteSetsExt

CONSTANTS
  HeapBuffers,       \* what InternalHeapAllocator can come by
  Callers,       \* the threads that allocate
  ByteSizes,     \* the sizes asked for
  MinBlockSize,  \* bytes in a unit; offsets and sizes of blocks are in units
  MaxOrder,      \* the range has 2^MaxOrder units
  BucketOrder    \* and a bucket 2^BucketOrder

NoBuffer == "none"

ASSUME SuballocatorAssumption ==
  /\ NoBuffer \notin HeapBuffers
  /\ MinBlockSize \in Nat \ {0} /\ ByteSizes \subseteq Nat \ {0}
  /\ BucketOrder \in Nat /\ MaxOrder \in Nat /\ BucketOrder <= MaxOrder

VARIABLES
  freeBlocks,   \* by order, where the free blocks are
  allocations,  \* by bucket, how many blocks use its buffer
  placing,      \* by caller, the block it has been given and not yet asked about
  placed,       \* the suballocations in use, with their buffers
  owned         \* the buffers the allocators hold

suballocatorVars == <<freeBlocks, allocations, placing, placed, owned>>

Orders == 0 .. MaxOrder
Buckets == 0 .. 2 ^ (MaxOrder - BucketOrder) - 1

NoBlock == [at |-> -1, order |-> 0, direct |-> NoBuffer]
Block(at, order) == [at |-> at, order |-> order, direct |-> NoBuffer]
DirectBlock(b) == [at |-> 0, order |-> 0, direct |-> b]
IsDirectAllocation(block) == block.direct # NoBuffer

\* The least order of a block that holds so many bytes.
OrderOf(size) ==
  Min({k \in Orders : 2 ^ k >= (size + MinBlockSize - 1) \div MinBlockSize})
BucketFromOffset(at) == at \div 2 ^ BucketOrder

ResourceNeedsOwnAllocation(size, cannotBeOffset) ==
  size > 2 ^ BucketOrder * MinBlockSize \/ cannotBeOffset

-----------------------------------------------------------------------------
(* The buddy allocator.                                                    *)

Roomy(order) == {k \in order .. MaxOrder : freeBlocks[k] # {}}
FirstFree(order) == Min(freeBlocks[Min(Roomy(order))])

\* The first free block of the least order there is; its right halves are free.
AllocateBlock(order) ==
  LET from == Min(Roomy(order))
      at == FirstFree(order)
  IN [k \in Orders |->
       IF k = from THEN freeBlocks[k] \ {at}
       ELSE IF k \in order .. from - 1 THEN freeBlocks[k] \cup {at + 2 ^ k}
       ELSE freeBlocks[k]]

\* Mutant: the buddy is always on the right.
BuddyOnTheRight(at, order) == at + 2 ^ order

\* offset ^ size, for an offset that is a multiple of the size.
BuddyOffset(at, order) ==
  IF (at \div 2 ^ order) % 2 = 0 THEN at + 2 ^ order ELSE at - 2 ^ order

\* Where a block begins once it has been joined to its buddy, and so on.
Joined(at, order) ==
  LET joined[k \in order .. MaxOrder] ==
        IF k = order THEN at ELSE Min({joined[k - 1], BuddyOffset(joined[k - 1], k - 1)})
  IN joined

\* The free blocks once a block has been joined as far as its buddies are free.
DeallocateBlock(free, at, order) ==
  LET joined == Joined(at, order)
      last == Min({k \in order .. MaxOrder : BuddyOffset(joined[k], k) \notin free[k]})
  IN [k \in Orders |->
       IF k \in order .. last - 1 THEN free[k] \ {BuddyOffset(joined[k], k)}
       ELSE IF k = last THEN free[k] \cup {joined[k]}
       ELSE free[k]]

-----------------------------------------------------------------------------
(* Allocation.                                                             *)

AllocateDirect(c, size, cannotBeOffset) ==
  /\ placing[c] = NoBlock /\ ResourceNeedsOwnAllocation(size, cannotBeOffset)
  /\ \E b \in HeapBuffers \ owned :
       /\ owned' = owned \cup {b}
       /\ placing' = [placing EXCEPT ![c] = DirectBlock(b)]
  /\ UNCHANGED <<freeBlocks, allocations, placed>>

\* The first block of a bucket brings its buffer.
AllocateShared(c, size, cannotBeOffset) ==
  LET order == OrderOf(size)
      at == FirstFree(order)
      bucket == BucketFromOffset(at)
  IN /\ placing[c] = NoBlock /\ ~ResourceNeedsOwnAllocation(size, cannotBeOffset)
     /\ Roomy(order) # {}
     /\ freeBlocks' = AllocateBlock(order)
     /\ \E b \in IF allocations[bucket].refcount = 0
                   THEN HeapBuffers \ owned ELSE {allocations[bucket].buffer} :
          /\ allocations' = [allocations EXCEPT ![bucket] =
               [refcount |-> @.refcount + 1, buffer |-> b]]
          /\ owned' = owned \cup {b}
     /\ placing' = [placing EXCEPT ![c] = Block(at, order)]
     /\ UNCHANGED placed

(* There is no buffer for the bucket: the block is given back and the call *)
(* fails, as it does, without a change, when the range has no room.        *)
AllocateFails(size) ==
  LET order == OrderOf(size)
      at == FirstFree(order)
  IN /\ ~ResourceNeedsOwnAllocation(size, FALSE) /\ Roomy(order) # {}
     /\ allocations[BucketFromOffset(at)].refcount = 0
     /\ freeBlocks' = DeallocateBlock(AllocateBlock(order), at, order)
     /\ UNCHANGED <<allocations, placing, placed, owned>>

GetInnerAllocation(c) ==
  LET block == placing[c]
      buffer == IF IsDirectAllocation(block) THEN block.direct
                ELSE allocations[BucketFromOffset(block.at)].buffer
  IN /\ block # NoBlock
     /\ placed' = placed \cup {[block |-> block, buffer |-> buffer]}
     /\ placing' = [placing EXCEPT ![c] = NoBlock]
     /\ UNCHANGED <<freeBlocks, allocations, owned>>

DeallocateDirect(s) ==
  /\ IsDirectAllocation(s.block)
  /\ placed' = placed \ {s} /\ owned' = owned \ {s.block.direct}
  /\ UNCHANGED <<freeBlocks, allocations, placing>>

\* The last block of a bucket gives its buffer back.
DeallocateShared(s) ==
  LET bucket == BucketFromOffset(s.block.at)
      left == allocations[bucket].refcount - 1
  IN /\ ~IsDirectAllocation(s.block)
     /\ allocations' = [allocations EXCEPT ![bucket] =
          [refcount |-> left, buffer |-> IF left = 0 THEN NoBuffer ELSE @.buffer]]
     /\ owned' = IF left = 0 THEN owned \ {allocations[bucket].buffer} ELSE owned
     /\ freeBlocks' = DeallocateBlock(freeBlocks, s.block.at, s.block.order)
     /\ placed' = placed \ {s}
     /\ UNCHANGED placing

-----------------------------------------------------------------------------
SuballocatorInit ==
  /\ freeBlocks = [k \in Orders |-> IF k = MaxOrder THEN {0} ELSE {}]
  /\ allocations = [k \in Buckets |-> [refcount |-> 0, buffer |-> NoBuffer]]
  /\ placing = [c \in Callers |-> NoBlock] /\ placed = {} /\ owned = {}

SuballocatorNext ==
  \/ \E c \in Callers, size \in ByteSizes, cannotBeOffset \in BOOLEAN :
       \/ AllocateDirect(c, size, cannotBeOffset)
       \/ AllocateShared(c, size, cannotBeOffset)
  \/ \E size \in ByteSizes : AllocateFails(size)
  \/ \E c \in Callers : GetInnerAllocation(c)
  \/ \E s \in placed : DeallocateDirect(s) \/ DeallocateShared(s)

SuballocatorSpec == SuballocatorInit /\ [][SuballocatorNext]_suballocatorVars

-----------------------------------------------------------------------------
InUse == {s.block : s \in placed} \cup ({placing[c] : c \in Callers} \ {NoBlock})
Shared == {block \in InUse : ~IsDirectAllocation(block)}
Units(at, order) == at .. at + 2 ^ order - 1

SomeFree == UNION {{Block(at, k) : at \in freeBlocks[k]} : k \in Orders}

\* Every unit is in one block, free or in use.
RangeIsDivided ==
  /\ \A u \in Units(0, MaxOrder) :
       Cardinality({x \in SomeFree \cup Shared : u \in Units(x.at, x.order)}) = 1
  /\ SomeFree \cap Shared = {}

\* No two free blocks could be one.
BuddiesAreJoined ==
  \A k \in 0 .. MaxOrder - 1 : \A at \in freeBlocks[k] :
    (at \div 2 ^ k) % 2 = 0 => at + 2 ^ k \notin freeBlocks[k]

\* A bucket counts the blocks in it, and the buffers held are those in use.
BucketsAreCounted ==
  /\ \A k \in Buckets : allocations[k].refcount =
       Cardinality({x \in Shared : BucketFromOffset(x.at) = k})
  /\ owned = {allocations[k].buffer : k \in {n \in Buckets : allocations[n].refcount > 0}}
       \cup {x.direct : x \in {y \in InUse : IsDirectAllocation(y)}}

(* Two suballocations never share memory, one never reaches past its       *)
(* buffer, which is held as long as it is in use; nothing is lost by       *)
(* splitting and joining: all of the range is free or in use, and what can *)
(* be joined is.                                                           *)
SuballocationsApart ==
  /\ \A s, t \in placed : s # t /\ s.buffer = t.buffer =>
       /\ ~IsDirectAllocation(s.block) /\ ~IsDirectAllocation(t.block)
       /\ Units(s.block.at, s.block.order) \cap Units(t.block.at, t.block.order) = {}
  /\ \A s \in placed : s.buffer \in owned
  /\ \A x \in Shared : (x.at % 2 ^ BucketOrder) + 2 ^ x.order <= 2 ^ BucketOrder
  /\ RangeIsDivided /\ BuddiesAreJoined /\ BucketsAreCounted
=============================================================================
