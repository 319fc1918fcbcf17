----------------------------- MODULE MemoryPool -----------------------------
(***************************************************************************)
(* Core/CoreMemory/MemoryPool: blocks of one size, cut from chunks that    *)
(* are allocated when no block is free, and linked into a free list.       *)
(*                                                                         *)
(* allocate() and deallocate() hold the mutex throughout: each is a step.  *)
(* A MemoryBlock lives in the vector blocks_, which moves when it grows: a *)
(* pointer to one says in which storage of the vector it points, and it    *)
(* dangles when that is not the present one.                               *)
(***************************************************************************)
EXTENDS Integers, Sequences, FiniteSets

CONSTANTS
  Callers,          \* slots for one block each, of any threads
  NoBlock,          \* nullptr
  InitialPoolSize,  \* initialPoolSize_
  MaxChunks         \* bound: chunks after which no allocation fails any more

ASSUME PoolSizeAssumption == InitialPoolSize \in Nat \ {0}
ASSUME MaxChunksAssumption == MaxChunks \in Nat
(* nullptr is no pointer to a block and points to no data.                 *)
ASSUME NoBlockAssumption ==
  NoBlock \notin [storage : Nat, index : Nat] \cup (Nat \X Nat)

VARIABLES
  pool_,      \* the number of chunks
  blocks_,    \* [data, next]: data is <<chunk, offset>>, next a pointer
  storage,    \* how often blocks_ has moved
  freeList_,  \* a pointer
  held,       \* the data each caller was given, or NoBlock
  crashed     \* a null pointer was dereferenced

vars == <<pool_, blocks_, storage, freeList_, held, crashed>>

Pointer(s, i) == [storage |-> s, index |-> i]

Init ==
  /\ pool_ = 0
  /\ blocks_ = <<>>
  /\ storage = 0
  /\ freeList_ = NoBlock
  /\ held = [c \in Callers |-> NoBlock]
  /\ crashed = FALSE

-----------------------------------------------------------------------------
(* Growth. *)

NewPoolSize == IF blocks_ = <<>> THEN InitialPoolSize ELSE 2 * Len(blocks_)

(* The i-th block of a new chunk, i counted from 0, goes in front of the   *)
(* free list, that is, of the block made before it.                        *)
NewBlock(i) ==
  [data |-> <<pool_ + 1, i>>,
   next |-> IF i = 0 THEN freeList_
                     ELSE Pointer(storage + 1, Len(blocks_) + i)]

(* reserve() moves the blocks; filling what it reserved does not.          *)
Grown ==
  LET size == NewPoolSize IN
    [pool |-> pool_ + 1,
     blocks |-> blocks_ \o [k \in 1..size |-> NewBlock(k - 1)],
     storage |-> storage + 1,
     free |-> IF size = 0 THEN freeList_
                          ELSE Pointer(storage + 1, Len(blocks_) + size)]

Unchanged ==
  [pool |-> pool_, blocks |-> blocks_, storage |-> storage, free |-> freeList_]

(* Slip: grow when one free block is left. *)
RunningOut ==
  freeList_ # NoBlock => blocks_[freeList_.index].next = NoBlock

Exhausted == freeList_ = NoBlock

-----------------------------------------------------------------------------

(* With the pool in state p, give its first free block to c. *)
Take(c, p) ==
  IF p.free = NoBlock
    THEN /\ crashed' = TRUE
         /\ freeList_' = p.free
         /\ UNCHANGED held
    ELSE /\ held' = [held EXCEPT ![c] = p.blocks[p.free.index].data]
         /\ freeList_' = p.blocks[p.free.index].next
         /\ UNCHANGED crashed

(* A size above blockSize_ throws and changes nothing.                     *)
allocate(c) ==
  /\ ~crashed
  /\ held[c] = NoBlock
  /\ LET p == IF Exhausted THEN Grown ELSE Unchanged IN
       /\ Take(c, p)
       /\ pool_' = p.pool
       /\ blocks_' = p.blocks
       /\ storage' = p.storage

(* reserve() throws when the chunk is in pool_ already.                    *)
AllocateFails(c) ==
  /\ ~crashed
  /\ held[c] = NoBlock
  /\ Exhausted
  /\ pool_ < MaxChunks
  /\ pool_' = pool_ + 1
  /\ UNCHANGED <<blocks_, storage, freeList_, held, crashed>>

(* The blocks whose data is ptr.  Any other pointer throws.                *)
Matches(ptr) == {i \in 1..Len(blocks_) : blocks_[i].data = ptr}

First(S) == CHOOSE i \in S : \A j \in S : i <= j

(* Slip: freeList_ is assigned before it is linked to. *)
LinkAfterMove(i) ==
  /\ freeList_' = Pointer(storage, i)
  /\ blocks_' = [blocks_ EXCEPT ![i].next = Pointer(storage, i)]

Link(i) ==
  /\ blocks_' = [blocks_ EXCEPT ![i].next = freeList_]
  /\ freeList_' = Pointer(storage, i)

deallocate(c) ==
  /\ ~crashed
  /\ held[c] # NoBlock
  /\ Matches(held[c]) # {}
  /\ Link(First(Matches(held[c])))
  /\ held' = [held EXCEPT ![c] = NoBlock]
  /\ UNCHANGED <<pool_, storage, crashed>>

Next ==
  \E c \in Callers : allocate(c) \/ AllocateFails(c) \/ deallocate(c)

Spec == Init /\ [][Next]_vars

-----------------------------------------------------------------------------

HeldData == {held[c] : c \in Callers} \ {NoBlock}

FreeCount == Len(blocks_) - Cardinality(HeldData)

(* The list behind freeList_: its k-th pointer.                            *)
FreeList ==
  LET at[k \in 1..FreeCount + 1] ==
        IF k = 1 THEN freeList_
        ELSE IF at[k - 1] = NoBlock THEN NoBlock
                                    ELSE blocks_[at[k - 1].index].next
  IN  at

(* Whatever the order of allocations, growths and deallocations, the free  *)
(* list visits the blocks nobody holds, each once, and ends; and although  *)
(* the vector has moved under older pointers, none of those is in it.      *)
(* allocate() never meets an empty list that growing has not filled.       *)
FreeListIsExact ==
  LET Visited == {FreeList[k] : k \in 1..FreeCount}
  IN  /\ ~crashed
      /\ NoBlock \notin Visited
      /\ FreeList[FreeCount + 1] = NoBlock
      /\ \A p \in Visited : p.storage = storage
      /\ {blocks_[p.index].data : p \in Visited}
           = {blocks_[i].data : i \in 1..Len(blocks_)} \ HeldData

(* No block has two owners.                                                *)
Allocator == INSTANCE BlockAllocator
ImplementsAllocator == Allocator!Spec

=============================================================================
