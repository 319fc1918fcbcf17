-------------------------- MODULE MemoryPoolProofs --------------------------
(***************************************************************************)
(* What MemoryPool promises, for any number of callers, any size of the    *)
(* first chunk and however often the pool grows: the free list is exactly  *)
(* the blocks nobody holds, and no block has two owners.                   *)
(***************************************************************************)
EXTENDS MemoryPool, SequenceTheorems, FunctionTheorems, FiniteSetTheorems, TLAPS

-----------------------------------------------------------------------------
(* Chains. The free list is given by the indices L[1], ..., L[n] of its    *)
(* blocks: L names no block twice, free points to the first one, and the   *)
(* next pointer of each to the one after it.                               *)

Pointers == [storage : Nat, index : Nat]
Data == Nat \X Nat
Blocks == [data : Data, next : Pointers \cup {NoBlock}]

To(n, L, s, k) == IF k <= n THEN Pointer(s, L[k]) ELSE NoBlock

Chain(n, L, blocks, s, free) ==
  /\ \A j, k \in 1..n : L[j] = L[k] => j = k
  /\ free = To(n, L, s, 1)
  /\ \A k \in 1..n : blocks[L[k]].next = To(n, L, s, k + 1)

Listed(n, L) == {L[k] : k \in 1..n}

Rest(n, L) == [k \in 1..(n - 1) |-> L[k + 1]]
Relinked(linked, blocks, m, i, free) ==
  /\ linked[i].next = free
  /\ \A j \in 1..m : j # i => linked[j].next = blocks[j].next
Pushed(n, L, i) == [k \in 1..(n + 1) |-> IF k = 1 THEN i ELSE L[k - 1]]

LEMMA PointerFacts ==
  ASSUME NEW s \in Nat, NEW i \in Nat
  PROVE  /\ Pointer(s, i) \in Pointers /\ Pointer(s, i) # NoBlock
         /\ Pointer(s, i).storage = s /\ Pointer(s, i).index = i
BY NoBlockAssumption DEF Pointer, Pointers

(* A list is empty when there is nothing to point to.                      *)
LEMMA EmptyChain ==
  ASSUME NEW n \in Nat, NEW m \in Nat, NEW L \in [1..n -> 1..m],
         NEW blocks, NEW s \in Nat, Chain(n, L, blocks, s, NoBlock)
  PROVE  n = 0
<1> SUFFICES ASSUME n # 0 PROVE FALSE
  OBVIOUS
<1>1. 1 <= n /\ L[1] \in Nat
  OBVIOUS
<1>2. NoBlock = Pointer(s, L[1])
  BY <1>1 DEF Chain, To
<1> QED BY <1>1, <1>2, PointerFacts

(* The first block taken off, the rest is a chain.                         *)
LEMMA ChainTail ==
  ASSUME NEW n \in Nat \ {0}, NEW m \in Nat, NEW L \in [1..n -> 1..m],
         NEW blocks, NEW s \in Nat, NEW free, Chain(n, L, blocks, s, free)
  PROVE  /\ Rest(n, L) \in [1..(n - 1) -> 1..m]
         /\ Chain(n - 1, Rest(n, L), blocks, s, blocks[L[1]].next)
         /\ Listed(n - 1, Rest(n, L)) = Listed(n, L) \ {L[1]}
<1> DEFINE M == Rest(n, L)
<1>1. M \in [1..(n - 1) -> 1..m] /\ \A k \in 1..(n - 1) : M[k] = L[k + 1]
  BY DEF Rest
<1> HIDE DEF M
<1>2. \A k \in 1..n : To(n - 1, M, s, k) = To(n, L, s, k + 1)
  BY <1>1 DEF To
<1>3. Chain(n - 1, M, blocks, s, blocks[L[1]].next)
  <2>1. \A j, k \in 1..(n - 1) : M[j] = M[k] => j = k
    BY <1>1 DEF Chain
  <2>2. blocks[L[1]].next = To(n - 1, M, s, 1)
    BY <1>2 DEF Chain
  <2>3. ASSUME NEW k \in 1..(n - 1)
        PROVE  blocks[M[k]].next = To(n - 1, M, s, k + 1)
    <3>1. k + 1 \in 1..n
      OBVIOUS
    <3>2. blocks[L[k + 1]].next = To(n, L, s, (k + 1) + 1)
      BY <3>1 DEF Chain
    <3> QED BY <1>1, <1>2, <3>1, <3>2
  <2> QED BY <2>1, <2>2, <2>3 DEF Chain
<1>4. Listed(n - 1, M) = Listed(n, L) \ {L[1]}
  <2>1. ASSUME NEW x \in Listed(n, L) \ {L[1]} PROVE x \in Listed(n - 1, M)
    <3>1. PICK k \in 1..n : x = L[k]
      BY <2>1 DEF Listed
    <3>2. k - 1 \in 1..(n - 1) /\ (k - 1) + 1 = k
      BY <2>1, <3>1
    <3>3. M[k - 1] = x
      BY <1>1, <3>1, <3>2
    <3> QED BY <3>2, <3>3 DEF Listed
  <2>2. ASSUME NEW x \in Listed(n - 1, M) PROVE x \in Listed(n, L) \ {L[1]}
    <3>1. PICK k \in 1..(n - 1) : x = M[k]
      BY <2>2 DEF Listed
    <3>2. k + 1 \in 1..n /\ k + 1 # 1 /\ 1 \in 1..n /\ x = L[k + 1]
      BY <1>1, <3>1
    <3> QED BY <3>2 DEF Listed, Chain
  <2> QED BY <2>1, <2>2
<1> QED BY <1>1, <1>3, <1>4 DEF M

LEMMA ListedPushed ==
  ASSUME NEW n \in Nat, NEW L, NEW i
  PROVE  Listed(n + 1, Pushed(n, L, i)) = Listed(n, L) \cup {i}
<1> DEFINE M == Pushed(n, L, i)
<1>1. M[1] = i /\ \A k \in 2..(n + 1) : M[k] = L[k - 1] /\ k - 1 \in 1..n
  BY DEF Pushed
<1> HIDE DEF M
<1>2. ASSUME NEW x \in Listed(n + 1, M) PROVE x \in Listed(n, L) \cup {i}
  <2>1. PICK k \in 1..(n + 1) : x = M[k]
    BY <1>2 DEF Listed
  <2>2. k = 1 \/ k \in 2..(n + 1)
    OBVIOUS
  <2> QED BY <1>1, <2>1, <2>2 DEF Listed
<1>3. ASSUME NEW k \in 1..n PROVE L[k] \in Listed(n + 1, M)
  <2>1. k + 1 \in 2..(n + 1) /\ k + 1 \in 1..(n + 1) /\ (k + 1) - 1 = k
    OBVIOUS
  <2>2. M[k + 1] = L[k]
    BY <1>1, <2>1
  <2> QED BY <2>1, <2>2 DEF Listed
<1>4. i \in Listed(n + 1, M)
  <2>1. 1 \in 1..(n + 1)
    OBVIOUS
  <2> QED BY <1>1, <2>1 DEF Listed
<1> QED BY <1>2, <1>3, <1>4 DEF Listed, M

(* A block not in the list linked to the front, as deallocate() does it.   *)
LEMMA ChainPush ==
  ASSUME NEW n \in Nat, NEW m \in Nat, NEW L \in [1..n -> 1..m],
         NEW blocks, NEW s \in Nat, NEW free, Chain(n, L, blocks, s, free),
         NEW i \in 1..m, i \notin Listed(n, L),
         NEW linked, Relinked(linked, blocks, m, i, free)
  PROVE  /\ Pushed(n, L, i) \in [1..(n + 1) -> 1..m]
         /\ Chain(n + 1, Pushed(n, L, i), linked, s, Pointer(s, i))
<1> DEFINE M == Pushed(n, L, i)
<1>1. /\ M \in [1..(n + 1) -> 1..m] /\ M[1] = i
      /\ \A k \in 1..n : M[k + 1] = L[k]
  BY DEF Pushed
<1> HIDE DEF M
<1>2. \A k \in 2..(n + 1) : M[k] = L[k - 1] /\ k - 1 \in 1..n
  <2> TAKE k \in 2..(n + 1)
  <2>1. k - 1 \in 1..n /\ (k - 1) + 1 = k
    OBVIOUS
  <2> QED BY <1>1, <2>1
<1>3. \A k \in 1..(n + 1) : To(n + 1, M, s, k + 1) = To(n, L, s, k)
  BY <1>1 DEF To
<1>4. \A k \in 1..n : L[k] # i
  BY DEF Listed
<1>5. Chain(n + 1, M, linked, s, Pointer(s, i))
  <2>1. ASSUME NEW j \in 1..(n + 1), NEW k \in 1..(n + 1), M[j] = M[k]
        PROVE  j = k
    <3>1. CASE j = 1 /\ k = 1
      BY <3>1
    <3>2. CASE j = 1 /\ k \in 2..(n + 1)
      BY <1>1, <1>2, <1>4, <2>1, <3>2
    <3>3. CASE k = 1 /\ j \in 2..(n + 1)
      BY <1>1, <1>2, <1>4, <2>1, <3>3
    <3>4. CASE j \in 2..(n + 1) /\ k \in 2..(n + 1)
      <4>1. j - 1 = k - 1
        BY <1>2, <2>1, <3>4 DEF Chain
      <4> QED BY <4>1
    <3> QED BY <3>1, <3>2, <3>3, <3>4
  <2>2. Pointer(s, i) = To(n + 1, M, s, 1)
    BY <1>1 DEF To
  <2>3. ASSUME NEW k \in 1..(n + 1)
        PROVE  linked[M[k]].next = To(n + 1, M, s, k + 1)
    <3>1. CASE k = 1
      BY <1>1, <1>3, <3>1 DEF Chain, Relinked
    <3>2. CASE k \in 2..(n + 1)
      <4>1. k - 1 \in 1..n /\ M[k] = L[k - 1] /\ L[k - 1] # i
            /\ L[k - 1] \in 1..m /\ (k - 1) + 1 = k
        BY <1>2, <1>4, <3>2
      <4>2. blocks[L[k - 1]].next = To(n, L, s, k)
        BY <4>1 DEF Chain
      <4> QED BY <1>3, <4>1, <4>2 DEF Relinked
    <3> QED BY <3>1, <3>2
  <2> QED BY <2>1, <2>2, <2>3 DEF Chain
<1> QED BY <1>1, <1>5 DEF M

-----------------------------------------------------------------------------
(* The inductive invariant. *)

TypeOK ==
  /\ pool_ \in Nat
  /\ blocks_ \in Seq(Blocks)
  /\ storage \in Nat
  /\ freeList_ \in Pointers \cup {NoBlock}
  /\ held \in [Callers -> Data \cup {NoBlock}]
  /\ crashed \in BOOLEAN

(* No two blocks have the same data: each chunk gives its own number to    *)
(* the blocks cut from it.                                                 *)
Distinct(pool, blocks) ==
  /\ \A i \in 1..Len(blocks) : blocks[i].data[1] <= pool
  /\ \A i, j \in 1..Len(blocks) : blocks[i].data = blocks[j].data => i = j

DataAt(blocks, S) == {blocks[i].data : i \in S}

(* The callers hold what is not in the free list.                          *)
FreeInv(blocks, s, free) ==
  \E n \in Nat : \E L \in [1..n -> 1..Len(blocks)] :
    /\ Chain(n, L, blocks, s, free)
    /\ HeldData = DataAt(blocks, (1..Len(blocks)) \ Listed(n, L))

HeldOnce ==
  \A c, d \in Callers : held[c] # NoBlock /\ held[c] = held[d] => c = d

IInv ==
  /\ TypeOK
  /\ ~crashed
  /\ Distinct(pool_, blocks_)
  /\ FreeInv(blocks_, storage, freeList_)
  /\ HeldOnce

(* A pool, of the shape of Unchanged and Grown, that allocate() can take a *)
(* block from.                                                             *)
Ready(p) ==
  /\ p.pool \in Nat /\ p.blocks \in Seq(Blocks) /\ p.storage \in Nat
  /\ p.free # NoBlock
  /\ Distinct(p.pool, p.blocks)
  /\ FreeInv(p.blocks, p.storage, p.free)

LEMMA NewPoolSizeIsPositive ==
  ASSUME TypeOK PROVE NewPoolSize \in Nat \ {0}
<1>1. Len(blocks_) \in Nat /\ (blocks_ # <<>> => Len(blocks_) # 0)
  BY EmptySeq, LenProperties DEF TypeOK
<1> QED BY <1>1, PoolSizeAssumption DEF NewPoolSize

(* The blocks after growth: the old ones, then those of the new chunk.     *)
LEMMA GrownBlocks ==
  ASSUME TypeOK, freeList_ = NoBlock, NEW size, size = NewPoolSize
  PROVE  /\ Grown.blocks \in Seq(Blocks)
         /\ Len(Grown.blocks) = Len(blocks_) + size
         /\ \A i \in 1..Len(blocks_) : Grown.blocks[i] = blocks_[i]
         /\ \A k \in 1..size :
              Grown.blocks[Len(blocks_) + k] = NewBlock(k - 1)
<1> DEFINE new == [k \in 1..size |-> NewBlock(k - 1)]
<1>1. size \in Nat \ {0} /\ Len(blocks_) \in Nat /\ blocks_ \in Seq(Blocks)
  BY NewPoolSizeIsPositive, LenProperties DEF TypeOK
<1>2. ASSUME NEW k \in 1..size PROVE NewBlock(k - 1) \in Blocks
  <2>1. <<pool_ + 1, k - 1>> \in Data
    BY <1>1 DEF TypeOK, Data
  <2>2. Pointer(storage + 1, Len(blocks_) + (k - 1)) \in Pointers
    BY <1>1 DEF TypeOK, Pointer, Pointers
  <2>3. (IF k - 1 = 0 THEN freeList_
                      ELSE Pointer(storage + 1, Len(blocks_) + (k - 1)))
          \in Pointers \cup {NoBlock}
    BY <2>2
  <2> QED BY <2>1, <2>3 DEF NewBlock, Blocks
<1>3. new \in [1..size -> Blocks]
  BY <1>2
<1>4. new \in Seq(Blocks) /\ Len(new) = size
  <2>1. new \in Seq(Blocks)
    BY <1>1, <1>3, SeqDef
  <2>2. DOMAIN new = 1..size /\ DOMAIN new = 1..Len(new) /\ Len(new) \in Nat
    BY <1>1, <2>1, LenProperties
  <2> HIDE DEF new
  <2>3. 1..size = 1..Len(new) /\ Len(new) \in Nat
    BY <2>2
  <2> QED BY <1>1, <2>1, <2>3
<1>5. Grown.blocks = blocks_ \o new
  BY DEF Grown
<1>6. \A k \in 1..size : new[k] = NewBlock(k - 1)
  OBVIOUS
<1> HIDE DEF new
<1>7. /\ blocks_ \o new \in Seq(Blocks)
      /\ Len(blocks_ \o new) = Len(blocks_) + size
      /\ \A i \in 1..Len(blocks_) + size : (blocks_ \o new)[i] =
            IF i <= Len(blocks_) THEN blocks_[i] ELSE new[i - Len(blocks_)]
  BY <1>1, <1>4, ConcatProperties
<1>8. \A i \in 1..Len(blocks_) : (blocks_ \o new)[i] = blocks_[i]
  BY <1>1, <1>7
<1>9. ASSUME NEW k \in 1..size
      PROVE  (blocks_ \o new)[Len(blocks_) + k] = NewBlock(k - 1)
  <2>1. /\ Len(blocks_) + k \in 1..Len(blocks_) + size
        /\ ~(Len(blocks_) + k <= Len(blocks_))
        /\ (Len(blocks_) + k) - Len(blocks_) = k
    BY <1>1
  <2> QED BY <1>6, <1>7, <2>1
<1> QED BY <1>5, <1>7, <1>8, <1>9

(* Growth makes a pool that is ready: the new blocks, the last one first,  *)
(* are the free list, and every old block is held.                         *)
LEMMA GrownIsReady ==
  ASSUME IInv, Exhausted PROVE Ready(Grown)
<1> DEFINE size == NewPoolSize
           len == Len(blocks_)
           blocks == Grown.blocks
           M == [k \in 1..size |-> len + (size + 1 - k)]
<1>1. /\ TypeOK /\ freeList_ = NoBlock /\ Distinct(pool_, blocks_)
      /\ pool_ \in Nat /\ storage \in Nat /\ blocks_ \in Seq(Blocks)
  BY DEF IInv, Exhausted, TypeOK
<1>2. size \in Nat \ {0} /\ len \in Nat
  BY <1>1, NewPoolSizeIsPositive, LenProperties
<1>3. /\ blocks \in Seq(Blocks) /\ Len(blocks) = len + size
      /\ \A i \in 1..len : blocks[i] = blocks_[i]
      /\ \A k \in 1..size : blocks[len + k] = NewBlock(k - 1)
  BY <1>1, GrownBlocks
<1>4. /\ Grown.pool = pool_ + 1 /\ Grown.storage = storage + 1
      /\ Grown.free = Pointer(storage + 1, len + size)
  BY <1>2 DEF Grown
<1>5. /\ M \in [1..size -> 1..(len + size)]
      /\ \A k \in 1..size : M[k] = len + (size + 1 - k)
  BY <1>2
<1> HIDE DEF size, len, blocks, M
<1>6. \A k \in 1..size : /\ blocks[len + k].data = <<pool_ + 1, k - 1>>
                         /\ k = 1 => blocks[len + k].next = NoBlock
                         /\ k # 1 => blocks[len + k].next
                                       = Pointer(storage + 1, len + (k - 1))
  <2> TAKE k \in 1..size
  <2>1. blocks[len + k] = NewBlock(k - 1)
    BY <1>3
  <2>2. /\ NewBlock(k - 1).data = <<pool_ + 1, k - 1>>
        /\ NewBlock(k - 1).next = IF k - 1 = 0 THEN freeList_
                                  ELSE Pointer(storage + 1, len + (k - 1))
    BY DEF NewBlock, len
  <2>3. k - 1 = 0 <=> k = 1
    BY <1>2
  <2> QED BY <1>1, <2>1, <2>2, <2>3
<1>7. Distinct(pool_ + 1, blocks)
  <2>1. \A i \in 1..(len + size) : i \in 1..len \/ \E k \in 1..size : i = len + k
    <3> TAKE i \in 1..(len + size)
    <3>1. i \notin 1..len => i - len \in 1..size /\ i = len + (i - len)
      BY <1>2
    <3> QED BY <3>1
  <2>2. \A i \in 1..len : blocks[i].data[1] \in Nat /\ blocks[i].data[1] <= pool_
    <3>1. \A i \in 1..len : blocks_[i] \in Blocks
      BY <1>1, ElementOfSeq DEF len
    <3>2. \A i \in 1..len : blocks_[i].data[1] \in Nat
      BY <3>1 DEF Blocks, Data
    <3> QED BY <1>1, <1>3, <3>2 DEF Distinct, len
  <2>3. \A k \in 1..size : blocks[len + k].data[1] = pool_ + 1
    BY <1>6
  <2>4. \A i \in 1..(len + size) : blocks[i].data[1] <= pool_ + 1
    BY <1>1, <2>1, <2>2, <2>3
  <2>5. ASSUME NEW i \in 1..(len + size), NEW j \in 1..(len + size),
               blocks[i].data = blocks[j].data
        PROVE  i = j
    <3>1. CASE i \in 1..len /\ j \in 1..len
      BY <1>1, <1>3, <2>5, <3>1 DEF Distinct, len
    <3>2. CASE i \in 1..len /\ \E k \in 1..size : j = len + k
      BY <1>1, <2>2, <2>3, <2>5, <3>2
    <3>3. CASE j \in 1..len /\ \E k \in 1..size : i = len + k
      BY <1>1, <2>2, <2>3, <2>5, <3>3
    <3>4. ASSUME NEW k \in 1..size, NEW l \in 1..size, i = len + k, j = len + l
          PROVE  i = j
      <4>1. <<pool_ + 1, k - 1>> = <<pool_ + 1, l - 1>>
        BY <1>6, <2>5, <3>4
      <4>2. k - 1 = l - 1
        BY <4>1
      <4> QED BY <3>4, <4>2
    <3> QED BY <2>1, <3>1, <3>2, <3>3, <3>4
  <2> QED BY <1>3, <2>4, <2>5 DEF Distinct
<1>8. Chain(size, M, blocks, storage + 1, Grown.free)
  <2>1. \A j, k \in 1..size : M[j] = M[k] => j = k
    BY <1>2, <1>5
  <2>2. Grown.free = To(size, M, storage + 1, 1)
    <3>1. 1 \in 1..size /\ M[1] = len + size
      BY <1>2, <1>5
    <3> QED BY <1>2, <1>4, <3>1 DEF To
  <2>3. ASSUME NEW k \in 1..size
        PROVE  blocks[M[k]].next = To(size, M, storage + 1, k + 1)
    <3>1. size + 1 - k \in 1..size /\ M[k] = len + (size + 1 - k)
      BY <1>2, <1>5
    <3>2. CASE k = size
      <4>1. size + 1 - k = 1 /\ ~(k + 1 <= size)
        BY <1>2, <3>2
      <4>2. blocks[M[k]].next = NoBlock
        BY <1>6, <3>1, <4>1
      <4> QED BY <4>1, <4>2 DEF To
    <3>3. CASE k # size
      <4>1. size + 1 - k # 1 /\ k + 1 \in 1..size /\ k + 1 <= size
            /\ (size + 1 - k) - 1 = size + 1 - (k + 1)
        BY <1>2, <3>3
      <4>2. M[k + 1] = len + ((size + 1 - k) - 1)
        BY <1>5, <4>1
      <4>3. blocks[M[k]].next = Pointer(storage + 1, M[k + 1])
        BY <1>6, <3>1, <4>1, <4>2
      <4> QED BY <4>1, <4>3 DEF To
    <3> QED BY <3>2, <3>3
  <2> QED BY <2>1, <2>2, <2>3 DEF Chain
<1>9. HeldData = DataAt(blocks, (1..(len + size)) \ Listed(size, M))
  <2>1. PICK n \in Nat : \E L \in [1..n -> 1..len] :
          /\ Chain(n, L, blocks_, storage, NoBlock)
          /\ HeldData = DataAt(blocks_, (1..len) \ Listed(n, L))
    BY <1>1 DEF IInv, FreeInv, len
  <2>2. PICK L \in [1..n -> 1..len] :
          /\ Chain(n, L, blocks_, storage, NoBlock)
          /\ HeldData = DataAt(blocks_, (1..len) \ Listed(n, L))
    BY <2>1
  <2>3. n = 0
    BY <1>1, <1>2, <2>2, EmptyChain
  <2>4. HeldData = DataAt(blocks_, 1..len)
    <3>1. Listed(n, L) = {}
      BY <2>3 DEF Listed
    <3> QED BY <2>2, <3>1
  <2>5. (1..(len + size)) \ Listed(size, M) = 1..len
    <3>1. ASSUME NEW i \in 1..(len + size), i \notin 1..len
          PROVE  i \in Listed(size, M)
      <4>1. size + 1 - (i - len) \in 1..size
        BY <1>2, <3>1
      <4>2. M[size + 1 - (i - len)] = i
        BY <1>2, <1>5, <4>1
      <4> QED BY <4>1, <4>2 DEF Listed
    <3>2. ASSUME NEW k \in 1..size PROVE M[k] \notin 1..len
      BY <1>2, <1>5
    <3>3. 1..len \subseteq 1..(len + size)
      BY <1>2
    <3> QED BY <3>1, <3>2, <3>3 DEF Listed
  <2>6. DataAt(blocks, 1..len) = DataAt(blocks_, 1..len)
    BY <1>3 DEF DataAt
  <2> QED BY <2>4, <2>5, <2>6
<1>10. FreeInv(blocks, storage + 1, Grown.free)
  <2>1. size \in Nat /\ M \in [1..size -> 1..Len(blocks)]
    BY <1>2, <1>3, <1>5
  <2> QED BY <1>3, <1>8, <1>9, <2>1 DEF FreeInv
<1>11. Grown.free # NoBlock
  BY <1>1, <1>2, <1>4, PointerFacts
<1> QED BY <1>1, <1>3, <1>4, <1>7, <1>10, <1>11 DEF Ready, blocks


(* allocate() takes a block from a pool that is ready, grown or not: it    *)
(* never finds the list empty.                                             *)
LEMMA AllocateFromReady ==
  ASSUME IInv, NEW c \in Callers, allocate(c)
  PROVE  \E p : /\ Ready(p) /\ Take(c, p)
                /\ pool_' = p.pool /\ blocks_' = p.blocks
                /\ storage' = p.storage
<1>1. CASE Exhausted
  <2>1. /\ Take(c, Grown) /\ pool_' = Grown.pool /\ blocks_' = Grown.blocks
        /\ storage' = Grown.storage
    BY <1>1 DEF allocate
  <2> QED BY <1>1, <2>1, GrownIsReady
<1>2. CASE ~Exhausted
  <2>1. /\ Take(c, Unchanged) /\ pool_' = Unchanged.pool
        /\ blocks_' = Unchanged.blocks /\ storage' = Unchanged.storage
    BY <1>2 DEF allocate
  <2>2. /\ Unchanged.pool = pool_ /\ Unchanged.blocks = blocks_
        /\ Unchanged.storage = storage /\ Unchanged.free = freeList_
    BY DEF Unchanged
  <2>3. Ready(Unchanged)
    BY <1>2, <2>2 DEF Ready, IInv, TypeOK, Exhausted
  <2> QED BY <2>1, <2>3
<1> QED BY <1>1, <1>2

(* What allocate() gives away was in the free list, so nobody held it; the *)
(* rest of the list is as exact as before.                                 *)
LEMMA TakenWasFree ==
  ASSUME IInv, NEW c \in Callers, held[c] = NoBlock,
         NEW p, Ready(p), Take(c, p),
         pool_' = p.pool, blocks_' = p.blocks, storage' = p.storage
  PROVE  /\ IInv'
         /\ \E data \in Data : /\ held' = [held EXCEPT ![c] = data]
                               /\ \A d \in Callers : held[d] # data
<1> DEFINE m == Len(p.blocks)
<1>1. /\ p.pool \in Nat /\ p.blocks \in Seq(Blocks) /\ p.storage \in Nat
      /\ p.free # NoBlock /\ Distinct(p.pool, p.blocks)
      /\ m \in Nat /\ \A i \in 1..m : p.blocks[i] \in Blocks
  BY ElementOfSeq, LenProperties DEF Ready
<1>2. PICK n \in Nat : \E L \in [1..n -> 1..m] :
        /\ Chain(n, L, p.blocks, p.storage, p.free)
        /\ HeldData = DataAt(p.blocks, (1..m) \ Listed(n, L))
  BY DEF Ready, FreeInv
<1>3. PICK L \in [1..n -> 1..m] :
        /\ Chain(n, L, p.blocks, p.storage, p.free)
        /\ HeldData = DataAt(p.blocks, (1..m) \ Listed(n, L))
  BY <1>2
<1> HIDE DEF m
<1>4. /\ n \in Nat \ {0} /\ p.free = Pointer(p.storage, L[1])
      /\ L[1] \in 1..m /\ L[1] \in Listed(n, L)
  <2>1. p.free = To(n, L, p.storage, 1)
    BY <1>3 DEF Chain
  <2>2. 1 <= n
    BY <1>1, <2>1 DEF To
  <2> QED BY <2>1, <2>2 DEF To, Listed
<1>5. p.free.index = L[1]
  BY <1>1, <1>4, PointerFacts
<1> DEFINE data == p.blocks[L[1]].data
<1>6. data \in Data /\ p.blocks[L[1]].next \in Pointers \cup {NoBlock}
  BY <1>1, <1>4 DEF Blocks
<1>7. /\ held' = [held EXCEPT ![c] = data]
      /\ freeList_' = p.blocks[L[1]].next
      /\ crashed' = crashed
  BY <1>1, <1>5 DEF Take
<1>8. data \notin HeldData
  <2> SUFFICES ASSUME NEW i \in (1..m) \ Listed(n, L),
                      data = p.blocks[i].data
               PROVE  FALSE
    BY <1>3 DEF DataAt
  <2>1. i = L[1]
    BY <1>1, <1>4 DEF Distinct, m
  <2> QED BY <1>4, <2>1
<1>9. data # NoBlock
  BY <1>6, NoBlockAssumption DEF Data
<1> DEFINE M == Rest(n, L)
<1>10. /\ M \in [1..(n - 1) -> 1..m]
       /\ Chain(n - 1, M, p.blocks, p.storage, p.blocks[L[1]].next)
       /\ Listed(n - 1, M) = Listed(n, L) \ {L[1]}
  <2>1. n \in Nat \ {0} /\ m \in Nat /\ p.storage \in Nat
    BY <1>1, <1>4
  <2>2. L \in [1..n -> 1..m] /\ Chain(n, L, p.blocks, p.storage, p.free)
    BY <1>3
  <2> QED BY <2>1, <2>2, ChainTail
<1>11. /\ held \in [Callers -> Data \cup {NoBlock}] /\ HeldOnce /\ ~crashed
       /\ crashed \in BOOLEAN
  BY DEF IInv, TypeOK
<1> HIDE DEF data, M
<1>12. \A d \in Callers : held[d] # data
  BY <1>8, <1>9 DEF HeldData
<1>13. HeldData' = HeldData \cup {data}
  BY <1>7, <1>9, <1>11 DEF HeldData
<1>14. HeldOnce'
  BY <1>7, <1>11, <1>12 DEF HeldOnce
<1>15. FreeInv(blocks_, storage, freeList_)'
  <2>1. HeldData' = DataAt(p.blocks, (1..m) \ Listed(n - 1, M))
    <3>1. (1..m) \ Listed(n - 1, M) = ((1..m) \ Listed(n, L)) \cup {L[1]}
      BY <1>4, <1>10
    <3> QED BY <1>3, <1>13, <3>1 DEF DataAt, data
  <2>2. n - 1 \in Nat
    BY <1>4
  <2>3. FreeInv(p.blocks, p.storage, p.blocks[L[1]].next)'
        <=> FreeInv(blocks_, storage, freeList_)'
    BY <1>7
  <2>4. \E k \in Nat : \E N \in [1..k -> 1..Len(blocks_')] :
          /\ Chain(k, N, blocks_', storage', freeList_')
          /\ HeldData' = DataAt(blocks_', (1..Len(blocks_')) \ Listed(k, N))
    BY <1>7, <1>10, <2>1, <2>2 DEF m
  <2> QED BY <2>4 DEF FreeInv
<1>16. TypeOK'
  BY <1>1, <1>6, <1>7, <1>11 DEF TypeOK
<1>17. Distinct(pool_, blocks_)'
  BY <1>1 DEF Distinct
<1>18. IInv'
  BY <1>7, <1>11, <1>14, <1>15, <1>16, <1>17 DEF IInv
<1> QED BY <1>6, <1>7, <1>12, <1>18

(* deallocate() finds the one block with the data and puts it, which was   *)
(* not in the free list, in front.                                         *)
LEMMA ReleasedIsFree ==
  ASSUME IInv, NEW c \in Callers, deallocate(c)
  PROVE  IInv'
<1> DEFINE m == Len(blocks_)
<1>1. /\ held \in [Callers -> Data \cup {NoBlock}] /\ held[c] # NoBlock
      /\ held' = [held EXCEPT ![c] = NoBlock]
      /\ storage \in Nat /\ blocks_ \in Seq(Blocks) /\ m \in Nat
      /\ Distinct(pool_, blocks_) /\ HeldOnce
      /\ UNCHANGED <<pool_, storage, crashed>>
  BY LenProperties DEF deallocate, IInv, TypeOK
<1>2. PICK i \in 1..m : blocks_[i].data = held[c]
  BY DEF deallocate, Matches
<1>3. First(Matches(held[c])) = i
  <2>1. Matches(held[c]) = {i}
    BY <1>1, <1>2 DEF Matches, Distinct
  <2> QED BY <1>1, <2>1 DEF First
<1>4. /\ blocks_' = [blocks_ EXCEPT ![i].next = freeList_]
      /\ freeList_' = Pointer(storage, i)
  BY <1>3 DEF deallocate, Link
<1>5. PICK n \in Nat : \E L \in [1..n -> 1..m] :
        /\ Chain(n, L, blocks_, storage, freeList_)
        /\ HeldData = DataAt(blocks_, (1..m) \ Listed(n, L))
  BY DEF IInv, FreeInv
<1>6. PICK L \in [1..n -> 1..m] :
        /\ Chain(n, L, blocks_, storage, freeList_)
        /\ HeldData = DataAt(blocks_, (1..m) \ Listed(n, L))
  BY <1>5
<1>7. i \notin Listed(n, L)
  <2>1. held[c] \in HeldData
    BY <1>1 DEF HeldData
  <2>2. PICK j \in (1..m) \ Listed(n, L) : blocks_[j].data = held[c]
    BY <1>6, <2>1 DEF DataAt
  <2>3. i = j
    BY <1>1, <1>2, <2>2 DEF Distinct
  <2> QED BY <2>2, <2>3
<1>8. /\ blocks_' \in Seq(Blocks) /\ Len(blocks_') = m
      /\ blocks_'[i].next = freeList_
      /\ \A j \in 1..m : /\ blocks_'[j].data = blocks_[j].data
                         /\ j # i => blocks_'[j].next = blocks_[j].next
  <2> DEFINE linked == [blocks_[i] EXCEPT !.next = freeList_]
  <2>1. blocks_[i] \in Blocks /\ freeList_ \in Pointers \cup {NoBlock}
    BY <1>1, ElementOfSeq DEF IInv, TypeOK
  <2>2. /\ linked \in Blocks /\ linked.next = freeList_
        /\ linked.data = blocks_[i].data
    BY <2>1 DEF Blocks
  <2>3. blocks_' = [blocks_ EXCEPT ![i] = linked]
    BY <1>4
  <2> HIDE DEF linked
  <2>4. /\ blocks_' \in Seq(Blocks) /\ Len(blocks_') = m
        /\ \A j \in 1..m : blocks_'[j] = IF j = i THEN linked ELSE blocks_[j]
    BY <1>1, <2>2, <2>3, ExceptSeq
  <2> QED BY <2>2, <2>4
<1> HIDE DEF m
<1> DEFINE M == Pushed(n, L, i)
<1>9. /\ M \in [1..(n + 1) -> 1..m]
      /\ Chain(n + 1, M, blocks_', storage, Pointer(storage, i))
      /\ Listed(n + 1, M) = Listed(n, L) \cup {i}
  <2>1. n \in Nat /\ m \in Nat /\ storage \in Nat /\ i \in 1..m
    BY <1>1, <1>2, <1>5
  <2>2. /\ L \in [1..n -> 1..m] /\ i \notin Listed(n, L)
        /\ Chain(n, L, blocks_, storage, freeList_)
    BY <1>6, <1>7
  <2>3. PICK linked : linked = blocks_'
    OBVIOUS
  <2>4. Relinked(linked, blocks_, m, i, freeList_)
    BY <1>8, <2>3 DEF Relinked
  <2>5. M \in [1..(n + 1) -> 1..m]
    BY <2>1, <2>2, <2>4, ChainPush
  <2> HIDE DEF M
  <2>6. Chain(n + 1, Pushed(n, L, i), linked, storage, Pointer(storage, i))
    BY <2>1, <2>2, <2>4, ChainPush
  <2>7. Listed(n + 1, Pushed(n, L, i)) = Listed(n, L) \cup {i}
    BY <2>1, ListedPushed
  <2> QED BY <2>3, <2>5, <2>6, <2>7 DEF M
<1> HIDE DEF M
<1>10. HeldData' = HeldData \ {held[c]}
  BY <1>1 DEF HeldData, HeldOnce
<1>11. DataAt(blocks_', (1..m) \ Listed(n + 1, M)) = HeldData \ {held[c]}
  <2>1. DataAt(blocks_', (1..m) \ Listed(n + 1, M))
          = DataAt(blocks_, (1..m) \ Listed(n + 1, M))
    BY <1>8 DEF DataAt
  <2>2. (1..m) \ Listed(n + 1, M) = ((1..m) \ Listed(n, L)) \ {i}
    BY <1>9
  <2>3. DataAt(blocks_, ((1..m) \ Listed(n, L)) \ {i})
          = DataAt(blocks_, (1..m) \ Listed(n, L)) \ {held[c]}
    <3>1. ASSUME NEW j \in (1..m) \ {i} PROVE blocks_[j].data # held[c]
      BY <1>1, <1>2, <3>1 DEF Distinct, m
    <3> QED BY <1>2, <3>1 DEF DataAt
  <2> QED BY <1>6, <2>1, <2>2, <2>3
<1>12. FreeInv(blocks_, storage, freeList_)'
  <2>1. n + 1 \in Nat
    OBVIOUS
  <2>2. \E k \in Nat : \E N \in [1..k -> 1..Len(blocks_')] :
          /\ Chain(k, N, blocks_', storage', freeList_')
          /\ HeldData' = DataAt(blocks_', (1..Len(blocks_')) \ Listed(k, N))
    BY <1>1, <1>4, <1>8, <1>9, <1>10, <1>11, <2>1
  <2> QED BY <2>2 DEF FreeInv
<1>13. TypeOK'
  <2>1. freeList_' \in Pointers \cup {NoBlock}
    BY <1>1, <1>4, PointerFacts DEF m
  <2> QED BY <1>1, <1>8, <2>1 DEF IInv, TypeOK
<1>14. Distinct(pool_, blocks_)' /\ HeldOnce' /\ ~crashed'
  <2>1. Distinct(pool_, blocks_)'
    BY <1>1, <1>8 DEF Distinct, m
  <2>2. HeldOnce'
    BY <1>1 DEF HeldOnce
  <2> QED BY <1>1, <2>1, <2>2 DEF IInv
<1> QED BY <1>12, <1>13, <1>14 DEF IInv

LEMMA PoolInvariant == Spec => []IInv
<1>1. Init => IInv
  <2> SUFFICES ASSUME Init PROVE IInv
    OBVIOUS
  <2>1. TypeOK /\ ~crashed /\ HeldOnce
    BY EmptySeq DEF Init, TypeOK, HeldOnce
  <2>2. Distinct(pool_, blocks_)
    BY DEF Init, Distinct
  <2>3. HeldData = {} /\ Len(blocks_) = 0 /\ freeList_ = NoBlock
    BY DEF Init, HeldData
  <2>4. FreeInv(blocks_, storage, freeList_)
    <3> DEFINE L == [k \in 1..0 |-> 1]
    <3>1. L \in [1..0 -> 1..Len(blocks_)]
      OBVIOUS
    <3>2. Chain(0, L, blocks_, storage, freeList_)
      BY <2>3 DEF Chain, To
    <3>3. HeldData = DataAt(blocks_, (1..Len(blocks_)) \ Listed(0, L))
      BY <2>3 DEF DataAt
    <3> QED BY <3>1, <3>2, <3>3 DEF FreeInv
  <2> QED BY <2>1, <2>2, <2>4 DEF IInv
<1>2. IInv /\ [Next]_vars => IInv'
  <2> SUFFICES ASSUME IInv, [Next]_vars PROVE IInv'
    OBVIOUS
  <2>1. ASSUME NEW c \in Callers, allocate(c) PROVE IInv'
    <3>1. held[c] = NoBlock
      BY <2>1 DEF allocate
    <3> QED BY <2>1, <3>1, AllocateFromReady, TakenWasFree
  <2>2. ASSUME NEW c \in Callers, AllocateFails(c) PROVE IInv'
    <3>1. /\ pool_' = pool_ + 1
          /\ UNCHANGED <<blocks_, storage, freeList_, held, crashed>>
      BY <2>2 DEF AllocateFails
    <3>2. TypeOK' /\ ~crashed' /\ HeldOnce'
      BY <3>1 DEF IInv, TypeOK, HeldOnce
    <3>3. Distinct(pool_, blocks_)'
      <4>1. \A i \in 1..Len(blocks_) : blocks_[i].data[1] \in Nat
        <5>1. \A i \in 1..Len(blocks_) : blocks_[i] \in Blocks
          BY ElementOfSeq DEF IInv, TypeOK
        <5> QED BY <5>1 DEF Blocks, Data
      <4> QED BY <3>1, <4>1 DEF IInv, TypeOK, Distinct
    <3>4. FreeInv(blocks_, storage, freeList_)'
      <4>1. FreeInv(blocks_, storage, freeList_)
        BY DEF IInv
      <4>2. HeldData' = HeldData
        BY <3>1 DEF HeldData
      <4>3. \E n \in Nat : \E L \in [1..n -> 1..Len(blocks_')] :
              /\ Chain(n, L, blocks_', storage', freeList_')
              /\ HeldData' = DataAt(blocks_', (1..Len(blocks_')) \ Listed(n, L))
        BY <3>1, <4>1, <4>2 DEF FreeInv
      <4> QED BY <4>3 DEF FreeInv
    <3> QED BY <3>2, <3>3, <3>4 DEF IInv
  <2>3. CASE UNCHANGED vars
    <3>1. FreeInv(blocks_, storage, freeList_)'
      <4>1. FreeInv(blocks_, storage, freeList_)
        BY DEF IInv
      <4>2. HeldData' = HeldData
        BY <2>3 DEF vars, HeldData
      <4>3. \E n \in Nat : \E L \in [1..n -> 1..Len(blocks_')] :
              /\ Chain(n, L, blocks_', storage', freeList_')
              /\ HeldData' = DataAt(blocks_', (1..Len(blocks_')) \ Listed(n, L))
        BY <2>3, <4>1, <4>2 DEF vars, FreeInv
      <4> QED BY <4>3 DEF FreeInv
    <3> QED BY <2>3, <3>1 DEF vars, IInv, TypeOK, Distinct, HeldOnce
  <2> QED BY <2>1, <2>2, <2>3, ReleasedIsFree DEF Next
<1> QED BY <1>1, <1>2, PTL DEF Spec


(* Whoever asks is given a block that nobody else has: the pool implements *)
(* BlockAllocator, whichever thread returns a block and whenever it grows. *)
THEOREM NoBlockHasTwoOwners == Spec => ImplementsAllocator
<1>1. Init => Allocator!Init
  BY DEF Init, Allocator!Init
<1>2. IInv /\ [Next]_vars => [Allocator!Next]_held
  <2> SUFFICES ASSUME IInv, [Next]_vars PROVE [Allocator!Next]_held
    OBVIOUS
  <2>1. ASSUME NEW c \in Callers, allocate(c) PROVE Allocator!Allocate(c)
    <3>1. held[c] = NoBlock
      BY <2>1 DEF allocate
    <3>2. PICK data \in Data : /\ held' = [held EXCEPT ![c] = data]
                               /\ \A d \in Callers : held[d] # data
      BY <2>1, <3>1, AllocateFromReady, TakenWasFree
    <3>3. data # NoBlock
      BY NoBlockAssumption DEF Data
    <3>4. /\ held'[c] = data
          /\ \A d \in Callers \ {c} : held'[d] = held[d]
      BY <3>2 DEF IInv, TypeOK
    <3> QED BY <3>1, <3>2, <3>3, <3>4
            DEF Allocator!Allocate, Allocator!Others
  <2>2. ASSUME NEW c \in Callers, deallocate(c) PROVE Allocator!Deallocate(c)
    BY <2>2 DEF deallocate, Allocator!Deallocate
  <2>3. ASSUME NEW c \in Callers, AllocateFails(c) PROVE UNCHANGED held
    BY <2>3 DEF AllocateFails
  <2>4. CASE UNCHANGED vars
    BY <2>4 DEF vars
  <2> QED BY <2>1, <2>2, <2>3, <2>4 DEF Next, Allocator!Next
<1> QED BY <1>1, <1>2, PoolInvariant, PTL
        DEF Spec, ImplementsAllocator, Allocator!Spec

-----------------------------------------------------------------------------
(* The free list as FreeListIsExact reads it. *)

(* There are as many free blocks as the list has elements: each block that *)
(* is not in it is held by one caller.                                     *)
LEMMA ChainHasFreeCount ==
  ASSUME IInv, NEW n \in Nat, NEW L \in [1..n -> 1..Len(blocks_)],
         Chain(n, L, blocks_, storage, freeList_),
         HeldData = DataAt(blocks_, (1..Len(blocks_)) \ Listed(n, L))
  PROVE  FreeCount = n
<1> DEFINE m == Len(blocks_)
           U == (1..m) \ Listed(n, L)
<1>1. m \in Nat /\ Distinct(pool_, blocks_)
  BY LenProperties DEF IInv, TypeOK
<1>2. Cardinality(Listed(n, L)) = n
  <2>1. L \in Bijection(1..n, Listed(n, L))
    <3>1. L \in [1..n -> Listed(n, L)]
          /\ \A y \in Listed(n, L) : \E k \in 1..n : L[k] = y
      BY DEF Listed
    <3>2. L \in Injection(1..n, Listed(n, L))
      BY <3>1, Fun_IsInj DEF Chain
    <3>3. L \in Surjection(1..n, Listed(n, L))
      BY <3>1, Fun_IsSurj
    <3> QED BY <3>2, <3>3 DEF Bijection
  <2> QED BY <2>1, FS_CountingElements DEF ExistsBijection
<1>3. IsFiniteSet(1..m) /\ Cardinality(1..m) = m
  <2> HIDE DEF m
  <2>1. m \in Int /\ 1 \in Int
    BY <1>1
  <2>2. /\ IsFiniteSet(1..m)
        /\ Cardinality(1..m) = IF 1 > m THEN 0 ELSE m - 1 + 1
    BY <2>1, FS_Interval
  <2> QED BY <1>1, <2>2
<1>4. IsFiniteSet(U) /\ Cardinality(U) = m - n
  <2>1. (1..m) \cap Listed(n, L) = Listed(n, L)
    BY DEF Listed
  <2>2. IsFiniteSet((1..m) \ Listed(n, L))
        /\ Cardinality((1..m) \ Listed(n, L))
             = Cardinality(1..m) - Cardinality((1..m) \cap Listed(n, L))
    BY <1>3, FS_Difference
  <2> QED BY <1>2, <1>3, <2>1, <2>2
<1>5. Cardinality(HeldData) = Cardinality(U)
  <2> DEFINE f == [i \in U |-> blocks_[i].data]
  <2>1. f \in [U -> HeldData] /\ \A y \in HeldData : \E i \in U : f[i] = y
    BY DEF DataAt
  <2>2. \A i, j \in U : f[i] = f[j] => i = j
    BY <1>1 DEF Distinct
  <2> HIDE DEF f, U
  <2>3. f \in Injection(U, HeldData)
    BY <2>1, <2>2, Fun_IsInj
  <2>4. f \in Surjection(U, HeldData)
    BY <2>1, Fun_IsSurj
  <2>5. f \in Bijection(U, HeldData)
    BY <2>3, <2>4 DEF Bijection
  <2> QED BY <1>4, <2>5, FS_Bijection DEF ExistsBijection
<1> QED BY <1>1, <1>4, <1>5 DEF FreeCount

(* One turn of FreeList's recursion. *)
Follow(list, length) ==
  [k \in 1..length + 1 |->
     IF k = 1 THEN freeList_
     ELSE IF list[k - 1] = NoBlock THEN NoBlock
                                   ELSE blocks_[list[k - 1].index].next]

(* A function that satisfies the recursive equation shows that FreeList is *)
(* well defined.                                                           *)
LEMMA FreeListUnfolds ==
  ASSUME NEW w, w = Follow(w, FreeCount)
  PROVE  FreeList = Follow(FreeList, FreeCount)
<1> SUFFICES \E f : f = Follow(f, FreeCount)
  BY DEF FreeList, Follow
<1> QED OBVIOUS

LEMMA Least ==
  ASSUME NEW S \in SUBSET Nat, S # {}
  PROVE  \E x \in S : \A y \in S : x <= y
<1> DEFINE Less == {p \in Nat \X Nat : p[1] < p[2]}
<1>1. IsWellFoundedOn(Less, Nat)
  BY NatLessThanWellFounded DEF OpToRel
<1>2. PICK x \in S : \A y \in S : ~(<<y, x>> \in Less)
  BY <1>1, WFMin
<1>3. ASSUME NEW y \in S PROVE x <= y
  <2>1. x \in Nat /\ y \in Nat
    OBVIOUS
  <2>2. ASSUME y < x PROVE <<y, x>> \in Less
    BY <2>1, <2>2
  <2>3. ~(y < x)
    BY <1>2, <2>2
  <2> QED BY <2>1, <2>3
<1> QED BY <1>3

(* FreeList visits the blocks of the chain in order: the first place where *)
(* it did not would follow one where it did.                               *)
LEMMA FreeListIsChain ==
  ASSUME IInv, NEW n \in Nat, NEW L \in [1..n -> 1..Len(blocks_)],
         Chain(n, L, blocks_, storage, freeList_), FreeCount = n
  PROVE  \A k \in 1..(n + 1) : FreeList[k] = To(n, L, storage, k)
<1> DEFINE w == [k \in 1..(n + 1) |-> To(n, L, storage, k)]
<1>1. freeList_ = To(n, L, storage, 1) /\ storage \in Nat
  BY DEF Chain, IInv, TypeOK
<1>2. ASSUME NEW k \in 1..(n + 1), k # 1, NEW q, q = To(n, L, storage, k - 1)
      PROVE  q # NoBlock /\ blocks_[q.index].next = To(n, L, storage, k)
  <2>1. k - 1 \in 1..n /\ k - 1 <= n /\ (k - 1) + 1 = k
    BY <1>2
  <2>2. q = Pointer(storage, L[k - 1]) /\ L[k - 1] \in Nat
    BY <1>2, <2>1 DEF To
  <2>3. q # NoBlock /\ q.index = L[k - 1]
    BY <1>1, <2>2, PointerFacts
  <2> QED BY <2>1, <2>3 DEF Chain
<1>3. w = Follow(w, FreeCount)
  <2>1. ASSUME NEW k \in 1..(n + 1), k # 1
        PROVE  k - 1 \in 1..(n + 1) /\ w[k - 1] = To(n, L, storage, k - 1)
    <3>1. k - 1 \in 1..(n + 1)
      BY <2>1
    <3> QED BY <3>1
  <2>2. ASSUME NEW k \in 1..(n + 1)
        PROVE  To(n, L, storage, k)
                 = IF k = 1 THEN freeList_
                   ELSE IF w[k - 1] = NoBlock THEN NoBlock
                                              ELSE blocks_[w[k - 1].index].next
    <3> HIDE DEF w
    <3>1. CASE k = 1
      BY <1>1, <3>1
    <3>2. CASE k # 1
      BY <1>2, <2>1, <3>2
    <3> QED BY <3>1, <3>2
  <2> QED BY <2>2 DEF Follow
<1>4. FreeList = Follow(FreeList, n)
  BY <1>3, FreeListUnfolds
<1>5. /\ FreeList[1] = freeList_
      /\ \A k \in 1..(n + 1) :
           k # 1 => FreeList[k] = IF FreeList[k - 1] = NoBlock THEN NoBlock
                                  ELSE blocks_[FreeList[k - 1].index].next
  <2>1. \A k \in 1..(n + 1) :
          FreeList[k] = IF k = 1 THEN freeList_
                        ELSE IF FreeList[k - 1] = NoBlock THEN NoBlock
                             ELSE blocks_[FreeList[k - 1].index].next
    BY <1>4 DEF Follow
  <2>2. 1 \in 1..(n + 1)
    OBVIOUS
  <2> QED BY <2>1, <2>2
<1> DEFINE Bad == {k \in 1..(n + 1) : FreeList[k] # To(n, L, storage, k)}
<1> SUFFICES ASSUME Bad # {} PROVE FALSE
  OBVIOUS
<1>6. PICK k \in Bad : \A j \in Bad : k <= j
  <2>1. Bad \in SUBSET Nat
    OBVIOUS
  <2> QED BY <2>1, Least
<1>7. k # 1
  BY <1>1, <1>5
<1>8. k - 1 \in 1..(n + 1) /\ k - 1 \notin Bad
  BY <1>6, <1>7
<1>9. FreeList[k - 1] = To(n, L, storage, k - 1)
  BY <1>8
<1>10. FreeList[k] = To(n, L, storage, k)
  BY <1>2, <1>5, <1>7, <1>9
<1> QED BY <1>10

(* The list behind freeList_ is the blocks nobody holds, each once, and no *)
(* pointer in it is older than the last move of the vector.                *)
THEOREM FreeListIsWhatIsFree == Spec => []FreeListIsExact
<1>1. IInv => FreeListIsExact
  <2> SUFFICES ASSUME IInv PROVE FreeListIsExact
    OBVIOUS
  <2> DEFINE m == Len(blocks_)
             Visited == {FreeList[k] : k \in 1..FreeCount}
  <2>1. PICK n \in Nat : \E L \in [1..n -> 1..m] :
          /\ Chain(n, L, blocks_, storage, freeList_)
          /\ HeldData = DataAt(blocks_, (1..m) \ Listed(n, L))
    BY DEF IInv, FreeInv
  <2>2. PICK L \in [1..n -> 1..m] :
          /\ Chain(n, L, blocks_, storage, freeList_)
          /\ HeldData = DataAt(blocks_, (1..m) \ Listed(n, L))
    BY <2>1
  <2>3. FreeCount = n
    BY <2>2, ChainHasFreeCount
  <2>4. /\ storage \in Nat /\ Distinct(pool_, blocks_) /\ ~crashed
        /\ \A k \in 1..n : L[k] \in 1..m /\ L[k] \in Nat
    BY DEF IInv, TypeOK
  <2>5. \A k \in 1..(n + 1) : FreeList[k] = To(n, L, storage, k)
    BY <2>2, <2>3, FreeListIsChain
  <2>6. \A k \in 1..n : /\ FreeList[k] = Pointer(storage, L[k])
                        /\ FreeList[k] # NoBlock
                        /\ FreeList[k].storage = storage
                        /\ FreeList[k].index = L[k]
    <3> TAKE k \in 1..n
    <3>1. k \in 1..(n + 1) /\ k <= n
      OBVIOUS
    <3>2. FreeList[k] = Pointer(storage, L[k])
      BY <2>5, <3>1 DEF To
    <3> QED BY <2>4, <3>2, PointerFacts
  <2>7. FreeList[n + 1] = NoBlock
    <3>1. n + 1 \in 1..(n + 1) /\ ~(n + 1 <= n)
      OBVIOUS
    <3> QED BY <2>5, <3>1 DEF To
  <2>8. {blocks_[p.index].data : p \in Visited} = DataAt(blocks_, Listed(n, L))
    <3>1. {blocks_[p.index].data : p \in Visited}
            = {blocks_[FreeList[k].index].data : k \in 1..n}
      BY <2>3
    <3>2. {blocks_[FreeList[k].index].data : k \in 1..n}
            = {blocks_[L[k]].data : k \in 1..n}
      BY <2>6
    <3>3. {blocks_[L[k]].data : k \in 1..n} = DataAt(blocks_, Listed(n, L))
      BY DEF DataAt, Listed
    <3> QED BY <3>1, <3>2, <3>3
  <2>9. DataAt(blocks_, Listed(n, L))
          = {blocks_[i].data : i \in 1..m} \ HeldData
    <3>1. \A i \in Listed(n, L) : i \in 1..m
      BY <2>4 DEF Listed
    <3>2. \A i \in Listed(n, L) : \A j \in (1..m) \ Listed(n, L) :
            blocks_[i].data # blocks_[j].data
      BY <2>4, <3>1 DEF Distinct
    <3> QED BY <2>2, <3>1, <3>2 DEF DataAt
  <2>10. /\ NoBlock \notin Visited
         /\ \A p \in Visited : p.storage = storage
    BY <2>3, <2>6
  <2> QED BY <2>3, <2>4, <2>7, <2>8, <2>9, <2>10 DEF FreeListIsExact
<1> QED BY <1>1, PoolInvariant, PTL


=============================================================================
