---------------------------- MODULE ArenaProofs ----------------------------
(* Proofs about ParserArena and SegmentedVector, for any pool size that is  *)
(* a multiple of a word, any sizes of objects, any segment size, any number *)
(* of pools, segments, blocks and identifiers.                              *)
EXTENDS ParserArena, SequenceTheorems, TLAPS

USE DEF NullPointer

-----------------------------------------------------------------------------
(* Arithmetic of alignSize.                                                 *)

\* The size of a block, rounded up, is a number of whole words that still fits
\* into a pool (the two assertions of allocateFreeable, ParserArena.h 72-75).
LEMMA Alignment ==
  ASSUME NEW n \in Sizes
  PROVE  /\ alignSize(n) \in Nat /\ alignSize(n) % 8 = 0
         /\ n \in 1 .. PoolSize /\ n <= alignSize(n) /\ alignSize(n) <= PoolSize
<1>1. n \in Int /\ 1 <= n /\ n <= PoolSize /\ PoolSize \in Nat /\ PoolSize % 8 = 0
  BY ArenaAssumption
<1> DEFINE a == ((n + 7) \div 8) * 8
<1>2. a \in Nat /\ a % 8 = 0 /\ n <= a /\ a <= n + 7
  BY <1>1, SMT
<1>3. a <= PoolSize
  BY <1>1, <1>2, SMT
<1> QED
  BY <1>1, <1>2, <1>3 DEF alignSize

LEMMA BlockFields ==
  ASSUME NEW b \in [region : Pools, start : 0 .. PoolSize, size : Sizes]
  PROVE  b.start \in Nat /\ b.size \in Nat
<1>1. b.start \in 0 .. PoolSize /\ b.size \in Sizes
  OBVIOUS
<1>2. b.size \in Nat
  BY <1>1, Alignment
<1> QED
  BY <1>1, <1>2, ArenaAssumption

\* Whole words add up to whole words.
LEMMA WholeWords ==
  ASSUME NEW a \in Nat, NEW b \in Nat, a % 8 = 0, b % 8 = 0
  PROVE  (a + b) % 8 = 0
BY SMT

-----------------------------------------------------------------------------
(* The addresses that deallocateObjects frees.                              *)

LEMMA FreedNothing ==
  ASSUME m_freeablePoolEnd = NullPointer, m_freeablePools = <<>>
  PROVE  DOMAIN Freed = {} /\ Freed = <<>>
BY DEF Freed

LEMMA FreedSequence ==
  ASSUME NEW q, NEW S, q \in S, NEW full \in Seq(S)
  PROVE  /\ DOMAIN (<<q>> \o full) = 1 .. Len(full) + 1
         /\ (<<q>> \o full)[1] = q
         /\ \A i \in 1 .. Len(full) : (<<q>> \o full)[i + 1] = full[i]
<1>1. <<q>> \in Seq(S) /\ Len(<<q>>) = 1 /\ <<q>>[1] = q
  OBVIOUS
<1> QED
  BY <1>1, SMT

-----------------------------------------------------------------------------
(* The inductive invariant of the pools.                                    *)

NoPool ==
  /\ m_freeablePoolEnd = NullPointer
  /\ m_freeableMemory = NullPointer
  /\ m_freeablePools = <<>>

\* The current pool is none of the full ones, which are different.
SomePool ==
  /\ m_freeablePoolEnd \in [region : Pools, offset : {PoolSize}]
  /\ m_freeableMemory \in [region : Pools, offset : 0 .. PoolSize]
  /\ m_freeableMemory.region = m_freeablePoolEnd.region
  /\ m_freeableMemory.offset % 8 = 0
  /\ \A i \in 1 .. Len(m_freeablePools) : m_freeablePools[i] # freeablePool
  /\ \A i, j \in 1 .. Len(m_freeablePools) :
       m_freeablePools[i] = m_freeablePools[j] => i = j

FullPools == {m_freeablePools[i] : i \in 1 .. Len(m_freeablePools)}

\* A block lies in memory the arena owns, below the next block of its pool.
Placed(b) ==
  /\ b \in [region : Pools, start : 0 .. PoolSize, size : Sizes]
  /\ b.region \in heap
  /\ b.start % 8 = 0
  /\ b.start + b.size <= PoolSize
  /\ b.region = m_freeableMemory.region => b.start + b.size <= m_freeableMemory.offset

PoolInv ==
  /\ phase \in {"made", "parsing", "tree", "failed", "deleted"}
  /\ m_arena \in {"null", "arena"}
  /\ heap \subseteq Pools
  /\ badFrees = {}
  /\ m_freeablePools \in Seq(Pools)
  /\ NoPool \/ SomePool
  /\ phase = "deleted" => heap = {}
  /\ phase # "deleted" /\ NoPool => heap = {}
  /\ phase # "deleted" /\ SomePool => heap = FullPools \cup {freeablePool}
  /\ \A b \in blocks : Placed(b)

LEMMA NullIsNoPool == SomePool => m_freeablePoolEnd # NullPointer
BY ArenaAssumption DEF SomePool

\* What would be freed is what is allocated, once.
LEMMA FreedIsOwned ==
  ASSUME PoolInv, phase # "deleted"
  PROVE  /\ heap = {Freed[i] : i \in DOMAIN Freed}
         /\ \A i, j \in DOMAIN Freed : Freed[i] = Freed[j] => i = j
         /\ DOMAIN Freed \subseteq Nat
<1>1. CASE NoPool
  BY <1>1, FreedNothing DEF PoolInv, NoPool
<1>2. CASE SomePool
  <2> DEFINE n == Len(m_freeablePools)
  <2>1. m_freeablePools \in Seq(Pools) /\ freeablePool \in Pools /\ n \in Nat
    BY <1>2, LenProperties DEF PoolInv, SomePool, freeablePool
  <2>2. Freed = <<freeablePool>> \o m_freeablePools
    BY <1>2, NullIsNoPool DEF Freed
  <2>3. /\ DOMAIN Freed = 1 .. n + 1
        /\ Freed[1] = freeablePool
        /\ \A i \in 1 .. n : Freed[i + 1] = m_freeablePools[i]
    BY <2>1, <2>2, FreedSequence
  <2>4. \A i \in DOMAIN Freed : i = 1 \/ (i - 1 \in 1 .. n /\ Freed[i] = m_freeablePools[i - 1])
    <3> SUFFICES ASSUME NEW i \in 1 .. n + 1, i # 1
                 PROVE  i - 1 \in 1 .. n /\ Freed[i] = m_freeablePools[i - 1]
      BY <2>3
    <3>1. i - 1 \in 1 .. n /\ (i - 1) + 1 = i
      BY <2>1
    <3> QED
      BY <3>1, <2>3
  <2>5. {Freed[i] : i \in DOMAIN Freed} = FullPools \cup {freeablePool}
    <3>1. ASSUME NEW p \in {Freed[i] : i \in DOMAIN Freed}
          PROVE  p \in FullPools \cup {freeablePool}
      BY <2>3, <2>4 DEF FullPools
    <3>2. freeablePool \in {Freed[i] : i \in DOMAIN Freed}
      BY <2>1, <2>3
    <3>3. ASSUME NEW k \in 1 .. n
          PROVE  m_freeablePools[k] \in {Freed[i] : i \in DOMAIN Freed}
      <4>1. k + 1 \in DOMAIN Freed
        BY <2>1, <2>3
      <4> QED
        BY <4>1, <2>3
    <3> QED
      BY <3>1, <3>2, <3>3 DEF FullPools
  <2>6. ASSUME NEW i \in DOMAIN Freed, NEW j \in DOMAIN Freed, Freed[i] = Freed[j]
        PROVE  i = j
    <3>1. CASE i = 1 /\ j = 1
      BY <3>1
    <3>2. CASE i # 1 /\ j # 1
      <4>1. i - 1 = j - 1
        BY <3>2, <2>4, <2>6, <1>2 DEF SomePool
      <4> QED
        BY <4>1, <2>1, <2>3
    <3>3. CASE (i = 1 /\ j # 1) \/ (i # 1 /\ j = 1)
      BY <3>3, <2>3, <2>4, <2>6, <1>2 DEF SomePool
    <3> QED
      BY <3>1, <3>2, <3>3
  <2>7. heap = FullPools \cup {freeablePool}
    BY <1>2 DEF PoolInv
  <2> QED
    BY <2>1, <2>3, <2>5, <2>6, <2>7
<1> QED
  BY <1>1, <1>2 DEF PoolInv

LEMMA Deallocation ==
  ASSUME PoolInv, phase # "deleted", deallocateObjects
  PROVE  heap' = {} /\ badFrees' = {} /\ blocks' = {}
<1> DEFINE again == {i \in DOMAIN Freed :
                      Freed[i] \notin heap \/ \E j \in 1 .. i - 1 : Freed[j] = Freed[i]}
<1>1. again = {}
  <2> SUFFICES ASSUME NEW i \in DOMAIN Freed, NEW j \in 1 .. i - 1, Freed[j] = Freed[i]
               PROVE  FALSE
    BY FreedIsOwned
  <2>1. j \in DOMAIN Freed
    <3>1. Freed \in Seq(Pools)
      BY DEF PoolInv, NoPool, SomePool, Freed, freeablePool
    <3> QED
      BY <3>1
  <2>2. i = j
    BY <2>1, FreedIsOwned
  <2> QED
    BY <2>2, FreedIsOwned, SMT
<1> QED
  BY <1>1, FreedIsOwned DEF deallocateObjects, PoolInv

LEMMA PoolsFreedOnce == PoolInv => PoolsAreFreedOnce
BY FreedIsOwned DEF PoolInv, PoolsAreFreedOnce

-----------------------------------------------------------------------------
(* Every step keeps the pools in order and is a step of Allocator.          *)

LEMMA PoolInit == Init => PoolInv
BY EmptySeq, NullIsNoPool DEF Init, PoolInv, NoPool

\* A block at address, in a pool that the arena owns from now on.
LEMMA Carving ==
  ASSUME PoolInv, NEW n \in Sizes, NEW address, Carve(address, n),
         address \in [region : Pools, offset : 0 .. PoolSize],
         address.offset % 8 = 0, address.offset + alignSize(n) <= PoolSize,
         heap' = heap \cup {address.region},
         address.region \in heap => address = m_freeableMemory
  PROVE  /\ m_freeableMemory' \in [region : Pools, offset : 0 .. PoolSize]
         /\ m_freeableMemory'.region = address.region
         /\ m_freeableMemory'.offset % 8 = 0
         /\ \A b \in blocks' : Placed(b)'
         /\ Memory!Allocate(address.region, address.offset, n)
<1> DEFINE r == address.region
           o == address.offset
           a == alignSize(n)
           block == [region |-> r, start |-> o, size |-> n]
<1>1. /\ r \in Pools /\ o \in Nat /\ a \in Nat /\ n \in Nat /\ n <= a /\ PoolSize \in Nat
      /\ o % 8 = 0 /\ a % 8 = 0 /\ o + a <= PoolSize /\ 1 <= n
  BY Alignment, ArenaAssumption
<1>2. m_freeableMemory' = [region |-> r, offset |-> o + a]
  BY DEF Carve
<1>3. o + a \in 0 .. PoolSize /\ (o + a) % 8 = 0
  BY <1>1, WholeWords
<1>4. blocks' = blocks \cup {block}
  BY DEF Carve
<1>5. Placed(block)'
  <2>1. /\ block \in [region : Pools, start : 0 .. PoolSize, size : Sizes]
        /\ block.region = r /\ block.start = o /\ block.size = n
    BY <1>1
  <2>2. o + n <= PoolSize /\ o + n <= o + a
    BY <1>1
  <2> QED
    BY <1>1, <1>2, <2>1, <2>2 DEF Placed
<1>6. ASSUME NEW b \in blocks
      PROVE  /\ Placed(b)'
             /\ ~Memory!Overlap(block, b)
  <2>1. Placed(b) /\ b.start \in Nat /\ b.size \in Nat
    <3>1. Placed(b)
      BY DEF PoolInv
    <3>2. b \in [region : Pools, start : 0 .. PoolSize, size : Sizes]
      BY <3>1 DEF Placed
    <3> QED
      BY <3>1, <3>2, BlockFields
  <2>2. CASE b.region # r
    <3>1. m_freeableMemory'.region = r
      BY <1>2
    <3>2. Placed(b)'
      BY <2>1, <2>2, <3>1 DEF Placed
    <3>3. block.region # b.region
      BY <2>2
    <3> QED
      BY <3>2, <3>3 DEF Memory!Overlap
  <2>3. CASE b.region = r
    <3>1. address = m_freeableMemory /\ b.start + b.size <= o
      BY <2>1, <2>3 DEF Placed
    <3>2. b.start + b.size <= o + a
      BY <1>1, <2>1, <3>1
    <3> QED
      BY <1>1, <1>2, <2>1, <2>3, <3>1, <3>2 DEF Placed, Memory!Overlap
  <2> QED
    BY <2>2, <2>3
<1>7. Memory!Allocate(r, o, n)
  <2>1. o + n <= PoolSize
    BY <1>1
  <2> QED
    BY <1>1, <1>4, <1>6, <2>1 DEF Memory!Allocate
<1> QED
  BY <1>1, <1>2, <1>3, <1>4, <1>5, <1>6, <1>7

LEMMA AllocateStep ==
  ASSUME PoolInv, NEW n \in Sizes, allocateFreeable(n)
  PROVE  PoolInv' /\ Memory!Next
<1> DEFINE a == alignSize(n)
<1> USE DEF allocateFreeable
<1>1. /\ a \in Nat /\ a % 8 = 0 /\ n \in 1 .. PoolSize /\ n <= a /\ a <= PoolSize
      /\ PoolSize \in Nat
  BY Alignment, ArenaAssumption
<1>2. CASE /\ Room >= a
           /\ Carve(m_freeableMemory, n)
           /\ UNCHANGED <<m_freeablePools, heap, m_freeablePoolEnd>>
  <2>1. SomePool
    BY <1>1, <1>2 DEF PoolInv, NoPool, Room
  <2>2. /\ m_freeableMemory \in [region : Pools, offset : 0 .. PoolSize]
        /\ m_freeableMemory.offset % 8 = 0
        /\ m_freeableMemory.offset + a <= PoolSize
        /\ heap' = heap \cup {m_freeableMemory.region}
    <3>1. m_freeableMemory.region \in heap
      BY <2>1 DEF PoolInv, SomePool, freeablePool
    <3> QED
      BY <1>1, <1>2, <2>1, <3>1 DEF SomePool, Room
  <2>3. /\ m_freeableMemory' \in [region : Pools, offset : 0 .. PoolSize]
        /\ m_freeableMemory'.region = m_freeableMemory.region
        /\ m_freeableMemory'.offset % 8 = 0
        /\ \A b \in blocks' : Placed(b)'
        /\ Memory!Allocate(m_freeableMemory.region, m_freeableMemory.offset, n)
    BY <1>2, <2>2, Carving
  <2>4. SomePool'
    BY <1>2, <2>1, <2>3 DEF SomePool, freeablePool
  <2>5. heap' = FullPools' \cup {freeablePool'}
    BY <1>2, <2>1 DEF PoolInv, FullPools, freeablePool
  <2>6. PoolInv'
    BY <1>2, <2>3, <2>4, <2>5, NullIsNoPool DEF PoolInv, NoPool, SomePool
  <2> QED
    BY <2>2, <2>3, <2>6 DEF Memory!Next
<1>3. CASE /\ Room < a
           /\ \E p \in Pools \ heap :
                /\ allocateFreeablePool(p)
                /\ Carve([region |-> p, offset |-> 0], n)
  <2>1. PICK p \in Pools \ heap :
          /\ allocateFreeablePool(p)
          /\ Carve([region |-> p, offset |-> 0], n)
    BY <1>3
  <2> DEFINE address == [region |-> p, offset |-> 0]
  <2>2. /\ address \in [region : Pools, offset : 0 .. PoolSize]
        /\ address.offset % 8 = 0 /\ address.offset + a <= PoolSize
        /\ heap' = heap \cup {address.region}
        /\ address.region \notin heap
    BY <1>1, <2>1 DEF allocateFreeablePool
  <2>3. /\ m_freeableMemory' \in [region : Pools, offset : 0 .. PoolSize]
        /\ m_freeableMemory'.region = p
        /\ m_freeableMemory'.offset % 8 = 0
        /\ \A b \in blocks' : Placed(b)'
        /\ Memory!Allocate(p, 0, n)
    <3>1. address.region = p /\ address.offset = 0
      OBVIOUS
    <3> QED
      BY <2>1, <2>2, <3>1, Carving
  <2>4. /\ m_freeablePoolEnd' = [region |-> p, offset |-> PoolSize]
        /\ m_freeablePoolEnd' \in [region : Pools, offset : {PoolSize}]
        /\ freeablePool' = p
    BY <2>1 DEF allocateFreeablePool, freeablePool
  <2>5. /\ m_freeablePools' \in Seq(Pools)
        /\ \A i \in 1 .. Len(m_freeablePools') : m_freeablePools'[i] # p
        /\ \A i, j \in 1 .. Len(m_freeablePools') :
             m_freeablePools'[i] = m_freeablePools'[j] => i = j
        /\ FullPools' = heap
    <3>1. CASE NoPool
      BY <2>1, <3>1, EmptySeq DEF allocateFreeablePool, NoPool, FullPools, PoolInv
    <3>2. CASE SomePool
      <4> DEFINE k == Len(m_freeablePools)
      <4>1. m_freeablePools' = Append(m_freeablePools, freeablePool)
        BY <2>1, <3>2, NullIsNoPool DEF allocateFreeablePool
      <4>2. freeablePool \in Pools /\ m_freeablePools \in Seq(Pools) /\ k \in Nat
        BY <3>2, LenProperties DEF PoolInv, SomePool, freeablePool
      <4>3. /\ m_freeablePools' \in Seq(Pools)
            /\ Len(m_freeablePools') = k + 1
            /\ m_freeablePools'[k + 1] = freeablePool
            /\ \A i \in 1 .. k : m_freeablePools'[i] = m_freeablePools[i]
        BY <4>1, <4>2, AppendProperties
      <4>4. FullPools' = FullPools \cup {freeablePool}
        BY <4>2, <4>3 DEF FullPools
      <4>5. FullPools' = heap
        BY <3>2, <4>4 DEF PoolInv
      <4>6. \A i, j \in 1 .. k + 1 : m_freeablePools'[i] = m_freeablePools'[j] => i = j
        BY <3>2, <4>2, <4>3 DEF SomePool
      <4>7. \A i \in 1 .. k + 1 : m_freeablePools'[i] \in heap
        BY <4>3, <4>5 DEF FullPools
      <4> QED
        BY <2>1, <4>3, <4>5, <4>6, <4>7
    <3> QED
      BY <3>1, <3>2 DEF PoolInv
  <2>6. SomePool'
    BY <2>3, <2>4, <2>5 DEF SomePool
  <2>7. heap' = FullPools' \cup {freeablePool'}
    BY <2>2, <2>4, <2>5
  <2>8. PoolInv'
    BY <2>1, <2>3, <2>4, <2>5, <2>6, <2>7, ArenaAssumption
    DEF PoolInv, NoPool, SomePool
  <2>9. 0 \in 0 .. PoolSize
    BY <1>1
  <2> QED
    BY <2>1, <2>3, <2>8, <2>9 DEF Memory!Next
<1> QED
  BY <1>2, <1>3

LEMMA PoolStep ==
  ASSUME PoolInv, [Next]_vars
  PROVE  PoolInv' /\ [Memory!Next]_<<heap, blocks>>
<1> USE DEF poolVars, vectorVars
<1>1. CASE ParserArena
  <2>1. NoPool' /\ ~SomePool'
    BY <1>1, ArenaAssumption DEF ParserArena, NoPool, SomePool
  <2>2. blocks' = {} /\ heap' = {}
    BY <1>1 DEF ParserArena, PoolInv, Placed
  <2> QED
    BY <1>1, <2>1, <2>2, EmptySeq DEF ParserArena, PoolInv, NoPool
<1>2. CASE StartParse
  BY <1>2 DEF StartParse, PoolInv, NoPool, SomePool, Placed, FullPools, freeablePool
<1>3. CASE \E n \in Sizes : allocateFreeable(n)
  BY <1>3, AllocateStep
<1>4. CASE makeIdentifier
  BY <1>4 DEF makeIdentifier, PoolInv, NoPool, SomePool, Placed, FullPools, freeablePool
<1>5. CASE \E tree \in {"tree", "failed"} : FinishParse(tree)
  BY <1>5 DEF FinishParse, PoolInv, NoPool, SomePool, Placed, FullPools, freeablePool
<1>6. CASE reset
  <2>1. heap' = {} /\ badFrees' = {} /\ blocks' = {}
    BY <1>6, Deallocation DEF reset
  <2>2. NoPool' /\ ~SomePool'
    BY <1>6, NullIsNoPool, ArenaAssumption DEF reset, NoPool, SomePool
  <2>3. PoolInv'
    BY <1>6, <2>1, <2>2, EmptySeq DEF reset, PoolInv, NoPool
  <2> QED
    BY <2>1, <2>3 DEF Memory!Next, Memory!Release
<1>7. CASE DeleteArena
  <2>1. heap' = {} /\ badFrees' = {} /\ blocks' = {}
    BY <1>7, Deallocation DEF DeleteArena
  <2>2. PoolInv'
    BY <1>7, <2>1 DEF DeleteArena, PoolInv, NoPool, SomePool, freeablePool
  <2> QED
    BY <2>1, <2>2 DEF Memory!Next, Memory!Release
<1>8. CASE UNCHANGED vars
  BY <1>8 DEF vars, PoolInv, NoPool, SomePool, Placed, FullPools, freeablePool
<1> QED
  BY <1>1, <1>2, <1>3, <1>4, <1>5, <1>6, <1>7, <1>8 DEF Next

\* Nothing leaks and nothing is freed twice (ParserArena.cpp 43-72).
THEOREM FreedOnce == Spec => []PoolsAreFreedOnce
<1>1. Init => PoolInv
  BY PoolInit
<1>2. PoolInv /\ [Next]_vars => PoolInv'
  BY PoolStep
<1>3. PoolInv => PoolsAreFreedOnce
  BY PoolsFreedOnce
<1> QED
  BY <1>1, <1>2, <1>3, PTL DEF Spec

\* The arena implements the allocator that the nodes rely on.
THEOREM ArenaImplementsAllocator == Spec => Implements
<1>1. Init => PoolInv /\ Memory!Init
  BY PoolInit DEF Init, Memory!Init
<1>2. PoolInv /\ [Next]_vars => PoolInv' /\ [Memory!Next]_<<heap, blocks>>
  BY PoolStep
<1> QED
  BY <1>1, <1>2, PTL DEF Spec, Implements, Memory!Spec

-----------------------------------------------------------------------------
(* The identifiers.                                                         *)

LEMMA Remainder ==
  ASSUME NEW n \in Nat, NEW S \in Nat \ {0}
  PROVE  n \div S \in Nat /\ n % S \in 0 .. S - 1
BY SMT

LEMMA Division ==
  ASSUME NEW n \in Nat, NEW S \in Nat \ {0}
  PROVE  n = S * (n \div S) + (n % S)
BY SMT

LEMMA Quotient ==
  ASSUME NEW q \in Nat, NEW r \in Nat, NEW S \in Nat \ {0}, r < S
  PROVE  (S * q + r) \div S = q /\ (S * q + r) % S = r
BY SMT

LEMMA SmallIndex ==
  ASSUME NEW n \in Nat, NEW S \in Nat \ {0}, n < S
  PROVE  n \div S = 0 /\ n % S = n
BY SMT

\* Segment and index of the element after the last one.
NextSegment == size \div SegmentSize + 1
NextIndex == size % SegmentSize

\* Segments segs, filled up to fills, hold the elements of the vector.
Holds(segs, fills) ==
  /\ segs \in Seq(Segments \cup {Inline})
  /\ fills \in Seq(Nat)
  /\ Len(fills) = Len(segs) /\ Len(segs) >= 1
  /\ segs[1] = Inline
  /\ \A i, j \in 1 .. Len(segs) : segs[i] = segs[j] => i = j
  /\ \A k \in 1 .. Len(segs) - 1 : fills[k] = SegmentSize
  /\ \A place \in DOMAIN contents :
       \E k \in 1 .. Len(segs) : \E j \in 0 .. fills[k] - 1 : place = <<segs[k], j>>

\* All segments but the last are full, the last one holds the rest, and each
\* reference is what at() computes today.
VectorInv ==
  /\ size \in 0 .. MaxSize
  /\ Holds(segments, fill)
  /\ size = SegmentSize * (Len(segments) - 1) + fill[Len(segments)]
  /\ fill[Len(segments)] <= SegmentSize
  /\ references \in Seq((Segments \cup {Inline}) \X Nat)
  /\ Len(references) = size
  /\ \A i \in 1 .. size :
       /\ (i - 1) \div SegmentSize + 1 <= Len(segments)
       /\ references[i] = <<segments[(i - 1) \div SegmentSize + 1], (i - 1) % SegmentSize>>
       /\ references[i] \in DOMAIN contents
       /\ contents[references[i]] = i

LEMMA VectorIsValid == VectorInv => ReferencesStayValid
<1> SUFFICES ASSUME VectorInv, NEW i \in 1 .. size
             PROVE  /\ references[i][2] < SegmentSize
                    /\ \E k \in 1 .. Len(segments) : segments[k] = references[i][1]
  BY DEF VectorInv, ReferencesStayValid
<1>1. i - 1 \in Nat /\ size \in Nat
  BY DEF VectorInv
<1>2. /\ (i - 1) \div SegmentSize + 1 \in 1 .. Len(segments)
      /\ (i - 1) % SegmentSize < SegmentSize
  <2>1. (i - 1) \div SegmentSize \in Nat /\ (i - 1) % SegmentSize \in 0 .. SegmentSize - 1
    BY <1>1, Remainder, SegmentAssumption
  <2>2. (i - 1) \div SegmentSize + 1 <= Len(segments) /\ Len(segments) \in Nat
    BY LenProperties DEF VectorInv, Holds
  <2> QED
    BY <2>1, <2>2, SegmentAssumption
<1> QED
  BY <1>2 DEF VectorInv

LEMMA InitialVector ==
  ASSUME NEW segs, segs = <<Inline>>
  PROVE  /\ segs \in Seq(Segments \cup {Inline}) /\ Len(segs) = 1 /\ segs[1] = Inline
         /\ <<0>> \in Seq(Nat) /\ Len(<<0>>) = 1 /\ <<0>>[1] = 0
         /\ DOMAIN [place \in {} |-> 0] = {}
OBVIOUS

LEMMA VectorInit == InitVector => VectorInv
BY InitialVector, EmptySeq, SegmentAssumption DEF InitVector, VectorInv, Holds

\* The element after the last one goes to NextIndex of NextSegment, where the
\* segment is the last one or a new one.
LEMMA Growth ==
  ASSUME VectorInv, append
  PROVE  \E segs, fills :
           /\ Holds(segs, fills)
           /\ Len(segs) = NextSegment /\ fills[NextSegment] = NextIndex
           /\ Len(segments) <= Len(segs)
           /\ \A i \in 1 .. Len(segments) : segs[i] = segments[i]
           /\ uncheckedAppend(NextSegment, segs, fills)
<1> DEFINE L == Len(segments)
           r == fill[L]
<1> HIDE DEF L, r
<1>0. size \in Nat /\ size = SegmentSize * (L - 1) + r
  BY SegmentAssumption DEF VectorInv, L, r
<1>1. /\ L \in Nat /\ L >= 1 /\ r \in Nat /\ r <= SegmentSize
      /\ SegmentSize \in Nat /\ SegmentSize > 0
      /\ L = Len(segments) /\ r = fill[L]
      /\ segments \in Seq(Segments \cup {Inline}) /\ fill \in Seq(Nat) /\ Len(fill) = L
  BY SegmentAssumption, LenProperties DEF VectorInv, Holds, L, r
<1>2. CASE r < SegmentSize
  <2>1. NextSegment = L /\ NextIndex = r
    <3>1. L - 1 \in Nat
      BY <1>1
    <3>2. size \div SegmentSize = L - 1 /\ size % SegmentSize = r
      BY <1>0, <1>1, <1>2, <3>1, Quotient, SegmentAssumption
    <3>3. (L - 1) + 1 = L
      BY <1>1
    <3> QED
      BY <3>2, <3>3 DEF NextSegment, NextIndex
  <2>2. size < SegmentSize => NextSegment = 1
    BY <1>0, SmallIndex, SegmentAssumption DEF NextSegment
  <2>3. uncheckedAppend(NextSegment, segments, fill)
    <3>1. CASE size < SegmentSize
      <4>1. NextSegment = 1 /\ ~(size >= SegmentSize)
        BY <1>0, <1>1, <2>2, <3>1
      <4> QED
        BY <4>1 DEF append, uncheckedAppend
    <3>2. CASE size >= SegmentSize
      <4>1. NextSegment <= Len(segments)
        BY <1>1, <2>1
      <4> QED
        <5>1. ~(size < SegmentSize) /\ ~(NextSegment > Len(segments))
          BY <1>0, <1>1, <3>2, <4>1, <2>1
        <5> QED
          BY <3>2, <4>1, <5>1 DEF append, NextSegment
    <3> QED
      BY <1>0, <1>1, <3>1, <3>2
  <2>4. Holds(segments, fill)
    BY DEF VectorInv
  <2> QED
    BY <1>1, <2>1, <2>3, <2>4
<1>3. CASE r = SegmentSize
  <2>1. NextSegment = L + 1 /\ NextIndex = 0
    <3>1. size = SegmentSize * L + 0
      BY <1>0, <1>1, <1>3, SMT
    <3>2. size \div SegmentSize = L /\ size % SegmentSize = 0
      BY <1>1, <3>1, Quotient, SegmentAssumption
    <3> QED
      BY <3>2 DEF NextSegment, NextIndex
  <2>2. size >= SegmentSize
    BY <1>0, <1>1, <1>3, SMT
  <2>3. PICK s \in Segments :
          /\ \A i \in 1 .. L : segments[i] # s
          /\ uncheckedAppend(NextSegment, Append(segments, s), Append(fill, 0))
    <3>1. ~(size < SegmentSize) /\ ~(NextSegment <= Len(segments))
      BY <1>0, <1>1, <2>1, <2>2
    <3> QED
      BY <1>1, <3>1 DEF append, NextSegment
  <2> DEFINE segs == Append(segments, s)
             fills == Append(fill, 0)
  <2>4. /\ segs \in Seq(Segments \cup {Inline}) /\ Len(segs) = L + 1
        /\ segs[L + 1] = s /\ \A i \in 1 .. L : segs[i] = segments[i]
    BY <1>1, AppendProperties
  <2>5. /\ fills \in Seq(Nat) /\ Len(fills) = L + 1
        /\ fills[L + 1] = 0 /\ \A i \in 1 .. L : fills[i] = fill[i]
    BY <1>1, AppendProperties
  <2> HIDE DEF segs, fills
  <2>6. \A k \in 1 .. L : fills[k] = SegmentSize
    <3>1. \A k \in 1 .. L - 1 : fill[k] = SegmentSize
      BY <1>1 DEF VectorInv, Holds
    <3>2. \A k \in 1 .. L : k = L \/ k \in 1 .. L - 1
      BY <1>1
    <3> QED
      BY <1>1, <1>3, <2>5, <3>1, <3>2
  <2>7. \A i, j \in 1 .. L + 1 : segs[i] = segs[j] => i = j
    <3>1. \A i, j \in 1 .. L : segments[i] = segments[j] => i = j
      BY <1>1 DEF VectorInv, Holds
    <3> QED
      BY <1>1, <2>3, <2>4, <3>1
  <2>8. ASSUME NEW place \in DOMAIN contents
        PROVE  \E k \in 1 .. L + 1 : \E j \in 0 .. fills[k] - 1 : place = <<segs[k], j>>
    <3>1. PICK k \in 1 .. L : \E j \in 0 .. fill[k] - 1 : place = <<segments[k], j>>
      BY <1>1 DEF VectorInv, Holds
    <3>2. k \in 1 .. L + 1 /\ fills[k] = fill[k] /\ segs[k] = segments[k]
      BY <1>1, <2>4, <2>5
    <3> QED
      BY <3>1, <3>2
  <2>9. Holds(segs, fills)
    <3>1. segs[1] = Inline
      <4>1. segments[1] = Inline /\ 1 \in 1 .. L
        BY <1>1 DEF VectorInv, Holds
      <4> QED
        BY <4>1, <2>4
    <3>2. Len(segs) - 1 = L /\ Len(fills) = Len(segs) /\ Len(segs) >= 1
      BY <1>1, <2>4, <2>5
    <3> QED
      BY <2>4, <2>5, <2>6, <2>7, <2>8, <3>1, <3>2 DEF Holds
  <2>10. uncheckedAppend(NextSegment, segs, fills)
    BY <2>3 DEF segs, fills
  <2> QED
    BY <1>1, <2>1, <2>4, <2>5, <2>9, <2>10
<1> QED
  BY <1>1, <1>2, <1>3

LEMMA AppendStep ==
  ASSUME VectorInv, append
  PROVE  VectorInv'
<1> DEFINE K == NextSegment
           x == NextIndex
<1>1. PICK segs, fills :
        /\ Holds(segs, fills)
        /\ Len(segs) = K /\ fills[K] = x
        /\ Len(segments) <= Len(segs)
        /\ \A i \in 1 .. Len(segments) : segs[i] = segments[i]
        /\ uncheckedAppend(K, segs, fills)
  BY Growth
<1> DEFINE cell == <<segs[K], x>>
<1>2. /\ size \in Nat /\ MaxSize \in Nat /\ SegmentSize \in Nat \ {0}
      /\ size < MaxSize /\ size' = size + 1
  BY SegmentAssumption DEF VectorInv, append
<1>3. /\ K \in Nat /\ K >= 1 /\ x \in Nat /\ x < SegmentSize
      /\ size = SegmentSize * (K - 1) + x
  <2>1. size \div SegmentSize \in Nat /\ x \in 0 .. SegmentSize - 1
    BY <1>2, Remainder DEF NextIndex
  <2>2. size = SegmentSize * (size \div SegmentSize) + x
    BY <1>2, Division DEF NextIndex
  <2>3. (K - 1) = size \div SegmentSize
    BY <2>1 DEF NextSegment
  <2> QED
    BY <1>2, <2>1, <2>2, <2>3 DEF NextSegment
<1> HIDE DEF K, x
<1>4. /\ segments' = segs
      /\ fill' = [fills EXCEPT ![K] = x + 1]
      /\ contents' = [place \in DOMAIN contents \cup {cell} |->
                        IF place = cell THEN size + 1 ELSE contents[place]]
  BY <1>1 DEF uncheckedAppend
<1>5. /\ segs \in Seq(Segments \cup {Inline}) /\ Len(segs) = K
      /\ fills \in Seq(Nat) /\ Len(fills) = K /\ segs[1] = Inline
      /\ K \in 1 .. K
  BY <1>1, <1>3 DEF Holds
<1>6. cell \notin DOMAIN contents
  <2> SUFFICES ASSUME cell \in DOMAIN contents
               PROVE  FALSE
    OBVIOUS
  <2>1. PICK k \in 1 .. K : \E j \in 0 .. fills[k] - 1 : cell = <<segs[k], j>>
    BY <1>1 DEF Holds
  <2>2. segs[K] = segs[k] /\ x \in 0 .. fills[k] - 1
    BY <2>1
  <2>3. K = k
    BY <1>1, <1>5, <2>2 DEF Holds
  <2> QED
    BY <1>1, <1>3, <2>2, <2>3
<1>7. /\ fill' \in Seq(Nat) /\ Len(fill') = K /\ fill'[K] = x + 1
      /\ \A k \in 1 .. K : k # K => fill'[k] = fills[k]
  BY <1>3, <1>4, <1>5
<1>8. Holds(segments, fill)'
  <2>1. \A k \in 1 .. K - 1 : fill'[k] = SegmentSize
    <3>1. \A k \in 1 .. K - 1 : k \in 1 .. K /\ k # K
      BY <1>3
    <3>2. \A k \in 1 .. K - 1 : fills[k] = SegmentSize
      BY <1>1 DEF Holds
    <3> QED
      BY <1>7, <3>1, <3>2
  <2>2. ASSUME NEW place \in DOMAIN contents'
        PROVE  \E k \in 1 .. K : \E j \in 0 .. fill'[k] - 1 : place = <<segs[k], j>>
    <3>1. CASE place = cell
      <4>1. x \in 0 .. fill'[K] - 1
        BY <1>3, <1>7
      <4> QED
        BY <1>5, <3>1, <4>1
    <3>2. CASE place \in DOMAIN contents
      <4>1. PICK k \in 1 .. K : \E j \in 0 .. fills[k] - 1 : place = <<segs[k], j>>
        BY <1>1, <3>2 DEF Holds
      <4>2. CASE k = K
        <5>1. \A j \in 0 .. fills[k] - 1 : j \in 0 .. fill'[K] - 1
          BY <1>1, <1>3, <1>7, <4>2
        <5> QED
          BY <1>5, <4>1, <4>2, <5>1
      <4>3. CASE k # K
        BY <1>7, <4>1, <4>3
      <4> QED
        BY <4>2, <4>3
    <3> QED
      BY <1>4, <3>1, <3>2
  <2>3. \A i, j \in 1 .. K : segs[i] = segs[j] => i = j
    BY <1>1 DEF Holds
  <2> QED
    BY <1>3, <1>4, <1>5, <1>7, <2>1, <2>2, <2>3 DEF Holds
<1>9. At(size, segments') = cell
  <2>1. CASE size < SegmentSize
    <3>1. K = 1 /\ x = size
      BY <1>2, <2>1, SmallIndex DEF K, x, NextSegment, NextIndex
    <3> QED
      BY <1>4, <2>1, <3>1 DEF At
  <2>2. CASE size >= SegmentSize
    <3>1. ~(size < SegmentSize)
      BY <1>2, <2>2
    <3> QED
      BY <1>4, <3>1 DEF At, K, x, NextSegment, NextIndex
  <2> QED
    BY <1>2, <2>1, <2>2
<1>10. /\ references' \in Seq((Segments \cup {Inline}) \X Nat)
       /\ Len(references') = size + 1
       /\ references'[size + 1] = cell
       /\ \A i \in 1 .. size : references'[i] = references[i]
  <2>1. references' = Append(references, cell)
    BY <1>9 DEF append
  <2>2. cell \in (Segments \cup {Inline}) \X Nat
    BY <1>3, <1>5
  <2>3. references \in Seq((Segments \cup {Inline}) \X Nat) /\ Len(references) = size
    BY DEF VectorInv
  <2> QED
    BY <2>1, <2>2, <2>3, AppendProperties
<1>11. ASSUME NEW i \in 1 .. size + 1
       PROVE  /\ (i - 1) \div SegmentSize + 1 <= K
              /\ references'[i] = <<segs[(i - 1) \div SegmentSize + 1], (i - 1) % SegmentSize>>
              /\ references'[i] \in DOMAIN contents'
              /\ contents'[references'[i]] = i
  <2>1. CASE i = size + 1
    <3>1. i - 1 = size
      BY <1>2, <2>1
    <3>2. K = (i - 1) \div SegmentSize + 1 /\ x = (i - 1) % SegmentSize
      BY <3>1 DEF K, x, NextSegment, NextIndex
    <3>3. cell \in DOMAIN contents' /\ contents'[cell] = size + 1
      BY <1>4
    <3>4. references'[i] = cell
      BY <1>10, <2>1
    <3>5. cell = <<segs[(i - 1) \div SegmentSize + 1], (i - 1) % SegmentSize>>
      BY <3>2
    <3>6. (i - 1) \div SegmentSize + 1 <= K
      BY <1>3, <3>2
    <3> QED
      BY <2>1, <3>3, <3>4, <3>5, <3>6
  <2>2. CASE i \in 1 .. size
    <3> DEFINE k == (i - 1) \div SegmentSize + 1
    <3>1. /\ k <= Len(segments)
          /\ references[i] = <<segments[k], (i - 1) % SegmentSize>>
          /\ references[i] \in DOMAIN contents
          /\ contents[references[i]] = i
      BY <2>2 DEF VectorInv
    <3>2. i - 1 \in Nat
      BY <1>2, <2>2
    <3>3. k \in Nat /\ k >= 1
      BY <1>2, <3>2, Remainder
    <3>4. Len(segments) \in Nat
      BY LenProperties DEF VectorInv, Holds
    <3> HIDE DEF k
    <3>5. segs[k] = segments[k] /\ k <= K
      BY <1>1, <1>3, <1>5, <3>1, <3>3, <3>4
    <3>6. references[i] \in DOMAIN contents' /\ contents'[references[i]] = i
      BY <1>4, <1>6, <3>1
    <3>7. references'[i] = references[i]
      BY <1>10, <2>2
    <3>8. references'[i] = <<segs[k], (i - 1) % SegmentSize>>
      BY <3>1, <3>5, <3>7
    <3> QED
      BY <3>5, <3>6, <3>7, <3>8 DEF k
  <2> QED
    BY <1>2, <2>1, <2>2
<1>12. size' = SegmentSize * (Len(segments') - 1) + fill'[Len(segments')]
  <2>1. Len(segments') = K /\ fill'[K] = x + 1
    BY <1>4, <1>5, <1>7
  <2>2. SegmentSize * (K - 1) \in Nat
    BY <1>2, <1>3, SMT
  <2>3. size + 1 = SegmentSize * (K - 1) + (x + 1)
    BY <1>3, <2>2
  <2> QED
    BY <1>2, <2>1, <2>3
<1>13. size' \in 0 .. MaxSize /\ fill'[Len(segments')] <= SegmentSize
  BY <1>2, <1>3, <1>4, <1>5, <1>7
<1> QED
  BY <1>2, <1>4, <1>5, <1>8, <1>10, <1>11, <1>12, <1>13 DEF VectorInv

LEMMA VectorStep == VectorInv /\ [Next]_vars => VectorInv'
<1> SUFFICES ASSUME VectorInv, [Next]_vars
             PROVE  VectorInv'
  OBVIOUS
<1>1. CASE append
  BY <1>1, AppendStep
<1>2. ASSUME clear \/ ParserArena
      PROVE  VectorInv'
  <2>1. /\ size' = 0 /\ segments' = <<Inline>> /\ fill' = <<0>>
        /\ contents' = [place \in {} |-> 0] /\ references' = <<>>
    BY <1>2 DEF clear, ParserArena, VectorInv, Holds
  <2> QED
    BY <2>1, InitialVector, EmptySeq, SegmentAssumption DEF VectorInv, Holds
<1>3. CASE UNCHANGED vectorVars
  BY <1>3 DEF vectorVars, VectorInv, Holds
<1> QED
  BY <1>1, <1>2, <1>3 DEF Next, vars, StartParse, allocateFreeable, makeIdentifier,
     FinishParse, reset, DeleteArena

\* Identifiers never move and are never overwritten (SegmentedVector.h 99-101).
THEOREM ReferencesStay == Spec => []ReferencesStayValid
<1>1. Init => VectorInv
  BY VectorInit DEF Init
<1> QED
  BY <1>1, VectorStep, VectorIsValid, PTL DEF Spec

\* Both invariants together give the types.
THEOREM ArenaTypes == Spec => []TypeOK
<1>1. Init => PoolInv /\ VectorInv
  BY PoolInit, VectorInit DEF Init
<1>2. PoolInv /\ VectorInv /\ [Next]_vars => PoolInv' /\ VectorInv'
  BY PoolStep, VectorStep
<1>3. PoolInv /\ VectorInv => TypeOK
  <2> SUFFICES ASSUME PoolInv, VectorInv
               PROVE  TypeOK
    OBVIOUS
  <2>1. m_freeableMemory \in Pointers /\ m_freeablePoolEnd \in Pointers
    BY ArenaAssumption DEF PoolInv, NoPool, SomePool, Pointers
  <2>2. blocks \subseteq [region : Pools, start : 0 .. PoolSize, size : Sizes]
    BY DEF PoolInv, Placed
  <2> QED
    BY <2>1, <2>2 DEF TypeOK, PoolInv, VectorInv, Holds
<1> QED
  BY <1>1, <1>2, <1>3, PTL DEF Spec

=============================================================================
