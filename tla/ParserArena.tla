---------------------------- MODULE ParserArena ----------------------------
(***************************************************************************)
(* The memory of one Reflect.parse: ParserArena (parser/ParserArena.cpp),  *)
(* its IdentifierArena, and the life of the JSGlobalData that owns them.   *)
(*                                                                         *)
(* reflect_parse makes a JSGlobalData, createSyntaxTree hands the arena to *)
(* the lexer while it parses, convertNode reads the nodes, and deleting    *)
(* the JSGlobalData frees everything.  reset() has no caller; its comment  *)
(* says that it runs after a failed parse, and that is when it may here.   *)
(*                                                                         *)
(* External: malloc returns any region that is not allocated and does not  *)
(* fail; free of a region that is not allocated is recorded in badFrees.   *)
(***************************************************************************)
EXTENDS SegmentedVector, FiniteSets

CONSTANTS
  Pools,          \* what malloc can return
  Null,           \* the null pointer
  PoolSize,       \* freeablePoolSize, 8000 in the code
  Sizes,          \* sizes of node objects
  MaxBlocks       \* bound on the nodes of a tree

ASSUME ArenaAssumption ==
  /\ Null \notin Pools
  /\ PoolSize \in Nat \ {0} /\ PoolSize % 8 = 0
  /\ Sizes \subseteq 1 .. PoolSize
  /\ MaxBlocks \in Nat

VARIABLES
  phase,              \* where reflect_parse is
  m_freeableMemory,   \* address of the next block
  m_freeablePoolEnd,  \* end of the current pool
  m_freeablePools,    \* pools that are full
  m_arena,            \* the lexer's pointer to the identifier arena
  heap,               \* external: regions malloc gave out and free did not take back
  badFrees,           \* external: regions freed while not allocated
  blocks              \* history: blocks handed out

poolVars == <<m_freeableMemory, m_freeablePoolEnd, m_freeablePools, heap, badFrees, blocks>>
vars == <<phase, m_arena, poolVars, vectorVars>>

NullPointer == [region |-> Null, offset |-> 0]

-----------------------------------------------------------------------------
(* Pools.                                                                  *)

\* Slip: the last bits are cleared without rounding up first.
alignSize_roundsDown(n) == (n \div 8) * 8

\* (n + 7) & ~7.
alignSize(n) == ((n + 7) \div 8) * 8

\* freeablePool(): the start of the pool that ends at m_freeablePoolEnd.
freeablePool == m_freeablePoolEnd.region

\* The addresses deallocateObjects passes to free, in its order.
Freed ==
  (IF m_freeablePoolEnd = NullPointer THEN <<>> ELSE <<freeablePool>>) \o m_freeablePools

deallocateObjects ==
  LET pools == {Freed[i] : i \in DOMAIN Freed}
      again == {i \in DOMAIN Freed :
                  Freed[i] \notin heap \/ \E j \in 1 .. i - 1 : Freed[j] = Freed[i]}
  IN /\ heap' = heap \ pools
     /\ badFrees' = badFrees \cup {Freed[i] : i \in again}
     /\ blocks' = {}

\* The constructors of JSGlobalData, Parser and ParserArena.
ParserArena ==
  /\ phase = "deleted"
  /\ phase' = "made"
  /\ m_freeableMemory' = NullPointer
  /\ m_freeablePoolEnd' = NullPointer
  /\ m_freeablePools' = <<>>
  /\ size' = 0 /\ segments' = <<Inline>> /\ fill' = <<0>>
  /\ contents' = [place \in {} |-> 0] /\ references' = <<>>
  /\ UNCHANGED <<m_arena, heap, badFrees, blocks>>

\* lexer.setCode, and jsCreateSyntaxTree begins.
StartParse ==
  /\ phase = "made"
  /\ phase' = "parsing"
  /\ m_arena' = "arena"
  /\ UNCHANGED <<poolVars, vectorVars>>

\* The block is cut from the memory that begins at address.
Carve(address, n) ==
  /\ m_freeableMemory' = [address EXCEPT !.offset = @ + alignSize(n)]
  /\ blocks' = blocks \cup
       {[region |-> address.region, start |-> address.offset, size |-> n]}

\* The pool in use is put with the full ones and malloc returns p.
allocateFreeablePool(p) ==
  /\ m_freeablePools' = IF m_freeablePoolEnd = NullPointer
                        THEN m_freeablePools
                        ELSE Append(m_freeablePools, freeablePool)
  /\ heap' = heap \cup {p}
  /\ m_freeablePoolEnd' = [region |-> p, offset |-> PoolSize]

\* Slip: the end is taken for the last word of the pool.
Room_pastTheEnd == m_freeablePoolEnd.offset + 8 - m_freeableMemory.offset

Room == m_freeablePoolEnd.offset - m_freeableMemory.offset

\* operator new of a tree node.
allocateFreeable(n) ==
  /\ phase = "parsing"
  /\ Cardinality(blocks) < MaxBlocks
  /\ \/ /\ Room >= alignSize(n)
        /\ Carve(m_freeableMemory, n)
        /\ UNCHANGED <<m_freeablePools, heap, m_freeablePoolEnd>>
     \/ /\ Room < alignSize(n)
        /\ \E p \in Pools \ heap :
             /\ allocateFreeablePool(p)
             /\ Carve([region |-> p, offset |-> 0], n)
  /\ UNCHANGED <<phase, m_arena, badFrees, vectorVars>>

\* IdentifierArena::makeIdentifier, and makeNumericIdentifier.
makeIdentifier ==
  /\ phase = "parsing" /\ m_arena = "arena"
  /\ append
  /\ UNCHANGED <<phase, m_arena, poolVars>>

\* createSyntaxTree after the parse: lexer.clear(), with a tree or without.
FinishParse(tree) ==
  /\ phase = "parsing"
  /\ phase' = tree
  /\ m_arena' = "null"
  /\ UNCHANGED <<poolVars, vectorVars>>

\* Slip: reset leaves the list of full pools as it is.
reset_keepsFullPools ==
  /\ phase = "failed"
  /\ deallocateObjects
  /\ m_freeableMemory' = NullPointer
  /\ m_freeablePoolEnd' = NullPointer
  /\ clear
  /\ UNCHANGED <<phase, m_arena, m_freeablePools>>

reset ==
  /\ phase = "failed"
  /\ deallocateObjects
  /\ m_freeableMemory' = NullPointer
  /\ m_freeablePoolEnd' = NullPointer
  /\ m_freeablePools' = <<>>
  /\ clear
  /\ UNCHANGED <<phase, m_arena>>

\* delete globalData: the destructors of JSGlobalData, Parser and ParserArena.
\* Members that die with the arena keep their values, as its memory would.
DeleteArena ==
  /\ phase \in {"tree", "failed"}
  /\ phase' = "deleted"
  /\ deallocateObjects
  /\ clear
  /\ UNCHANGED <<m_arena, m_freeableMemory, m_freeablePoolEnd, m_freeablePools>>

Init ==
  /\ phase = "made"
  /\ m_freeableMemory = NullPointer
  /\ m_freeablePoolEnd = NullPointer
  /\ m_freeablePools = <<>>
  /\ m_arena = "null"
  /\ heap = {} /\ badFrees = {} /\ blocks = {}
  /\ InitVector

Next ==
  \/ ParserArena
  \/ StartParse
  \/ \E n \in Sizes : allocateFreeable(n)
  \/ makeIdentifier
  \/ \E tree \in {"tree", "failed"} : FinishParse(tree)
  \/ reset
  \/ DeleteArena

Spec == Init /\ [][Next]_vars

-----------------------------------------------------------------------------
Pointers == [region : Pools \cup {Null}, offset : 0 .. PoolSize]

\* Every variable has its type; in particular both pointers stay between the
\* start and the end of a pool.
TypeOK ==
  /\ phase \in {"made", "parsing", "tree", "failed", "deleted"}
  /\ m_freeableMemory \in Pointers
  /\ m_freeablePoolEnd \in Pointers
  /\ m_freeablePools \in Seq(Pools)
  /\ m_arena \in {"null", "arena"}
  /\ heap \subseteq Pools /\ badFrees \subseteq Pools
  /\ blocks \subseteq [region : Pools, start : 0 .. PoolSize, size : Sizes]
  /\ size \in 0 .. MaxSize
  /\ segments \in Seq(Segments \cup {Inline}) /\ Len(fill) = Len(segments)

\* The pools deallocateObjects would free are the ones malloc gave out, each
\* once: nothing leaks when the arena goes away, nothing is freed twice, also
\* after a reset, and nothing is allocated before or after its life.
PoolsAreFreedOnce ==
  /\ badFrees = {}
  /\ phase = "deleted" => heap = {}
  /\ phase # "deleted" => /\ heap = {Freed[i] : i \in DOMAIN Freed}
                          /\ \A i, j \in DOMAIN Freed : Freed[i] = Freed[j] => i = j

\* The arena is the allocator the nodes expect (ParserArena.h 70-81).
Memory == INSTANCE Allocator WITH
  Regions <- Pools, RegionSize <- PoolSize, owned <- heap, used <- blocks
Implements == Memory!Spec

=============================================================================
