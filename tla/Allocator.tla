----------------------------- MODULE Allocator -----------------------------
(***************************************************************************)
(* What the tree nodes expect of the memory they live in: a block handed   *)
(* out is aligned, lies in one region, shares no byte with another block   *)
(* that is still in use, and stays until everything is released at once.   *)
(***************************************************************************)
EXTENDS Integers

CONSTANTS
  Regions,        \* the pieces of memory malloc can return
  RegionSize,     \* bytes of a region
  Sizes           \* sizes of the objects asked for

VARIABLES
  owned,          \* regions obtained from malloc and not yet freed
  used            \* blocks handed out and not yet released

Overlap(a, b) ==
  /\ a.region = b.region
  /\ a.start < b.start + b.size
  /\ b.start < a.start + a.size

Init == owned = {} /\ used = {}

Allocate(r, o, n) ==
  LET block == [region |-> r, start |-> o, size |-> n] IN
  /\ o % 8 = 0
  /\ o + n <= RegionSize
  /\ \A b \in used : ~Overlap(block, b)
  /\ owned' = owned \cup {r}
  /\ used' = used \cup {block}

Release == owned' = {} /\ used' = {}

Next ==
  \/ \E r \in Regions, o \in 0 .. RegionSize, n \in Sizes : Allocate(r, o, n)
  \/ Release

Spec == Init /\ [][Next]_<<owned, used>>

=============================================================================
