------------------------------ MODULE ShellProofs ------------------------------
(* Proofs about Shell and the walk of ScanDirectory, for every set of names, *)
(* depth, directory tree, number of changes by others and command line.      *)
EXTENDS Shell, SequenceTheorems, FiniteSetTheorems, TLAPS

-----------------------------------------------------------------------------
(* The inductive invariant.  What a finished scan has printed depends on     *)
(* what lies ahead of it, so the invariant says for every path whether the   *)
(* calls of scanDirectory and the open directory still lead there.           *)

\* The path q is p or a directory that p is in.
Above(q, p) == Len(q) <= Len(p) /\ \A k \in 1 .. Len(q) : q[k] = p[k]

\* The path is there, or was there and has been deleted.
Known(q) == kind[q] # "none" \/ q \in gone

\* The entries of the directory q that are in the tree.
IsEntry(q, name) == name \in Names /\ Append(q, name) \in Paths /\ Known(Append(q, name))

TreeInv ==
    /\ kind \in [Paths -> Kinds] /\ been \in [Paths -> SUBSET Kinds]
    /\ gone \subseteq Paths \ {<<>>}
    /\ \A p \in Paths \ {<<>>} : kind[p] # "none" => kind[Parent(p)] \in Directories \cup {"hidden"}
    /\ \A p \in Paths : kind[p] \in been[p]
    /\ \A p \in gone : "none" \in been[p]

\* The calls: every one but the innermost has a call in its forEach, one level
\* deeper.
Calls ==
    /\ stack \in Seq(Frame)
    /\ \A j \in 1 .. Len(stack) : Len(stack[j].path) = j - 1
    /\ \A j, k \in 1 .. Len(stack) : j <= k => Above(stack[j].path, stack[k].path)
    /\ \A j \in 1 .. Len(stack) : j < Len(stack) => stack[j].at = "forEach"

\* Everything a call has been told of existed then.
Told(f) ==
    /\ f.path # <<>> => Known(f.path)
    /\ \A e \in 1 .. Len(f.entries) : IsEntry(f.path, f.entries[e])
    /\ f.at \notin {"readdir", "forEach"} => f.entries = <<>>

\* stat has refused the path, or may have.
WasHidden(p) == \E q \in Prefixes(p) : "hidden" \in been[q]

\* isDirectory has said yes.
WasDirectory(q) == kind[q] \in Directories \/ q \in gone \/ WasHidden(q)
Opening(f) == f.at = "opendir" => WasDirectory(f.path)

\* Nothing comes twice unless it has been deleted in between: not in what is
\* left for a forEach, not after the call below it, and not from readdir.
EntriesDiffer(f) ==
    \A d, e \in 1 .. Len(f.entries) :
        d # e /\ f.entries[d] = f.entries[e] => Append(f.path, f.entries[e]) \in gone
Leaves(f, g) ==
    \A e \in 1 .. Len(f.entries) : g.path = Append(f.path, f.entries[e]) => g.path \in gone

GoodFrame(f) == Told(f) /\ Opening(f) /\ EntriesDiffer(f)
Frames == \A j \in 1 .. Len(stack) : GoodFrame(stack[j])
CallsDiffer == \A j \in 1 .. Len(stack) - 1 : Leaves(stack[j], stack[j + 1])
ReadsDiffer ==
    At("readdir") => \A e \in 1 .. Len(Top.entries) :
        Top.entries[e] \in dir.must \cup dir.may => Append(Top.path, Top.entries[e]) \in gone

Dots == {".", ".."}
Reading ==
    /\ dir.path \in Paths /\ dir = [path |-> dir.path, must |-> dir.must, may |-> dir.may]
    /\ dir.must \subseteq Names \cup Dots /\ dir.may \subseteq Names \cup Dots
    /\ At("readdir") =>
          /\ dir.path = Top.path
          /\ \A name \in dir.must \cup dir.may : name \notin Dots => IsEntry(dir.path, name)

Progress ==
    /\ outcome \in {"none", "scanning", "done", "thrown"}
    /\ outcome = "none" => stack = <<>> /\ printed = <<>>
    /\ outcome \in {"scanning", "thrown"} => stack # <<>>
    /\ outcome = "done" => stack = <<>>
    /\ outcome = "thrown" => ScanFailsForAReason

\* The path p lies ahead: the innermost call has it or a directory it is in
\* before it, forEach of some call has, or readdir has.
BeforeTop(p) ==
    /\ outcome = "scanning" /\ stack # <<>>
    /\ Top.at \notin {"readdir", "forEach"} /\ Above(Top.path, p)
EntryAbove(f, p) ==
    \E e \in 1 .. Len(f.entries) : Above(Append(f.path, f.entries[e]), p)
InEntries(p) == \E j \in 1 .. Len(stack) : EntryAbove(stack[j], p)
InDir(p, names) == At("readdir") /\ \E name \in names : Above(Append(dir.path, name), p)

Ahead(p) == BeforeTop(p) \/ InEntries(p) \/ InDir(p, dir.must \cup dir.may)

\* None of the directories that p is in, and not p, was ever deleted.
Clean(p) == \A q \in gone : ~Above(q, p)

\* A path that was printed was a script, and is not met again.
WasScript(p) ==
    /\ p # <<>> /\ Last(p) \in Scripts /\ "file" \in been[p]
    /\ \A q \in Paths : q # <<>> /\ Above(q, p) => Known(q)
IsPrinted(p) == \E a \in 1 .. Len(printed) : printed[a] = p
IsPrintedOnce(p) == \A a, b \in 1 .. Len(printed) : printed[a] = p /\ printed[b] = p => a = b
PrintedOnce ==
    /\ printed \in Seq(Paths)
    /\ \A p \in Paths : IsPrinted(p) =>
          WasScript(p) /\ (Clean(p) => ~Ahead(p) /\ IsPrintedOnce(p))

\* A script that nobody touches.
Stable(p) ==
    /\ p \in Paths /\ p # <<>> /\ Last(p) \in Scripts
    /\ been[p] = {"file"}
    /\ \A q \in Paths : Above(q, p) /\ q # p => been[q] = {"directory"}

Reached(p) ==
    \/ IsPrinted(p)
    \/ BeforeTop(p) /\ (Top.at \in {"isDirectory", "opendir"} => Top.path # p)
    \/ InEntries(p)
    \/ InDir(p, dir.must)

NoneIsLost == outcome \in {"scanning", "done"} => \A p \in Paths : Stable(p) => Reached(p)

WalkInv ==
    TreeInv /\ Calls /\ Frames /\ CallsDiffer /\ Reading /\ ReadsDiffer /\ Progress
ScanInv == WalkInv /\ PrintedOnce /\ NoneIsLost

-----------------------------------------------------------------------------
(* Paths.                                                                   *)

LEMMA PathsAre ==
    /\ \A p : p \in Paths <=> p \in Seq(Names) /\ Len(p) <= Depth
    /\ <<>> \in Paths
<1>0. Depth \in Nat
  BY FileSystemAssumption
<1>1. ASSUME NEW p \in Paths PROVE p \in Seq(Names) /\ Len(p) <= Depth
  <2>1. PICK n \in 0 .. Depth : p \in [1 .. n -> Names]
    BY DEF Paths
  <2>2. p \in Seq(Names) /\ Len(p) = n
    BY <2>1, SeqDef
  <2> QED
    BY <2>2
<1>2. ASSUME NEW p \in Seq(Names), Len(p) <= Depth PROVE p \in Paths
  <2>1. Len(p) \in 0 .. Depth /\ p \in [1 .. Len(p) -> Names]
    BY <1>0, <1>2, LenProperties
  <2> QED
    BY <2>1 DEF Paths
<1>3. <<>> \in Seq(Names) /\ Len(<<>>) <= Depth
  BY <1>0, EmptySeq
<1> QED
  BY <1>1, <1>2, <1>3

LEMMA ShortIsPath ==
    ASSUME NEW p \in Seq(Names), Len(p) <= Depth
    PROVE  p \in Paths
BY PathsAre

LEMMA PathFacts ==
    ASSUME NEW p \in Paths
    PROVE  /\ p \in Seq(Names) /\ Len(p) \in Nat /\ Len(p) <= Depth
           /\ \A k \in 1 .. Len(p) : p[k] \in Names
           /\ p = <<>> <=> Len(p) = 0
<1>1. p \in Seq(Names) /\ Len(p) <= Depth
  BY PathsAre
<1>2. Len(p) \in Nat /\ (p # <<>> => Len(p) \in Nat \ {0}) /\ Len(<<>>) = 0
  BY <1>1, EmptySeq, LenProperties
<1>3. \A k \in 1 .. Len(p) : p[k] \in Names
  BY <1>1, ElementOfSeq
<1> QED
  BY <1>1, <1>2, <1>3

LEMMA SamePath ==
    ASSUME NEW p \in Paths, NEW q \in Paths, Len(p) = Len(q),
           \A k \in 1 .. Len(p) : p[k] = q[k]
    PROVE  p = q
BY PathFacts, SeqEqual

LEMMA ChildFacts ==
    ASSUME NEW q \in Paths, NEW name \in Names
    PROVE  /\ Append(q, name) \in Seq(Names) /\ Append(q, name) # <<>>
           /\ Len(Append(q, name)) = Len(q) + 1
           /\ \A k \in 1 .. Len(q) : Append(q, name)[k] = q[k]
           /\ Append(q, name)[Len(q) + 1] = name
<1>1. q \in Seq(Names)
  BY PathFacts
<1> QED
  BY <1>1, AppendProperties

LEMMA ParentFacts ==
    ASSUME NEW p \in Paths, p # <<>>
    PROVE  /\ Parent(p) \in Paths /\ Len(Parent(p)) = Len(p) - 1
           /\ Above(Parent(p), p) /\ Last(p) \in Names
           /\ Append(Parent(p), Last(p)) = p
<1>1. p \in Seq(Names) /\ Len(p) \in Nat /\ Len(p) # 0 /\ Len(p) <= Depth /\ Depth \in Nat
      /\ \A k \in 1 .. Len(p) : p[k] \in Names
  BY PathFacts, FileSystemAssumption
<1>2. Last(p) \in Names
  BY <1>1 DEF Last
<1>3. \A k \in 1 .. Len(p) - 1 : p[k] \in Names
  BY <1>1
<1>4. /\ SubSeq(p, 1, Len(p) - 1) \in Seq(Names)
      /\ Len(SubSeq(p, 1, Len(p) - 1)) = Len(p) - 1
      /\ \A k \in 1 .. Len(p) - 1 : SubSeq(p, 1, Len(p) - 1)[k] = p[k]
  <2> DEFINE m == Len(p) - 1
  <2>1. m \in Int /\ 1 \in Int /\ \A k \in 1 .. m : p[k] \in Names
    BY <1>1, <1>3
  <2>2. m >= 0
    BY <1>1
  <2> HIDE DEF m
  <2>3. /\ SubSeq(p, 1, m) \in Seq(Names)
        /\ Len(SubSeq(p, 1, m)) = IF 1 <= m THEN m - 1 + 1 ELSE 0
        /\ \A k \in 1 .. m - 1 + 1 : SubSeq(p, 1, m)[k] = p[1 + k - 1]
    BY <2>1, SubSeqProperties
  <2>4. Len(SubSeq(p, 1, m)) = m /\ \A k \in 1 .. m : SubSeq(p, 1, m)[k] = p[k]
    BY <2>1, <2>2, <2>3
  <2> QED
    BY <2>3, <2>4 DEF m
<1>5. /\ Parent(p) \in Seq(Names) /\ Len(Parent(p)) = Len(p) - 1
      /\ \A k \in 1 .. Len(p) - 1 : Parent(p)[k] = p[k]
  BY <1>4 DEF Parent, Front
<1>6. Parent(p) \in Paths
  BY <1>1, <1>5, PathsAre
<1>7. Above(Parent(p), p)
  BY <1>1, <1>5 DEF Above
<1>8. Append(Parent(p), Last(p)) = p
  <2> DEFINE c == Append(Parent(p), Last(p))
  <2>1. /\ c \in Seq(Names) /\ Len(c) = Len(Parent(p)) + 1
        /\ \A k \in 1 .. Len(Parent(p)) : c[k] = Parent(p)[k]
        /\ c[Len(Parent(p)) + 1] = Last(p)
    BY <1>2, <1>6, ChildFacts
  <2> HIDE DEF c
  <2>2. c \in Seq(Names) /\ Len(c) = Len(p) /\ \A k \in 1 .. Len(c) : c[k] = p[k]
    BY <1>1, <1>5, <2>1 DEF Last
  <2>3. c = p
    BY <1>1, <2>2, SeqEqual
  <2> QED
    BY <2>3 DEF c
<1> QED
  BY <1>2, <1>5, <1>6, <1>7, <1>8

LEMMA AboveItself ==
    ASSUME NEW p \in Paths
    PROVE  Above(p, p) /\ Above(<<>>, p)
BY PathFacts, EmptySeq DEF Above

LEMMA AboveTwice ==
    ASSUME NEW p \in Paths, NEW q \in Paths, NEW r \in Paths, Above(p, q), Above(q, r)
    PROVE  Above(p, r)
BY PathFacts DEF Above

\* Of one length there is one path above p.
LEMMA AboveSame ==
    ASSUME NEW p \in Paths, NEW q \in Paths, NEW r \in Paths,
           Above(q, p), Above(r, p), Len(q) = Len(r)
    PROVE  q = r
<1>1. \A k \in 1 .. Len(q) : q[k] = r[k]
  BY DEF Above
<1> QED
  BY <1>1, SamePath

LEMMA AboveEqual ==
    ASSUME NEW p \in Paths, NEW q \in Paths, Above(q, p), Len(q) = Len(p)
    PROVE  q = p
BY AboveItself, AboveSame

\* What the child of a directory is above, is below the directory.
LEMMA AboveChild ==
    ASSUME NEW p \in Paths, NEW q \in Paths, NEW name, Above(Append(q, name), p)
    PROVE  /\ name \in Names /\ Above(q, p) /\ Append(q, name) \in Paths
           /\ q # p /\ name = p[Len(q) + 1]
<1>1. q \in Seq(Names) /\ Len(q) \in Nat /\ Len(p) \in Nat
  BY PathFacts
<1>2. /\ Len(Append(q, name)) = Len(q) + 1 /\ Append(q, name)[Len(q) + 1] = name
      /\ \A k \in 1 .. Len(q) : Append(q, name)[k] = q[k]
  <2>1. q \in Seq(Names \cup {name})
    BY <1>1, SeqMonotonic
  <2> QED
    BY <2>1, AppendProperties
<1>3. Len(q) + 1 <= Len(p) /\ name = p[Len(q) + 1]
  BY <1>1, <1>2 DEF Above
<1>4. name \in Names
  BY <1>1, <1>3, PathFacts
<1>5. Above(q, p)
  BY <1>1, <1>2, <1>3 DEF Above
<1>6. Append(q, name) \in Paths
  <2>1. Append(q, name) \in Seq(Names) /\ Len(p) <= Depth /\ Depth \in Nat
    BY <1>4, ChildFacts, PathFacts, FileSystemAssumption
  <2>2. Len(Append(q, name)) <= Depth
    BY <1>1, <1>2, <1>3, <2>1
  <2> QED
    BY <2>1, <2>2, ShortIsPath
<1> QED
  BY <1>1, <1>3, <1>4, <1>5, <1>6

\* Below a directory that p is in there is the next directory that p is in.
LEMMA AboveNext ==
    ASSUME NEW p \in Paths, NEW q \in Paths, Above(q, p), q # p
    PROVE  \E name \in Names : /\ Append(q, name) \in Paths /\ Above(Append(q, name), p)
                               /\ name = p[Len(q) + 1]
<1>1. /\ Len(q) \in Nat /\ Len(p) \in Nat /\ Len(q) <= Len(p) /\ Len(q) # Len(p)
      /\ Len(p) <= Depth /\ Depth \in Nat
  BY PathFacts, AboveEqual, FileSystemAssumption DEF Above
<1> DEFINE name == p[Len(q) + 1]
<1>2. name \in Names
  BY <1>1, PathFacts
<1>3. /\ Append(q, name) \in Seq(Names) /\ Len(Append(q, name)) = Len(q) + 1
      /\ \A k \in 1 .. Len(q) : Append(q, name)[k] = q[k]
      /\ Append(q, name)[Len(q) + 1] = name
  BY <1>2, ChildFacts
<1>4. Append(q, name) \in Paths
  <2>1. Len(Append(q, name)) <= Depth
    BY <1>1, <1>3
  <2> QED
    BY <1>3, <2>1, ShortIsPath
<1>5. Above(Append(q, name), p)
  BY <1>1, <1>3 DEF Above
<1> QED
  BY <1>2, <1>4, <1>5

\* The prefixes of a path are the path and the directories it is in.
LEMMA PrefixesAre ==
    ASSUME NEW p \in Paths
    PROVE  \A q : q \in Prefixes(p) <=> q \in Paths /\ Above(q, p)
<1>1. p \in Seq(Names) /\ Len(p) \in Nat /\ Len(p) <= Depth /\ Depth \in Nat
      /\ \A k \in 1 .. Len(p) : p[k] \in Names
  BY PathFacts, FileSystemAssumption
<1>2. ASSUME NEW m \in 0 .. Len(p)
      PROVE  /\ SubSeq(p, 1, m) \in Paths /\ Len(SubSeq(p, 1, m)) = m
             /\ Above(SubSeq(p, 1, m), p)
  <2>1. m \in Int /\ 1 \in Int /\ \A k \in 1 .. m : p[k] \in Names
    BY <1>1
  <2>2. /\ SubSeq(p, 1, m) \in Seq(Names)
        /\ Len(SubSeq(p, 1, m)) = IF 1 <= m THEN m - 1 + 1 ELSE 0
        /\ \A k \in 1 .. m - 1 + 1 : SubSeq(p, 1, m)[k] = p[1 + k - 1]
    BY <2>1, SubSeqProperties
  <2>3. Len(SubSeq(p, 1, m)) = m /\ \A k \in 1 .. m : SubSeq(p, 1, m)[k] = p[k]
    BY <2>1, <2>2
  <2>4. SubSeq(p, 1, m) \in Paths
    <3>1. Len(SubSeq(p, 1, m)) <= Depth
      BY <1>1, <2>3
    <3> QED
      BY <2>2, <3>1, ShortIsPath
  <2> QED
    BY <1>1, <2>3, <2>4 DEF Above
<1>3. ASSUME NEW q \in Paths, Above(q, p) PROVE q \in Prefixes(p)
  <2>1. Len(q) \in 0 .. Len(p)
    BY <1>1, <1>3, PathFacts DEF Above
  <2>2. SubSeq(p, 1, Len(q)) = q
    BY <1>2, <1>3, <2>1, AboveSame
  <2> QED
    BY <2>1, <2>2 DEF Prefixes
<1>4. ASSUME NEW q \in Prefixes(p) PROVE q \in Paths /\ Above(q, p)
  BY <1>2 DEF Prefixes
<1> QED
  BY <1>3, <1>4

-----------------------------------------------------------------------------
(* The stack: a step replaces the innermost call, ends it, or begins another *)
(* one below it.                                                             *)

Places == {"exists", "isFile", "isDirectory", "opendir", "readdir", "forEach"}

LEMMA FrameFacts ==
    ASSUME NEW f \in Frame
    PROVE  /\ f.path \in Paths /\ f.at \in Places /\ f.entries \in Seq(Names \cup Dots)
           /\ Len(f.entries) \in Nat
BY DEF Frame, Places, Dots

LEMMA AtChanged ==
    ASSUME NEW f \in Frame, NEW place \in Places
    PROVE  LET g == [f EXCEPT !.at = place] IN
           g \in Frame /\ g.path = f.path /\ g.entries = f.entries /\ g.at = place
BY DEF Frame, Places

LEMMA EntriesChanged ==
    ASSUME NEW f \in Frame, NEW entries \in Seq(Names \cup Dots)
    PROVE  LET g == [f EXCEPT !.entries = entries] IN
           g \in Frame /\ g.path = f.path /\ g.at = f.at /\ g.entries = entries
BY DEF Frame, Dots

LEMMA VisitFacts ==
    ASSUME NEW p \in Paths
    PROVE  /\ Visit(p) \in Frame /\ Visit(p).path = p /\ Visit(p).at = "exists"
           /\ Visit(p).entries = <<>> /\ Len(Visit(p).entries) = 0
<1>1. <<>> \in Seq(Names \cup Dots) /\ Len(<<>>) = 0
  BY EmptySeq
<1> QED
  BY <1>1 DEF Visit, Frame, Dots

LEMMA StackFacts ==
    ASSUME stack \in Seq(Frame)
    PROVE  /\ Len(stack) \in Nat /\ (stack = <<>> <=> Len(stack) = 0)
           /\ \A j \in 1 .. Len(stack) : stack[j] \in Frame
           /\ stack # <<>> => Len(stack) \in 1 .. Len(stack) /\ Top = stack[Len(stack)] /\ Top \in Frame
<1>1. Len(stack) \in Nat /\ (stack # <<>> => Len(stack) # 0) /\ Len(<<>>) = 0
  BY EmptySeq, LenProperties
<1>2. \A j \in 1 .. Len(stack) : stack[j] \in Frame
  BY ElementOfSeq
<1> QED
  BY <1>1, <1>2 DEF Top, Last

TopBecomes(f) == stack' = [stack EXCEPT ![Len(stack)] = f]

LEMMA TopReplaced ==
    ASSUME stack \in Seq(Frame), stack # <<>>, NEW f \in Frame, TopBecomes(f)
    PROVE  /\ stack' \in Seq(Frame) /\ stack' # <<>> /\ Len(stack') = Len(stack)
           /\ stack'[Len(stack)] = f /\ Top' = f
           /\ \A j \in 1 .. Len(stack) : j # Len(stack) => stack'[j] = stack[j]
<1>1. Len(stack) \in 1 .. Len(stack)
  BY StackFacts
<1>2. /\ stack' \in Seq(Frame) /\ Len(stack') = Len(stack)
      /\ \A j \in 1 .. Len(stack) : stack'[j] = IF j = Len(stack) THEN f ELSE stack[j]
  BY <1>1, ExceptSeq DEF TopBecomes
<1>3. stack' # <<>>
  BY <1>1, <1>2, EmptySeq
<1> QED
  BY <1>1, <1>2, <1>3 DEF Top, Last

LEMMA GoOnReplaces ==
    ASSUME stack \in Seq(Frame), stack # <<>>, NEW place \in Places, GoOn(place)
    PROVE  TopBecomes([Top EXCEPT !.at = place])
BY StackFacts DEF GoOn, TopBecomes

LEMMA TopEnded ==
    ASSUME stack \in Seq(Frame), stack # <<>>, stack' = Front(stack)
    PROVE  /\ stack' \in Seq(Frame) /\ Len(stack') = Len(stack) - 1
           /\ \A j \in 1 .. Len(stack) - 1 : stack'[j] = stack[j]
           /\ stack' = <<>> <=> Len(stack) = 1
<1> DEFINE m == Len(stack) - 1
<1>1. m \in Nat /\ 1 \in Int /\ Len(stack) = m + 1 /\ \A j \in 1 .. m : stack[j] \in Frame
  BY StackFacts
<1>2. stack' = SubSeq(stack, 1, m)
  BY DEF Front
<1> HIDE DEF m
<1>3. /\ stack' \in Seq(Frame)
      /\ Len(stack') = IF 1 <= m THEN m - 1 + 1 ELSE 0
      /\ \A j \in 1 .. m - 1 + 1 : stack'[j] = stack[1 + j - 1]
  BY <1>1, <1>2, SubSeqProperties
<1>4. Len(stack') = m /\ \A j \in 1 .. m : stack'[j] = stack[j]
  BY <1>1, <1>3
<1>5. stack' = <<>> <=> Len(stack') = 0
  BY <1>3, EmptySeq
<1> QED
  BY <1>1, <1>3, <1>4, <1>5

LEMMA CallBegun ==
    ASSUME stack \in Seq(Frame), stack # <<>>, NEW f \in Frame, NEW g \in Frame,
           stack' = Append([stack EXCEPT ![Len(stack)] = f], g)
    PROVE  /\ stack' \in Seq(Frame) /\ stack' # <<>> /\ Len(stack') = Len(stack) + 1
           /\ stack'[Len(stack)] = f /\ stack'[Len(stack) + 1] = g /\ Top' = g
           /\ \A j \in 1 .. Len(stack) : j # Len(stack) => stack'[j] = stack[j]
<1> DEFINE mid == [stack EXCEPT ![Len(stack)] = f]
<1>1. Len(stack) \in 1 .. Len(stack)
  BY StackFacts
<1>2. /\ mid \in Seq(Frame) /\ Len(mid) = Len(stack)
      /\ \A j \in 1 .. Len(stack) : mid[j] = IF j = Len(stack) THEN f ELSE stack[j]
  BY <1>1, ExceptSeq
<1>3. stack' = Append(mid, g)
  OBVIOUS
<1> HIDE DEF mid
<1>4. /\ stack' \in Seq(Frame) /\ stack' # <<>> /\ Len(stack') = Len(mid) + 1
      /\ \A j \in 1 .. Len(mid) : stack'[j] = mid[j]
      /\ stack'[Len(mid) + 1] = g
  BY <1>2, <1>3, AppendProperties
<1>5. Top' = g
  BY <1>4 DEF Top, Last
<1> QED
  BY <1>1, <1>2, <1>4, <1>5

-----------------------------------------------------------------------------
(* What the steps of the stack keep.                                        *)

LEMMA GoodFrameStays ==
    ASSUME UNCHANGED fsVars
    PROVE  \A f : GoodFrame(f) => GoodFrame(f)'
BY DEF GoodFrame, Told, Opening, EntriesDiffer, IsEntry, Known, WasDirectory, WasHidden, fsVars

LEMMA TopPath ==
    ASSUME Calls, stack # <<>>
    PROVE  /\ Top.path \in Paths /\ Len(stack) = Len(Top.path) + 1
           /\ \A j \in 1 .. Len(stack) : stack[j].path \in Paths /\ Above(stack[j].path, Top.path)
<1>1. stack \in Seq(Frame) /\ Len(stack) \in 1 .. Len(stack) /\ Len(stack) \in Nat
      /\ Top = stack[Len(stack)] /\ Top \in Frame
      /\ \A j \in 1 .. Len(stack) : stack[j] \in Frame
  BY StackFacts DEF Calls
<1>2. \A j \in 1 .. Len(stack) : stack[j].path \in Paths
  BY <1>1, FrameFacts
<1>3. Len(Top.path) = Len(stack) - 1
  BY <1>1 DEF Calls
<1>4. \A j \in 1 .. Len(stack) : Above(stack[j].path, Top.path)
  BY <1>1 DEF Calls
<1> QED
  BY <1>1, <1>2, <1>3, <1>4

LEMMA CallsReplaced ==
    ASSUME Calls, stack # <<>>, NEW f \in Frame, f.path = Top.path, TopBecomes(f)
    PROVE  Calls'
<1> DEFINE n == Len(stack)
<1>1. n \in Nat /\ n \in 1 .. n /\ stack \in Seq(Frame) /\ Top = stack[n]
  BY StackFacts DEF Calls
<1>2. /\ stack' \in Seq(Frame) /\ Len(stack') = n /\ stack'[n] = f
      /\ \A j \in 1 .. n : j # n => stack'[j] = stack[j]
  BY <1>1, TopReplaced
<1>3. /\ \A j \in 1 .. n : Len(stack[j].path) = j - 1
      /\ \A j, k \in 1 .. n : j <= k => Above(stack[j].path, stack[k].path)
      /\ \A j \in 1 .. n : j < n => stack[j].at = "forEach"
  BY DEF Calls
<1> HIDE DEF n
<1>4. \A j \in 1 .. n : stack'[j].path = stack[j].path
  BY <1>1, <1>2
<1>5. \A j \in 1 .. n : j < n => stack'[j].at = "forEach"
  BY <1>1, <1>2, <1>3
<1> QED
  BY <1>2, <1>3, <1>4, <1>5 DEF Calls

LEMMA CallsEnded ==
    ASSUME Calls, stack # <<>>, stack' = Front(stack)
    PROVE  Calls'
<1> DEFINE n == Len(stack)
<1>1. n \in Nat /\ n \in 1 .. n /\ stack \in Seq(Frame)
  BY StackFacts DEF Calls
<1>2. stack' \in Seq(Frame) /\ Len(stack') = n - 1 /\ \A j \in 1 .. n - 1 : stack'[j] = stack[j]
  BY <1>1, TopEnded
<1>3. /\ \A j \in 1 .. n : Len(stack[j].path) = j - 1
      /\ \A j, k \in 1 .. n : j <= k => Above(stack[j].path, stack[k].path)
      /\ \A j \in 1 .. n : j < n => stack[j].at = "forEach"
  BY DEF Calls
<1> HIDE DEF n
<1>4. ASSUME NEW j \in 1 .. n - 1
      PROVE  /\ j \in 1 .. n /\ j < n /\ stack'[j] = stack[j]
             /\ Len(stack'[j].path) = j - 1 /\ stack'[j].at = "forEach"
  <2>1. j \in 1 .. n /\ j < n
    BY <1>1
  <2> QED
    BY <1>2, <1>3, <2>1
<1>5. \A j, k \in 1 .. n - 1 : j <= k => Above(stack'[j].path, stack'[k].path)
  <2> TAKE j, k \in 1 .. n - 1
  <2>1. j \in 1 .. n /\ k \in 1 .. n /\ stack'[j] = stack[j] /\ stack'[k] = stack[k]
    BY <1>4
  <2> QED
    BY <1>3, <2>1
<1> QED
  BY <1>2, <1>4, <1>5 DEF Calls

LEMMA CallsBegun ==
    ASSUME Calls, stack # <<>>, NEW f \in Frame, f.path = Top.path, f.at = "forEach",
           NEW name \in Names, Append(Top.path, name) \in Paths,
           stack' = Append([stack EXCEPT ![Len(stack)] = f], Visit(Append(Top.path, name)))
    PROVE  Calls'
<1> DEFINE n == Len(stack)
           child == Append(Top.path, name)
<1>1. n \in Nat /\ n \in 1 .. n /\ stack \in Seq(Frame) /\ Top = stack[n]
      /\ Top.path \in Paths /\ n = Len(Top.path) + 1
  BY StackFacts, TopPath DEF Calls
<1>2. Visit(child) \in Frame /\ Visit(child).path = child
  BY VisitFacts
<1>3. /\ stack' \in Seq(Frame) /\ Len(stack') = n + 1 /\ stack'[n] = f
      /\ stack'[n + 1] = Visit(child)
      /\ \A j \in 1 .. n : j # n => stack'[j] = stack[j]
  BY <1>1, <1>2, CallBegun
<1>4. /\ \A j \in 1 .. n : Len(stack[j].path) = j - 1
      /\ \A j, k \in 1 .. n : j <= k => Above(stack[j].path, stack[k].path)
      /\ \A j \in 1 .. n : j < n => stack[j].at = "forEach"
  BY DEF Calls
<1>5. Len(child) = n /\ Above(Top.path, child) /\ Above(child, child)
  <2>1. Len(child) = n
    BY <1>1, ChildFacts
  <2>2. Above(child, child)
    BY AboveItself
  <2> QED
    BY <1>1, <2>1, <2>2, AboveChild
<1>6. \A j \in 1 .. n : Above(stack[j].path, child)
  <2> TAKE j \in 1 .. n
  <2>1. stack[j].path \in Paths /\ Above(stack[j].path, Top.path)
    BY TopPath
  <2> QED
    BY <1>1, <1>5, <2>1, AboveTwice
<1> HIDE DEF n, child
<1>7. \A j \in 1 .. n : stack'[j].path = stack[j].path
  BY <1>1, <1>3
<1>8. stack'[n + 1].path = child
  BY <1>2, <1>3
<1>0. \A j \in 1 .. n + 1 : j \in 1 .. n \/ j = n + 1
  BY <1>1
<1>9. ASSUME NEW j \in 1 .. n + 1
      PROVE  Len(stack'[j].path) = j - 1 /\ (j < n + 1 => stack'[j].at = "forEach")
  <2>1. CASE j \in 1 .. n
    <3>1. Len(stack'[j].path) = j - 1
      BY <1>4, <1>7, <2>1
    <3>2. stack'[j].at = "forEach"
      <4>1. CASE j = n
        BY <1>3, <4>1
      <4>2. CASE j # n
        <5>1. j < n /\ stack'[j] = stack[j]
          BY <1>1, <1>3, <2>1, <4>2
        <5> QED
          BY <1>4, <2>1, <5>1
      <4> QED
        BY <4>1, <4>2
    <3> QED
      BY <3>1, <3>2
  <2>2. CASE j = n + 1
    <3>1. stack'[j].path = child
      BY <1>8, <2>2
    <3>2. Len(child) = j - 1 /\ ~(j < n + 1)
      BY <1>1, <1>5, <2>2
    <3> QED
      BY <3>1, <3>2
  <2> QED
    BY <1>0, <2>1, <2>2
<1>10. \A j, k \in 1 .. n + 1 : j <= k => Above(stack'[j].path, stack'[k].path)
  <2> TAKE j, k \in 1 .. n + 1
  <2> HAVE j <= k
  <2>1. CASE k = n + 1 /\ j = n + 1
    BY <1>5, <1>8, <2>1
  <2>2. CASE k = n + 1 /\ j \in 1 .. n
    BY <1>6, <1>7, <1>8, <2>2
  <2>3. CASE k \in 1 .. n /\ j \in 1 .. n
    <3>1. Above(stack[j].path, stack[k].path)
      BY <1>4, <2>3
    <3> QED
      BY <1>7, <2>3, <3>1
  <2>4. k \in 1 .. n => j \in 1 .. n
    BY <1>1
  <2> QED
    BY <1>0, <2>1, <2>2, <2>3, <2>4
<1> QED
  BY <1>3, <1>9, <1>10 DEF Calls

LEMMA FramesReplaced ==
    ASSUME Calls, Frames, stack # <<>>, UNCHANGED fsVars,
           NEW f \in Frame, GoodFrame(f), TopBecomes(f)
    PROVE  Frames'
<1> DEFINE n == Len(stack)
<1>1. /\ stack' \in Seq(Frame) /\ Len(stack') = n /\ stack'[n] = f
      /\ \A j \in 1 .. n : j # n => stack'[j] = stack[j]
  BY TopReplaced DEF Calls
<1>2. \A j \in 1 .. n : GoodFrame(stack[j])
  BY DEF Frames
<1> HIDE DEF n
<1>3. \A j \in 1 .. n : GoodFrame(stack'[j])
  BY <1>1, <1>2
<1>4. \A g : GoodFrame(g) => GoodFrame(g)'
  BY GoodFrameStays
<1> QED
  BY <1>1, <1>3, <1>4 DEF Frames

LEMMA FramesEnded ==
    ASSUME Calls, Frames, stack # <<>>, UNCHANGED fsVars, stack' = Front(stack)
    PROVE  Frames'
<1> DEFINE n == Len(stack)
<1>1. n \in Nat /\ Len(stack') = n - 1 /\ \A j \in 1 .. n - 1 : stack'[j] = stack[j]
  BY StackFacts, TopEnded DEF Calls
<1>2. \A j \in 1 .. n : GoodFrame(stack[j])
  BY DEF Frames
<1> HIDE DEF n
<1>3. \A j \in 1 .. n - 1 : GoodFrame(stack'[j])
  BY <1>1, <1>2
<1>4. \A g : GoodFrame(g) => GoodFrame(g)'
  BY GoodFrameStays
<1> QED
  BY <1>1, <1>3, <1>4 DEF Frames

LEMMA FramesBegun ==
    ASSUME Calls, Frames, stack # <<>>, UNCHANGED fsVars,
           NEW f \in Frame, NEW g \in Frame, GoodFrame(f), GoodFrame(g),
           stack' = Append([stack EXCEPT ![Len(stack)] = f], g)
    PROVE  Frames'
<1> DEFINE n == Len(stack)
<1>1. /\ Len(stack') = n + 1 /\ stack'[n] = f /\ stack'[n + 1] = g
      /\ \A j \in 1 .. n : j # n => stack'[j] = stack[j]
  BY CallBegun DEF Calls
<1>2. n \in Nat /\ \A j \in 1 .. n : GoodFrame(stack[j])
  BY StackFacts DEF Frames, Calls
<1> HIDE DEF n
<1>3. \A j \in 1 .. n + 1 : j = n + 1 \/ j = n \/ (j \in 1 .. n /\ j # n)
  BY <1>2
<1>4. \A j \in 1 .. n + 1 : GoodFrame(stack'[j])
  BY <1>1, <1>2, <1>3
<1>5. \A h : GoodFrame(h) => GoodFrame(h)'
  BY GoodFrameStays
<1> QED
  BY <1>1, <1>4, <1>5 DEF Frames

\* The call f has left the entry behind that the call g below it visits.
LEMMA CallsDifferReplaced ==
    ASSUME Calls, CallsDiffer, stack # <<>>, UNCHANGED fsVars,
           NEW f \in Frame, f.path = Top.path, TopBecomes(f)
    PROVE  CallsDiffer'
<1> DEFINE n == Len(stack)
<1>1. n \in Nat /\ n \in 1 .. n /\ stack \in Seq(Frame) /\ Top = stack[n]
  BY StackFacts DEF Calls
<1>2. /\ Len(stack') = n /\ stack'[n] = f
      /\ \A j \in 1 .. n : j # n => stack'[j] = stack[j]
  BY <1>1, TopReplaced
<1>3. \A j \in 1 .. n - 1 : Leaves(stack[j], stack[j + 1])
  BY DEF CallsDiffer
<1> HIDE DEF n
<1>4. ASSUME NEW j \in 1 .. n - 1 PROVE Leaves(stack'[j], stack'[j + 1])
  <2>1. j \in 1 .. n /\ j # n /\ j + 1 \in 1 .. n
    BY <1>1
  <2>2. stack'[j] = stack[j] /\ stack'[j + 1].path = stack[j + 1].path
    BY <1>1, <1>2, <2>1
  <2> QED
    BY <1>3, <2>2 DEF Leaves
<1>5. \A g, h : Leaves(g, h) => Leaves(g, h)'
  BY DEF Leaves, fsVars
<1> QED
  BY <1>2, <1>4, <1>5 DEF CallsDiffer

LEMMA CallsDifferEnded ==
    ASSUME Calls, CallsDiffer, stack # <<>>, UNCHANGED fsVars, stack' = Front(stack)
    PROVE  CallsDiffer'
<1> DEFINE n == Len(stack)
<1>1. n \in Nat /\ Len(stack') = n - 1 /\ \A j \in 1 .. n - 1 : stack'[j] = stack[j]
  BY StackFacts, TopEnded DEF Calls
<1>2. \A j \in 1 .. n - 1 : Leaves(stack[j], stack[j + 1])
  BY DEF CallsDiffer
<1> HIDE DEF n
<1>3. ASSUME NEW j \in 1 .. (n - 1) - 1 PROVE Leaves(stack'[j], stack'[j + 1])
  <2>1. j \in 1 .. n - 1 /\ j + 1 \in 1 .. n - 1
    BY <1>1
  <2> QED
    BY <1>1, <1>2, <2>1
<1>4. \A g, h : Leaves(g, h) => Leaves(g, h)'
  BY DEF Leaves, fsVars
<1> QED
  BY <1>1, <1>3, <1>4 DEF CallsDiffer

LEMMA CallsDifferBegun ==
    ASSUME Calls, CallsDiffer, stack # <<>>, UNCHANGED fsVars,
           NEW f \in Frame, NEW g \in Frame, f.path = Top.path, Leaves(f, g),
           stack' = Append([stack EXCEPT ![Len(stack)] = f], g)
    PROVE  CallsDiffer'
<1> DEFINE n == Len(stack)
<1>1. n \in Nat /\ n \in 1 .. n /\ stack \in Seq(Frame) /\ Top = stack[n]
  BY StackFacts DEF Calls
<1>2. /\ Len(stack') = n + 1 /\ stack'[n] = f /\ stack'[n + 1] = g
      /\ \A j \in 1 .. n : j # n => stack'[j] = stack[j]
  BY <1>1, CallBegun
<1>3. \A j \in 1 .. n - 1 : Leaves(stack[j], stack[j + 1])
  BY DEF CallsDiffer
<1> HIDE DEF n
<1>4. ASSUME NEW j \in 1 .. (n + 1) - 1 PROVE Leaves(stack'[j], stack'[j + 1])
  <2>1. CASE j = n
    BY <1>2, <2>1
  <2>2. CASE j # n
    <3>1. j \in 1 .. n - 1 /\ j \in 1 .. n /\ j + 1 \in 1 .. n
      BY <1>1, <2>2
    <3>2. stack'[j] = stack[j] /\ stack'[j + 1].path = stack[j + 1].path
      BY <1>1, <1>2, <2>2, <3>1
    <3> QED
      BY <1>3, <3>1, <3>2 DEF Leaves
  <2> QED
    BY <2>1, <2>2
<1>5. \A h, k : Leaves(h, k) => Leaves(h, k)'
  BY DEF Leaves, fsVars
<1> QED
  BY <1>2, <1>4, <1>5 DEF CallsDiffer

LEMMA EntriesReplaced ==
    ASSUME stack \in Seq(Frame), stack # <<>>, NEW f \in Frame, TopBecomes(f), NEW p
    PROVE  /\ InEntries(p)' => InEntries(p) \/ EntryAbove(f, p)
           /\ InEntries(p) => InEntries(p)' \/ EntryAbove(Top, p)
           /\ EntryAbove(f, p) => InEntries(p)'
           /\ EntryAbove(Top, p) => InEntries(p)
<1> DEFINE n == Len(stack)
<1>1. n \in 1 .. n /\ Top = stack[n]
  BY StackFacts
<1>2. /\ Len(stack') = n /\ stack'[n] = f
      /\ \A j \in 1 .. n : j # n => stack'[j] = stack[j]
  BY TopReplaced
<1>3. InEntries(p) <=> \E j \in 1 .. n : EntryAbove(stack[j], p)
  BY DEF InEntries
<1>4. InEntries(p)' <=> \E j \in 1 .. Len(stack') : EntryAbove(stack'[j], p)
  BY DEF InEntries, EntryAbove, Above
<1> HIDE DEF n
<1> QED
  BY <1>1, <1>2, <1>3, <1>4

LEMMA EntriesEnded ==
    ASSUME stack \in Seq(Frame), stack # <<>>, stack' = Front(stack), NEW p
    PROVE  /\ InEntries(p)' => InEntries(p)
           /\ InEntries(p) => InEntries(p)' \/ EntryAbove(Top, p)
<1> DEFINE n == Len(stack)
<1>1. n \in Nat /\ n \in 1 .. n /\ Top = stack[n]
  BY StackFacts
<1>2. Len(stack') = n - 1 /\ \A j \in 1 .. n - 1 : stack'[j] = stack[j]
  BY TopEnded
<1>3. InEntries(p) <=> \E j \in 1 .. n : EntryAbove(stack[j], p)
  BY DEF InEntries
<1>4. InEntries(p)' <=> \E j \in 1 .. Len(stack') : EntryAbove(stack'[j], p)
  BY DEF InEntries, EntryAbove, Above
<1> HIDE DEF n
<1>5. \A j \in 1 .. n : j = n \/ j \in 1 .. n - 1
  BY <1>1
<1>6. \A j \in 1 .. n - 1 : j \in 1 .. n
  BY <1>1
<1> QED
  BY <1>1, <1>2, <1>3, <1>4, <1>5, <1>6

LEMMA EntriesBegun ==
    ASSUME stack \in Seq(Frame), stack # <<>>, NEW f \in Frame, NEW g \in Frame, NEW p,
           stack' = Append([stack EXCEPT ![Len(stack)] = f], g)
    PROVE  /\ InEntries(p)' => InEntries(p) \/ EntryAbove(f, p) \/ EntryAbove(g, p)
           /\ InEntries(p) => InEntries(p)' \/ EntryAbove(Top, p)
           /\ EntryAbove(f, p) => InEntries(p)'
           /\ EntryAbove(Top, p) => InEntries(p)
<1> DEFINE n == Len(stack)
<1>1. n \in Nat /\ n \in 1 .. n /\ Top = stack[n]
  BY StackFacts
<1>2. /\ Len(stack') = n + 1 /\ stack'[n] = f /\ stack'[n + 1] = g
      /\ \A j \in 1 .. n : j # n => stack'[j] = stack[j]
  BY CallBegun
<1>3. InEntries(p) <=> \E j \in 1 .. n : EntryAbove(stack[j], p)
  BY DEF InEntries
<1>4. InEntries(p)' <=> \E j \in 1 .. Len(stack') : EntryAbove(stack'[j], p)
  BY DEF InEntries, EntryAbove, Above
<1> HIDE DEF n
<1>5. \A j \in 1 .. n + 1 : j = n + 1 \/ j \in 1 .. n
  BY <1>1
<1>6. \A j \in 1 .. n : j \in 1 .. n + 1
  BY <1>1
<1> QED
  BY <1>1, <1>2, <1>3, <1>4, <1>5, <1>6

\* The entries of a call: none, one more, one less.
LEMMA EntryAboveFacts ==
    ASSUME NEW f \in Frame, NEW p
    PROVE  /\ f.entries = <<>> => ~EntryAbove(f, p)
           /\ \A g : g.path = f.path /\ g.entries = f.entries =>
                 (EntryAbove(g, p) <=> EntryAbove(f, p))
<1>1. Len(<<>>) = 0
  BY EmptySeq
<1> QED
  BY <1>1 DEF EntryAbove

LEMMA EntryAdded ==
    ASSUME NEW f \in Frame, NEW g \in Frame, NEW p, NEW name \in Names \cup Dots,
           g.path = f.path, g.entries = Append(f.entries, name)
    PROVE  EntryAbove(g, p) <=> EntryAbove(f, p) \/ Above(Append(f.path, name), p)
<1> DEFINE n == Len(f.entries)
<1>1. f.entries \in Seq(Names \cup Dots) /\ n \in Nat
  BY FrameFacts
<1>2. /\ Len(g.entries) = n + 1 /\ g.entries[n + 1] = name
      /\ \A e \in 1 .. n : g.entries[e] = f.entries[e]
  BY <1>1, AppendProperties
<1>3. EntryAbove(f, p) <=> \E e \in 1 .. n : Above(Append(f.path, f.entries[e]), p)
  BY DEF EntryAbove
<1>4. EntryAbove(g, p) <=> \E e \in 1 .. Len(g.entries) : Above(Append(f.path, g.entries[e]), p)
  BY DEF EntryAbove
<1> HIDE DEF n
<1>5. \A e \in 1 .. n + 1 : e = n + 1 \/ e \in 1 .. n
  BY <1>1
<1>6. n + 1 \in 1 .. n + 1 /\ \A e \in 1 .. n : e \in 1 .. n + 1
  BY <1>1
<1> QED
  BY <1>2, <1>3, <1>4, <1>5, <1>6

LEMMA EntryTaken ==
    ASSUME NEW f \in Frame, NEW g \in Frame, NEW p, f.entries # <<>>,
           g.path = f.path, g.entries = Tail(f.entries)
    PROVE  EntryAbove(f, p) <=> EntryAbove(g, p) \/ Above(Append(f.path, Head(f.entries)), p)
<1> DEFINE n == Len(f.entries)
<1>1. f.entries \in Seq(Names \cup Dots) /\ n \in Nat /\ n # 0
  BY FrameFacts, EmptySeq
<1>2. /\ Len(g.entries) = n - 1 /\ \A e \in 1 .. n - 1 : g.entries[e] = f.entries[e + 1]
  BY <1>1, HeadTailProperties
<1>3. EntryAbove(f, p) <=> \E e \in 1 .. n : Above(Append(f.path, f.entries[e]), p)
  BY DEF EntryAbove
<1>4. EntryAbove(g, p) <=> \E e \in 1 .. Len(g.entries) : Above(Append(f.path, g.entries[e]), p)
  BY DEF EntryAbove
<1>5. Head(f.entries) = f.entries[1]
  BY <1>1
<1> HIDE DEF n
<1>6. \A e \in 1 .. n : e = 1 \/ (e - 1 \in 1 .. n - 1 /\ (e - 1) + 1 = e)
  BY <1>1
<1>7. 1 \in 1 .. n /\ \A e \in 1 .. n - 1 : e + 1 \in 1 .. n
  BY <1>1
<1>8. ASSUME NEW e \in 1 .. n, Above(Append(f.path, f.entries[e]), p), e # 1
      PROVE  EntryAbove(g, p)
  <2>1. g.entries[e - 1] = f.entries[e]
    BY <1>2, <1>6, <1>8
  <2> QED
    BY <1>2, <1>4, <1>6, <1>8, <2>1
<1>9. ASSUME NEW e \in 1 .. n - 1, Above(Append(f.path, g.entries[e]), p)
      PROVE  EntryAbove(f, p)
  BY <1>2, <1>3, <1>7, <1>9
<1> QED
  BY <1>2, <1>3, <1>4, <1>5, <1>7, <1>8, <1>9

-----------------------------------------------------------------------------
(* What is printed, and what lies ahead.                                    *)

\* A step after which nothing lies ahead that did not before.
LEMMA PrintedStays ==
    ASSUME PrintedOnce, UNCHANGED <<printed, fsVars>>,
           \A p \in Paths : Ahead(p)' => Ahead(p)
    PROVE  PrintedOnce'
<1>1. \A p : WasScript(p) => WasScript(p)'
  BY DEF WasScript, Known, fsVars
<1>2. \A p : Clean(p)' => Clean(p)
  BY DEF Clean, fsVars
<1>3. \A p : (IsPrinted(p)' <=> IsPrinted(p)) /\ (IsPrintedOnce(p) => IsPrintedOnce(p)')
  BY DEF IsPrinted, IsPrintedOnce
<1> QED
  BY <1>1, <1>2, <1>3 DEF PrintedOnce

\* A step after which everything still lies ahead.
LEMMA NothingIsLost ==
    ASSUME NoneIsLost, UNCHANGED fsVars, outcome = "scanning",
           \A p \in Paths : Stable(p) /\ Reached(p) => Reached(p)'
    PROVE  NoneIsLost'
<1>1. \A p : Stable(p)' => Stable(p)
  BY DEF Stable, fsVars
<1> QED
  BY <1>1 DEF NoneIsLost

-----------------------------------------------------------------------------
(* Steps that several actions have in common: the innermost call goes on,    *)
(* ends, or throws.                                                          *)

LEMMA TreeStays ==
    ASSUME TreeInv, UNCHANGED fsVars
    PROVE  TreeInv'
BY DEF TreeInv, fsVars

LEMMA TopIsGood ==
    ASSUME WalkInv, stack # <<>>
    PROVE  /\ stack \in Seq(Frame) /\ Top \in Frame /\ GoodFrame(Top)
           /\ Top.path \in Paths /\ Top.at \in Places /\ Top.entries \in Seq(Names \cup Dots)
<1>1. stack \in Seq(Frame)
  BY DEF WalkInv, Calls
<1>2. Len(stack) \in 1 .. Len(stack) /\ Top = stack[Len(stack)] /\ Top \in Frame
  BY <1>1, StackFacts
<1>3. GoodFrame(Top)
  BY <1>2 DEF WalkInv, Frames
<1> QED
  BY <1>1, <1>2, <1>3, FrameFacts

LEMMA ReadingStays ==
    ASSUME Reading, UNCHANGED <<dir, fsVars>>, At("readdir")' => At("readdir") /\ Top' = Top
    PROVE  Reading'
<1>1. \A q, name : IsEntry(q, name) => IsEntry(q, name)'
  BY DEF IsEntry, Known, fsVars
<1> QED
  BY <1>1 DEF Reading

LEMMA GoesOn ==
    ASSUME ScanInv, outcome = "scanning", stack # <<>>,
           NEW place \in {"isFile", "isDirectory", "opendir"}, GoOn(place),
           UNCHANGED <<dir, printed, outcome, fsVars>>,
           Top.at \notin {"readdir", "forEach"},
           place = "opendir" => WasDirectory(Top.path),
           Stable(Top.path) => place = "isFile" \/ Top.at \in {"isDirectory", "opendir"}
    PROVE  ScanInv'
<1> DEFINE f == [Top EXCEPT !.at = place]
<1>1. /\ stack \in Seq(Frame) /\ Top \in Frame /\ GoodFrame(Top) /\ place \in Places
      /\ Calls /\ Frames /\ CallsDiffer /\ TreeInv /\ Reading /\ Progress
  BY TopIsGood DEF ScanInv, WalkInv, Places
<1>2. f \in Frame /\ f.path = Top.path /\ f.entries = Top.entries /\ f.at = place
  BY <1>1, AtChanged
<1>3. TopBecomes(f)
  BY <1>1, GoOnReplaces
<1> HIDE DEF f
<1>4. stack' # <<>> /\ Top' = f
  BY <1>1, <1>2, <1>3, TopReplaced
<1>5. ~At("readdir")'
  BY <1>2, <1>4 DEF At
<1>6. GoodFrame(f)
  BY <1>1, <1>2 DEF GoodFrame, Told, Opening, EntriesDiffer
<1>7. WalkInv'
  <2>1. TreeInv'
    BY <1>1, TreeStays
  <2>2. Calls'
    BY <1>1, <1>2, <1>3, CallsReplaced
  <2>3. Frames'
    BY <1>1, <1>2, <1>3, <1>6, FramesReplaced
  <2>4. CallsDiffer'
    BY <1>1, <1>2, <1>3, CallsDifferReplaced
  <2>5. Reading'
    BY <1>1, <1>5, ReadingStays
  <2>6. ReadsDiffer'
    BY <1>5 DEF ReadsDiffer
  <2>7. Progress'
    BY <1>1, <1>4 DEF Progress
  <2> QED
    BY <2>1, <2>2, <2>3, <2>4, <2>5, <2>6, <2>7 DEF WalkInv
<1>8. \A p : InEntries(p)' <=> InEntries(p)
  <2> TAKE p
  <2>1. EntryAbove(f, p) <=> EntryAbove(Top, p)
    BY <1>1, <1>2, EntryAboveFacts
  <2> QED
    BY <1>1, <1>2, <1>3, <2>1, EntriesReplaced
<1>9. \A p : BeforeTop(p)' <=> BeforeTop(p)
  BY <1>2, <1>4 DEF BeforeTop, Above
<1>10. ~At("readdir")
  BY DEF At
<1>11. PrintedOnce'
  <2>1. \A p \in Paths : Ahead(p)' => Ahead(p)
    BY <1>5, <1>8, <1>9 DEF Ahead, InDir
  <2> QED
    BY <2>1, PrintedStays DEF ScanInv
<1>12. NoneIsLost'
  <2>1. ASSUME NEW p \in Paths, Stable(p), Reached(p) PROVE Reached(p)'
    <3>1. CASE IsPrinted(p)
      BY <3>1 DEF Reached, IsPrinted
    <3>2. CASE InEntries(p)
      BY <1>8, <3>2 DEF Reached
    <3>3. CASE BeforeTop(p) /\ (Top.at \in {"isDirectory", "opendir"} => Top.path # p)
      BY <1>2, <1>4, <1>9, <2>1, <3>3 DEF Reached
    <3> QED
      BY <1>10, <2>1, <3>1, <3>2, <3>3 DEF Reached, InDir
  <2> QED
    BY <2>1, NothingIsLost DEF ScanInv
<1> QED
  BY <1>7, <1>11, <1>12 DEF ScanInv

\* After a call has ended, its caller is in its forEach.
LEMMA ReturnFacts ==
    ASSUME WalkInv, outcome = "scanning", stack # <<>>, Return,
           Top.entries = <<>>, UNCHANGED <<dir, fsVars>>
    PROVE  /\ WalkInv' /\ ~At("readdir")'
           /\ outcome' \in {"scanning", "done"}
           /\ \A p : ~BeforeTop(p)' /\ (InEntries(p)' <=> InEntries(p))
<1> DEFINE n == Len(stack)
<1>1. /\ stack \in Seq(Frame) /\ Top \in Frame
      /\ Calls /\ Frames /\ CallsDiffer /\ TreeInv /\ Reading /\ Progress
  BY TopIsGood DEF WalkInv
<1>2. stack' = Front(stack) /\ outcome' = (IF n = 1 THEN "done" ELSE "scanning")
  BY DEF Return
<1>3. /\ n \in Nat /\ stack' \in Seq(Frame) /\ Len(stack') = n - 1
      /\ \A j \in 1 .. n - 1 : stack'[j] = stack[j]
      /\ stack' = <<>> <=> n = 1
  BY <1>1, <1>2, TopEnded, StackFacts
<1>4. \A j \in 1 .. n : j < n => stack[j].at = "forEach"
  BY <1>1 DEF Calls
<1>5. stack' # <<>> => Top' = stack'[n - 1] /\ Len(stack') \in 1 .. Len(stack')
  <2>1. Top' = stack'[Len(stack')]
    BY DEF Top, Last
  <2>2. stack' # <<>> => Len(stack') # 0 /\ Len(stack') \in Nat
    BY <1>3, EmptySeq
  <2> QED
    BY <1>3, <2>1, <2>2
<1> HIDE DEF n
<1>6. stack' # <<>> => Top'.at = "forEach"
  <2> SUFFICES ASSUME stack' # <<>> PROVE Top'.at = "forEach"
    OBVIOUS
  <2>1. n - 1 \in 1 .. n - 1 /\ n - 1 \in 1 .. n /\ n - 1 < n
    BY <1>3, <1>5
  <2>2. Top' = stack[n - 1]
    BY <1>3, <1>5, <2>1
  <2> QED
    BY <1>4, <2>1, <2>2
<1>7. ~At("readdir")' /\ \A p : ~BeforeTop(p)'
  BY <1>6 DEF At, BeforeTop
<1>8. \A p : InEntries(p)' <=> InEntries(p)
  BY <1>1, <1>2, EntryAboveFacts, EntriesEnded
<1>9. WalkInv'
  <2>1. TreeInv'
    BY <1>1, TreeStays
  <2>2. Calls'
    BY <1>1, <1>2, CallsEnded
  <2>3. Frames'
    BY <1>1, <1>2, FramesEnded
  <2>4. CallsDiffer'
    BY <1>1, <1>2, CallsDifferEnded
  <2>5. Reading'
    BY <1>1, <1>7, ReadingStays
  <2>6. ReadsDiffer'
    BY <1>7 DEF ReadsDiffer
  <2>7. Progress'
    BY <1>2, <1>3 DEF Progress
  <2> QED
    BY <2>1, <2>2, <2>3, <2>4, <2>5, <2>6, <2>7 DEF WalkInv
<1> QED
  BY <1>2, <1>7, <1>8, <1>9

LEMMA Returns ==
    ASSUME ScanInv, outcome = "scanning", stack # <<>>, Return,
           Top.entries = <<>>, UNCHANGED <<dir, printed, fsVars>>, Top.at # "readdir",
           \A p \in Paths : Stable(p) /\ BeforeTop(p) =>
               Top.at \in {"isDirectory", "opendir"} /\ Top.path = p
    PROVE  ScanInv'
<1>1. /\ WalkInv' /\ ~At("readdir")' /\ outcome' \in {"scanning", "done"}
      /\ \A p : ~BeforeTop(p)' /\ (InEntries(p)' <=> InEntries(p))
  BY ReturnFacts DEF ScanInv
<1>2. ~At("readdir")
  BY DEF At
<1>3. PrintedOnce'
  <2>1. \A p \in Paths : Ahead(p)' => Ahead(p)
    BY <1>1 DEF Ahead, InDir
  <2> QED
    BY <2>1, PrintedStays DEF ScanInv
<1>4. NoneIsLost'
  <2>1. ASSUME NEW p \in Paths, Stable(p), Reached(p) PROVE Reached(p)'
    <3>1. CASE IsPrinted(p)
      BY <3>1 DEF Reached, IsPrinted
    <3>2. CASE InEntries(p)
      BY <1>1, <3>2 DEF Reached
    <3> QED
      BY <1>2, <2>1, <3>1, <3>2 DEF Reached, InDir
  <2> QED
    BY <2>1, NothingIsLost DEF ScanInv
<1> QED
  BY <1>1, <1>3, <1>4 DEF ScanInv

LEMMA Throws ==
    ASSUME ScanInv, outcome = "scanning", stack # <<>>, Throw, Top.at # "readdir",
           UNCHANGED <<dir, printed, fsVars>>,
           \/ Top.path = <<>> /\ "none" \in been[<<>>]
           \/ "locked" \in been[Top.path]
           \/ Top.path \in gone
           \/ WasHidden(Top.path)
    PROVE  ScanInv'
<1>1. stack' = stack /\ outcome' = "thrown" /\ Top' = Top
  BY DEF Throw, Top, Last
<1>2. ~At("readdir")'
  BY <1>1 DEF At
<1>3. \A p : ~BeforeTop(p)' /\ (InEntries(p)' <=> InEntries(p))
  BY <1>1 DEF BeforeTop, InEntries, EntryAbove, Above
<1>4. TreeInv' /\ Calls' /\ CallsDiffer'
  <2>1. TreeInv /\ Calls /\ CallsDiffer
    BY DEF ScanInv, WalkInv
  <2>2. TreeInv'
    BY <2>1, TreeStays
  <2>3. Calls'
    BY <1>1, <2>1 DEF Calls
  <2>4. \A f, g : Leaves(f, g) => Leaves(f, g)'
    BY DEF Leaves, fsVars
  <2>5. CallsDiffer'
    BY <1>1, <2>1, <2>4 DEF CallsDiffer
  <2> QED
    BY <2>2, <2>3, <2>5
<1>5. Frames'
  BY <1>1, GoodFrameStays DEF ScanInv, WalkInv, Frames
<1>6. Reading' /\ ReadsDiffer'
  BY <1>2, ReadingStays DEF ScanInv, WalkInv, ReadsDiffer
<1>7. Progress'
  BY <1>1 DEF Progress, ScanFailsForAReason, WasHidden, fsVars
<1>8. PrintedOnce'
  <2>1. \A p \in Paths : Ahead(p)' => Ahead(p)
    BY <1>2, <1>3 DEF Ahead, InDir
  <2> QED
    BY <2>1, PrintedStays DEF ScanInv
<1>9. NoneIsLost'
  BY <1>1 DEF NoneIsLost
<1> QED
  BY <1>4, <1>5, <1>6, <1>7, <1>8, <1>9 DEF ScanInv, WalkInv

-----------------------------------------------------------------------------
(* The calls that ask about a path.                                         *)

\* stat finds a script that nobody touches, and every directory it is in.
LEMMA StableIsFound ==
    ASSUME TreeInv, NEW p \in Paths, Stable(p), NEW q \in Paths, Above(q, p)
    PROVE  exists(q) /\ kind[q] = IF q = p THEN "file" ELSE "directory"
<1>1. ASSUME NEW r \in Paths, Above(r, p)
      PROVE  kind[r] = IF r = p THEN "file" ELSE "directory"
  <2>1. kind[r] \in been[r]
    BY DEF TreeInv
  <2> QED
    BY <1>1, <2>1 DEF Stable
<1>2. \A r \in Prefixes(q) : r \in Paths /\ Above(r, p)
  BY PrefixesAre, AboveTwice
<1> QED
  BY <1>1, <1>2 DEF exists

\* What the innermost call asks about is in the tree, or was deleted.
LEMMA AskedPath ==
    ASSUME ScanInv, stack # <<>>
    PROVE  /\ Top.path \in Paths /\ kind[Top.path] \in been[Top.path]
           /\ Top.path # <<>> => kind[Top.path] # "none" \/ Top.path \in gone
           /\ Stable(Top.path) => kind[Top.path] = "file" /\ exists(Top.path)
           /\ \A p \in Paths : Stable(p) /\ Above(Top.path, p) /\ Top.path # p =>
                 kind[Top.path] = "directory" /\ exists(Top.path)
           /\ ~exists(Top.path) => kind[Top.path] = "none" \/ WasHidden(Top.path)
<1>1. TreeInv /\ Top.path \in Paths /\ Told(Top)
  BY TopIsGood DEF ScanInv, WalkInv, GoodFrame
<1>2. kind[Top.path] \in been[Top.path]
  BY <1>1 DEF TreeInv
<1>3. Stable(Top.path) => kind[Top.path] = "file" /\ exists(Top.path)
  BY <1>1, AboveItself, StableIsFound
<1>4. \A p \in Paths : Stable(p) /\ Above(Top.path, p) /\ Top.path # p =>
         kind[Top.path] = "directory" /\ exists(Top.path)
  BY <1>1, StableIsFound
<1>5. ~exists(Top.path) => kind[Top.path] = "none" \/ WasHidden(Top.path)
  <2>1. \A q \in Prefixes(Top.path) : kind[q] \in been[q]
    BY <1>1, PrefixesAre DEF TreeInv
  <2> QED
    BY <2>1 DEF exists, WasHidden
<1> QED
  BY <1>1, <1>2, <1>3, <1>4, <1>5 DEF Told, Known

LEMMA StepExists ==
    ASSUME ScanInv, AskExists, UNCHANGED fsVars
    PROVE  ScanInv'
<1>1. outcome = "scanning" /\ stack # <<>> /\ Top.at = "exists"
  BY DEF AskExists, At
<1>2. UNCHANGED <<dir, printed, outcome, fsVars>>
  BY DEF AskExists
<1>3. CASE exists(Top.path)
  <2>1. GoOn("isFile")
    BY <1>3 DEF AskExists
  <2> QED
    BY <1>1, <1>2, <2>1, GoesOn
<1>4. CASE ~exists(Top.path)
  <2>1. GoOn("isDirectory")
    BY <1>4 DEF AskExists
  <2>2. ~Stable(Top.path)
    BY <1>1, <1>4, AskedPath
  <2> QED
    BY <1>1, <1>2, <2>1, <2>2, GoesOn
<1> QED
  BY <1>3, <1>4

\* A path that can not be asked about.
LEMMA StepAskThrows ==
    ASSUME ScanInv, outcome = "scanning", stack # <<>>, Top.at # "readdir",
           ~exists(Top.path), Throw, UNCHANGED <<dir, printed, fsVars>>
    PROVE  ScanInv'
BY AskedPath, Throws

LEMMA StepIsDirectory ==
    ASSUME ScanInv, AskIsDirectory, UNCHANGED fsVars
    PROVE  ScanInv'
<1>1. outcome = "scanning" /\ stack # <<>> /\ Top.at = "isDirectory"
  BY DEF AskIsDirectory, At
<1>2. UNCHANGED <<dir, printed, fsVars>>
  BY DEF AskIsDirectory
<1>3. Top.entries = <<>>
  BY <1>1, TopIsGood DEF ScanInv, GoodFrame, Told
<1>4. CASE isDirectory(Top.path) = "thrown" /\ Throw
  <2>1. ~exists(Top.path)
    BY <1>4 DEF isDirectory, statIs
  <2> QED
    BY <1>1, <1>2, <1>4, <2>1, StepAskThrows
<1>5. CASE isDirectory(Top.path) = "false" /\ Return
  <2>1. kind[Top.path] # "directory"
    BY <1>5 DEF isDirectory, statIs, Directories
  <2>2. \A p \in Paths : Stable(p) /\ BeforeTop(p) => Top.path = p
    BY <1>1, <2>1, AskedPath DEF BeforeTop
  <2> QED
    BY <1>1, <1>2, <1>3, <1>5, <2>2, Returns
<1>6. CASE isDirectory(Top.path) = "true" /\ GoOn("opendir") /\ UNCHANGED outcome
  <2>1. kind[Top.path] \in Directories
    BY <1>6 DEF isDirectory, statIs
  <2>2. WasDirectory(Top.path)
    BY <2>1 DEF WasDirectory
  <2> QED
    BY <1>1, <1>2, <1>6, <2>2, GoesOn
<1> QED
  BY <1>4, <1>5, <1>6 DEF AskIsDirectory

\* The script that is printed does not lie ahead any more: of the calls above
\* none has an entry left that leads there, unless that was deleted.
LEMMA NotAhead ==
    ASSUME ScanInv, stack # <<>>, Top.entries = <<>>, Clean(Top.path)
    PROVE  ~InEntries(Top.path)
<1> DEFINE n == Len(stack)
<1>1. /\ stack \in Seq(Frame) /\ n \in Nat /\ n \in 1 .. n /\ Top = stack[n] /\ Top \in Frame
      /\ Calls /\ CallsDiffer /\ Frames
  BY TopIsGood, StackFacts DEF ScanInv, WalkInv
<1>2. Top.path \in Paths /\ \A j \in 1 .. n : stack[j].path \in Paths
  BY <1>1, TopPath
<1> SUFFICES ASSUME NEW j \in 1 .. n, EntryAbove(stack[j], Top.path)
             PROVE  FALSE
  BY DEF InEntries
<1>3. j # n
  BY <1>1, EntryAboveFacts
<1>4. PICK e \in 1 .. Len(stack[j].entries) :
          Above(Append(stack[j].path, stack[j].entries[e]), Top.path)
  BY DEF EntryAbove
<1> DEFINE name == stack[j].entries[e]
           child == Append(stack[j].path, name)
<1>5. /\ child \in Paths /\ name \in Names /\ Above(child, Top.path)
      /\ Len(child) = Len(stack[j].path) + 1
  <2>1. name \in Names /\ child \in Paths /\ Above(child, Top.path)
    BY <1>2, <1>4, AboveChild
  <2> QED
    BY <1>2, <2>1, ChildFacts
<1>6. j \in 1 .. n - 1 /\ j + 1 \in 1 .. n
  <2> HIDE DEF n, name, child
  <2> QED
    BY <1>1, <1>3
<1>7. /\ stack[j + 1].path \in Paths /\ Above(stack[j + 1].path, Top.path)
      /\ Len(stack[j + 1].path) = j /\ Len(stack[j].path) = j - 1
  <2>1. Above(stack[j + 1].path, Top.path)
    BY <1>1, <1>6, TopPath
  <2>2. Len(stack[j + 1].path) = (j + 1) - 1 /\ Len(stack[j].path) = j - 1
    BY <1>1, <1>6 DEF Calls
  <2> HIDE DEF n, name, child
  <2> QED
    BY <1>2, <1>6, <2>1, <2>2
<1>8. stack[j + 1].path = child
  <2>1. Len(child) = Len(stack[j + 1].path)
    <3> HIDE DEF n, name, child
    <3> QED
      BY <1>1, <1>5, <1>7
  <2> QED
    BY <1>2, <1>5, <1>7, <2>1, AboveSame
<1>9. stack[j + 1].path \in gone
  BY <1>1, <1>6, <1>8 DEF CallsDiffer, Leaves
<1> QED
  BY <1>7, <1>9 DEF Clean

\* Every directory the innermost call is in was there.
LEMMA AllKnown ==
    ASSUME ScanInv, stack # <<>>, NEW q \in Paths, q # <<>>, Above(q, Top.path)
    PROVE  Known(q)
<1> DEFINE n == Len(stack)
           j == Len(q) + 1
<1>1. /\ Calls /\ Frames /\ n \in Nat /\ Top.path \in Paths /\ n = Len(Top.path) + 1
  BY TopPath, StackFacts DEF ScanInv, WalkInv, Calls
<1>2. j \in 1 .. n
  BY <1>1, PathFacts DEF Above
<1>3. stack[j].path \in Paths /\ Above(stack[j].path, Top.path)
  BY <1>1, <1>2, TopPath
<1>4. Len(stack[j].path) = Len(q)
  <2>1. Len(stack[j].path) = j - 1
    BY <1>1, <1>2 DEF Calls
  <2> QED
    BY <2>1, PathFacts
<1>5. stack[j].path = q
  BY <1>1, <1>3, <1>4, AboveSame
<1>6. Told(stack[j])
  BY <1>1, <1>2 DEF Frames, GoodFrame
<1> QED
  BY <1>5, <1>6 DEF Told

LEMMA PrintedAppend ==
    ASSUME PrintedOnce, NEW q \in Paths, printed' = Append(printed, q)
    PROVE  /\ printed' \in Seq(Paths)
           /\ \A p : IsPrinted(p)' <=> IsPrinted(p) \/ p = q
           /\ \A p : p # q /\ IsPrintedOnce(p) => IsPrintedOnce(p)'
           /\ ~IsPrinted(q) => IsPrintedOnce(q)'
<1> DEFINE m == Len(printed)
<1>1. printed \in Seq(Paths) /\ m \in Nat
  BY LenProperties DEF PrintedOnce
<1>2. /\ printed' \in Seq(Paths) /\ Len(printed') = m + 1
      /\ printed'[m + 1] = q /\ \A a \in 1 .. m : printed'[a] = printed[a]
  BY <1>1, AppendProperties
<1>3. /\ \A p : IsPrinted(p) <=> \E a \in 1 .. m : printed[a] = p
      /\ \A p : IsPrintedOnce(p) <=>
            \A a, b \in 1 .. m : printed[a] = p /\ printed[b] = p => a = b
  BY DEF IsPrinted, IsPrintedOnce
<1> HIDE DEF m
<1>4. /\ \A p : IsPrinted(p)' <=> \E a \in 1 .. m + 1 : printed'[a] = p
      /\ \A p : IsPrintedOnce(p)' <=>
            \A a, b \in 1 .. m + 1 : printed'[a] = p /\ printed'[b] = p => a = b
  BY <1>2 DEF IsPrinted, IsPrintedOnce
<1>5. /\ \A a \in 1 .. m + 1 : a \in 1 .. m \/ a = m + 1
      /\ \A a \in 1 .. m : a \in 1 .. m + 1
      /\ m + 1 \in 1 .. m + 1
  BY <1>1
<1>6. \A p : IsPrinted(p)' <=> IsPrinted(p) \/ p = q
  BY <1>2, <1>3, <1>4, <1>5
<1>7. \A p : p # q /\ IsPrintedOnce(p) => IsPrintedOnce(p)'
  BY <1>2, <1>3, <1>4, <1>5
<1>8. ~IsPrinted(q) => IsPrintedOnce(q)'
  BY <1>2, <1>3, <1>4, <1>5
<1> QED
  BY <1>2, <1>6, <1>7, <1>8

LEMMA StepPrint ==
    ASSUME ScanInv, outcome = "scanning", stack # <<>>, Top.at = "isFile",
           kind[Top.path] = "file", Top.path # <<>>, Last(Top.path) \in Scripts,
           printed' = Append(printed, Top.path), Return, UNCHANGED <<dir, fsVars>>
    PROVE  ScanInv'
<1>0. PICK q : q = Top.path
  OBVIOUS
<1>1. /\ q \in Paths /\ Top.entries = <<>> /\ PrintedOnce
      /\ kind[q] \in been[q] /\ ~At("readdir")
  BY <1>0, TopIsGood, AskedPath DEF ScanInv, GoodFrame, Told, At
<1>2. /\ WalkInv' /\ ~At("readdir")' /\ outcome' \in {"scanning", "done"}
      /\ \A p : ~BeforeTop(p)' /\ (InEntries(p)' <=> InEntries(p))
  BY <1>1, ReturnFacts DEF ScanInv
<1>3. /\ printed' \in Seq(Paths)
      /\ \A p : IsPrinted(p)' <=> IsPrinted(p) \/ p = q
      /\ \A p : p # q /\ IsPrintedOnce(p) => IsPrintedOnce(p)'
      /\ ~IsPrinted(q) => IsPrintedOnce(q)'
  BY <1>0, <1>1, PrintedAppend
<1>4. \A p : Ahead(p)' <=> InEntries(p)
  BY <1>2 DEF Ahead, InDir
<1>5. WasScript(q)
  BY <1>0, <1>1, AllKnown DEF WasScript
<1>6. Clean(q) => ~IsPrinted(q) /\ ~InEntries(q)
  <2>1. BeforeTop(q)
    BY <1>0, <1>1, AboveItself DEF BeforeTop
  <2>2. Clean(q) => ~IsPrinted(q)
    BY <1>1, <2>1 DEF PrintedOnce, Ahead
  <2> QED
    BY <1>0, <1>1, <2>2, NotAhead
<1>7. /\ \A p : WasScript(p) => WasScript(p)'
      /\ \A p : Clean(p)' => Clean(p)
  BY DEF WasScript, Known, Clean, fsVars
<1>8. PrintedOnce'
  <2>1. ASSUME NEW p \in Paths, IsPrinted(p)'
        PROVE  WasScript(p)' /\ (Clean(p)' => ~Ahead(p)' /\ IsPrintedOnce(p)')
    <3>1. CASE p = q
      <4>1. WasScript(p)'
        BY <1>5, <1>7, <3>1
      <4>2. Clean(p)' => ~Ahead(p)' /\ IsPrintedOnce(p)'
        BY <1>3, <1>4, <1>6, <1>7, <3>1
      <4> QED
        BY <4>1, <4>2
    <3>2. CASE p # q
      <4>1. IsPrinted(p) /\ WasScript(p)
        BY <1>1, <1>3, <2>1, <3>2 DEF PrintedOnce
      <4>2. Clean(p)' => ~Ahead(p) /\ IsPrintedOnce(p)
        BY <1>1, <1>7, <4>1 DEF PrintedOnce
      <4>3. Ahead(p)' => Ahead(p)
        BY <1>4 DEF Ahead
      <4> QED
        BY <1>3, <1>7, <3>2, <4>1, <4>2, <4>3
    <3> QED
      BY <3>1, <3>2
  <2> QED
    BY <1>3, <2>1 DEF PrintedOnce
<1>9. NoneIsLost'
  <2>1. ASSUME NEW p \in Paths, Stable(p), Reached(p) PROVE Reached(p)'
    <3>1. CASE IsPrinted(p)
      BY <1>3, <3>1 DEF Reached
    <3>2. CASE InEntries(p)
      BY <1>2, <3>2 DEF Reached
    <3>3. CASE BeforeTop(p)
      <4>1. p = q
        BY <1>0, <2>1, <3>3, AskedPath DEF BeforeTop
      <4> QED
        BY <1>3, <4>1 DEF Reached
    <3> QED
      BY <1>1, <2>1, <3>1, <3>2, <3>3 DEF Reached, InDir
  <2> QED
    BY <2>1, NothingIsLost DEF ScanInv
<1> QED
  BY <1>2, <1>8, <1>9 DEF ScanInv

LEMMA StepIsFile ==
    ASSUME ScanInv, AskIsFile, UNCHANGED fsVars
    PROVE  ScanInv'
<1> DEFINE isScript == Top.path # <<>> /\ Last(Top.path) \in Scripts
<1>1. outcome = "scanning" /\ stack # <<>> /\ Top.at = "isFile" /\ UNCHANGED <<dir, fsVars>>
  BY DEF AskIsFile, At
<1>2. CASE isFile(Top.path) = "thrown" /\ Throw /\ UNCHANGED printed
  <2>1. ~exists(Top.path)
    BY <1>2 DEF isFile, statIs
  <2> QED
    BY <1>1, <1>2, <2>1, StepAskThrows
<1>3. CASE isFile(Top.path) = "true" /\ isScript /\ printed' = Append(printed, Top.path) /\ Return
  <2>1. kind[Top.path] = "file"
    BY <1>3 DEF isFile, statIs
  <2> QED
    BY <1>1, <1>3, <2>1, StepPrint
<1>4. CASE /\ isFile(Top.path) # "thrown" /\ (isFile(Top.path) = "false" \/ ~isScript)
           /\ GoOn("isDirectory") /\ UNCHANGED <<printed, outcome>>
  <2>1. ~Stable(Top.path)
    BY <1>1, <1>4, AskedPath DEF isFile, statIs, Stable
  <2> QED
    BY <1>1, <1>4, <2>1, GoesOn
<1> QED
  BY <1>2, <1>3, <1>4 DEF AskIsFile

-----------------------------------------------------------------------------
(* fs.list and forEach.                                                     *)

LEMMA EntriesAre ==
    ASSUME NEW q \in Paths, TreeInv
    PROVE  /\ \A name \in EntriesOf(q) : IsEntry(q, name)
           /\ \A name \in Names : Append(q, name) \in Paths /\ kind[Append(q, name)] # "none"
                 => name \in EntriesOf(q)
<1>1. ASSUME NEW c \in Children(q), kind[c] # "none"
      PROVE  IsEntry(q, Last(c))
  <2>1. c \in Paths /\ c # <<>> /\ Parent(c) = q
    BY DEF Children
  <2>2. Append(q, Last(c)) = c /\ Last(c) \in Names
    BY <2>1, ParentFacts
  <2> QED
    BY <1>1, <2>1, <2>2 DEF IsEntry, Known
<1>2. ASSUME NEW name \in Names, Append(q, name) \in Paths, kind[Append(q, name)] # "none"
      PROVE  name \in EntriesOf(q)
  <2> DEFINE c == Append(q, name)
  <2>1. c # <<>> /\ Len(c) = Len(q) + 1 /\ c[Len(q) + 1] = name
    BY ChildFacts
  <2>2. Last(c) = name
    BY <2>1 DEF Last
  <2>3. Parent(c) = q
    <3>1. Parent(c) \in Paths /\ Len(Parent(c)) = Len(c) - 1 /\ Above(Parent(c), c)
      BY <1>2, <2>1, ParentFacts
    <3>2. Above(q, c)
      BY <1>2, AboveItself, AboveChild
    <3>3. Len(Parent(c)) = Len(q)
      <4>1. Len(q) \in Nat
        BY PathFacts
      <4> QED
        BY <2>1, <3>1, <4>1
    <3> QED
      BY <1>2, <3>1, <3>2, <3>3, AboveSame
  <2> QED
    BY <1>2, <2>1, <2>2, <2>3 DEF EntriesOf, Children
<1> QED
  BY <1>1, <1>2 DEF EntriesOf

LEMMA StepOpenDir ==
    ASSUME ScanInv, OpenDir, UNCHANGED fsVars
    PROVE  ScanInv'
<1> DEFINE f == [Top EXCEPT !.at = "readdir"]
<1>0. PICK q : q = Top.path
  OBVIOUS
<1>1. /\ outcome = "scanning" /\ stack # <<>> /\ Top.at = "opendir" /\ ~At("readdir")
      /\ UNCHANGED <<printed, fsVars>>
  BY DEF OpenDir, At
<1>2. /\ stack \in Seq(Frame) /\ Top \in Frame /\ GoodFrame(Top) /\ q \in Paths
      /\ Calls /\ Frames /\ CallsDiffer /\ TreeInv /\ Progress
      /\ Top.entries = <<>> /\ Len(<<>>) = 0
  BY <1>0, <1>1, TopIsGood, EmptySeq DEF ScanInv, WalkInv, GoodFrame, Told
<1>3. CASE ~canOpen(q)
  <2>1. Throw /\ UNCHANGED dir
    BY <1>0, <1>3 DEF OpenDir
  <2>2. kind[q] \in Directories \/ q \in gone \/ WasHidden(q)
    BY <1>0, <1>1, <1>2 DEF GoodFrame, Opening, WasDirectory
  <2>3. ~exists(q) => kind[q] = "none" \/ WasHidden(q)
    BY <1>0, <1>1, AskedPath
  <2>4. kind[q] \in been[q]
    BY <1>0, <1>1, AskedPath
  <2>5. q \in gone \/ "locked" \in been[q] \/ WasHidden(q)
    BY <1>3, <2>2, <2>3, <2>4 DEF canOpen, Directories
  <2> QED
    BY <1>0, <1>1, <2>1, <2>5, Throws
<1>4. CASE canOpen(q)
  <2>1. dir' = opendir(q) /\ GoOn("readdir") /\ UNCHANGED outcome
    BY <1>0, <1>4 DEF OpenDir
  <2>2. f \in Frame /\ f.path = q /\ f.entries = <<>> /\ f.at = "readdir" /\ TopBecomes(f)
    BY <1>0, <1>1, <1>2, <2>1, AtChanged, GoOnReplaces DEF Places
  <2> HIDE DEF f
  <2>3. stack' # <<>> /\ Top' = f /\ At("readdir")'
    BY <1>1, <1>2, <2>1, <2>2, TopReplaced DEF At
  <2>4. GoodFrame(f)
    BY <1>0, <1>2, <2>2 DEF GoodFrame, Told, Opening, EntriesDiffer
  <2>5. /\ dir'.path = q /\ dir'.must = EntriesOf(q) \cup Dots /\ dir'.may = {}
        /\ dir' = [path |-> dir'.path, must |-> dir'.must, may |-> dir'.may]
    BY <2>1 DEF opendir, Dots
  <2>6. /\ \A name \in EntriesOf(q) : IsEntry(q, name)
        /\ EntriesOf(q) \subseteq Names
    BY <1>2, EntriesAre DEF IsEntry
  <2>7. WalkInv'
    <3>1. TreeInv' /\ Calls'
      BY <1>0, <1>1, <1>2, <2>2, TreeStays, CallsReplaced
    <3>2. Frames'
      BY <1>1, <1>2, <2>2, <2>4, FramesReplaced
    <3>3. CallsDiffer'
      BY <1>0, <1>1, <1>2, <2>2, CallsDifferReplaced
    <3>4. Reading'
      <4>1. \A name : IsEntry(q, name) => IsEntry(q, name)'
        BY DEF IsEntry, Known, fsVars
      <4>2. dir'.path = Top'.path
        BY <2>2, <2>3, <2>5
      <4>3. \A name \in dir'.must \cup dir'.may : name \notin Dots => IsEntry(q, name)'
        BY <2>5, <2>6, <4>1
      <4>4. dir'.path \in Paths
        BY <1>2, <2>5
      <4>5. dir'.must \subseteq Names \cup Dots /\ dir'.may \subseteq Names \cup Dots
        BY <2>5, <2>6
      <4>6. \A name : IsEntry(q, name)' => IsEntry(dir.path, name)'
        BY <2>5 DEF IsEntry, Known
      <4> QED
        BY <2>5, <4>2, <4>3, <4>4, <4>5, <4>6 DEF Reading
    <3>5. ReadsDiffer'
      BY <1>2, <2>2, <2>3 DEF ReadsDiffer
    <3>6. Progress'
      BY <1>1, <1>2, <2>1, <2>3 DEF Progress
    <3> QED
      BY <3>1, <3>2, <3>3, <3>4, <3>5, <3>6 DEF WalkInv
  <2>8. \A p : InEntries(p)' <=> InEntries(p)
    <3> TAKE p
    <3>1. ~EntryAbove(f, p) /\ ~EntryAbove(Top, p)
      BY <1>2, <2>2, EntryAboveFacts
    <3> QED
      BY <1>1, <1>2, <2>2, <3>1, EntriesReplaced
  <2>9. PrintedOnce'
    <3>1. ASSUME NEW p \in Paths, Ahead(p)' PROVE Ahead(p)
      <4>1. ~BeforeTop(p)'
        BY <2>2, <2>3 DEF BeforeTop
      <4>2. CASE InDir(p, dir.must \cup dir.may)'
        <5>1. PICK name : Above(Append(q, name), p)
          BY <2>5, <4>2 DEF InDir, Above
        <5>2. Above(q, p)
          BY <1>2, <5>1, AboveChild
        <5> QED
          BY <1>0, <1>1, <5>2 DEF Ahead, BeforeTop
      <4> QED
        BY <2>8, <3>1, <4>1, <4>2 DEF Ahead
    <3> QED
      BY <1>1, <3>1, PrintedStays DEF ScanInv
  <2>10. NoneIsLost'
    <3>1. ASSUME NEW p \in Paths, Stable(p), Reached(p) PROVE Reached(p)'
      <4>1. CASE IsPrinted(p)
        BY <1>1, <4>1 DEF Reached, IsPrinted
      <4>2. CASE InEntries(p)
        BY <2>8, <4>2 DEF Reached
      <4>3. CASE BeforeTop(p) /\ q # p
        <5>1. PICK name \in Names : Append(q, name) \in Paths /\ Above(Append(q, name), p)
          BY <1>0, <1>2, <4>3, AboveNext DEF BeforeTop
        <5>2. kind[Append(q, name)] \in {"file", "directory"}
          BY <1>2, <3>1, <5>1 DEF Stable, TreeInv
        <5>3. name \in dir'.must
          BY <1>2, <2>5, <5>1, <5>2, EntriesAre
        <5>4. Above(Append(dir'.path, name), p)
          BY <2>5, <5>1
        <5>5. InDir(p, dir.must)'
          BY <2>3, <5>3, <5>4 DEF InDir, Above
        <5> QED
          BY <5>5 DEF Reached
      <4> QED
        BY <1>0, <1>1, <3>1, <4>1, <4>2, <4>3 DEF Reached, InDir
    <3> QED
      BY <1>1, <3>1, NothingIsLost DEF ScanInv
  <2> QED
    BY <2>7, <2>9, <2>10 DEF ScanInv
<1> QED
  BY <1>3, <1>4

\* An entry that readdir has returned.
LEMMA ReadEntry ==
    ASSUME WalkInv, At("readdir"), NEW name \in dir.must \cup dir.may, Listed(name),
           NEW g \in Frame, g.path = Top.path, g.at = "readdir",
           g.entries = Append(Top.entries, name)
    PROVE  GoodFrame(g)
<1> DEFINE n == Len(Top.entries)
<1>1. /\ stack # <<>> /\ Top \in Frame /\ GoodFrame(Top) /\ Top.at = "readdir"
      /\ Top.entries \in Seq(Names \cup Dots)
  BY TopIsGood DEF At
<1>2. name \in Names \cup Dots /\ name \notin Dots /\ IsEntry(Top.path, name)
  BY DEF WalkInv, Reading, Listed, Dots
<1>3. /\ n \in Nat /\ Len(g.entries) = n + 1 /\ g.entries[n + 1] = name
      /\ \A e \in 1 .. n : g.entries[e] = Top.entries[e]
  BY <1>1, <1>2, AppendProperties
<1>4. /\ \A e \in 1 .. n : IsEntry(Top.path, Top.entries[e])
      /\ \A d, e \in 1 .. n : d # e /\ Top.entries[d] = Top.entries[e]
            => Append(Top.path, Top.entries[e]) \in gone
      /\ Top.path # <<>> => Known(Top.path)
  BY <1>1 DEF GoodFrame, Told, EntriesDiffer
<1>5. \A e \in 1 .. n : Top.entries[e] = name => Append(Top.path, name) \in gone
  BY DEF WalkInv, ReadsDiffer
<1> HIDE DEF n
<1>6. \A e \in 1 .. n + 1 : e \in 1 .. n \/ e = n + 1
  BY <1>3
<1>7. Told(g)
  BY <1>2, <1>3, <1>4, <1>6 DEF Told
<1>8. Opening(g)
  BY DEF Opening
<1>9. EntriesDiffer(g)
  <2> SUFFICES ASSUME NEW d \in 1 .. n + 1, NEW e \in 1 .. n + 1, d # e,
                      g.entries[d] = g.entries[e]
               PROVE  Append(Top.path, g.entries[e]) \in gone
    BY <1>3 DEF EntriesDiffer
  <2>1. CASE d \in 1 .. n /\ e \in 1 .. n
    BY <1>3, <1>4, <2>1
  <2>2. CASE d = n + 1 /\ e \in 1 .. n
    BY <1>3, <1>5, <2>2
  <2>3. CASE d \in 1 .. n /\ e = n + 1
    BY <1>3, <1>5, <2>3
  <2> QED
    BY <1>6, <2>1, <2>2, <2>3
<1> QED
  BY <1>7, <1>8, <1>9 DEF GoodFrame

LEMMA StepReadDir ==
    ASSUME ScanInv, ReadDir, UNCHANGED fsVars
    PROVE  ScanInv'
<1>0. PICK q : q = Top.path
  OBVIOUS
<1>1. /\ At("readdir") /\ outcome = "scanning" /\ stack # <<>> /\ Top.at = "readdir"
      /\ UNCHANGED <<printed, outcome, fsVars>>
  BY DEF ReadDir, At
<1>2. PICK name \in dir.must \cup dir.may :
        /\ dir' = readdir(dir, name)
        /\ stack' = [stack EXCEPT ![Len(stack)].entries =
                        IF Listed(name) THEN Add(@, name) ELSE @]
  BY DEF ReadDir
<1> DEFINE entries == IF Listed(name) THEN Append(Top.entries, name) ELSE Top.entries
           f == [Top EXCEPT !.entries = entries]
<1>3. /\ stack \in Seq(Frame) /\ Top \in Frame /\ GoodFrame(Top) /\ q \in Paths
      /\ Calls /\ Frames /\ CallsDiffer /\ TreeInv /\ Reading /\ ReadsDiffer /\ Progress
      /\ Top.entries \in Seq(Names \cup Dots)
  BY <1>0, <1>1, TopIsGood DEF ScanInv, WalkInv
<1>4. /\ dir.path = q /\ name \in Names \cup Dots
      /\ \A m \in dir.must \cup dir.may : m \notin Dots => IsEntry(q, m)
      /\ dir = [path |-> dir.path, must |-> dir.must, may |-> dir.may]
      /\ dir.must \subseteq Names \cup Dots /\ dir.may \subseteq Names \cup Dots
  BY <1>0, <1>1, <1>3 DEF Reading
<1>5. /\ dir'.path = q /\ dir'.must = dir.must \ {name} /\ dir'.may = dir.may \ {name}
      /\ dir' = [path |-> dir'.path, must |-> dir'.must, may |-> dir'.may]
  <2>1. dir' = [path |-> q, must |-> dir.must \ {name}, may |-> dir.may \ {name}]
    BY <1>2, <1>4 DEF readdir
  <2> QED
    BY <2>1
<1>6. entries \in Seq(Names \cup Dots)
  BY <1>3, <1>4, AppendProperties
<1>7. TopBecomes(f)
  BY <1>1, <1>2, <1>3, StackFacts DEF TopBecomes, Add
<1>8. /\ f \in Frame /\ f.path = q /\ f.at = "readdir"
      /\ Listed(name) => f.entries = Append(Top.entries, name)
      /\ ~Listed(name) => f.entries = Top.entries
  <2> HIDE DEF entries
  <2>1. f \in Frame /\ f.path = q /\ f.at = "readdir" /\ f.entries = entries
    BY <1>0, <1>1, <1>3, <1>6, EntriesChanged
  <2> QED
    BY <2>1 DEF entries
<1> HIDE DEF entries, f
<1>9. GoodFrame(f)
  <2>1. CASE Listed(name)
    BY <1>0, <1>1, <1>8, <2>1, ReadEntry DEF ScanInv
  <2>2. CASE ~Listed(name)
    BY <1>0, <1>1, <1>3, <1>8, <2>2 DEF GoodFrame, Told, Opening, EntriesDiffer
  <2> QED
    BY <2>1, <2>2
<1>10. stack' # <<>> /\ Top' = f /\ At("readdir")'
  BY <1>1, <1>3, <1>7, <1>8, TopReplaced DEF At
<1>11. \A p : EntryAbove(f, p) <=>
              EntryAbove(Top, p) \/ (Listed(name) /\ Above(Append(q, name), p))
  <2> TAKE p
  <2>1. CASE Listed(name)
    BY <1>0, <1>3, <1>4, <1>8, <2>1, EntryAdded
  <2>2. CASE ~Listed(name)
    BY <1>0, <1>3, <1>8, <2>2, EntryAboveFacts
  <2> QED
    BY <2>1, <2>2
<1>12. ReadsDiffer'
  <2>1. ASSUME NEW e \in 1 .. Len(f.entries), f.entries[e] \in dir'.must \cup dir'.may
        PROVE  Append(q, f.entries[e]) \in gone
    <3>1. f.entries[e] # name /\ f.entries[e] \in dir.must \cup dir.may
      BY <1>5, <2>1
    <3>2. e \in 1 .. Len(Top.entries) /\ Top.entries[e] = f.entries[e]
      <4>1. CASE Listed(name)
        <5>1. /\ Len(Top.entries) \in Nat /\ Len(f.entries) = Len(Top.entries) + 1
              /\ f.entries[Len(Top.entries) + 1] = name
              /\ \A d \in 1 .. Len(Top.entries) : f.entries[d] = Top.entries[d]
          BY <1>3, <1>4, <1>8, <4>1, AppendProperties, LenProperties
        <5>2. e # Len(Top.entries) + 1
          BY <3>1, <5>1
        <5>3. e \in 1 .. Len(Top.entries)
          BY <5>1, <5>2
        <5> QED
          BY <5>1, <5>3
      <4>2. CASE ~Listed(name)
        BY <1>8, <4>2
      <4> QED
        BY <4>1, <4>2
    <3> QED
      BY <1>0, <1>1, <1>3, <3>1, <3>2 DEF ReadsDiffer
  <2> QED
    BY <1>1, <1>8, <1>10, <2>1 DEF ReadsDiffer, fsVars
<1>13. WalkInv'
  <2>1. TreeInv' /\ Calls'
    BY <1>0, <1>1, <1>3, <1>7, <1>8, TreeStays, CallsReplaced
  <2>2. Frames'
    BY <1>1, <1>3, <1>7, <1>8, <1>9, FramesReplaced
  <2>3. CallsDiffer'
    BY <1>0, <1>1, <1>3, <1>7, <1>8, CallsDifferReplaced
  <2>4. Reading'
    <3>1. \A m : IsEntry(q, m) => IsEntry(dir.path, m)'
      BY <1>1, <1>5 DEF IsEntry, Known, fsVars
    <3>2. dir'.path = Top'.path
      BY <1>5, <1>8, <1>10
    <3>3. \A m \in dir'.must \cup dir'.may : m \notin Dots => IsEntry(q, m)
      BY <1>4, <1>5
    <3>4. dir'.must \subseteq Names \cup Dots /\ dir'.may \subseteq Names \cup Dots
      BY <1>4, <1>5
    <3> QED
      BY <1>3, <1>5, <3>1, <3>2, <3>3, <3>4 DEF Reading
  <2>5. Progress'
    BY <1>1, <1>3, <1>10 DEF Progress
  <2> QED
    BY <1>12, <2>1, <2>2, <2>3, <2>4, <2>5 DEF WalkInv
<1>14. PrintedOnce'
  <2>1. ASSUME NEW p \in Paths, Ahead(p)' PROVE Ahead(p)
    <3>1. ~BeforeTop(p)'
      BY <1>8, <1>10 DEF BeforeTop
    <3>2. CASE InEntries(p)'
      <4>1. InEntries(p) \/ Above(Append(q, name), p)
        BY <1>1, <1>3, <1>7, <1>8, <1>11, <3>2, EntriesReplaced
      <4> QED
        BY <1>1, <1>4, <4>1 DEF Ahead, InDir
    <3>3. CASE InDir(p, dir.must \cup dir.may)'
      <4>1. PICK m \in dir'.must \cup dir'.may : Above(Append(q, m), p)
        BY <1>5, <3>3 DEF InDir, Above
      <4>2. m \in dir.must \cup dir.may
        BY <1>5, <4>1
      <4> QED
        BY <1>1, <1>4, <4>1, <4>2 DEF Ahead, InDir
    <3> QED
      BY <2>1, <3>1, <3>2, <3>3 DEF Ahead
  <2> QED
    BY <1>1, <2>1, PrintedStays DEF ScanInv
<1>15. NoneIsLost'
  <2>1. ASSUME NEW p \in Paths, Stable(p), Reached(p) PROVE Reached(p)'
    <3>1. CASE IsPrinted(p)
      BY <1>1, <3>1 DEF Reached, IsPrinted
    <3>2. CASE InEntries(p)
      <4>1. EntryAbove(Top, p) => EntryAbove(f, p)
        BY <1>11
      <4>2. InEntries(p)'
        BY <1>1, <1>3, <1>7, <1>8, <3>2, <4>1, EntriesReplaced
      <4> QED
        BY <4>2 DEF Reached
    <3>3. CASE InDir(p, dir.must)
      <4>1. PICK m \in dir.must : Above(Append(q, m), p)
        BY <1>4, <3>3 DEF InDir
      <4>2. CASE m = name
        <5>1. name \in Names
          BY <1>3, <4>1, <4>2, AboveChild
        <5>2. Listed(name)
          BY <5>1, FileSystemAssumption DEF Listed
        <5>3. EntryAbove(f, p)
          BY <1>11, <4>1, <4>2, <5>2
        <5>4. InEntries(p)'
          BY <1>1, <1>3, <1>7, <1>8, <5>3, EntriesReplaced
        <5> QED
          BY <5>4 DEF Reached
      <4>3. CASE m # name
        <5>1. m \in dir'.must /\ Above(Append(dir'.path, m), p)
          BY <1>5, <4>1, <4>3
        <5>2. InDir(p, dir.must)'
          BY <1>10, <5>1 DEF InDir, Above
        <5> QED
          BY <5>2 DEF Reached
      <4> QED
        BY <4>2, <4>3
    <3> QED
      BY <1>1, <2>1, <3>1, <3>2, <3>3 DEF Reached, BeforeTop
  <2> QED
    BY <1>1, <2>1, NothingIsLost DEF ScanInv
<1> QED
  BY <1>13, <1>14, <1>15 DEF ScanInv

LEMMA StepCloseDir ==
    ASSUME ScanInv, CloseDir, UNCHANGED fsVars
    PROVE  ScanInv'
<1> DEFINE f == [Top EXCEPT !.at = "forEach"]
<1>1. /\ At("readdir") /\ outcome = "scanning" /\ stack # <<>> /\ Top.at = "readdir"
      /\ UNCHANGED <<printed, outcome, fsVars>> /\ canEnd(dir) /\ dir' = NoDir
      /\ GoOn("forEach")
  BY DEF CloseDir, At
<1>2. /\ stack \in Seq(Frame) /\ Top \in Frame /\ GoodFrame(Top)
      /\ Calls /\ Frames /\ CallsDiffer /\ TreeInv /\ Reading /\ ReadsDiffer /\ Progress
  BY <1>1, TopIsGood DEF ScanInv, WalkInv
<1>3. f \in Frame /\ f.path = Top.path /\ f.at = "forEach" /\ f.entries = Top.entries
  BY <1>2, AtChanged DEF Places
<1>4. TopBecomes(f)
  BY <1>1, <1>2, GoOnReplaces DEF Places
<1> HIDE DEF f
<1>5. stack' # <<>> /\ Top' = f
  BY <1>1, <1>2, <1>3, <1>4, TopReplaced
<1>6. ~At("readdir")'
  BY <1>3, <1>5 DEF At
<1>7. GoodFrame(f)
  BY <1>1, <1>2, <1>3 DEF GoodFrame, Told, Opening, EntriesDiffer
<1>8. \A p : InEntries(p)' <=> InEntries(p)
  <2> TAKE p
  <2>1. EntryAbove(f, p) <=> EntryAbove(Top, p)
    BY <1>2, <1>3, EntryAboveFacts
  <2> QED
    BY <1>1, <1>2, <1>3, <1>4, <2>1, EntriesReplaced
<1>9. \A p : ~BeforeTop(p)'
  BY <1>3, <1>5 DEF BeforeTop
<1>10. WalkInv'
  <2>1. TreeInv' /\ Calls'
    BY <1>1, <1>2, <1>3, <1>4, TreeStays, CallsReplaced
  <2>2. Frames'
    BY <1>1, <1>2, <1>3, <1>4, <1>7, FramesReplaced
  <2>3. CallsDiffer'
    BY <1>1, <1>2, <1>3, <1>4, CallsDifferReplaced
  <2>4. Reading'
    <3>1. dir'.path = <<>> /\ dir' = [path |-> dir'.path, must |-> dir'.must, may |-> dir'.may]
          /\ dir'.must = {} /\ dir'.may = {}
      BY <1>1 DEF NoDir
    <3> QED
      BY <1>6, <3>1, PathsAre DEF Reading
  <2>5. ReadsDiffer'
    BY <1>6 DEF ReadsDiffer
  <2>6. Progress'
    BY <1>1, <1>2, <1>5 DEF Progress
  <2> QED
    BY <2>1, <2>2, <2>3, <2>4, <2>5, <2>6 DEF WalkInv
<1>11. PrintedOnce'
  <2>1. \A p \in Paths : Ahead(p)' => Ahead(p)
    BY <1>6, <1>8, <1>9 DEF Ahead, InDir
  <2> QED
    BY <1>1, <2>1, PrintedStays DEF ScanInv
<1>12. NoneIsLost'
  <2>1. ASSUME NEW p \in Paths, Stable(p), Reached(p) PROVE Reached(p)'
    <3>1. CASE IsPrinted(p)
      BY <1>1, <3>1 DEF Reached, IsPrinted
    <3>2. CASE InEntries(p)
      BY <1>8, <3>2 DEF Reached
    <3>3. ~InDir(p, dir.must)
      <4> SUFFICES ASSUME NEW name \in dir.must, Above(Append(dir.path, name), p)
                   PROVE  FALSE
        BY DEF InDir
      <4>1. dir.path \in Paths /\ Above(dir.path, p) /\ dir.path # p
        BY <1>2, AboveChild DEF Reading
      <4>2. kind[dir.path] = "directory"
        BY <1>2, <2>1, <4>1, StableIsFound
      <4> QED
        BY <1>1, <4>2 DEF canEnd
    <3> QED
      BY <1>1, <2>1, <3>1, <3>2, <3>3 DEF Reached, BeforeTop
  <2> QED
    BY <1>1, <2>1, NothingIsLost DEF ScanInv
<1> QED
  BY <1>10, <1>11, <1>12 DEF ScanInv

\* forEach takes the first entry that is left and visits it.
LEMMA TakenEntry ==
    ASSUME NEW f \in Frame, NEW g \in Frame, GoodFrame(f), f.at = "forEach",
           f.entries # <<>>, g.path = f.path, g.at = f.at, g.entries = Tail(f.entries)
    PROVE  LET name == Head(f.entries)
               child == Append(f.path, name)
           IN  /\ GoodFrame(g) /\ Leaves(g, Visit(child)) /\ GoodFrame(Visit(child))
               /\ name \in Names /\ child \in Paths
<1> DEFINE n == Len(f.entries)
           name == Head(f.entries)
           child == Append(f.path, name)
<1>1. /\ f.path \in Paths /\ f.entries \in Seq(Names \cup Dots) /\ n \in Nat /\ n # 0
  BY FrameFacts, EmptySeq
<1>2. /\ Len(g.entries) = n - 1 /\ \A e \in 1 .. n - 1 : g.entries[e] = f.entries[e + 1]
  BY <1>1, HeadTailProperties
<1>3. name = f.entries[1]
  BY <1>1
<1>4. /\ \A e \in 1 .. n : IsEntry(f.path, f.entries[e])
      /\ \A d, e \in 1 .. n : d # e /\ f.entries[d] = f.entries[e]
            => Append(f.path, f.entries[e]) \in gone
      /\ f.path # <<>> => Known(f.path)
  BY DEF GoodFrame, Told, EntriesDiffer
<1> HIDE DEF n, name, child
<1>5. 1 \in 1 .. n /\ \A e \in 1 .. n - 1 : e + 1 \in 1 .. n /\ e + 1 # 1
  BY <1>1
<1>6. name \in Names /\ child \in Paths /\ Known(child)
  BY <1>3, <1>4, <1>5 DEF IsEntry, child
<1>7. GoodFrame(g)
  <2>1. Told(g)
    BY <1>2, <1>4, <1>5 DEF Told
  <2>2. Opening(g)
    BY DEF Opening
  <2>3. EntriesDiffer(g)
    <3> SUFFICES ASSUME NEW d \in 1 .. n - 1, NEW e \in 1 .. n - 1, d # e,
                        g.entries[d] = g.entries[e]
                 PROVE  Append(f.path, g.entries[e]) \in gone
      BY <1>2 DEF EntriesDiffer
    <3>1. d + 1 # e + 1
      BY <1>1
    <3> QED
      BY <1>2, <1>4, <1>5, <3>1
  <2> QED
    BY <2>1, <2>2, <2>3 DEF GoodFrame
<1>8. /\ Visit(child).path = child /\ Visit(child).at = "exists"
      /\ Visit(child).entries = <<>> /\ Len(Visit(child).entries) = 0
  BY <1>6, VisitFacts
<1>9. GoodFrame(Visit(child))
  BY <1>6, <1>8 DEF GoodFrame, Told, Opening, EntriesDiffer
<1>10. Leaves(g, Visit(child))
  <2> SUFFICES ASSUME NEW e \in 1 .. n - 1, child = Append(f.path, g.entries[e])
               PROVE  child \in gone
    BY <1>2, <1>8 DEF Leaves
  <2>1. g.entries[e] = f.entries[e + 1] /\ e + 1 \in 1 .. n /\ e + 1 # 1
    BY <1>2, <1>5
  <2>2. g.entries[e] \in Names
    BY <1>4, <2>1 DEF IsEntry
  <2>3. g.entries[e] = name
    <3>1. PICK m \in Names : m = g.entries[e]
      BY <2>2
    <3>2. Append(f.path, name)[Len(f.path) + 1] = name
      BY <1>1, <1>6, ChildFacts
    <3>3. Append(f.path, m)[Len(f.path) + 1] = m
      BY <1>1, ChildFacts
    <3>4. Append(f.path, name) = Append(f.path, m)
      BY <3>1 DEF child
    <3> QED
      BY <3>1, <3>2, <3>3, <3>4
  <2> QED
    BY <1>3, <1>4, <1>5, <2>1, <2>3 DEF child
<1> QED
  BY <1>6, <1>7, <1>9, <1>10 DEF name, child

LEMMA StepForEach ==
    ASSUME ScanInv, ForEach, UNCHANGED fsVars
    PROVE  ScanInv'
<1> DEFINE f == [Top EXCEPT !.entries = Tail(Top.entries)]
<1>1. /\ outcome = "scanning" /\ stack # <<>> /\ Top.at = "forEach" /\ ~At("readdir")
      /\ UNCHANGED <<dir, printed, fsVars>>
  BY DEF ForEach, At
<1>2. /\ stack \in Seq(Frame) /\ Top \in Frame /\ GoodFrame(Top) /\ Top.path \in Paths
      /\ Calls /\ Frames /\ CallsDiffer /\ TreeInv /\ Reading /\ Progress
      /\ Top.entries \in Seq(Names \cup Dots)
  BY <1>1, TopIsGood DEF ScanInv, WalkInv
<1>3. CASE Top.entries = <<>>
  <2>1. Return
    BY <1>3 DEF ForEach
  <2>2. \A p : ~BeforeTop(p)
    BY <1>1 DEF BeforeTop
  <2> QED
    BY <1>1, <1>3, <2>1, <2>2, Returns
<1>4. CASE Top.entries # <<>>
  <2>1. Tail(Top.entries) \in Seq(Names \cup Dots)
    BY <1>2, <1>4, HeadTailProperties
  <2>2. f \in Frame /\ f.path = Top.path /\ f.at = "forEach" /\ f.entries = Tail(Top.entries)
    BY <1>1, <1>2, <2>1, EntriesChanged
  <2>3. PICK name, child : name = Head(Top.entries) /\ child = Append(Top.path, name)
    OBVIOUS
  <2>4. /\ GoodFrame(f) /\ Leaves(f, Visit(child)) /\ GoodFrame(Visit(child))
        /\ name \in Names /\ child \in Paths
    <3> HIDE DEF f
    <3> QED
      BY <1>1, <1>2, <1>4, <2>2, <2>3, TakenEntry
  <2>5. Resolve(Top.path, Head(Top.entries)) = child
    BY <2>3, <2>4, FileSystemAssumption DEF Resolve
  <2>6. stack' = Append([stack EXCEPT ![Len(stack)] = f], Visit(child)) /\ UNCHANGED outcome
    <3>1. /\ stack' = Append([stack EXCEPT ![Len(stack)].entries = Tail(@)],
                             Visit(Resolve(Top.path, Head(Top.entries))))
          /\ UNCHANGED outcome
      BY <1>4 DEF ForEach
    <3>2. [stack EXCEPT ![Len(stack)].entries = Tail(@)] = [stack EXCEPT ![Len(stack)] = f]
      BY <1>1, <1>2, StackFacts
    <3> QED
      BY <2>5, <3>1, <3>2
  <2> HIDE DEF f
  <2>7. /\ Visit(child) \in Frame /\ Visit(child).path = child
        /\ Visit(child).at = "exists" /\ Visit(child).entries = <<>>
    BY <2>4, VisitFacts
  <2>8. stack' # <<>> /\ Top' = Visit(child)
    BY <1>1, <1>2, <2>2, <2>6, <2>7, CallBegun
  <2>9. ~At("readdir")'
    BY <2>7, <2>8 DEF At
  <2>10. WalkInv'
    <3>1. TreeInv'
      BY <1>1, <1>2, TreeStays
    <3>2. Calls'
      BY <1>1, <1>2, <2>2, <2>3, <2>4, <2>6, CallsBegun
    <3>3. Frames'
      BY <1>1, <1>2, <2>2, <2>4, <2>6, <2>7, FramesBegun
    <3>4. CallsDiffer'
      BY <1>1, <1>2, <2>2, <2>4, <2>6, <2>7, CallsDifferBegun
    <3>5. Reading'
      BY <1>1, <1>2, <2>9, ReadingStays
    <3>6. ReadsDiffer'
      BY <2>9 DEF ReadsDiffer
    <3>7. Progress'
      BY <1>1, <1>2, <2>6, <2>8 DEF Progress
    <3> QED
      BY <3>1, <3>2, <3>3, <3>4, <3>5, <3>6, <3>7 DEF WalkInv
  <2>11. \A p : EntryAbove(Top, p) <=> EntryAbove(f, p) \/ Above(child, p)
    BY <1>2, <1>4, <2>2, <2>3, EntryTaken
  <2>12. \A p : BeforeTop(p)' <=> Above(child, p)
    BY <1>1, <2>6, <2>7, <2>8 DEF BeforeTop, Above
  <2>13. \A p : /\ InEntries(p)' => InEntries(p) \/ EntryAbove(f, p)
                /\ InEntries(p) => InEntries(p)' \/ EntryAbove(Top, p)
                /\ EntryAbove(f, p) => InEntries(p)'
                /\ EntryAbove(Top, p) => InEntries(p)
    <3> TAKE p
    <3>1. ~EntryAbove(Visit(child), p)
      BY <2>7, EntryAboveFacts
    <3> QED
      BY <1>1, <1>2, <2>2, <2>6, <2>7, <3>1, EntriesBegun
  <2>14. PrintedOnce'
    <3>1. \A p \in Paths : Ahead(p)' => Ahead(p)
      BY <2>9, <2>11, <2>12, <2>13 DEF Ahead, InDir
    <3> QED
      BY <1>1, <3>1, PrintedStays DEF ScanInv
  <2>15. NoneIsLost'
    <3>1. ASSUME NEW p \in Paths, Stable(p), Reached(p) PROVE Reached(p)'
      <4>1. CASE IsPrinted(p)
        BY <1>1, <4>1 DEF Reached, IsPrinted
      <4>2. CASE InEntries(p)
        <5>1. InEntries(p)' \/ Above(child, p)
          BY <2>11, <2>13, <4>2
        <5>2. Above(child, p) => BeforeTop(p)' /\ Top'.at = "exists"
          BY <2>7, <2>8, <2>12
        <5> QED
          BY <5>1, <5>2 DEF Reached
      <4> QED
        BY <1>1, <3>1, <4>1, <4>2 DEF Reached, BeforeTop, InDir
    <3> QED
      BY <1>1, <3>1, NothingIsLost DEF ScanInv
  <2> QED
    BY <2>10, <2>14, <2>15 DEF ScanInv
<1> QED
  BY <1>3, <1>4

LEMMA StepStart ==
    ASSUME ScanInv, outcome = "none", StartScan, UNCHANGED fsVars
    PROVE  ScanInv'
<1>1. /\ stack' = <<Visit(<<>>)>> /\ outcome' = "scanning" /\ UNCHANGED <<dir, printed>>
      /\ printed = <<>> /\ TreeInv /\ Reading
  BY DEF StartScan, ScanInv, WalkInv, Progress
<1>2. /\ <<>> \in Paths /\ Visit(<<>>) \in Frame /\ Visit(<<>>).path = <<>>
      /\ Visit(<<>>).at = "exists" /\ Visit(<<>>).entries = <<>> /\ Len(<<>>) = 0
  BY PathsAre, VisitFacts, EmptySeq
<1>3. /\ stack' \in Seq(Frame) /\ stack' # <<>> /\ Len(stack') = 1
      /\ stack'[1] = Visit(<<>>) /\ Top' = Visit(<<>>)
  <2>1. stack' = Append(<<>>, Visit(<<>>)) /\ <<>> \in Seq(Frame)
    BY <1>1, EmptySeq
  <2> QED
    BY <1>2, <2>1, AppendProperties DEF Top, Last
<1>4. 1 .. 1 = {1} /\ 1 .. 1 - 1 = {}
  OBVIOUS
<1>5. ~At("readdir")'
  BY <1>2, <1>3 DEF At
<1>6. WalkInv'
  <2>1. TreeInv'
    BY <1>1, TreeStays
  <2>2. Calls'
    BY <1>2, <1>3, <1>4, AboveItself DEF Calls
  <2>3. Frames'
    BY <1>2, <1>3, <1>4 DEF Frames, GoodFrame, Told, Opening, EntriesDiffer
  <2>4. CallsDiffer'
    BY <1>3, <1>4 DEF CallsDiffer
  <2>5. Reading' /\ ReadsDiffer'
    BY <1>1, <1>5, ReadingStays DEF ReadsDiffer
  <2>6. Progress'
    BY <1>1, <1>3 DEF Progress
  <2> QED
    BY <2>1, <2>2, <2>3, <2>4, <2>5, <2>6 DEF WalkInv
<1>7. PrintedOnce'
  <2>1. printed' \in Seq(Paths) /\ \A p : ~IsPrinted(p)'
    BY <1>1, <1>2, EmptySeq DEF IsPrinted
  <2> QED
    BY <2>1 DEF PrintedOnce
<1>8. NoneIsLost'
  <2>1. ASSUME NEW p \in Paths PROVE Reached(p)'
    <3>1. Above(<<>>, p)
      BY AboveItself
    <3>2. BeforeTop(p)' /\ Top'.at = "exists"
      BY <1>1, <1>2, <1>3, <3>1 DEF BeforeTop, Above
    <3> QED
      BY <3>2 DEF Reached
  <2> QED
    BY <2>1 DEF NoneIsLost
<1> QED
  BY <1>6, <1>7, <1>8 DEF ScanInv

-----------------------------------------------------------------------------
(* What other processes do.                                                 *)

\* A name gets another meaning, and those below it keep theirs.
LEMMA MeaningChanges ==
    ASSUME TreeInv, NEW p \in Paths, NEW k \in Kinds \ {kind[p]}, Becomes(p, k),
           gone' = (IF k = "none" THEN gone \cup {p} ELSE gone),
           k = "none" => p # <<>>,
           k # "none" /\ p # <<>> => kind[Parent(p)] \in Directories \cup {"hidden"},
           \A q \in Children(p) : kind[q] # "none" => k \in Directories \cup {"hidden"}
    PROVE  /\ TreeInv' /\ gone \subseteq gone'
           /\ \A q \in Paths : been[q] \subseteq been'[q]
           /\ \A q \in Paths : q # p => kind'[q] = kind[q]
           /\ kind'[p] = k /\ {kind[p], k} \subseteq been'[p]
<1>1. /\ kind \in [Paths -> Kinds] /\ been \in [Paths -> SUBSET Kinds]
      /\ gone \subseteq Paths \ {<<>>}
      /\ \A q \in Paths \ {<<>>} : kind[q] # "none" => kind[Parent(q)] \in Directories \cup {"hidden"}
      /\ \A q \in Paths : kind[q] \in been[q]
      /\ \A q \in gone : "none" \in been[q]
  BY DEF TreeInv
<1>2. \A q \in Paths \ {<<>>} : Parent(q) \in Paths /\ Parent(q) # q
  <2> TAKE q \in Paths \ {<<>>}
  <2>1. Parent(q) \in Paths /\ Len(Parent(q)) = Len(q) - 1 /\ Len(q) \in Nat
    BY ParentFacts, PathFacts
  <2> QED
    BY <2>1
<1>3. /\ kind' \in [Paths -> Kinds] /\ been' \in [Paths -> SUBSET Kinds]
      /\ \A q \in Paths : kind'[q] = IF q = p THEN k ELSE kind[q]
      /\ \A q \in Paths : been'[q] = IF q = p THEN been[q] \cup {k} ELSE been[q]
  BY <1>1 DEF Becomes
<1>4. \A q \in Paths \ {<<>>} : kind'[q] # "none" => kind'[Parent(q)] \in Directories \cup {"hidden"}
  <2> SUFFICES ASSUME NEW q \in Paths \ {<<>>}, kind'[q] # "none"
               PROVE  kind'[Parent(q)] \in Directories \cup {"hidden"}
    OBVIOUS
  <2>1. CASE q = p
    BY <1>2, <1>3, <2>1
  <2>2. CASE q # p /\ Parent(q) = p
    BY <1>3, <2>2 DEF Children
  <2>3. CASE q # p /\ Parent(q) # p
    BY <1>1, <1>2, <1>3, <2>3
  <2> QED
    BY <2>1, <2>2, <2>3
<1>5. gone' \subseteq Paths \ {<<>>} /\ \A q \in gone' : "none" \in been'[q]
  BY <1>1, <1>3
<1>6. \A q \in Paths : kind'[q] \in been'[q] /\ been[q] \subseteq been'[q]
  BY <1>1, <1>3
<1>7. TreeInv'
  BY <1>3, <1>4, <1>5, <1>6 DEF TreeInv
<1> QED
  BY <1>1, <1>3, <1>6, <1>7

LEMMA ChangeFacts ==
    ASSUME TreeInv, NEW p \in Paths, Change(p)
    PROVE  /\ TreeInv' /\ gone \subseteq gone'
           /\ \A q \in Paths : been[q] \subseteq been'[q]
           /\ \A q \in Paths : q # p => kind'[q] = kind[q]
           /\ kind'[p] # kind[p] /\ {kind[p], kind'[p]} \subseteq been'[p]
           /\ kind'[p] = "none" => p \in gone'
           /\ kind[p] \in Directories /\ kind'[p] \notin Directories =>
                 p \in gone' \/ "hidden" \in been'[p]
<1>0. "none" \in Kinds /\ {"file", "directory"} \subseteq Kinds /\ "directory" \in Directories
  BY DEF Kinds, Directories
<1>1. CASE Delete(p)
  <2>1. /\ kind[p] # "none" /\ p # <<>> /\ \A q \in Children(p) : kind[q] = "none"
        /\ Becomes(p, "none") /\ gone' = gone \cup {p}
    BY <1>1 DEF Delete
  <2> QED
    BY <1>0, <2>1, MeaningChanges
<1>2. CASE Alter(p)
  <2>1. PICK k \in Kinds \ {"none", kind[p]} :
          /\ "hidden" \in {kind[p], k} \/ {kind[p], k} \subseteq Directories
          /\ (\E q \in Children(p) : kind[q] # "none") => k \in Directories \cup {"hidden"}
          /\ Becomes(p, k)
    BY <1>2 DEF Alter
  <2>2. kind[p] # "none" /\ gone' = gone
    BY <1>2 DEF Alter
  <2>3. p # <<>> => kind[Parent(p)] \in Directories \cup {"hidden"}
    BY <2>2 DEF TreeInv
  <2> QED
    BY <2>1, <2>2, <2>3, MeaningChanges
<1>3. ASSUME NEW k \in {"file", "directory"}, Create(p, k)
      PROVE  /\ TreeInv' /\ gone \subseteq gone'
             /\ \A q \in Paths : been[q] \subseteq been'[q]
             /\ \A q \in Paths : q # p => kind'[q] = kind[q]
             /\ kind[p] = "none" /\ kind'[p] = k /\ {kind[p], kind'[p]} \subseteq been'[p]
  <2>1. /\ kind[p] = "none" /\ p # <<>> /\ kind[Parent(p)] \in Directories
        /\ Becomes(p, k) /\ gone' = gone
    BY <1>3 DEF Create, makeDirectory, canMakeDirectory, isDirectory, statIs
  <2>2. \A q \in Children(p) : kind[q] = "none"
    BY <2>1 DEF TreeInv, Children, Directories
  <2> QED
    BY <1>0, <2>1, <2>2, MeaningChanges
<1>4. "none" \notin Directories
  BY DEF Directories
<1> QED
  BY <1>1, <1>2, <1>3, <1>4 DEF Change

\* What was known to be there stays known, and what was deleted stays deleted.
LEMMA ChangeKeeps ==
    ASSUME TreeInv, NEW p \in Paths, Change(p)
    PROVE  /\ \A q \in Paths : Known(q) => Known(q)'
           /\ \A q, name : IsEntry(q, name) => IsEntry(q, name)'
           /\ \A q \in Paths : WasDirectory(q) => WasDirectory(q)'
           /\ \A q \in Paths : WasHidden(q) => WasHidden(q)'
           /\ \A q : Clean(q)' => Clean(q)
           /\ \A q : q \in Paths /\ WasScript(q) => WasScript(q)'
           /\ \A f \in Frame : GoodFrame(f) => GoodFrame(f)'
           /\ \A f, g : Leaves(f, g) => Leaves(f, g)'
           /\ Known(p)'
<1>1. /\ gone \subseteq gone'
      /\ \A q \in Paths : been[q] \subseteq been'[q]
      /\ \A q \in Paths : q # p => kind'[q] = kind[q]
      /\ kind[p] = "none" => kind'[p] # "none"
      /\ kind'[p] = "none" => p \in gone'
      /\ kind[p] \in Directories /\ kind'[p] \notin Directories =>
            p \in gone' \/ "hidden" \in been'[p]
  BY ChangeFacts
<1>2. \A q \in Paths : Known(q) => Known(q)'
  BY <1>1 DEF Known
<1>3. \A q, name : IsEntry(q, name) => IsEntry(q, name)'
  BY <1>2 DEF IsEntry
<1>10. \A q \in Paths : WasHidden(q) => WasHidden(q)'
  BY <1>1, PrefixesAre DEF WasHidden
<1>4. \A q \in Paths : WasDirectory(q) => WasDirectory(q)'
  <2> SUFFICES ASSUME NEW q \in Paths, WasDirectory(q) PROVE WasDirectory(q)'
    OBVIOUS
  <2>1. CASE q = p /\ "hidden" \in been'[p]
    <3>1. p \in Prefixes(p)
      BY AboveItself, PrefixesAre
    <3> QED
      BY <2>1, <3>1 DEF WasDirectory, WasHidden
  <2>2. CASE ~(q = p /\ "hidden" \in been'[p])
    BY <1>1, <1>10, <2>2 DEF WasDirectory
  <2> QED
    BY <2>1, <2>2
<1>5. \A q : Clean(q)' => Clean(q)
  BY <1>1 DEF Clean
<1>6. \A q : q \in Paths /\ WasScript(q) => WasScript(q)'
  BY <1>1, <1>2 DEF WasScript
<1>7. \A f \in Frame : GoodFrame(f) => GoodFrame(f)'
  <2> SUFFICES ASSUME NEW f \in Frame, GoodFrame(f) PROVE GoodFrame(f)'
    OBVIOUS
  <2>1. f.path \in Paths
    BY FrameFacts
  <2>2. Told(f)'
    BY <1>2, <1>3, <2>1 DEF GoodFrame, Told
  <2>3. Opening(f)'
    BY <1>4, <2>1 DEF GoodFrame, Opening
  <2>4. EntriesDiffer(f)'
    BY <1>1 DEF GoodFrame, EntriesDiffer
  <2> QED
    BY <2>2, <2>3, <2>4 DEF GoodFrame
<1>8. \A f, g : Leaves(f, g) => Leaves(f, g)'
  BY <1>1 DEF Leaves
<1>9. Known(p)'
  BY <1>1 DEF Known
<1> QED
  BY <1>2, <1>3, <1>4, <1>5, <1>6, <1>7, <1>8, <1>9, <1>10

\* The open directory: what is created or deleted in it may or may not come.
LEMMA OpenDirChanges ==
    ASSUME TreeInv, Reading, At("readdir"), NEW p \in Paths, Change(p),
           dir' = EntryChanges(dir, p)
    PROVE  /\ dir'.path = dir.path
           /\ dir' = [path |-> dir'.path, must |-> dir'.must, may |-> dir'.may]
           /\ dir'.must \subseteq Names \cup Dots /\ dir'.may \subseteq Names \cup Dots
           /\ \A name \in dir.must : Append(dir.path, name) # p => name \in dir'.must
           /\ \A name \in dir'.must \cup dir'.may :
                 \/ name \in dir.must \cup dir.may
                 \/ Append(dir.path, name) = p /\ name \in Names /\ kind[p] = "none"
<1>1. /\ dir.path \in Paths /\ dir = [path |-> dir.path, must |-> dir.must, may |-> dir.may]
      /\ dir.must \subseteq Names \cup Dots /\ dir.may \subseteq Names \cup Dots
  BY DEF Reading
<1>2. CASE p = <<>> \/ Parent(p) # dir.path \/ "none" \notin {kind[p], kind'[p]}
  BY <1>1, <1>2 DEF EntryChanges
<1>3. CASE ~(p = <<>> \/ Parent(p) # dir.path \/ "none" \notin {kind[p], kind'[p]})
  <2>1. Last(p) \in Names /\ Append(dir.path, Last(p)) = p
    BY <1>3, ParentFacts
  <2> DEFINE more == IF Last(p) \in dir.must \/ kind[p] = "none"
                     THEN dir.may \cup {Last(p)} ELSE dir.may
  <2>2. dir' = [path |-> dir.path, must |-> dir.must \ {Last(p)}, may |-> more]
    BY <1>1, <1>3 DEF EntryChanges
  <2>3. dir'.path = dir.path /\ dir'.must = dir.must \ {Last(p)} /\ dir'.may = more
    BY <2>2
  <2>4. more \subseteq dir.may \cup {Last(p)}
        /\ (Last(p) \in more => Last(p) \in dir.must \cup dir.may \/ kind[p] = "none")
    OBVIOUS
  <2> HIDE DEF more
  <2> QED
    BY <1>1, <2>1, <2>2, <2>3, <2>4
<1> QED
  BY <1>2, <1>3

LEMMA StepInterfere ==
    ASSUME ScanInv, Interfere
    PROVE  ScanInv'
<1>1. PICK p \in Paths : /\ Change(p)
                         /\ dir' = IF At("readdir") THEN EntryChanges(dir, p) ELSE dir
  BY DEF Interfere
<1>2. stack' = stack /\ printed' = printed /\ outcome' = outcome /\ Top' = Top
  BY DEF Interfere, Top, Last
<1>3. /\ TreeInv /\ Calls /\ Frames /\ CallsDiffer /\ Reading /\ ReadsDiffer /\ Progress
      /\ PrintedOnce /\ NoneIsLost /\ stack \in Seq(Frame)
  BY DEF ScanInv, WalkInv, Calls
<1>4. /\ TreeInv' /\ gone \subseteq gone'
      /\ \A q \in Paths : been[q] \subseteq been'[q]
      /\ \A q \in Paths : q # p => kind'[q] = kind[q]
      /\ kind'[p] # kind[p] /\ {kind[p], kind'[p]} \subseteq been'[p]
  BY <1>1, <1>3, ChangeFacts
<1>5. /\ \A q, name : IsEntry(q, name) => IsEntry(q, name)'
      /\ \A q : Clean(q)' => Clean(q)
      /\ \A q : q \in Paths /\ WasScript(q) => WasScript(q)'
      /\ \A f \in Frame : GoodFrame(f) => GoodFrame(f)'
      /\ \A f, g : Leaves(f, g) => Leaves(f, g)'
      /\ \A q \in Paths : WasHidden(q) => WasHidden(q)'
      /\ Known(p)'
  BY <1>1, <1>3, ChangeKeeps
<1>6. At("readdir")' <=> At("readdir")
  BY <1>2 DEF At
<1>7. At("readdir") =>
        /\ dir.path \in Paths /\ dir.path = Top.path /\ dir'.path = dir.path
        /\ dir' = [path |-> dir'.path, must |-> dir'.must, may |-> dir'.may]
        /\ dir'.must \subseteq Names \cup Dots /\ dir'.may \subseteq Names \cup Dots
        /\ \A name \in dir.must : Append(dir.path, name) # p => name \in dir'.must
        /\ \A name \in dir'.must \cup dir'.may :
              \/ name \in dir.must \cup dir.may
              \/ Append(dir.path, name) = p /\ name \in Names /\ kind[p] = "none"
  <2> SUFFICES ASSUME At("readdir") PROVE dir' = EntryChanges(dir, p)
    BY <1>1, <1>3, OpenDirChanges DEF Reading
  <2> QED
    BY <1>1
<1>8. Calls'
  BY <1>2, <1>3 DEF Calls
<1>9. Frames'
  BY <1>2, <1>3, <1>5, StackFacts DEF Frames
<1>10. CallsDiffer'
  BY <1>2, <1>3, <1>5 DEF CallsDiffer
<1>11. Reading'
  <2>1. CASE ~At("readdir")
    <3>1. dir' = dir
      BY <1>1, <2>1
    <3> QED
      BY <1>3, <1>6, <2>1, <3>1 DEF Reading
  <2>2. CASE At("readdir")
    <3>1. PICK q : q = dir.path
      OBVIOUS
    <3>2. ASSUME NEW name \in dir'.must \cup dir'.may, name \notin Dots
          PROVE  IsEntry(q, name)'
      <4>1. CASE name \in dir.must \cup dir.may
        BY <1>3, <1>5, <2>2, <3>1, <3>2, <4>1 DEF Reading
      <4>2. CASE Append(dir.path, name) = p /\ name \in Names
        BY <1>1, <1>5, <3>1, <4>2 DEF IsEntry
      <4> QED
        BY <1>7, <2>2, <3>2, <4>1, <4>2
    <3>3. \A name : IsEntry(q, name)' => IsEntry(dir.path, name)'
      BY <1>7, <2>2, <3>1 DEF IsEntry, Known
    <3> QED
      BY <1>2, <1>7, <2>2, <3>2, <3>3 DEF Reading
  <2> QED
    BY <2>1, <2>2
<1>12. ReadsDiffer'
  <2> SUFFICES ASSUME At("readdir"), NEW e \in 1 .. Len(Top.entries),
                      Top.entries[e] \in dir'.must \cup dir'.may
               PROVE  Append(Top.path, Top.entries[e]) \in gone'
    BY <1>2, <1>6 DEF ReadsDiffer
  <2>1. CASE Top.entries[e] \in dir.must \cup dir.may
    BY <1>3, <1>4, <2>1 DEF ReadsDiffer
  <2>2. CASE Append(dir.path, Top.entries[e]) = p /\ kind[p] = "none"
    <3>1. IsEntry(Top.path, Top.entries[e])
      BY TopIsGood DEF At, ScanInv, GoodFrame, Told
    <3> QED
      BY <1>4, <1>7, <2>2, <3>1 DEF IsEntry, Known
  <2> QED
    BY <1>7, <2>1, <2>2
<1>13. Progress'
  <2>1. outcome = "thrown" => Top.path \in Paths /\ <<>> \in Paths
    BY <1>3, TopIsGood, PathsAre DEF Progress, ScanInv
  <2>2. ScanFailsForAReason'
    BY <1>2, <1>3, <1>4, <1>5, <2>1 DEF Progress, ScanFailsForAReason, WasHidden
  <2> QED
    BY <1>2, <1>3, <2>2 DEF Progress
<1>14. /\ \A q : BeforeTop(q)' <=> BeforeTop(q)
       /\ \A q : InEntries(q)' <=> InEntries(q)
       /\ \A q : IsPrinted(q)' <=> IsPrinted(q)
       /\ \A q : IsPrintedOnce(q)' <=> IsPrintedOnce(q)
  BY <1>2 DEF BeforeTop, InEntries, IsPrinted, IsPrintedOnce, EntryAbove, Above
<1>15. PrintedOnce'
  <2>1. ASSUME NEW q \in Paths, IsPrinted(q), Clean(q)', Ahead(q)'
        PROVE  Ahead(q)
    <3>1. CASE BeforeTop(q) \/ InEntries(q)
      BY <3>1 DEF Ahead
    <3>2. CASE InDir(q, dir.must \cup dir.may)'
      <4>1. PICK name \in dir'.must \cup dir'.may : Above(Append(dir.path, name), q)
        BY <1>6, <1>7, <3>2 DEF InDir, Above
      <4>2. At("readdir")
        BY <1>6, <3>2 DEF InDir
      <4>3. CASE name \in dir.must \cup dir.may
        BY <4>1, <4>2, <4>3 DEF Ahead, InDir
      <4>4. CASE Append(dir.path, name) = p /\ kind[p] = "none"
        <5>1. Known(p)
          BY <1>3, <1>4, <2>1, <4>1, <4>4 DEF PrintedOnce, WasScript
        <5> QED
          BY <1>5, <2>1, <4>1, <4>4, <5>1 DEF Known, Clean
      <4> QED
        BY <1>7, <4>1, <4>2, <4>3, <4>4
    <3> QED
      BY <1>14, <2>1, <3>1, <3>2 DEF Ahead
  <2>2. ASSUME NEW q \in Paths, IsPrinted(q)'
        PROVE  WasScript(q)' /\ (Clean(q)' => ~Ahead(q)' /\ IsPrintedOnce(q)')
    <3>1. IsPrinted(q)
      BY <1>14, <2>2
    <3>2. WasScript(q)'
      BY <1>3, <1>5, <3>1 DEF PrintedOnce
    <3>3. Clean(q)' => ~Ahead(q) /\ IsPrintedOnce(q)
      BY <1>3, <1>5, <3>1 DEF PrintedOnce
    <3> QED
      BY <1>14, <2>1, <3>1, <3>2, <3>3
  <2> QED
    BY <1>2, <1>3, <2>2 DEF PrintedOnce
<1>16. NoneIsLost'
  <2>1. ASSUME NEW q \in Paths, Stable(q)', Reached(q) PROVE Reached(q)'
    <3>1. CASE IsPrinted(q)
      BY <1>14, <3>1 DEF Reached
    <3>2. CASE InEntries(q)
      BY <1>14, <3>2 DEF Reached
    <3>3. CASE BeforeTop(q) /\ (Top.at \in {"isDirectory", "opendir"} => Top.path # q)
      BY <1>2, <1>14, <3>3 DEF Reached
    <3>4. CASE InDir(q, dir.must)
      <4>1. PICK name \in dir.must : Above(Append(dir.path, name), q)
        BY <3>4 DEF InDir
      <4>2. At("readdir")
        BY <3>4 DEF InDir
      <4>3. ~Above(p, q)
        BY <1>4, <2>1 DEF Stable
      <4>4. name \in dir'.must /\ Above(Append(dir'.path, name), q)
        BY <1>7, <4>1, <4>2, <4>3
      <4>5. InDir(q, dir.must)'
        BY <1>6, <4>2, <4>4 DEF InDir, Above
      <4> QED
        BY <4>5 DEF Reached
    <3> QED
      BY <2>1, <3>1, <3>2, <3>3, <3>4 DEF Reached
  <2>2. ASSUME NEW q \in Paths, Stable(q)' PROVE Stable(q)
    <3>1. been[q] \subseteq {"file"} /\ kind[q] \in been[q]
      BY <1>3, <1>4, <2>2 DEF Stable, TreeInv
    <3>2. \A r \in Paths : Above(r, q) /\ r # q =>
             been[r] \subseteq {"directory"} /\ kind[r] \in been[r]
      BY <1>3, <1>4, <2>2 DEF Stable, TreeInv
    <3> QED
      BY <2>2, <3>1, <3>2 DEF Stable
  <2> QED
    BY <1>2, <1>3, <2>1, <2>2 DEF NoneIsLost
<1> QED
  BY <1>4, <1>8, <1>9, <1>10, <1>11, <1>12, <1>13, <1>15, <1>16 DEF ScanInv, WalkInv

-----------------------------------------------------------------------------
(* The invariant holds.                                                     *)

LEMMA ScanInvInit == Init => ScanInv
<1> SUFFICES ASSUME Init PROVE ScanInv
  OBVIOUS
<1>1. /\ kind \in Trees /\ been = [p \in Paths |-> {kind[p]}] /\ gone = {}
      /\ stack = <<>> /\ dir = NoDir /\ printed = <<>> /\ outcome = "none"
  BY DEF Init, FSInit, ScanInit
<1>2. IsTree(kind)
  BY <1>1, FileSystemAssumption
<1>3. <<>> \in Seq(Frame) /\ <<>> \in Seq(Paths) /\ Len(<<>>) = 0 /\ 1 .. 0 = {} /\ 1 .. 0 - 1 = {}
  BY EmptySeq
<1>4. TreeInv
  BY <1>1, <1>2 DEF TreeInv, IsTree
<1>5. Calls /\ Frames /\ CallsDiffer
  BY <1>1, <1>3 DEF Calls, Frames, CallsDiffer
<1>6. Reading
  <2>1. /\ dir.path = <<>> /\ dir.must = {} /\ dir.may = {}
        /\ dir = [path |-> dir.path, must |-> dir.must, may |-> dir.may]
    BY <1>1 DEF NoDir
  <2> QED
    BY <1>1, <2>1, PathsAre DEF Reading, At
<1>7. ReadsDiffer /\ Progress /\ NoneIsLost
  BY <1>1 DEF ReadsDiffer, At, Progress, NoneIsLost
<1>8. PrintedOnce
  BY <1>1, <1>3 DEF PrintedOnce, IsPrinted
<1> QED
  BY <1>4, <1>5, <1>6, <1>7, <1>8 DEF ScanInv, WalkInv

\* A step of main or of the debugger leaves the walk alone.
LEMMA StepElsewhere ==
    ASSUME ScanInv, UNCHANGED <<fsVars, scanVars>>
    PROVE  ScanInv'
<1>1. /\ stack' = stack /\ dir' = dir /\ printed' = printed /\ outcome' = outcome
      /\ kind' = kind /\ been' = been /\ gone' = gone /\ UNCHANGED fsVars
  BY DEF fsVars, scanVars
<1>2. /\ TreeInv /\ Calls /\ Frames /\ CallsDiffer /\ Reading /\ ReadsDiffer /\ Progress
      /\ PrintedOnce /\ NoneIsLost
  BY DEF ScanInv, WalkInv
<1>3. Top' = Top
  BY <1>1 DEF Top, Last
<1>4. At("readdir")' <=> At("readdir")
  BY <1>1, <1>3 DEF At
<1>5. TreeInv' /\ Calls'
  <2>1. TreeInv'
    BY <1>1, <1>2, TreeStays
  <2>2. Calls'
    BY <1>1, <1>2 DEF Calls
  <2> QED
    BY <2>1, <2>2
<1>6. Frames'
  BY <1>1, <1>2, GoodFrameStays DEF Frames
<1>7. CallsDiffer'
  <2>1. \A f, g : Leaves(f, g) => Leaves(f, g)'
    BY <1>1 DEF Leaves
  <2> QED
    BY <1>1, <1>2, <2>1 DEF CallsDiffer
<1>8. Reading'
  BY <1>1, <1>2, <1>3, <1>4, ReadingStays
<1>9. ReadsDiffer'
  BY <1>1, <1>2, <1>3, <1>4 DEF ReadsDiffer
<1>10. Progress'
  <2>1. outcome = "thrown" => ScanFailsForAReason'
    BY <1>1, <1>2, <1>3 DEF Progress, ScanFailsForAReason
  <2> QED
    BY <1>1, <1>2, <2>1 DEF Progress
<1>11. /\ \A q : BeforeTop(q)' <=> BeforeTop(q)
       /\ \A q : InEntries(q)' <=> InEntries(q)
       /\ \A q : InDir(q, dir.must)' <=> InDir(q, dir.must)
       /\ \A q : InDir(q, dir.must \cup dir.may)' <=> InDir(q, dir.must \cup dir.may)
  <2>1. \A q : BeforeTop(q)' <=> BeforeTop(q)
    BY <1>1, <1>3 DEF BeforeTop, Above
  <2>2. \A q : InEntries(q)' <=> InEntries(q)
    BY <1>1 DEF InEntries, EntryAbove, Above
  <2>3. \A q : InDir(q, dir.must)' <=> InDir(q, dir.must)
    BY <1>1, <1>4 DEF InDir, Above
  <2>4. \A q : InDir(q, dir.must \cup dir.may)' <=> InDir(q, dir.must \cup dir.may)
    BY <1>1, <1>4 DEF InDir, Above
  <2> QED
    BY <2>1, <2>2, <2>3, <2>4
<1>12. PrintedOnce'
  <2>1. \A p \in Paths : Ahead(p)' => Ahead(p)
    BY <1>11 DEF Ahead
  <2> QED
    BY <1>1, <1>2, <2>1, PrintedStays
<1>13. NoneIsLost'
  <2>1. \A p : Stable(p)' => Stable(p)
    BY <1>1 DEF Stable
  <2>2. \A p : IsPrinted(p)' <=> IsPrinted(p)
    BY <1>1 DEF IsPrinted
  <2>3. \A p : Reached(p) => Reached(p)'
    BY <1>3, <1>11, <2>2 DEF Reached
  <2> QED
    BY <1>1, <1>2, <2>1, <2>3 DEF NoneIsLost
<1> QED
  BY <1>5, <1>6, <1>7, <1>8, <1>9, <1>10, <1>12, <1>13 DEF ScanInv, WalkInv

LEMMA ScanInvStep == ScanInv /\ [Next]_vars => ScanInv'
<1> SUFFICES ASSUME ScanInv, [Next]_vars PROVE ScanInv'
  OBVIOUS
<1>1. CASE ReadOption
  BY <1>1, StepElsewhere DEF ReadOption
<1>2. CASE EndOfOptions
  BY <1>2, StepElsewhere DEF EndOfOptions
<1>3. CASE OpenScript
  BY <1>3, StepElsewhere DEF OpenScript
<1>4. CASE RunScript
  BY <1>4, StepElsewhere DEF RunScript
<1>5. CASE StartScript
  <2>1. UNCHANGED fsVars /\ outcome = "none" /\ (UNCHANGED scanVars \/ StartScan)
    BY <1>5 DEF StartScript
  <2> QED
    BY <2>1, StepElsewhere, StepStart
<1>6. CASE Script
  <2>1. Scan /\ UNCHANGED fsVars
    BY <1>6 DEF Script
  <2> QED
    BY <2>1, StepExists, StepIsFile, StepIsDirectory, StepOpenDir, StepReadDir,
       StepCloseDir, StepForEach DEF Scan
<1>7. CASE EndScript
  BY <1>7, StepElsewhere DEF EndScript
<1>8. CASE DebuggerConnects
  BY <1>8, StepElsewhere DEF DebuggerConnects
<1>9. CASE Others
  BY <1>9, StepInterfere DEF Others
<1>10. CASE UNCHANGED vars
  BY <1>10, StepElsewhere DEF vars
<1> QED
  BY <1>1, <1>2, <1>3, <1>4, <1>5, <1>6, <1>7, <1>8, <1>9, <1>10 DEF Next, Main

\* The conjunction above holds in every state: the walk of scanDirectory, the
\* directory that fs.list has open and the tree agree.
THEOREM WalkInvariant == Spec => []ScanInv
<1> QED
  BY ScanInvInit, ScanInvStep, PTL DEF Spec

-----------------------------------------------------------------------------
(* The theorems.                                                            *)

\* main's locals.
ShellInv ==
    /\ argv \in CommandLines /\ i \in 0 .. Len(argv)
    /\ options \subseteq {"--debug", "--syntax"}
    /\ inputFile \in Words \cup {"null"} /\ args \in Seq(Words)
    /\ phase \in {"options", "open", "compile", "agent", "running", "exited"}
    /\ status \in {0, -1} /\ error \in {"none", "Unknown option", "unable to open file",
                                        "unable to run"}

LEMMA ShellInvInit == Init => ShellInv
<1> SUFFICES ASSUME Init PROVE ShellInv
  OBVIOUS
<1>1. argv \in Seq(Words)
  BY CommandLinesAssumption DEF Init
<1>2. Len(argv) \in Nat /\ <<>> \in Seq(Words)
  BY <1>1, EmptySeq, LenProperties
<1> QED
  BY <1>2 DEF Init, ShellInv

LEMMA StepReadOption ==
    ASSUME ShellInv, ReadOption
    PROVE  ShellInv'
<1>1. /\ argv' = argv /\ i < Len(argv) /\ i' = i + 1 /\ argv \in Seq(Words)
      /\ i \in 0 .. Len(argv) /\ Len(argv) \in Nat
  BY CommandLinesAssumption, LenProperties DEF ReadOption, ShellInv
<1>2. PICK arg : arg = argv[i + 1]
  OBVIOUS
<1>3. arg \in Words /\ i' \in 0 .. Len(argv')
  <2>1. i + 1 \in 1 .. Len(argv)
    BY <1>1
  <2> QED
    BY <1>1, <1>2, <2>1
<1>4. \/ /\ arg \in {"--debug", "--syntax"} /\ options' = options \cup {arg}
         /\ UNCHANGED <<inputFile, args, phase, status, error>>
      \/ /\ Exit(0, "Unknown option") /\ UNCHANGED <<options, inputFile, args>>
      \/ /\ inputFile' = (IF inputFile = "null" THEN arg ELSE inputFile)
         /\ SetArg(arg) /\ UNCHANGED <<options, phase, status, error>>
  BY <1>2 DEF ReadOption
<1>5. CASE /\ arg \in {"--debug", "--syntax"} /\ options' = options \cup {arg}
           /\ UNCHANGED <<inputFile, args, phase, status, error>>
  BY <1>1, <1>3, <1>5 DEF ShellInv
<1>6. CASE Exit(0, "Unknown option") /\ UNCHANGED <<options, inputFile, args>>
  BY <1>1, <1>3, <1>6 DEF ShellInv, Exit
<1>7. CASE /\ inputFile' = (IF inputFile = "null" THEN arg ELSE inputFile)
           /\ SetArg(arg) /\ UNCHANGED <<options, phase, status, error>>
  <2>1. args' \in Seq(Words)
    BY <1>3, <1>7, AppendProperties DEF SetArg, ShellInv
  <2>2. inputFile' \in Words \cup {"null"}
    BY <1>3, <1>7 DEF ShellInv
  <2> QED
    BY <1>1, <1>3, <1>7, <2>1, <2>2 DEF ShellInv
<1> QED
  BY <1>4, <1>5, <1>6, <1>7

LEMMA ShellInvStep == ShellInv /\ [Next]_vars => ShellInv'
<1> SUFFICES ASSUME ShellInv, [Next]_vars PROVE ShellInv'
  OBVIOUS
<1>1. CASE ReadOption
  BY <1>1, StepReadOption
<1>2. CASE EndOfOptions
  BY <1>2 DEF EndOfOptions, ShellInv, Exit
<1>3. CASE OpenScript
  BY <1>3 DEF OpenScript, ShellInv, Exit
<1>4. CASE RunScript
  BY <1>4 DEF RunScript, ShellInv, Exit
<1>5. CASE StartScript
  BY <1>5 DEF StartScript, ShellInv, Exit
<1>6. CASE Script
  BY <1>6 DEF Script, ShellInv, shellVars
<1>7. CASE EndScript
  BY <1>7 DEF EndScript, ShellInv, Exit
<1>8. CASE DebuggerConnects
  BY <1>8 DEF DebuggerConnects, ShellInv
<1>9. CASE Others
  BY <1>9 DEF Others, ShellInv, shellVars
<1>10. CASE UNCHANGED vars
  BY <1>10 DEF vars, ShellInv, shellVars
<1> QED
  BY <1>1, <1>2, <1>3, <1>4, <1>5, <1>6, <1>7, <1>8, <1>9, <1>10 DEF Next, Main

LEMMA ScanTypes == ScanInv => ScanTypeOK
<1> SUFFICES ASSUME ScanInv PROVE ScanTypeOK
  OBVIOUS
<1>1. IsTree(kind)
  BY DEF ScanInv, WalkInv, TreeInv, IsTree
<1>2. /\ dir.path \in Paths /\ dir = [path |-> dir.path, must |-> dir.must, may |-> dir.may]
      /\ dir.must \subseteq Names \cup {".", ".."} /\ dir.may \subseteq Names \cup {".", ".."}
  BY DEF ScanInv, WalkInv, Reading, Dots
<1>3. dir \in [path : Paths, must : SUBSET (Names \cup {".", ".."}),
               may : SUBSET (Names \cup {".", ".."})]
  BY <1>2
<1> QED
  BY <1>1, <1>3 DEF ScanTypeOK, ScanInv, WalkInv, Calls, Progress, PrintedOnce

\* The tree stays a tree, the calls and the open directory have their types, and
\* main's locals theirs, for every tree, depth and command line.
THEOREM ShellTypes == Spec => []TypeOK
<1>1. Spec => []ShellInv
  BY ShellInvInit, ShellInvStep, PTL DEF Spec
<1>2. ScanInv /\ ShellInv => TypeOK
  BY ScanTypes DEF ShellInv, TypeOK
<1> QED
  BY <1>1, <1>2, WalkInvariant, PTL

\* The walk of scanDirectory goes one directory down with every call.
THEOREM CallsNest == Spec => []DirectoriesNest
<1>1. ScanInv => DirectoriesNest
  <2> SUFFICES ASSUME ScanInv, NEW j \in 1 .. Len(stack) - 1
               PROVE  Parent(stack[j + 1].path) = stack[j].path
    BY DEF DirectoriesNest
  <2> DEFINE n == Len(stack)
  <2>1. Calls /\ n \in Nat /\ \A k \in 1 .. n : stack[k].path \in Paths
    BY StackFacts, FrameFacts DEF ScanInv, WalkInv, Calls
  <2>2. j \in 1 .. n /\ j + 1 \in 1 .. n /\ j <= j + 1
    <3> HIDE DEF n
    <3> QED
      BY <2>1 DEF n
  <2>3. PICK p, q : p = stack[j + 1].path /\ q = stack[j].path
    OBVIOUS
  <2>4. /\ p \in Paths /\ q \in Paths /\ Above(q, p)
        /\ Len(p) = (j + 1) - 1 /\ Len(q) = j - 1
    BY <2>1, <2>2, <2>3 DEF Calls
  <2>5. p # <<>>
    BY <2>2, <2>4, PathFacts
  <2>6. Parent(p) \in Paths /\ Len(Parent(p)) = Len(q) /\ Above(Parent(p), p)
    BY <2>2, <2>4, <2>5, ParentFacts
  <2> QED
    BY <2>3, <2>4, <2>6, AboveSame
<1> QED
  BY <1>1, WalkInvariant, PTL

\* An exception of isFile, isDirectory or list ends the scan only where a path
\* is missing from the beginning, locked, deleted after its name was read, or
\* refused by stat, be it for a directory on the way to it.
THEOREM FailuresHaveReasons == Spec => []ScanFailsForAReason
<1>1. ScanInv => ScanFailsForAReason
  BY DEF ScanInv, WalkInv, Progress, ScanFailsForAReason
<1> QED
  BY <1>1, WalkInvariant, PTL

LEMMA OnceIsOne ==
    ASSUME NEW p, IsPrinted(p), IsPrintedOnce(p), printed \in Seq(Paths)
    PROVE  Times(p) = 1
<1>1. PICK a \in 1 .. Len(printed) : printed[a] = p
  BY DEF IsPrinted
<1>2. DOMAIN printed = 1 .. Len(printed)
  BY LenProperties
<1>3. {k \in DOMAIN printed : printed[k] = p} = {a}
  BY <1>1, <1>2 DEF IsPrintedOnce
<1>4. Cardinality({a}) = 1
  BY FS_Singleton
<1> QED
  BY <1>3, <1>4 DEF Times

\* print gets only scripts, and a second time only what was deleted and created
\* again.
THEOREM ScriptsOnly == Spec => []OnlyScriptsArePrinted
<1>1. ScanInv => OnlyScriptsArePrinted
  <2> SUFFICES ASSUME ScanInv, NEW p \in ToSet(printed)
               PROVE  /\ Last(p) \in Scripts /\ "file" \in been[p]
                      /\ Times(p) = 1 \/ Prefixes(p) \cap gone # {}
    BY DEF OnlyScriptsArePrinted
  <2>1. printed \in Seq(Paths) /\ DOMAIN printed = 1 .. Len(printed) /\ gone \subseteq Paths
    BY LenProperties DEF ScanInv, WalkInv, TreeInv, PrintedOnce
  <2>2. IsPrinted(p) /\ p \in Paths
    BY <2>1, ElementOfSeq DEF ToSet, IsPrinted
  <2>3. WasScript(p) /\ (Clean(p) => IsPrintedOnce(p))
    BY <2>2 DEF ScanInv, PrintedOnce
  <2>4. CASE Clean(p)
    BY <2>1, <2>2, <2>3, <2>4, OnceIsOne DEF WasScript
  <2>5. CASE ~Clean(p)
    <3>1. PICK q \in gone : Above(q, p)
      BY <2>5 DEF Clean
    <3>2. q \in Prefixes(p)
      BY <2>1, <2>2, <3>1, PrefixesAre
    <3> QED
      BY <2>3, <3>1, <3>2 DEF WasScript
  <2> QED
    BY <2>4, <2>5
<1> QED
  BY <1>1, WalkInvariant, PTL

\* A scan that comes to its end has printed every script that nobody touched,
\* exactly once, whatever others did elsewhere while it was running.
THEOREM ScriptsAreFound == Spec => []StableScriptsAreFound
<1>1. ScanInv => StableScriptsAreFound
  <2> SUFFICES ASSUME ScanInv, outcome = "done", NEW p \in StableScripts
               PROVE  Times(p) = 1
    BY DEF StableScriptsAreFound
  <2>1. p \in Paths /\ Stable(p)
    BY PrefixesAre DEF StableScripts, Stable
  <2>2. stack = <<>> /\ Len(stack) = 0
    BY EmptySeq DEF ScanInv, WalkInv, Progress
  <2>3. Reached(p)
    BY <2>1 DEF ScanInv, NoneIsLost
  <2>4. IsPrinted(p)
    BY <2>2, <2>3 DEF Reached, BeforeTop, InEntries, InDir, At
  <2>5. Clean(p)
    BY <2>1 DEF Clean, Stable, ScanInv, WalkInv, TreeInv
  <2> QED
    BY <2>1, <2>4, <2>5, OnceIsOne DEF ScanInv, PrintedOnce
<1> QED
  BY <1>1, WalkInvariant, PTL

-----------------------------------------------------------------------------
(* system.args.                                                             *)

\* The words that main has looked at so far are in args as far as they are no
\* options, each at the place that the words before it leave it.
ArgsInv ==
    /\ Len(args) = Cardinality(Arguments(i))
    /\ \A n \in Arguments(i) : args[Cardinality(Arguments(n))] = argv[n]
    /\ inputFile = "null" => args = <<>>
    /\ inputFile # "null" => args # <<>> /\ args[1] = inputFile
    /\ phase \in {"open", "compile", "agent", "running"} => i = Len(argv) /\ inputFile # "null"

LEMMA ArgumentsFacts ==
    ASSUME NEW k \in Nat
    PROVE  /\ IsFiniteSet(Arguments(k)) /\ Cardinality(Arguments(k)) \in Nat
           /\ argv[k + 1] \in Options => Arguments(k + 1) = Arguments(k)
           /\ argv[k + 1] \notin Options =>
                 /\ Arguments(k + 1) = Arguments(k) \cup {k + 1}
                 /\ Cardinality(Arguments(k + 1)) = Cardinality(Arguments(k)) + 1
<1>1. IsFiniteSet(1 .. k)
  BY FS_Interval
<1>2. IsFiniteSet(Arguments(k))
  <2>1. Arguments(k) \subseteq 1 .. k
    BY DEF Arguments
  <2> QED
    BY <1>1, <2>1, FS_Subset
<1>3. 1 .. k + 1 = (1 .. k) \cup {k + 1} /\ k + 1 \notin 1 .. k
  OBVIOUS
<1>4. argv[k + 1] \in Options => Arguments(k + 1) = Arguments(k)
  BY <1>3 DEF Arguments
<1>5. argv[k + 1] \notin Options => Arguments(k + 1) = Arguments(k) \cup {k + 1}
  BY <1>3 DEF Arguments
<1>6. k + 1 \notin Arguments(k)
  BY <1>3 DEF Arguments
<1>7. Cardinality(Arguments(k) \cup {k + 1}) = Cardinality(Arguments(k)) + 1
  BY <1>2, <1>6, FS_AddElement
<1> QED
  BY <1>2, <1>4, <1>5, <1>7, FS_CardinalityType

LEMMA PlaceInArgs ==
    ASSUME NEW k \in Nat, NEW n \in Arguments(k)
    PROVE  Cardinality(Arguments(n)) \in 1 .. Cardinality(Arguments(k))
<1>1. n \in 1 .. k /\ n \in Nat /\ argv[n] \notin Options
  BY DEF Arguments
<1>2. /\ IsFiniteSet(Arguments(k)) /\ IsFiniteSet(Arguments(n))
      /\ Cardinality(Arguments(k)) \in Nat /\ Cardinality(Arguments(n)) \in Nat
  BY <1>1, ArgumentsFacts
<1>3. Arguments(n) \subseteq Arguments(k)
  BY <1>1 DEF Arguments
<1>4. Cardinality(Arguments(n)) <= Cardinality(Arguments(k))
  BY <1>2, <1>3, FS_Subset
<1>5. Cardinality(Arguments(n)) # 0
  <2>1. n \in Arguments(n)
    BY <1>1 DEF Arguments
  <2> QED
    BY <1>2, <2>1, FS_EmptySet
<1> QED
  BY <1>2, <1>4, <1>5

LEMMA ArgsInvInit == Init => ArgsInv
<1> SUFFICES ASSUME Init PROVE ArgsInv
  OBVIOUS
<1>1. Arguments(0) = {} /\ Cardinality({}) = 0 /\ Len(<<>>) = 0
  BY FS_EmptySet, EmptySeq DEF Arguments
<1> QED
  BY <1>1 DEF Init, ArgsInv

LEMMA StepArgs ==
    ASSUME ShellInv, ArgsInv, ReadOption
    PROVE  ArgsInv'
<1>1. /\ argv' = argv /\ i' = i + 1 /\ argv \in Seq(Words) /\ i < Len(argv)
      /\ Len(argv) \in Nat /\ i \in Nat /\ args \in Seq(Words) /\ phase = "options"
  <2>1. /\ argv' = argv /\ i' = i + 1 /\ i < Len(argv) /\ phase = "options"
        /\ argv \in CommandLines /\ i \in 0 .. Len(argv) /\ args \in Seq(Words)
    BY DEF ReadOption, ShellInv
  <2>2. argv \in Seq(Words)
    BY <2>1, CommandLinesAssumption
  <2>3. Len(argv) \in Nat
    BY <2>2, LenProperties
  <2> QED
    BY <2>1, <2>2, <2>3
<1>2. PICK arg, k : arg = argv[i + 1] /\ k = i
  OBVIOUS
<1>3. arg \in Words /\ k \in Nat /\ arg # "null"
  <2>1. i + 1 \in 1 .. Len(argv)
    BY <1>1
  <2> QED
    BY <1>1, <1>2, <2>1 DEF Words, Options
<1>4. /\ Len(args) = Cardinality(Arguments(k))
      /\ \A n \in Arguments(k) : args[Cardinality(Arguments(n))] = argv[n]
      /\ inputFile = "null" => args = <<>>
      /\ inputFile # "null" => args # <<>> /\ args[1] = inputFile
  BY <1>2 DEF ArgsInv
<1>5. \A n : Arguments(n)' = Arguments(n)
  BY <1>1 DEF Arguments
<1>6. CASE arg \in Options
  <2>1. UNCHANGED <<inputFile, args>> /\ phase' \in {"options", "exited"}
    BY <1>1, <1>2, <1>6 DEF ReadOption, Exit, Options
  <2>2. Arguments(k + 1) = Arguments(k)
    BY <1>2, <1>3, <1>6, ArgumentsFacts
  <2>3. Arguments(i)' = Arguments(k)
    BY <1>1, <1>2, <2>2 DEF Arguments
  <2> QED
    BY <1>1, <1>4, <1>5, <2>1, <2>3 DEF ArgsInv
<1>7. CASE arg \notin Options
  <2>1. /\ inputFile' = (IF inputFile = "null" THEN arg ELSE inputFile)
        /\ args' = Append(args, arg) /\ phase' = "options"
    BY <1>1, <1>2, <1>7 DEF ReadOption, SetArg, Options
  <2>2. /\ args' \in Seq(Words) /\ args' # <<>> /\ Len(args') = Len(args) + 1
        /\ \A n \in 1 .. Len(args) : args'[n] = args[n]
        /\ args'[Len(args) + 1] = arg
    BY <1>1, <1>3, <2>1, AppendProperties
  <2>3. /\ Arguments(k + 1) = Arguments(k) \cup {k + 1}
        /\ Cardinality(Arguments(k + 1)) = Cardinality(Arguments(k)) + 1
        /\ Cardinality(Arguments(k)) \in Nat
    BY <1>2, <1>3, <1>7, ArgumentsFacts
  <2>4. Arguments(i)' = Arguments(k + 1)
    BY <1>1, <1>2 DEF Arguments
  <2>5. ASSUME NEW n \in Arguments(k + 1)
        PROVE  args'[Cardinality(Arguments(n))] = argv[n]
    <3>1. CASE n \in Arguments(k)
      <4>1. Cardinality(Arguments(n)) \in 1 .. Len(args)
        BY <1>3, <1>4, <3>1, PlaceInArgs
      <4> QED
        BY <1>4, <2>2, <3>1, <4>1
    <3>2. CASE n = k + 1
      BY <1>2, <1>4, <2>2, <2>3, <3>2
    <3> QED
      BY <2>3, <3>1, <3>2
  <2>6. args'[1] = inputFile'
    <3>1. CASE inputFile = "null"
      <4>1. Len(args) = 0
        BY <1>4, <3>1, EmptySeq
      <4> QED
        BY <2>1, <2>2, <3>1, <4>1
    <3>2. CASE inputFile # "null"
      <4>1. 1 \in 1 .. Len(args)
        BY <1>1, <1>4, <3>2, EmptySeq
      <4> QED
        BY <1>4, <2>1, <2>2, <3>2, <4>1
    <3> QED
      BY <3>1, <3>2
  <2>7. inputFile' # "null"
    BY <1>3, <2>1
  <2>8. Len(args') = Cardinality(Arguments(i)')
    BY <1>4, <2>2, <2>3, <2>4
  <2>9. \A n \in Arguments(i)' : args'[Cardinality(Arguments(n)')] = argv'[n]
    BY <1>1, <1>5, <2>4, <2>5
  <2> QED
    BY <2>1, <2>2, <2>6, <2>7, <2>8, <2>9 DEF ArgsInv
<1> QED
  BY <1>6, <1>7

\* No other step of main looks at the words again.
LEMMA StepAfterOptions ==
    ASSUME ArgsInv, UNCHANGED <<argv, i, inputFile, args>>,
           phase' \in {"open", "compile", "agent", "running"} =>
               \/ phase \in {"open", "compile", "agent", "running"}
               \/ i = Len(argv) /\ inputFile # "null"
    PROVE  ArgsInv'
<1>1. \A k : Arguments(k)' = Arguments(k)
  BY DEF Arguments
<1>2. Arguments(i)' = Arguments(i)
  BY DEF Arguments
<1> QED
  BY <1>1, <1>2 DEF ArgsInv

LEMMA ArgsInvStep == ShellInv /\ ArgsInv /\ [Next]_vars => ArgsInv'
<1> SUFFICES ASSUME ShellInv, ArgsInv, [Next]_vars PROVE ArgsInv'
  OBVIOUS
<1>1. CASE ReadOption
  BY <1>1, StepArgs
<1>2. CASE EndOfOptions
  BY <1>2, StepAfterOptions DEF EndOfOptions, Exit
<1>3. CASE OpenScript
  BY <1>3, StepAfterOptions DEF OpenScript, Exit
<1>4. CASE RunScript
  BY <1>4, StepAfterOptions DEF RunScript, Exit
<1>5. CASE StartScript
  BY <1>5, StepAfterOptions DEF StartScript, Exit
<1>6. CASE Script
  BY <1>6, StepAfterOptions DEF Script, shellVars
<1>7. CASE EndScript
  BY <1>7, StepAfterOptions DEF EndScript, Exit
<1>8. CASE DebuggerConnects
  BY <1>8, StepAfterOptions DEF DebuggerConnects
<1>9. CASE Others
  BY <1>9, StepAfterOptions DEF Others, shellVars
<1>10. CASE UNCHANGED vars
  BY <1>10, StepAfterOptions DEF vars, shellVars
<1> QED
  BY <1>1, <1>2, <1>3, <1>4, <1>5, <1>6, <1>7, <1>8, <1>9, <1>10 DEF Next, Main

\* When the script is opened and while it runs, args[0] is its name and the
\* other words follow in their order, wherever the options stood.
THEOREM ArgumentsInOrder == Spec => []ScriptIsFirstArgument
<1>1. Spec => []ShellInv
  BY ShellInvInit, ShellInvStep, PTL DEF Spec
<1>2. Spec => []ArgsInv
  BY <1>1, ArgsInvInit, ArgsInvStep, PTL DEF Spec
<1>3. ArgsInv => ScriptIsFirstArgument
  BY DEF ArgsInv, ScriptIsFirstArgument
<1> QED
  BY <1>2, <1>3, PTL

=============================================================================
