-------------------------- MODULE SegmentedVector --------------------------
(***************************************************************************)
(* wtf/SegmentedVector.h as IdentifierArena uses it: append, last, clear   *)
(* and the destructor.  Segment 1 is embedded in the vector, the others    *)
(* come from operator new.  A reference is a segment and an index in it.   *)
(***************************************************************************)
EXTENDS Integers, Sequences

CONSTANTS
  SegmentSize,    \* template parameter, 64 in IdentifierArena
  Inline,         \* m_inlineSegment
  Segments,       \* what new Segment can return
  MaxSize         \* bound on the number of elements

VARIABLES
  size,           \* m_size
  segments,       \* m_segments
  fill,           \* m_size of each segment
  contents,       \* the element constructed at each place
  references      \* history: what last() returned for each element

vectorVars == <<size, segments, fill, contents, references>>

ASSUME SegmentAssumption ==
  /\ SegmentSize \in Nat \ {0}
  /\ MaxSize \in Nat
  /\ Inline \notin Segments

InitVector ==
  /\ size = 0
  /\ segments = <<Inline>>
  /\ fill = <<0>>
  /\ contents = [place \in {} |-> 0]
  /\ references = <<>>

\* Slip: the inline segment is taken to hold one element more.
At_inlineBound(index, segs) ==
  IF index <= SegmentSize
  THEN <<segs[1], index>>
  ELSE <<segs[index \div SegmentSize + 1], index % SegmentSize>>

\* at(index) in a vector with these segments.
At(index, segs) ==
  IF index < SegmentSize
  THEN <<segs[1], index>>
  ELSE <<segs[index \div SegmentSize + 1], index % SegmentSize>>

\* uncheckedAppend of element number size + 1 to segment k of segs.
uncheckedAppend(k, segs, fills) ==
  /\ segments' = segs
  /\ fill' = [fills EXCEPT ![k] = @ + 1]
  /\ contents' = [place \in DOMAIN contents \cup {<<segs[k], fills[k]>>} |->
                    IF place = <<segs[k], fills[k]>> THEN size + 1 ELSE contents[place]]

\* append, then last() as makeIdentifier calls it.
append ==
  LET k == size \div SegmentSize + 1 IN
  /\ size < MaxSize
  /\ size' = size + 1
  /\ \/ /\ size < SegmentSize
        /\ uncheckedAppend(1, segments, fill)
     \/ /\ size >= SegmentSize
        /\ k <= Len(segments)                       \* segmentExistsFor
        /\ uncheckedAppend(k, segments, fill)
     \/ /\ size >= SegmentSize
        /\ k > Len(segments)
        /\ \E s \in Segments :
             /\ \A i \in 1 .. Len(segments) : segments[i] # s
             /\ uncheckedAppend(k, Append(segments, s), Append(fill, 0))
  /\ references' = Append(references, At(size, segments'))

\* deleteAllSegments, resize(1), clear of the inline segment.
clear ==
  /\ size' = 0
  /\ segments' = <<segments[1]>>
  /\ fill' = <<0>>
  /\ contents' = [place \in {} |-> 0]
  /\ references' = <<>>

-----------------------------------------------------------------------------
\* "It is safe to keep pointers into a SegmentedVector": every reference that
\* makeIdentifier returned still points, inside its segment, to the element it
\* was returned for, however often the vector has grown since.
ReferencesStayValid ==
  /\ Len(references) = size
  /\ \A i \in 1 .. size :
       /\ references[i] \in DOMAIN contents
       /\ contents[references[i]] = i
       /\ references[i][2] < SegmentSize
       /\ \E k \in 1 .. Len(segments) : segments[k] = references[i][1]

=============================================================================
