---------------------------- MODULE StreamProofs ----------------------------
(* Proofs about Stream, for any number of streams, files and lines, any     *)
(* contents and any read buffer, writes refused half-way and sent again     *)
(* included: the wrapper and its object live and die together, what a       *)
(* stream reported written stays on disk, and its buffer goes unnoticed.    *)
EXTENDS Stream, SequenceTheorems, WellFoundedInduction, TLAPS

-----------------------------------------------------------------------------
(* Updating one field of a std::fstream.                                    *)

LEMMA FStreamFields ==
    ASSUME NEW d \in FStream
    PROVE  /\ d.file \in Files /\ d.mode \in SUBSET {"in", "out"} /\ d.open \in BOOLEAN
           /\ d.pos \in Nat /\ d.rbuf \in Seq(Char) /\ d.wbuf \in Seq(Char)
           /\ d.state \in SUBSET {"eof", "fail", "bad"}
           /\ Len(d.rbuf) \in Nat /\ Len(d.wbuf) \in Nat
BY DEF FStream

LEMMA Set_mode ==
    ASSUME NEW d \in FStream, NEW v \in SUBSET {"in", "out"}
    PROVE  LET e == [d EXCEPT !.mode = v] IN
           /\ e \in FStream /\ e.mode = v
           /\ e.file = d.file /\ e.open = d.open /\ e.pos = d.pos
           /\ e.rbuf = d.rbuf /\ e.wbuf = d.wbuf /\ e.state = d.state
BY DEF FStream

LEMMA Set_open ==
    ASSUME NEW d \in FStream, NEW v \in BOOLEAN
    PROVE  LET e == [d EXCEPT !.open = v] IN
           /\ e \in FStream /\ e.open = v
           /\ e.file = d.file /\ e.mode = d.mode /\ e.pos = d.pos
           /\ e.rbuf = d.rbuf /\ e.wbuf = d.wbuf /\ e.state = d.state
BY DEF FStream

LEMMA Set_pos ==
    ASSUME NEW d \in FStream, NEW v \in Nat
    PROVE  LET e == [d EXCEPT !.pos = v] IN
           /\ e \in FStream /\ e.pos = v
           /\ e.file = d.file /\ e.mode = d.mode /\ e.open = d.open
           /\ e.rbuf = d.rbuf /\ e.wbuf = d.wbuf /\ e.state = d.state
BY DEF FStream

LEMMA Set_rbuf ==
    ASSUME NEW d \in FStream, NEW v \in Seq(Char)
    PROVE  LET e == [d EXCEPT !.rbuf = v] IN
           /\ e \in FStream /\ e.rbuf = v
           /\ e.file = d.file /\ e.mode = d.mode /\ e.open = d.open
           /\ e.pos = d.pos /\ e.wbuf = d.wbuf /\ e.state = d.state
BY DEF FStream

LEMMA Set_wbuf ==
    ASSUME NEW d \in FStream, NEW v \in Seq(Char)
    PROVE  LET e == [d EXCEPT !.wbuf = v] IN
           /\ e \in FStream /\ e.wbuf = v
           /\ e.file = d.file /\ e.mode = d.mode /\ e.open = d.open
           /\ e.pos = d.pos /\ e.rbuf = d.rbuf /\ e.state = d.state
BY DEF FStream

LEMMA Set_state ==
    ASSUME NEW d \in FStream, NEW v \in SUBSET {"eof", "fail", "bad"}
    PROVE  LET e == [d EXCEPT !.state = v] IN
           /\ e \in FStream /\ e.state = v
           /\ e.file = d.file /\ e.mode = d.mode /\ e.open = d.open
           /\ e.pos = d.pos /\ e.rbuf = d.rbuf /\ e.wbuf = d.wbuf
BY DEF FStream

-----------------------------------------------------------------------------
(* The operators of std::fstream keep their types.                          *)

LEMMA WriteAtType ==
    ASSUME NEW c \in Seq(Char), NEW p \in Nat, NEW w \in Seq(Char)
    PROVE  WriteAt(c, p, w) \in Seq(Char)
<1>1. CASE w = <<>>
  BY <1>1 DEF WriteAt
<1>2. CASE w # <<>>
  <2> DEFINE n == IF p + Len(w) > Len(c) THEN p + Len(w) ELSE Len(c)
             e(i) == IF p < i /\ i <= p + Len(w) THEN w[i - p]
                     ELSE IF i <= Len(c) THEN c[i] ELSE "nul"
  <2>1. n \in Nat
    OBVIOUS
  <2>2. \A i \in 1..n : e(i) \in Char
    BY DEF Char
  <2>3. WriteAt(c, p, w) = [i \in 1..n |-> e(i)]
    BY <1>2 DEF WriteAt
  <2> QED
    BY <2>1, <2>2, <2>3
<1> QED
  BY <1>1, <1>2

\* A refill of the read buffer never moves the offset back, nor past the end.
LEMMA RefillBounds ==
    ASSUME NEW p \in Nat, NEW l \in Nat, NEW q \in Nat, p <= l
    PROVE  Refilled(p, l, q) \in Nat /\ p <= Refilled(p, l, q) /\ Refilled(p, l, q) <= l
<1> DEFINE r == (q + BufSize - 1) \div BufSize
<1>0. BufSize \in Nat /\ BufSize > 0
  BY StreamAssumption
<1>1. r \in Nat
  BY <1>0
<1>2. Refilled(p, l, q) = IF p + r * BufSize > l THEN l ELSE p + r * BufSize
  BY DEF Refilled
<1> HIDE DEF r
<1>3. r * BufSize \in Nat
  BY <1>0, <1>1
<1> QED
  BY <1>2, <1>3

LEMMA LeastElement ==
    ASSUME NEW T \in SUBSET Nat, T # {}
    PROVE  \E i \in T : \A j \in T : i <= j
<1> DEFINE R == {ss \in Nat \X Nat : ss[1] < ss[2]}
<1>1. IsWellFoundedOn(R, Nat)
  BY NatLessThanWellFounded, Zenon DEF OpToRel
<1>2. PICK i \in T : \A j \in T : <<j, i>> \notin R
  BY <1>1, WFMin
<1>3. ASSUME NEW j \in T PROVE i <= j
  <2>1. ~(j < i)
    BY <1>2
  <2> QED
    BY <2>1
<1> QED
  BY <1>3

LEMMA SubSeqType ==
    ASSUME NEW a \in Seq(Char), NEW m \in Nat, NEW n \in Int, m >= 1, n <= Len(a)
    PROVE  /\ SubSeq(a, m, n) \in Seq(Char)
           /\ Len(SubSeq(a, m, n)) = IF m <= n THEN n - m + 1 ELSE 0
           /\ \A i \in 1..(n - m + 1) : SubSeq(a, m, n)[i] = a[m + i - 1]
<1>1. \A i \in m..n : a[i] \in Char
  OBVIOUS
<1> QED
  BY <1>1, SubSeqProperties

LEMMA AvailableType ==
    ASSUME NEW d \in FStream, NEW c \in Seq(Char)
    PROVE  /\ Available(d, c) \in Seq(Char)
           /\ Len(Available(d, c)) = Len(d.rbuf) +
                 (IF d.pos < Len(c) THEN Len(c) - d.pos ELSE 0)
<1> DEFINE t == IF d.pos < Len(c) THEN SubSeq(c, d.pos + 1, Len(c)) ELSE <<>>
<1>1. d.rbuf \in Seq(Char) /\ d.pos \in Nat
  BY DEF FStream
<1>2. t \in Seq(Char) /\ Len(t) = (IF d.pos < Len(c) THEN Len(c) - d.pos ELSE 0)
  BY <1>1, SubSeqType
<1> HIDE DEF t
<1>3. d.rbuf \o t \in Seq(Char) /\ Len(d.rbuf \o t) = Len(d.rbuf) + Len(t)
  BY <1>1, <1>2, ConcatProperties
<1> QED
  BY <1>2, <1>3 DEF Available, t

\* The read-ahead was read from before the file offset.
ReadAhead(d) == Len(d.rbuf) <= d.pos

LEMMA LineEndType ==
    ASSUME NEW a \in Seq(Char), NEW m \in 1..Len(a), a[m] = "nl"
    PROVE  LineEnd(a) \in 1..Len(a)
<1>1. \E i \in 1..Len(a) : a[i] = "nl" /\ \A j \in 1..(i - 1) : a[j] # "nl"
  <2> DEFINE P == {i \in 1..Len(a) : a[i] = "nl"}
  <2>1. P \in SUBSET Nat /\ m \in P
    OBVIOUS
  <2>2. PICK i \in P : \A j \in P : i <= j
    BY <2>1, LeastElement
  <2> QED
    BY <2>2
<1> QED
  BY <1>1 DEF LineEnd

LEMMA GotLineType ==
    ASSUME NEW d \in FStream, NEW c \in Seq(Char), ReadAhead(d)
    PROVE  /\ GotLine(d, c).line \in Seq(Char)
           /\ GotLine(d, c).fs \in FStream
           /\ ReadAhead(GotLine(d, c).fs)
<1> DEFINE a == Available(d, c)
           n == LineEnd(a)
           held == Len(d.rbuf)
           pos == IF n <= held THEN d.pos ELSE Refilled(d.pos, Len(c), n - held)
           rest == SubSeq(a, n + 1, held + pos - d.pos)
<1>1. /\ a \in Seq(Char)
      /\ Len(a) = held + (IF d.pos < Len(c) THEN Len(c) - d.pos ELSE 0)
  BY AvailableType
<1>2. held \in Nat /\ d.pos \in Nat /\ held <= d.pos /\ Len(c) \in Nat
  BY DEF FStream, ReadAhead
<1>3. CASE \E i \in 1..Len(a) : a[i] = "nl"
  <2>1. n \in 1..Len(a)
    BY <1>1, <1>3, LineEndType
  <2>2. pos \in Nat /\ d.pos <= pos /\ held + pos - d.pos <= Len(a)
    <3>1. CASE n <= held
      BY <1>1, <1>2, <2>1, <3>1
    <3>2. CASE n > held
      <4>1. n - held \in Nat /\ d.pos < Len(c) /\ d.pos <= Len(c)
        BY <1>1, <1>2, <2>1, <3>2
      <4>2. pos = Refilled(d.pos, Len(c), n - held)
        BY <1>2, <2>1, <3>2
      <4> HIDE DEF pos, n, a, held
      <4>4. pos \in Nat /\ d.pos <= pos /\ pos <= Len(c)
        BY <1>2, <4>1, <4>2, RefillBounds, Zenon
      <4> QED
        BY <1>1, <1>2, <3>2, <4>1, <4>4
    <3> QED
      BY <1>1, <1>2, <2>1, <3>1, <3>2
  <2> HIDE DEF pos, a, n, held
  <2>3. /\ rest \in Seq(Char)
        /\ Len(rest) <= pos
    BY <1>1, <1>2, <2>1, <2>2, SubSeqType, SMTT(30)
  <2>4. SubSeq(a, 1, n - 1) \in Seq(Char)
    BY <1>1, <2>1, SubSeqType
  <2> HIDE DEF rest
  <2>5. GotLine(d, c) = [line |-> SubSeq(a, 1, n - 1),
                         fs |-> [d EXCEPT !.pos = pos, !.rbuf = rest]]
    BY <1>3 DEF GotLine, pos, a, n, rest, held
  <2>6. [d EXCEPT !.pos = pos, !.rbuf = rest] \in FStream
    BY <2>2, <2>3 DEF FStream
  <2>7. ReadAhead([d EXCEPT !.pos = pos, !.rbuf = rest])
    BY <2>3 DEF ReadAhead, FStream
  <2> QED
    BY <2>4, <2>5, <2>6, <2>7
<1>4. CASE ~ \E i \in 1..Len(a) : a[i] = "nl"
  <2> DEFINE p == IF d.pos < Len(c) THEN Len(c) ELSE d.pos
             bits == IF a = <<>> THEN {"eof", "fail"} ELSE {"eof"}
             e == [d EXCEPT !.pos = p, !.rbuf = <<>>, !.state = bits]
  <2>1. GotLine(d, c) = [line |-> a, fs |-> e]
    BY <1>4 DEF GotLine
  <2>2. bits \in SUBSET {"eof", "fail", "bad"} /\ p \in Nat /\ 0 <= p
    BY <1>2
  <2> HIDE DEF a, bits, p
  <2>3. e \in FStream /\ ReadAhead(e)
    <3> DEFINE e1 == [d EXCEPT !.pos = p]
               e2 == [e1 EXCEPT !.rbuf = <<>>]
               e3 == [e2 EXCEPT !.state = bits]
    <3>1. e1 \in FStream /\ e1.pos = p
      BY <2>2, Set_pos
    <3> HIDE DEF e1
    <3>2. e2 \in FStream /\ e2.pos = p /\ e2.rbuf = <<>>
      BY <3>1, EmptySeq, Set_rbuf, Zenon
    <3> HIDE DEF e2
    <3>3. e3 \in FStream /\ e3.pos = p /\ e3.rbuf = <<>>
      BY <2>2, <3>2, Set_state
    <3> HIDE DEF e3
    <3>4. ReadAhead(e3)
      BY <2>2, <3>3 DEF ReadAhead
    <3> QED
      BY <3>3, <3>4 DEF e1, e2, e3
  <2> HIDE DEF e
  <2> QED
    BY <1>1, <2>1, <2>3
<1> QED
  BY <1>3, <1>4

LEMMA SetStateType ==
    ASSUME NEW d \in FStream, NEW bits \in SUBSET {"eof", "fail", "bad"}, ReadAhead(d)
    PROVE  SetState(d, bits) \in FStream /\ ReadAhead(SetState(d, bits))
BY DEF SetState, FStream, ReadAhead

LEMMA GetlineType ==
    ASSUME NEW d \in FStream, NEW c \in Seq(Char), ReadAhead(d)
    PROVE  /\ Getline(d, c).line \in Seq(Char)
           /\ Getline(d, c).fs \in FStream
           /\ ReadAhead(Getline(d, c).fs)
<1>1. CASE ~Good(d)
  <2>1. Getline(d, c) = [line |-> <<>>, fs |-> SetState(d, {"fail"})]
    BY <1>1 DEF Getline
  <2> QED
    BY <2>1, SetStateType
<1>2. CASE Good(d) /\ ~CanRead(d)
  <2>1. Getline(d, c) = [line |-> <<>>, fs |-> SetState(d, {"eof", "fail"})]
    BY <1>2 DEF Getline
  <2> QED
    BY <2>1, SetStateType
<1>3. CASE Good(d) /\ CanRead(d)
  BY <1>3, GotLineType DEF Getline
<1> QED
  BY <1>1, <1>2, <1>3

LEMMA CStrType ==
    ASSUME NEW a \in Seq(Char)
    PROVE  CStr(a) \in Seq(Char)
<1>1. CASE \E i \in 1..Len(a) : a[i] = "nul"
  <2> DEFINE P == {i \in 1..Len(a) : a[i] = "nul"}
             First(i) == a[i] = "nul" /\ \A j \in 1..(i - 1) : a[j] # "nul"
             m == CHOOSE i \in 1..Len(a) : First(i)
  <2>1. P \in SUBSET Nat /\ P # {}
    BY <1>1
  <2>2. PICK i \in P : \A j \in P : i <= j
    BY <2>1, LeastElement
  <2>3. \E j \in 1..Len(a) : First(j)
    BY <2>2
  <2>4. m \in 1..Len(a)
    BY <2>3
  <2>5. CStr(a) = SubSeq(a, 1, m - 1)
    BY <1>1 DEF CStr
  <2> HIDE DEF m
  <2> QED
    BY <2>4, <2>5, SubSeqType
<1> QED
  BY <1>1 DEF CStr

LEMMA DrainedType ==
    ASSUME NEW d \in FStream, NEW k \in 0..Len(d.wbuf), ReadAhead(d)
    PROVE  /\ Drained(d, k) \in FStream
           /\ ReadAhead(Drained(d, k))
           /\ SubSeq(d.wbuf, 1, k) \in Seq(Char)
<1>1. d.wbuf \in Seq(Char) /\ d.pos \in Nat /\ k \in Nat
  BY DEF FStream
<1>2. SubSeq(d.wbuf, k + 1, Len(d.wbuf)) \in Seq(Char) /\ SubSeq(d.wbuf, 1, k) \in Seq(Char)
  BY <1>1, SubSeqType
<1> DEFINE w == SubSeq(d.wbuf, k + 1, Len(d.wbuf))
           e1 == [d EXCEPT !.pos = d.pos + k]
           e2 == [e1 EXCEPT !.wbuf = w]
<1>3. Drained(d, k) = e2
  BY DEF Drained
<1> HIDE DEF w
<1>4. e1 \in FStream /\ e1.pos = d.pos + k /\ e1.rbuf = d.rbuf
  BY <1>1, Set_pos
<1> HIDE DEF e1
<1>5. e2 \in FStream /\ e2.pos = d.pos + k /\ e2.rbuf = d.rbuf
  BY <1>2, <1>4, Set_wbuf DEF w
<1> HIDE DEF e2
<1>6. ReadAhead(e2)
  BY <1>1, <1>5, FStreamFields DEF ReadAhead
<1> QED
  BY <1>2, <1>3, <1>5, <1>6

\* What it means that the filebuf hands out all that is pending.
LEMMA DrainingIs ==
    ASSUME NEW d, NEW o \in Drainings(d)
    PROVE  \/ o.ok = TRUE /\ o.fs = Drained(d, Len(d.wbuf)) /\ o.disk = DiskAfter(d, Len(d.wbuf))
           \/ /\ o.ok = FALSE /\ WriteErrors
              /\ \E j \in 0..(Len(d.wbuf) - 1) :
                   o.fs = [d EXCEPT !.pos = d.pos + j] /\ o.disk = DiskAfter(d, j)
<1>1. CASE o = [ok |-> TRUE, fs |-> Drained(d, Len(d.wbuf)), disk |-> DiskAfter(d, Len(d.wbuf))]
  BY <1>1
<1>2. CASE \E j \in IF WriteErrors THEN 0..(Len(d.wbuf) - 1) ELSE {} :
             o = [ok |-> FALSE, fs |-> [d EXCEPT !.pos = @ + j], disk |-> DiskAfter(d, j)]
  <2>1. PICK j \in IF WriteErrors THEN 0..(Len(d.wbuf) - 1) ELSE {} :
          o = [ok |-> FALSE, fs |-> [d EXCEPT !.pos = d.pos + j], disk |-> DiskAfter(d, j)]
    BY <1>2
  <2>2. WriteErrors /\ j \in 0..(Len(d.wbuf) - 1)
    BY <2>1
  <2>3. o.ok = FALSE /\ o.fs = [d EXCEPT !.pos = d.pos + j] /\ o.disk = DiskAfter(d, j)
    BY <2>1
  <2> QED
    BY <2>2, <2>3
<1> QED
  BY <1>1, <1>2 DEF Drainings

LEMMA DiskAfterType ==
    ASSUME content \in [Files -> Seq(Char)], NEW d \in FStream, NEW k \in 0..Len(d.wbuf)
    PROVE  DiskAfter(d, k) \in Seq(Char)
<1>1. d.file \in Files /\ d.pos \in Nat /\ d.wbuf \in Seq(Char) /\ k \in Nat
  BY FStreamFields
<1>2. SubSeq(d.wbuf, 1, k) \in Seq(Char)
  BY <1>1, SubSeqType
<1> QED
  BY <1>1, <1>2, WriteAtType DEF DiskAfter

LEMMA DrainingsType ==
    ASSUME content \in [Files -> Seq(Char)], NEW d \in FStream, ReadAhead(d), NEW o \in Drainings(d)
    PROVE  /\ o.ok \in BOOLEAN /\ o.fs \in FStream /\ ReadAhead(o.fs) /\ o.disk \in Seq(Char)
<1>1. d.pos \in Nat /\ Len(d.wbuf) \in Nat /\ Len(d.wbuf) \in 0..Len(d.wbuf) /\ Len(d.rbuf) \in Nat
  BY FStreamFields
<1>2. CASE o.ok = TRUE /\ o.fs = Drained(d, Len(d.wbuf)) /\ o.disk = DiskAfter(d, Len(d.wbuf))
  BY <1>1, <1>2, DrainedType, DiskAfterType
<1>3. ASSUME NEW j \in 0..(Len(d.wbuf) - 1), o.ok = FALSE,
             o.fs = [d EXCEPT !.pos = d.pos + j], o.disk = DiskAfter(d, j)
      PROVE  o.ok \in BOOLEAN /\ o.fs \in FStream /\ ReadAhead(o.fs) /\ o.disk \in Seq(Char)
  <2>1. j \in 0..Len(d.wbuf) /\ j \in Nat /\ d.pos + j \in Nat
    BY <1>1
  <2>2. o.fs \in FStream /\ o.fs.pos = d.pos + j /\ o.fs.rbuf = d.rbuf
    BY <1>3, <2>1, Set_pos
  <2>3. ReadAhead(o.fs)
    BY <1>1, <2>1, <2>2 DEF ReadAhead
  <2>4. o.disk \in Seq(Char)
    BY <1>3, <2>1, DiskAfterType
  <2> QED
    BY <1>3, <2>2, <2>3, <2>4
<1> QED
  BY <1>2, <1>3, DrainingIs

LEMMA PendingType ==
    ASSUME NEW d \in FStream, NEW line \in Seq(Char), ReadAhead(d)
    PROVE  Pending(d, line) \in FStream /\ ReadAhead(Pending(d, line))
<1>1. d.wbuf \in Seq(Char) /\ d.rbuf \in Seq(Char) /\ d.pos \in Nat
  BY DEF FStream
<1>2. Append(line, "nl") \in Seq(Char)
  BY AppendProperties DEF Char
<1> DEFINE w == d.wbuf \o Append(line, "nl")
           p == d.pos - Len(d.rbuf)
<1>3. w \in Seq(Char) /\ p \in Nat
  BY <1>1, <1>2, ConcatProperties DEF ReadAhead
<1> DEFINE e1 == [d EXCEPT !.pos = p]
           e2 == [e1 EXCEPT !.rbuf = <<>>]
           e3 == [e2 EXCEPT !.wbuf = w]
<1>4. Pending(d, line) = e3
  BY DEF Pending
<1> HIDE DEF w, p
<1>5. e1 \in FStream
  BY <1>3, Set_pos
<1> HIDE DEF e1
<1>6. e2 \in FStream /\ e2.rbuf = <<>>
  BY <1>5, EmptySeq, Set_rbuf, Zenon
<1> HIDE DEF e2
<1>7. e3 \in FStream /\ e3.rbuf = <<>>
  BY <1>3, <1>6, Set_wbuf
<1> HIDE DEF e3
<1>8. ReadAhead(e3)
  BY <1>7, FStreamFields DEF ReadAhead
<1> QED
  BY <1>4, <1>7, <1>8

LEMMA ClosedType ==
    ASSUME NEW d \in FStream, ReadAhead(d)
    PROVE  Closed(d) \in FStream /\ ReadAhead(Closed(d))
<1> DEFINE e0 == [d EXCEPT !.open = FALSE]
           e1 == [e0 EXCEPT !.mode = {}]
           e2 == [e1 EXCEPT !.pos = 0]
           e3 == [e2 EXCEPT !.rbuf = <<>>]
           e4 == [e3 EXCEPT !.wbuf = <<>>]
<1>1. Closed(d) = e4
  BY DEF Closed
<1>0. e0 \in FStream
  BY Set_open
<1> HIDE DEF e0
<1>2. e1 \in FStream
  BY <1>0, Set_mode
<1> HIDE DEF e1
<1>3. e2 \in FStream
  BY <1>2, Set_pos
<1> HIDE DEF e2
<1>4. e3 \in FStream /\ e3.rbuf = <<>>
  BY <1>3, EmptySeq, Set_rbuf, Zenon
<1> HIDE DEF e3
<1>5. e4 \in FStream /\ e4.rbuf = <<>>
  BY <1>4, EmptySeq, Set_wbuf, Zenon
<1> HIDE DEF e4
<1>6. ReadAhead(e4)
  BY <1>5, FStreamFields DEF ReadAhead
<1> QED
  BY <1>1, <1>5, <1>6

LEMMA OpenedType ==
    ASSUME NEW f \in Files, NEW modes
    PROVE  Opened(f, modes) \in FStream /\ ReadAhead(Opened(f, modes))
<1>1. OpenMode(modes) \in SUBSET {"in", "out"}
  BY DEF OpenMode
<1> QED
  BY <1>1 DEF Opened, FStream, ReadAhead

-----------------------------------------------------------------------------
(* What a write, a read and a refusal add to the history of a stream.       *)

LEMMA LogFields ==
    ASSUME NEW h \in Log
    PROVE  /\ h.sole \in BOOLEAN /\ h.refused \in BOOLEAN /\ h.text \in Seq(Char)
           /\ h.at \in Nat /\ h.safe \in Nat /\ Len(h.text) \in Nat
BY DEF Log

LEMMA LineIsText ==
    ASSUME NEW line \in Seq(Char)
    PROVE  /\ Append(line, "nl") \in Seq(Char) /\ Len(Append(line, "nl")) = Len(line) + 1
           /\ Append(line, "nl") # <<>> /\ Len(line) \in Nat
<1>1. "nl" \in Char
  BY DEF Char
<1> QED
  BY <1>1, AppendProperties

LEMMA AfterLineType ==
    ASSUME NEW text \in Seq(Char), NEW p \in Nat
    PROVE  /\ AfterLine(text, p) \in Nat
           /\ p <= Len(text) => p <= AfterLine(text, p) /\ AfterLine(text, p) <= Len(text)
<1> DEFINE ends == {i \in (p + 1)..Len(text) : text[i] = "nl"}
<1>1. Len(text) \in Nat
  OBVIOUS
<1>2. CASE ends = {}
  BY <1>1, <1>2 DEF AfterLine
<1>3. CASE ends # {}
  <2>1. ends \in SUBSET Nat
    OBVIOUS
  <2>2. \E i \in ends : \A j \in ends : i <= j
    BY <1>3, <2>1, LeastElement
  <2>3. AfterLine(text, p) \in ends
    BY <1>3, <2>2 DEF AfterLine
  <2> QED
    BY <1>1, <2>3
<1> QED
  BY <1>2, <1>3

LEMMA LogWriteIs ==
    ASSUME NEW h \in Log, NEW line \in Seq(Char)
    PROVE  LET e == LogWrite(h, line) IN
           /\ e \in Log /\ e.sole = h.sole /\ e.refused = h.refused /\ e.safe = h.safe
           /\ h.sole => /\ e.text = WriteAt(h.text, h.at, Append(line, "nl"))
                        /\ e.at = h.at + Len(line) + 1
<1> DEFINE w == WriteAt(h.text, h.at, Append(line, "nl"))
           a == h.at + Len(line) + 1
<1>0. h.text \in Seq(Char) /\ h.at \in Nat /\ Append(line, "nl") \in Seq(Char) /\ Len(line) \in Nat
  BY LogFields, LineIsText
<1>1. w \in Seq(Char) /\ a \in Nat
  <2>1. w \in Seq(Char)
    BY <1>0, WriteAtType
  <2>2. a \in Nat
    BY <1>0
  <2> QED
    BY <2>1, <2>2
<1>2. LogWrite(h, line) = IF h.sole THEN [h EXCEPT !.text = w, !.at = a] ELSE h
  BY DEF LogWrite
<1> HIDE DEF w, a
<1>3. LET e == [h EXCEPT !.text = w, !.at = a] IN
      /\ e \in Log /\ e.sole = h.sole /\ e.refused = h.refused /\ e.safe = h.safe
      /\ e.text = w /\ e.at = a
  BY <1>1 DEF Log
<1> QED
  BY <1>2, <1>3 DEF w, a

LEMMA LogReadIs ==
    ASSUME NEW h \in Log
    PROVE  LET e == LogRead(h) IN
           /\ e \in Log /\ e.sole = h.sole /\ e.refused = h.refused /\ e.safe = h.safe
           /\ e.text = h.text /\ (h.sole => e.at = AfterLine(h.text, h.at))
<1> DEFINE a == AfterLine(h.text, h.at)
<1>1. a \in Nat
  BY LogFields, AfterLineType
<1>2. LogRead(h) = IF h.sole THEN [h EXCEPT !.at = a] ELSE h
  BY DEF LogRead
<1> HIDE DEF a
<1>3. LET e == [h EXCEPT !.at = a] IN
      /\ e \in Log /\ e.sole = h.sole /\ e.refused = h.refused /\ e.safe = h.safe
      /\ e.text = h.text /\ e.at = a
  BY <1>1 DEF Log
<1> QED
  BY <1>2, <1>3 DEF a

LEMMA LogRefusedIs ==
    ASSUME NEW h \in Log
    PROVE  LET e == LogRefused(h) IN
           /\ e \in Log /\ e.sole = h.sole /\ e.refused = h.sole /\ e.safe = h.safe
           /\ e.text = h.text /\ e.at = h.at
BY DEF LogRefused, Log

LEMMA LogFlushedIs ==
    ASSUME NEW h \in Log
    PROVE  LET e == LogFlushed(h) IN
           /\ e \in Log /\ e.sole = h.sole /\ e.refused = h.refused
           /\ e.text = h.text /\ e.at = h.at
           /\ e.safe = IF h.sole /\ ~h.refused THEN h.at ELSE h.safe
BY DEF LogFlushed, Log

LEMMA LogDrainedType ==
    ASSUME NEW h \in Log, NEW open \in BOOLEAN, NEW ok \in BOOLEAN
    PROVE  LogDrained(h, open, ok) \in Log
BY LogRefusedIs, LogFlushedIs DEF LogDrained

LEMMA NoLogType == NoLog \in Log
BY EmptySeq DEF NoLog, Log

-----------------------------------------------------------------------------
(* Type correctness.  TypeOK alone is not inductive: writeLine seeks back    *)
(* over the read-ahead, which must not reach below offset zero.              *)

TypeInv == TypeOK /\ \A s \in Streams : ReadAhead(fs[s])

LEMMA FsUpdate ==
    ASSUME TypeInv, NEW s \in Streams, NEW e \in FStream, ReadAhead(e),
           fs' = [fs EXCEPT ![s] = e]
    PROVE  fs' \in [Streams -> FStream] /\ \A t \in Streams : ReadAhead(fs'[t])
BY DEF TypeInv, TypeOK

LEMMA ReturnedType ==
    ASSUME NEW s \in Streams, NEW threw \in BOOLEAN, NEW str \in Seq(Char),
           NEW op \in {"start", "open", "arity", "close", "flush", "next",
                       "readLine", "writeLine"},
           Returned(op, s, threw, str)
    PROVE  result' \in Results
BY DEF Returned, Results

LEMMA StreamIs ==
    ASSUME TypeInv, NEW s \in Streams
    PROVE  /\ fs[s] \in FStream /\ ReadAhead(fs[s]) /\ log[s] \in Log
           /\ fs[s].file \in Files /\ content[fs[s].file] \in Seq(Char)
           /\ content \in [Files -> Seq(Char)] /\ fs \in [Streams -> FStream]
           /\ log \in [Streams -> Log]
BY FStreamFields DEF TypeInv, TypeOK

\* What getline did, after the pending output has been drained or refused.
LEMMA ReadingIs ==
    ASSUME NEW d, NEW r \in Readings(d)
    PROVE  \/ /\ ~(CanRead(d) /\ d.wbuf # <<>>)
              /\ r.ok = TRUE /\ r.disk = content[d.file] /\ r.got = Getline(d, content[d.file])
           \/ /\ CanRead(d) /\ d.wbuf # <<>>
              /\ \E o \in Drainings(d) :
                   /\ r.ok = o.ok /\ r.disk = o.disk
                   /\ o.ok => r.got = Getline(o.fs, o.disk)
                   /\ ~o.ok => r.got = [line |-> <<>>, fs |-> SetState(o.fs, {"eof", "fail"})]
<1>1. CASE ~(CanRead(d) /\ d.wbuf # <<>>)
  <2>1. r = [ok |-> TRUE, disk |-> content[d.file], got |-> Getline(d, content[d.file])]
    BY <1>1 DEF Readings
  <2> QED
    BY <1>1, <2>1
<1>2. CASE CanRead(d) /\ d.wbuf # <<>>
  <2>1. PICK o \in Drainings(d) :
          r = [ok |-> o.ok, disk |-> o.disk,
               got |-> IF o.ok THEN Getline(o.fs, o.disk)
                       ELSE [line |-> <<>>, fs |-> SetState(o.fs, {"eof", "fail"})]]
    BY <1>2 DEF Readings
  <2>2. /\ r.ok = o.ok /\ r.disk = o.disk
        /\ r.got = IF o.ok THEN Getline(o.fs, o.disk)
                   ELSE [line |-> <<>>, fs |-> SetState(o.fs, {"eof", "fail"})]
    BY <2>1
  <2> QED
    BY <1>2, <2>2
<1> QED
  BY <1>1, <1>2

LEMMA ReadingType ==
    ASSUME TypeInv, NEW s \in Streams, NEW r \in Readings(fs[s])
    PROVE  /\ r.ok \in BOOLEAN /\ r.disk \in Seq(Char) /\ r.got.line \in Seq(Char)
           /\ r.got.fs \in FStream /\ ReadAhead(r.got.fs)
<1> DEFINE d == fs[s]
<1>0. /\ d \in FStream /\ ReadAhead(d) /\ content \in [Files -> Seq(Char)]
      /\ content[d.file] \in Seq(Char)
  BY StreamIs
<1> HIDE DEF d
<1>1. CASE r.ok = TRUE /\ r.disk = content[d.file] /\ r.got = Getline(d, content[d.file])
  BY <1>0, <1>1, GetlineType
<1>2. ASSUME NEW o \in Drainings(d), r.ok = o.ok, r.disk = o.disk,
             o.ok => r.got = Getline(o.fs, o.disk),
             ~o.ok => r.got = [line |-> <<>>, fs |-> SetState(o.fs, {"eof", "fail"})]
      PROVE  /\ r.ok \in BOOLEAN /\ r.disk \in Seq(Char) /\ r.got.line \in Seq(Char)
             /\ r.got.fs \in FStream /\ ReadAhead(r.got.fs)
  <2>1. o.ok \in BOOLEAN /\ o.fs \in FStream /\ ReadAhead(o.fs) /\ o.disk \in Seq(Char)
    BY <1>0, DrainingsType
  <2>2. CASE o.ok
    BY <1>2, <2>1, <2>2, GetlineType
  <2>3. CASE ~o.ok
    <3>1. SetState(o.fs, {"eof", "fail"}) \in FStream /\ ReadAhead(SetState(o.fs, {"eof", "fail"}))
      BY <2>1, SetStateType
    <3>2. r.got.line = <<>> /\ r.got.fs = SetState(o.fs, {"eof", "fail"})
      BY <1>2, <2>3
    <3> QED
      BY <1>2, <2>1, <3>1, <3>2, EmptySeq
  <2> QED
    BY <2>1, <2>2, <2>3
<1> QED
  BY <1>1, <1>2, ReadingIs DEF d

\* What a write left: all the lines, or what a refusal left.
LEMMA WritingIs ==
    ASSUME NEW d, NEW line, NEW o \in Writings(d, line)
    PROVE  LET all == Pending(d, line)
               n == Len(all.wbuf)
           IN  \/ /\ o.ok = TRUE
                  /\ \E k \in 0..n : o.fs = Drained(all, k) /\ o.disk = DiskAfter(all, k)
               \/ /\ WriteErrors
                  /\ \E t \in Stops(Len(d.wbuf), n) : o = Refused(all, t[1], t[2], t[3])
<1> DEFINE all == Pending(d, line)
           n == Len(all.wbuf)
           taken(k) == [ok |-> TRUE, fs |-> Drained(all, k), disk |-> DiskAfter(all, k)]
<1>1. CASE \E k \in 0..n : o = taken(k)
  <2> HIDE DEF all
  <2>1. PICK k \in 0..n : o = taken(k)
    BY <1>1
  <2>2. o.ok = TRUE /\ o.fs = Drained(all, k) /\ o.disk = DiskAfter(all, k)
    BY <2>1
  <2> QED
    BY <2>2 DEF all
<1>2. CASE \E t \in IF WriteErrors THEN Stops(Len(d.wbuf), n) ELSE {} :
             o = Refused(all, t[1], t[2], t[3])
  <2> HIDE DEF all, n
  <2> QED
    BY <1>2 DEF all, n
<1>3. \/ \E k \in 0..n : o = taken(k)
      \/ \E t \in IF WriteErrors THEN Stops(Len(d.wbuf), n) ELSE {} :
             o = Refused(all, t[1], t[2], t[3])
  <2>1. o \in {taken(k) : k \in 0..n}
               \cup {Refused(all, t[1], t[2], t[3]) :
                        t \in IF WriteErrors THEN Stops(Len(d.wbuf), n) ELSE {}}
    BY DEF Writings
  <2> HIDE DEF all, n, taken
  <2> QED
    BY <2>1
<1> HIDE DEF all, n, taken
<1> QED
  BY <1>1, <1>2, <1>3

\* Where a refused write leaves the offset, the buffer and the file.
LEMMA RefusedIs ==
    ASSUME NEW all \in FStream, NEW held \in Nat, NEW t \in Stops(held, Len(all.wbuf))
    PROVE  LET k == t[1]
               m == t[2]
               j == t[3]
               o == Refused(all, k, m, j)
           IN  /\ k \in Nat /\ j \in Nat /\ k + j \in 0..Len(all.wbuf)
               /\ m \in Nat /\ m <= Len(all.wbuf)
               /\ o.ok = FALSE /\ o.fs \in FStream /\ o.disk = DiskAfter(all, k + j)
               /\ o.fs.file = all.file /\ o.fs.mode = all.mode /\ o.fs.open = all.open
               /\ o.fs.pos = all.pos + k + j /\ o.fs.rbuf = all.rbuf
               /\ o.fs.wbuf = SubSeq(all.wbuf, k + 1, m)
               /\ "bad" \in o.fs.state
<1> DEFINE k == t[1]
           m == t[2]
           j == t[3]
           w == SubSeq(all.wbuf, k + 1, m)
           p == all.pos + k + j
           e1 == [all EXCEPT !.pos = p]
           e2 == [e1 EXCEPT !.wbuf = w]
           bits == e2.state \cup {"bad"}
           e3 == [e2 EXCEPT !.state = bits]
<1>0. all.pos \in Nat /\ Len(all.wbuf) \in Nat /\ all.wbuf \in Seq(Char)
  BY FStreamFields
<1>1. /\ IF m = held THEN k = 0 /\ j < Len(all.wbuf) - 1 ELSE k + j < m
      /\ k \in 0..Len(all.wbuf) /\ m \in held..Len(all.wbuf) /\ j \in 0..Len(all.wbuf)
  BY DEF Stops
<1> HIDE DEF k, m, j
<1>2. k \in Nat /\ m \in Nat /\ m <= Len(all.wbuf) /\ j \in Nat /\ k + j \in 0..Len(all.wbuf) /\ p \in Nat
  <2> DEFINE n == Len(all.wbuf)
  <2>1. n \in Nat /\ k \in 0..n /\ m \in held..n /\ j \in 0..n
    BY <1>0, <1>1
  <2>2. IF m = held THEN k = 0 /\ j < n - 1 ELSE k + j < m
    BY <1>1
  <2> HIDE DEF n
  <2>3. k \in Nat /\ m \in Nat /\ m <= n /\ j \in Nat /\ k + j \in 0..n
    BY <2>1, <2>2
  <2>4. p \in Nat
    BY <1>0, <2>3
  <2> QED
    BY <2>3, <2>4 DEF n
<1>3. w \in Seq(Char)
  BY <1>0, <1>2, SubSeqType
<1>4. Refused(all, k, m, j) = [ok |-> FALSE, fs |-> e3, disk |-> DiskAfter(all, k + j)]
  BY DEF Refused, SetState
<1> HIDE DEF w, p
<1>5. /\ e1 \in FStream /\ e1.pos = p /\ e1.file = all.file /\ e1.mode = all.mode
      /\ e1.open = all.open /\ e1.rbuf = all.rbuf
  BY <1>2, Set_pos
<1> HIDE DEF e1
<1>6. /\ e2 \in FStream /\ e2.pos = p /\ e2.file = all.file /\ e2.mode = all.mode
      /\ e2.open = all.open /\ e2.rbuf = all.rbuf /\ e2.wbuf = w
  BY <1>3, <1>5, Set_wbuf
<1> HIDE DEF e2
<1>7. bits \in SUBSET {"eof", "fail", "bad"} /\ "bad" \in bits
  BY <1>6, FStreamFields
<1> HIDE DEF bits
<1>8. /\ e3 \in FStream /\ e3.pos = p /\ e3.file = all.file /\ e3.mode = all.mode
      /\ e3.open = all.open /\ e3.rbuf = all.rbuf /\ e3.wbuf = w /\ "bad" \in e3.state
  BY <1>6, <1>7, Set_state
<1> HIDE DEF e3
<1>9. LET o == Refused(all, k, m, j) IN o.ok = FALSE /\ o.fs = e3 /\ o.disk = DiskAfter(all, k + j)
  BY <1>4
<1> QED
  BY <1>2, <1>8, <1>9 DEF p, w, k, m, j

LEMMA WritingType ==
    ASSUME content \in [Files -> Seq(Char)], NEW d \in FStream, ReadAhead(d),
           NEW line \in Seq(Char), NEW o \in Writings(d, line)
    PROVE  o.ok \in BOOLEAN /\ o.fs \in FStream /\ ReadAhead(o.fs) /\ o.disk \in Seq(Char)
<1> DEFINE all == Pending(d, line)
           n == Len(all.wbuf)
<1>1. all \in FStream /\ ReadAhead(all) /\ all.pos \in Nat /\ n \in Nat /\ Len(all.rbuf) \in Nat
  BY PendingType, FStreamFields
<1>2. Len(d.wbuf) \in Nat
  BY FStreamFields
<1> HIDE DEF all
<1>3. ASSUME NEW k \in 0..n, o.ok = TRUE, o.fs = Drained(all, k), o.disk = DiskAfter(all, k)
      PROVE  o.ok \in BOOLEAN /\ o.fs \in FStream /\ ReadAhead(o.fs) /\ o.disk \in Seq(Char)
  BY <1>1, <1>3, DrainedType, DiskAfterType
<1>4. ASSUME NEW t \in Stops(Len(d.wbuf), n), o = Refused(all, t[1], t[2], t[3])
      PROVE  o.ok \in BOOLEAN /\ o.fs \in FStream /\ ReadAhead(o.fs) /\ o.disk \in Seq(Char)
  <2>1. /\ t[1] \in Nat /\ t[3] \in Nat /\ t[1] + t[3] \in 0..n
        /\ o.ok = FALSE /\ o.fs \in FStream /\ o.disk = DiskAfter(all, t[1] + t[3])
        /\ o.fs.pos = all.pos + t[1] + t[3] /\ o.fs.rbuf = all.rbuf
    <3> DEFINE held == Len(d.wbuf)
               q == Refused(all, t[1], t[2], t[3])
    <3>1. held \in Nat /\ t \in Stops(held, Len(all.wbuf)) /\ all \in FStream /\ o = q
      BY <1>1, <1>2, <1>4
    <3> HIDE DEF held
    <3>2. /\ t[1] \in Nat /\ t[3] \in Nat /\ t[1] + t[3] \in 0..Len(all.wbuf)
          /\ q.ok = FALSE /\ q.fs \in FStream /\ q.disk = DiskAfter(all, t[1] + t[3])
          /\ q.fs.pos = all.pos + t[1] + t[3] /\ q.fs.rbuf = all.rbuf
      BY <3>1, RefusedIs
    <3> HIDE DEF q
    <3> QED
      BY <3>1, <3>2
  <2>2. o.disk \in Seq(Char)
    BY <1>1, <2>1, DiskAfterType
  <2>3. ReadAhead(o.fs)
    BY <1>1, <2>1 DEF ReadAhead
  <2> QED
    BY <2>1, <2>2, <2>3
<1>5. \/ \E k \in 0..n : o.ok = TRUE /\ o.fs = Drained(all, k) /\ o.disk = DiskAfter(all, k)
      \/ \E t \in Stops(Len(d.wbuf), n) : o = Refused(all, t[1], t[2], t[3])
  BY WritingIs, Zenon DEF all
<1> QED
  BY <1>3, <1>4, <1>5, Zenon

LEMMA TypeInit == Init => TypeInv
<1> SUFFICES ASSUME Init PROVE TypeInv
  OBVIOUS
<1>0. (CHOOSE f \in Files : TRUE) \in Files /\ (CHOOSE s \in Streams : TRUE) \in Streams
  BY StreamAssumption
<1> DEFINE f0 == CHOOSE f \in Files : TRUE
           s0 == CHOOSE s \in Streams : TRUE
<1>1. Closed(Opened(f0, {})) \in FStream /\ ReadAhead(Closed(Opened(f0, {})))
  BY <1>0, OpenedType, ClosedType
<1>2. fs = [s \in Streams |-> Closed(Opened(f0, {}))]
  BY DEF Init
<1>3. result = [op |-> "start", s |-> s0, threw |-> FALSE, str |-> <<>>]
  BY DEF Init
<1> HIDE DEF f0, s0
<1>4. fs \in [Streams -> FStream] /\ \A s \in Streams : ReadAhead(fs[s])
  BY <1>1, <1>2
<1>5. result \in Results
  BY <1>0, <1>3 DEF s0, Results
<1>6. content \in [Files -> Seq(Char)] /\ exists \in [Files -> BOOLEAN]
  <2>1. Contents \cup {<<>>} \subseteq Seq(Char)
    BY StreamAssumption, EmptySeq
  <2> QED
    BY <2>1 DEF Init
<1>7. calls \in Seq(Streams) /\ log \in [Streams -> Log]
  BY EmptySeq, NoLogType DEF Init
<1> QED
  BY <1>4, <1>5, <1>6, <1>7 DEF Init, TypeInv, TypeOK

\* One stream and its file change.
LEMMA ChangeType ==
    ASSUME TypeInv, NEW s \in Streams, NEW e \in FStream, ReadAhead(e), NEW c \in Seq(Char),
           NEW h \in Log,
           fs' = [fs EXCEPT ![s] = e], content' = [content EXCEPT ![fs[s].file] = c],
           log' = [log EXCEPT ![s] = h]
    PROVE  /\ fs' \in [Streams -> FStream] /\ \A t \in Streams : ReadAhead(fs'[t])
           /\ content' \in [Files -> Seq(Char)] /\ log' \in [Streams -> Log]
<1>1. fs[s].file \in Files /\ content \in [Files -> Seq(Char)] /\ log \in [Streams -> Log]
  BY StreamIs
<1> QED
  BY <1>1, FsUpdate

LEMMA TypeStep == TypeInv /\ [Next]_vars => TypeInv'
<1> SUFFICES ASSUME TypeInv, [Next]_vars PROVE TypeInv'
  OBVIOUS
<1>0. TypeOK
  BY DEF TypeInv
<1>e. <<>> \in Seq(Char)
  BY EmptySeq
<1>1. ASSUME NEW s \in Streams, NEW f \in Files, NEW modes \in Modes,
             stream_constructor(s, f, modes)
      PROVE  TypeInv'
  <2>1. fs' \in [Streams -> FStream] /\ \A t \in Streams : ReadAhead(fs'[t])
    BY <1>1, OpenedType, FsUpdate DEF stream_constructor
  <2>2. content' \in [Files -> Seq(Char)] /\ exists' \in [Files -> BOOLEAN]
    BY <1>0, <1>1, <1>e DEF stream_constructor, TypeOK
  <2>3. log' \in [Streams -> Log]
    <3>1. content'[f] \in Seq(Char)
      BY <2>2
    <3>2. [NoLog EXCEPT !.sole = TRUE, !.text = content'[f]] \in Log
      BY <3>1, NoLogType DEF NoLog, Log
    <3> QED
      BY <1>0, <1>1, <3>2, NoLogType DEF stream_constructor, TypeOK
  <2>4. result' \in Results
    BY <1>1, <1>e, ReturnedType DEF stream_constructor
  <2> QED
    BY <1>0, <1>1, <2>1, <2>2, <2>3, <2>4
    DEF stream_constructor, TypeInv, TypeOK
<1>2. ASSUME NEW s \in Streams, OpenThrows(s) \/ WrongArity(s)
      PROVE  TypeInv'
  <2>1. result' \in Results
    BY <1>2, <1>e, ReturnedType DEF OpenThrows, WrongArity
  <2> QED
    BY <1>2, <2>1 DEF OpenThrows, WrongArity, TypeInv, TypeOK, diskVars, heapVars
<1>3. ASSUME NEW s \in Streams, stream_close(s)
      PROVE  TypeInv'
  <2>1. PICK o \in Drainings(fs[s]) :
          /\ content' = [content EXCEPT ![fs[s].file] = o.disk]
          /\ fs' = [fs EXCEPT ![s] = SetState(Closed(fs[s]), IF o.ok /\ fs[s].open THEN {} ELSE {"fail"})]
          /\ log' = [log EXCEPT ![s] = LogDrained(log[s], fs[s].open, o.ok)]
    BY <1>3 DEF stream_close
  <2>2. o.ok \in BOOLEAN /\ o.disk \in Seq(Char)
    BY StreamIs, DrainingsType
  <2> DEFINE bits == IF o.ok /\ fs[s].open THEN {} ELSE {"fail"}
             e == SetState(Closed(fs[s]), bits)
             h == LogDrained(log[s], fs[s].open, o.ok)
  <2>3. e \in FStream /\ ReadAhead(e)
    <3>1. bits \in SUBSET {"eof", "fail", "bad"}
      OBVIOUS
    <3> HIDE DEF bits
    <3> QED
      BY <3>1, StreamIs, ClosedType, SetStateType
  <2>4. h \in Log
    BY <2>2, StreamIs, FStreamFields, LogDrainedType
  <2>5. /\ fs' = [fs EXCEPT ![s] = e] /\ log' = [log EXCEPT ![s] = h]
    BY <2>1
  <2> HIDE DEF e, h
  <2>6. /\ fs' \in [Streams -> FStream] /\ \A t \in Streams : ReadAhead(fs'[t])
        /\ content' \in [Files -> Seq(Char)] /\ log' \in [Streams -> Log]
    BY <2>1, <2>2, <2>3, <2>4, <2>5, ChangeType
  <2>7. result' \in Results
    BY <1>3, <1>e, ReturnedType DEF stream_close
  <2> QED
    BY <1>0, <1>3, <2>6, <2>7 DEF stream_close, TypeInv, TypeOK, heapVars
<1>4. ASSUME NEW s \in Streams, stream_flush(s)
      PROVE  TypeInv'
  <2>1. result' \in Results
    BY <1>4, <1>e, ReturnedType DEF stream_flush
  <2>2. /\ fs' \in [Streams -> FStream] /\ \A t \in Streams : ReadAhead(fs'[t])
        /\ content' \in [Files -> Seq(Char)] /\ log' \in [Streams -> Log]
    <3>1. CASE UNCHANGED <<content, fs, log>>
      BY <3>1 DEF TypeInv, TypeOK
    <3>2. ASSUME NEW o \in Drainings(fs[s]),
                 content' = [content EXCEPT ![fs[s].file] = o.disk],
                 fs' = [fs EXCEPT ![s] = IF o.ok THEN o.fs ELSE SetState(o.fs, {"bad"})],
                 log' = [log EXCEPT ![s] = LogDrained(log[s], fs[s].open, o.ok)]
          PROVE  /\ fs' \in [Streams -> FStream] /\ \A t \in Streams : ReadAhead(fs'[t])
                 /\ content' \in [Files -> Seq(Char)] /\ log' \in [Streams -> Log]
      <4>1. o.ok \in BOOLEAN /\ o.disk \in Seq(Char) /\ o.fs \in FStream /\ ReadAhead(o.fs)
        BY StreamIs, DrainingsType
      <4> DEFINE e == IF o.ok THEN o.fs ELSE SetState(o.fs, {"bad"})
                 h == LogDrained(log[s], fs[s].open, o.ok)
      <4>2. e \in FStream /\ ReadAhead(e)
        BY <4>1, SetStateType
      <4>3. h \in Log
        BY <4>1, StreamIs, FStreamFields, LogDrainedType
      <4>4. /\ fs' = [fs EXCEPT ![s] = e] /\ log' = [log EXCEPT ![s] = h]
        BY <3>2
      <4> HIDE DEF e, h
      <4> QED
        BY <3>2, <4>1, <4>2, <4>3, <4>4, ChangeType
    <3> QED
      BY <1>4, <3>1, <3>2 DEF stream_flush
  <2> QED
    BY <1>0, <1>4, <2>1, <2>2 DEF stream_flush, TypeInv, TypeOK, heapVars
<1>5. ASSUME NEW s \in Streams, NEW r \in Readings(fs[s]), Read(s, r)
      PROVE  /\ fs' \in [Streams -> FStream] /\ \A t \in Streams : ReadAhead(fs'[t])
             /\ content' \in [Files -> Seq(Char)] /\ log' \in [Streams -> Log]
  <2> DEFINE h == IF ~r.ok THEN LogRefused(log[s])
                  ELSE IF CanRead(fs[s]) THEN LogRead(log[s]) ELSE log[s]
  <2>1. h \in Log
    BY StreamIs, LogRefusedIs, LogReadIs
  <2>2. /\ fs' = [fs EXCEPT ![s] = r.got.fs] /\ content' = [content EXCEPT ![fs[s].file] = r.disk]
        /\ log' = [log EXCEPT ![s] = h]
    BY <1>5 DEF Read
  <2> HIDE DEF h
  <2> QED
    BY <2>1, <2>2, ReadingType, ChangeType
<1>6. ASSUME NEW s \in Streams, stream_next(s)
      PROVE  TypeInv'
  <2>1. PICK r \in Readings(fs[s]) :
          /\ Read(s, r)
          /\ Returned("next", s, "eof" \in r.got.fs.state,
                      IF "eof" \in r.got.fs.state THEN <<>> ELSE CStr(r.got.line))
    BY <1>6 DEF stream_next
  <2>2. (IF "eof" \in r.got.fs.state THEN <<>> ELSE CStr(r.got.line)) \in Seq(Char)
    BY <1>e, ReadingType, CStrType
  <2>3. ("eof" \in r.got.fs.state) \in BOOLEAN
    OBVIOUS
  <2>4. result' \in Results
    BY <2>1, <2>2, <2>3, ReturnedType
  <2> QED
    BY <1>0, <1>5, <1>6, <2>1, <2>4 DEF stream_next, TypeInv, TypeOK, heapVars
<1>7. ASSUME NEW s \in Streams, stream_readLine(s)
      PROVE  TypeInv'
  <2>1. CASE /\ Returned("readLine", s, FALSE, <<>>)
             /\ UNCHANGED <<content, fs, log>>
    <3>1. result' \in Results
      BY <1>e, <2>1, ReturnedType
    <3> QED
      BY <1>0, <1>7, <2>1, <3>1 DEF stream_readLine, TypeInv, TypeOK, heapVars
  <2>2. ASSUME NEW r \in Readings(fs[s]), Read(s, r),
               Returned("readLine", s, FALSE, CStr(Append(r.got.line, "nl")))
        PROVE  TypeInv'
    <3>1. CStr(Append(r.got.line, "nl")) \in Seq(Char)
      BY ReadingType, LineIsText, CStrType
    <3>2. result' \in Results
      BY <2>2, <3>1, ReturnedType
    <3> QED
      BY <1>0, <1>5, <1>7, <2>2, <3>2 DEF stream_readLine, TypeInv, TypeOK, heapVars
  <2> QED
    BY <1>7, <2>1, <2>2 DEF stream_readLine
<1>8. ASSUME NEW s \in Streams, WriteLineCall(s)
      PROVE  TypeInv'
  <2>1. calls' \in Seq(Streams)
    BY <1>0, <1>8, AppendProperties DEF WriteLineCall, TypeOK
  <2> QED
    BY <1>8, <2>1 DEF WriteLineCall, TypeInv, TypeOK, diskVars, heapVars
<1>9. ASSUME NEW line \in Lines, stream_writeLine(line)
      PROVE  TypeInv'
  <2> DEFINE s == calls[Len(calls)]
             d == fs[s]
  <2>1. s \in Streams /\ calls' \in Seq(Streams)
    <3>1. calls \in Seq(Streams) /\ calls # <<>>
      BY <1>0, <1>9 DEF TypeOK, stream_writeLine
    <3>2. Len(calls) \in 1..Len(calls)
      BY <3>1, EmptySeq
    <3>3. \A i \in 1..(Len(calls) - 1) : calls[i] \in Streams
      BY <3>1
    <3>4. SubSeq(calls, 1, Len(calls) - 1) \in Seq(Streams)
      BY <3>2, <3>3, SubSeqProperties
    <3> QED
      BY <1>9, <3>1, <3>2, <3>4, ElementOfSeq DEF stream_writeLine
  <2>2. line \in Seq(Char)
    BY StreamAssumption
  <2>3. result' \in Results
    <3>1. Returned("writeLine", s, FALSE, <<>>)
      BY <1>9 DEF stream_writeLine
    <3> QED
      BY <1>e, <2>1, <3>1, ReturnedType
  <2>4. UNCHANGED <<exists, object, data, weak, running>>
    BY <1>9 DEF stream_writeLine, heapVars
  <2> DEFINE Wrote(o) ==
               /\ content' = [content EXCEPT ![d.file] = o.disk]
               /\ fs' = [fs EXCEPT ![s] = o.fs]
               /\ log' = [log EXCEPT ![s] = IF o.ok THEN LogWrite(log[s], line) ELSE LogRefused(log[s])]
             Ignored == /\ fs' = [fs EXCEPT ![s] = SetState(d, IF Good(d) THEN {"bad"} ELSE {"fail"})]
                        /\ UNCHANGED <<content, log>>
  <2>5. (\E o \in Writings(d, line) : Wrote(o)) \/ Ignored
    BY <1>9 DEF stream_writeLine
  <2> HIDE DEF s
  <2>6. /\ fs' \in [Streams -> FStream] /\ \A t \in Streams : ReadAhead(fs'[t])
        /\ content' \in [Files -> Seq(Char)] /\ log' \in [Streams -> Log]
    <3>1. ASSUME NEW o \in Writings(d, line), Wrote(o)
          PROVE  /\ fs' \in [Streams -> FStream] /\ \A t \in Streams : ReadAhead(fs'[t])
                 /\ content' \in [Files -> Seq(Char)] /\ log' \in [Streams -> Log]
      <4> DEFINE h == IF o.ok THEN LogWrite(log[s], line) ELSE LogRefused(log[s])
      <4>1. o.ok \in BOOLEAN /\ o.disk \in Seq(Char) /\ o.fs \in FStream /\ ReadAhead(o.fs)
        BY <2>1, <2>2, StreamIs, WritingType
      <4>2. h \in Log
        BY <2>1, <2>2, StreamIs, LogWriteIs, LogRefusedIs
      <4>3. log' = [log EXCEPT ![s] = h]
        BY <3>1
      <4> HIDE DEF h
      <4> QED
        BY <2>1, <3>1, <4>1, <4>2, <4>3, ChangeType
    <3>2. CASE Ignored
      <4> DEFINE e == SetState(d, IF Good(d) THEN {"bad"} ELSE {"fail"})
      <4>1. e \in FStream /\ ReadAhead(e)
        BY <2>1, StreamIs, SetStateType
      <4>2. fs' = [fs EXCEPT ![s] = e] /\ content' = content /\ log' = log
        BY <3>2
      <4> HIDE DEF e
      <4> QED
        BY <1>0, <2>1, <4>1, <4>2, FsUpdate DEF TypeOK
    <3> QED
      BY <2>5, <3>1, <3>2
  <2> QED
    BY <1>0, <2>1, <2>3, <2>4, <2>6 DEF TypeInv, TypeOK
<1>10. ASSUME NEW s \in Streams, Drop(s)
       PROVE  TypeInv'
  BY <1>10 DEF Drop, TypeInv, TypeOK, diskVars
<1>11. ASSUME NEW s \in Streams, CleanupStream(s)
       PROVE  TypeInv'
  <2>1. PICK o \in Drainings(fs[s]) :
          /\ content' = [content EXCEPT ![fs[s].file] = o.disk]
          /\ fs' = [fs EXCEPT ![s] = Closed(fs[s])]
          /\ log' = [log EXCEPT ![s] = LogDrained(log[s], fs[s].open, o.ok)]
    BY <1>11 DEF CleanupStream
  <2>2. o.ok \in BOOLEAN /\ o.disk \in Seq(Char)
    BY StreamIs, DrainingsType
  <2>3. Closed(fs[s]) \in FStream /\ ReadAhead(Closed(fs[s]))
    BY StreamIs, ClosedType
  <2>4. LogDrained(log[s], fs[s].open, o.ok) \in Log
    BY <2>2, StreamIs, FStreamFields, LogDrainedType
  <2>5. /\ fs' \in [Streams -> FStream] /\ \A t \in Streams : ReadAhead(fs'[t])
        /\ content' \in [Files -> Seq(Char)] /\ log' \in [Streams -> Log]
    BY <2>1, <2>2, <2>3, <2>4, ChangeType
  <2> QED
    BY <1>0, <1>11, <2>5 DEF CleanupStream, TypeInv, TypeOK
<1>12. CASE Exit \/ \E s \in Streams : OpenCrashes(s)
  BY <1>12 DEF Exit, OpenCrashes, TypeInv, TypeOK, diskVars, heapVars
<1>13. CASE UNCHANGED vars
  BY <1>13 DEF vars, TypeInv, TypeOK, diskVars, heapVars
<1> QED
  BY <1>1, <1>2, <1>3, <1>4, <1>6, <1>7, <1>8, <1>9, <1>10, <1>11, <1>12, <1>13 DEF Next

\* Every reachable state of a script that uses streams is well typed, for any
\* set of streams and files; in particular no seek leaves the file.
THEOREM TypeCorrect == Spec => []TypeOK
<1>1. TypeInv => TypeOK
  BY DEF TypeInv
<1> QED
  BY <1>1, TypeInit, TypeStep, PTL DEF Spec

-----------------------------------------------------------------------------
(* Ownership of the fstream.  The invariant ties the three views of a        *)
(* stream together: what the script can reach, the memory behind the         *)
(* internal field, and the weak handle.                                      *)

LifeInv ==
    \A s \in Streams :
        /\ object[s] = "none" => data[s] = "none" /\ weak[s] = "none" /\ ~Held(s)
        /\ object[s] = "reachable" => data[s] = "live" /\ weak[s] = "WEAK"
        /\ object[s] = "garbage" =>
              \/ data[s] = "live" /\ weak[s] = "WEAK"
              \/ data[s] = "deleted" /\ weak[s] = "NEAR_DEATH" /\ ~Held(s)

LEMMA LifeImpliesLive == TypeOK /\ LifeInv => CallsUseLiveStream
BY DEF TypeOK, LifeInv, CallsUseLiveStream

LEMMA LifeInit == Init => LifeInv
<1>1. ASSUME Init, NEW s \in Streams
      PROVE  ~Held(s) /\ object[s] = "none" /\ data[s] = "none" /\ weak[s] = "none"
  <2>1. calls = <<>> /\ object[s] = "none" /\ data[s] = "none" /\ weak[s] = "none"
    BY <1>1 DEF Init
  <2>2. 1..Len(calls) = {}
    BY <2>1
  <2> QED
    BY <2>1, <2>2 DEF Held
<1> QED
  BY <1>1 DEF LifeInv

\* Returning from a call only takes handles away.
LEMMA HeldAfterReturn ==
    ASSUME TypeOK, calls # <<>>, calls' = SubSeq(calls, 1, Len(calls) - 1),
           NEW s \in Streams, Held(s)'
    PROVE  Held(s)
<1>1. calls \in Seq(Streams) /\ Len(calls) \in Nat /\ Len(calls) > 0
  BY EmptySeq DEF TypeOK
<1>2. \A i \in 1..(Len(calls) - 1) : calls[i] \in Streams
  BY <1>1
<1>3. /\ Len(calls') = Len(calls) - 1
      /\ \A i \in 1..(Len(calls) - 1) : calls'[i] = calls[i]
  <2> DEFINE n == Len(calls) - 1
  <2>1. n \in Int /\ n >= 0
    BY <1>1
  <2>2. /\ Len(SubSeq(calls, 1, n)) = IF 1 <= n THEN n - 1 + 1 ELSE 0
        /\ \A i \in 1..(n - 1 + 1) : SubSeq(calls, 1, n)[i] = calls[1 + i - 1]
    BY <1>2, <2>1, SubSeqProperties
  <2>3. calls' = SubSeq(calls, 1, n)
    OBVIOUS
  <2> HIDE DEF n
  <2>4. Len(calls') = n /\ \A i \in 1..n : calls'[i] = calls[i]
    BY <2>1, <2>2, <2>3
  <2> QED
    BY <2>4 DEF n
<1> QED
  BY <1>1, <1>3 DEF Held

LEMMA HeldAfterCall ==
    ASSUME TypeOK, NEW t \in Streams, calls' = Append(calls, t),
           NEW s \in Streams, Held(s)'
    PROVE  s = t \/ Held(s)
<1>1. calls \in Seq(Streams)
  BY DEF TypeOK
<1>2. /\ Len(calls') = Len(calls) + 1
      /\ calls'[Len(calls) + 1] = t
      /\ \A i \in 1..Len(calls) : calls'[i] = calls[i]
  BY <1>1, AppendProperties
<1> QED
  BY <1>1, <1>2 DEF Held

\* The stream whose writeLine resumes is held by that call.
LEMMA InnermostIsHeld ==
    ASSUME TypeOK, calls # <<>>
    PROVE  calls[Len(calls)] \in Streams /\ Held(calls[Len(calls)])
<1>1. calls \in Seq(Streams) /\ Len(calls) \in 1..Len(calls)
  BY EmptySeq DEF TypeOK
<1> QED
  BY <1>1, ElementOfSeq DEF Held

LEMMA LifeStep == TypeOK /\ LifeInv /\ [Next]_vars => LifeInv'
<1> SUFFICES ASSUME TypeOK, LifeInv, [Next]_vars PROVE LifeInv'
  OBVIOUS
<1>0. /\ object \in [Streams -> {"none", "reachable", "garbage"}]
      /\ data \in [Streams -> {"none", "live", "deleted"}]
      /\ weak \in [Streams -> {"none", "WEAK", "NEAR_DEATH"}]
  BY DEF TypeOK
<1>1. ASSUME NEW s \in Streams, NEW f \in Files, NEW modes \in Modes,
             stream_constructor(s, f, modes)
      PROVE  LifeInv'
  BY <1>0, <1>1 DEF stream_constructor, LifeInv, Held
<1>2. ASSUME NEW s \in Streams, OpenThrows(s) \/ WrongArity(s)
      PROVE  LifeInv'
  <2>1. UNCHANGED <<object, data, weak, calls>>
    BY <1>2 DEF OpenThrows, WrongArity, heapVars
  <2> QED
    BY <2>1 DEF LifeInv, Held
<1>3. ASSUME NEW s \in Streams,
             stream_close(s) \/ stream_flush(s) \/ stream_next(s) \/ stream_readLine(s)
      PROVE  LifeInv'
  <2>1. UNCHANGED <<object, data, weak, calls>>
    BY <1>3 DEF stream_close, stream_flush, stream_next, stream_readLine, heapVars
  <2> QED
    BY <2>1 DEF LifeInv, Held
<1>4. ASSUME NEW s \in Streams, WriteLineCall(s)
      PROVE  LifeInv'
  <2>1. object[s] = "reachable" /\ UNCHANGED <<object, data, weak>>
    BY <1>4 DEF WriteLineCall, CanCall, heapVars
  <2>2. \A t \in Streams : Held(t)' => t = s \/ Held(t)
    BY <1>4, HeldAfterCall DEF WriteLineCall
  <2> QED
    BY <2>1, <2>2 DEF LifeInv
<1>5. ASSUME NEW line \in Lines, stream_writeLine(line)
      PROVE  LifeInv'
  <2>1. UNCHANGED <<object, data, weak>> /\ calls # <<>>
        /\ calls' = SubSeq(calls, 1, Len(calls) - 1)
    BY <1>5 DEF stream_writeLine, heapVars
  <2>2. \A t \in Streams : Held(t)' => Held(t)
    BY <2>1, HeldAfterReturn
  <2> QED
    BY <2>1, <2>2 DEF LifeInv
<1>6. ASSUME NEW s \in Streams, Drop(s)
      PROVE  LifeInv'
  BY <1>0, <1>6 DEF Drop, CanCall, LifeInv, Held
<1>7. ASSUME NEW s \in Streams, CleanupStream(s)
      PROVE  LifeInv'
  BY <1>0, <1>7 DEF CleanupStream, LifeInv, Held
<1>8. CASE Exit \/ \E s \in Streams : OpenCrashes(s)
  BY <1>8 DEF Exit, OpenCrashes, LifeInv, Held, heapVars
<1>9. CASE UNCHANGED vars
  BY <1>9 DEF vars, LifeInv, Held, heapVars
<1> QED
  BY <1>1, <1>2, <1>3, <1>4, <1>5, <1>6, <1>7, <1>8, <1>9 DEF Next

LEMMA LifeInvariant == Spec => [](TypeInv /\ LifeInv)
<1>1. TypeInv => TypeOK
  BY DEF TypeInv
<1> QED
  BY <1>1, TypeInit, TypeStep, LifeInit, LifeStep, PTL DEF Spec

\* No method, and no writeLine suspended in its argument's toString, ever holds
\* the address of a deleted fstream.
THEOREM CallsAreSafe == Spec => []CallsUseLiveStream
<1>1. TypeInv => TypeOK
  BY DEF TypeInv
<1> QED
  BY <1>1, LifeInvariant, LifeImpliesLive, PTL

-----------------------------------------------------------------------------
(* What a file holds after a write.                                         *)

LEMMA WriteAtIs ==
    ASSUME NEW c \in Seq(Char), NEW p \in Nat, NEW w \in Seq(Char)
    PROVE  /\ WriteAt(c, p, w) \in Seq(Char)
           /\ Len(WriteAt(c, p, w)) =
                IF w # <<>> /\ p + Len(w) > Len(c) THEN p + Len(w) ELSE Len(c)
           /\ \A i \in 1..Len(WriteAt(c, p, w)) :
                WriteAt(c, p, w)[i] = IF p < i /\ i <= p + Len(w) THEN w[i - p]
                                      ELSE IF i <= Len(c) THEN c[i] ELSE "nul"
<1>1. CASE w = <<>>
  <2>1. WriteAt(c, p, w) = c /\ Len(w) = 0
    BY <1>1 DEF WriteAt
  <2> QED
    BY <1>1, <2>1
<1>2. CASE w # <<>>
  <2> DEFINE n == IF p + Len(w) > Len(c) THEN p + Len(w) ELSE Len(c)
             e(i) == IF p < i /\ i <= p + Len(w) THEN w[i - p]
                     ELSE IF i <= Len(c) THEN c[i] ELSE "nul"
             v == [i \in 1..n |-> e(i)]
  <2>1. n \in Nat
    OBVIOUS
  <2>2. WriteAt(c, p, w) = v
    BY <1>2 DEF WriteAt
  <2>3. v \in Seq(Char)
    BY <2>2, WriteAtType
  <2>4. Len(v) = n /\ \A i \in 1..n : v[i] = e(i)
    BY <2>1
  <2> HIDE DEF v
  <2> QED
    BY <1>2, <2>2, <2>3, <2>4
<1> QED
  BY <1>1, <1>2

\* Two writes one behind the other are one write.
LEMMA WriteTwice ==
    ASSUME NEW c \in Seq(Char), NEW p \in Nat, NEW a \in Seq(Char), NEW b \in Seq(Char)
    PROVE  WriteAt(WriteAt(c, p, a), p + Len(a), b) = WriteAt(c, p, a \o b)
<1>1. CASE a = <<>>
  <2>1. WriteAt(c, p, a) = c /\ p + Len(a) = p
    BY <1>1 DEF WriteAt
  <2>2. a \o b = b
    BY <1>1, ConcatEmptySeq
  <2> QED
    BY <2>1, <2>2
<1>2. CASE b = <<>>
  <2>1. a \o b = a
    BY <1>2, ConcatEmptySeq
  <2>2. WriteAt(WriteAt(c, p, a), p + Len(a), b) = WriteAt(c, p, a)
    BY <1>2 DEF WriteAt
  <2> QED
    BY <2>1, <2>2
<1>3. CASE a # <<>> /\ b # <<>>
  <2> DEFINE u == WriteAt(c, p, a)
             q == p + Len(a)
             x == WriteAt(u, q, b)
             y == WriteAt(c, p, a \o b)
  <2>1. /\ Len(a) \in Nat /\ Len(a) > 0 /\ Len(b) \in Nat /\ Len(b) > 0 /\ q \in Nat /\ Len(c) \in Nat
    BY <1>3, EmptySeq
  <2>2. /\ a \o b \in Seq(Char) /\ Len(a \o b) = Len(a) + Len(b)
        /\ \A i \in 1..(Len(a) + Len(b)) : (a \o b)[i] = IF i <= Len(a) THEN a[i] ELSE b[i - Len(a)]
    BY ConcatProperties
  <2>3. a \o b # <<>>
    <3>1. Len(a \o b) # 0
      BY <2>1, <2>2
    <3> QED
      BY <3>1
  <2>4. /\ u \in Seq(Char) /\ Len(u) = IF q > Len(c) THEN q ELSE Len(c)
        /\ \A i \in 1..Len(u) : u[i] = IF p < i /\ i <= q THEN a[i - p]
                                       ELSE IF i <= Len(c) THEN c[i] ELSE "nul"
    BY <1>3, WriteAtIs
  <2> HIDE DEF u, q
  <2>5. /\ x \in Seq(Char) /\ Len(x) = IF q + Len(b) > Len(u) THEN q + Len(b) ELSE Len(u)
        /\ \A i \in 1..Len(x) : x[i] = IF q < i /\ i <= q + Len(b) THEN b[i - q]
                                       ELSE IF i <= Len(u) THEN u[i] ELSE "nul"
    BY <1>3, <2>1, <2>4, WriteAtIs
  <2>6. /\ y \in Seq(Char)
        /\ Len(y) = IF p + Len(a \o b) > Len(c) THEN p + Len(a \o b) ELSE Len(c)
        /\ \A i \in 1..Len(y) : y[i] = IF p < i /\ i <= p + Len(a \o b) THEN (a \o b)[i - p]
                                       ELSE IF i <= Len(c) THEN c[i] ELSE "nul"
    BY <2>2, <2>3, WriteAtIs
  <2> HIDE DEF x, y
  <2>7. q = p + Len(a) /\ p + Len(a \o b) = q + Len(b)
    BY <2>1, <2>2 DEF q
  <2>8. Len(x) = Len(y) /\ Len(x) \in Nat
    <3> DEFINE lu == Len(u) lc == Len(c) lb == Len(b) lx == Len(x) ly == Len(y)
    <3>1. lu = (IF q > lc THEN q ELSE lc) /\ lx = (IF q + lb > lu THEN q + lb ELSE lu)
          /\ ly = (IF q + lb > lc THEN q + lb ELSE lc) /\ lb \in Nat /\ lc \in Nat /\ q \in Nat /\ lb > 0
      BY <2>1, <2>4, <2>5, <2>6, <2>7
    <3> HIDE DEF lu, lc, lb, lx, ly
    <3>2. lx = ly /\ lx \in Nat
      BY <3>1
    <3> QED
      BY <3>2 DEF lx, ly
  <2>9. ASSUME NEW i \in 1..Len(x) PROVE x[i] = y[i]
    <3>0. i \in Nat /\ i >= 1
      BY <2>8
    <3>1. CASE q < i /\ i <= q + Len(b)
      <4>1. x[i] = b[i - q]
        BY <2>5, <3>1
      <4>2. p < i /\ i <= p + Len(a \o b)
        BY <2>1, <2>7, <3>0, <3>1
      <4>3. y[i] = (a \o b)[i - p]
        BY <2>6, <2>8, <4>2
      <4> DEFINE k == i - p
      <4>4. k \in 1..(Len(a) + Len(b)) /\ ~(k <= Len(a)) /\ k - Len(a) = i - q
        BY <2>1, <2>7, <3>0, <3>1
      <4>5. (a \o b)[k] = b[k - Len(a)]
        <5> HIDE DEF k
        <5> QED
          BY <2>2, <4>4
      <4> QED
        BY <4>1, <4>3, <4>4, <4>5
    <3>2. CASE p < i /\ i <= q
      <4>1. i <= Len(u) /\ ~(q < i)
        <5> DEFINE lu == Len(u)
        <5>1. lu = (IF q > Len(c) THEN q ELSE Len(c))
          BY <2>4
        <5> HIDE DEF lu
        <5>2. i <= lu
          BY <2>1, <3>0, <3>2, <5>1
        <5> QED
          BY <2>1, <3>0, <3>2, <5>2 DEF lu
      <4>2. x[i] = u[i]
        BY <2>5, <4>1
      <4>3. u[i] = a[i - p]
        <5>1. i \in 1..Len(u)
          BY <2>4, <3>0, <4>1
        <5> QED
          BY <2>4, <3>2, <5>1
      <4> DEFINE k == i - p
      <4>4. k \in 1..(Len(a) + Len(b)) /\ k <= Len(a) /\ i <= p + Len(a \o b)
        BY <2>1, <2>7, <3>0, <3>2
      <4>5. y[i] = (a \o b)[k]
        BY <2>6, <2>8, <3>2, <4>4
      <4>6. (a \o b)[k] = a[k]
        <5> HIDE DEF k
        <5> QED
          BY <2>2, <4>4
      <4> QED
        BY <4>2, <4>3, <4>5, <4>6
    <3>3. CASE ~(p < i /\ i <= q + Len(b))
      <4>1. ~(q < i /\ i <= q + Len(b)) /\ ~(p < i /\ i <= q)
        BY <2>1, <2>7, <3>0, <3>3
      <4>2. x[i] = IF i <= Len(u) THEN u[i] ELSE "nul"
        BY <2>5, <4>1
      <4>3. y[i] = IF i <= Len(c) THEN c[i] ELSE "nul"
        BY <2>6, <2>7, <2>8, <3>3
      <4>4. i <= Len(u) => u[i] = IF i <= Len(c) THEN c[i] ELSE "nul"
        <5>1. i <= Len(u) => i \in 1..Len(u)
          BY <2>4, <3>0
        <5> QED
          BY <2>4, <4>1, <5>1
      <4>5. ~(i <= Len(u)) => ~(i <= Len(c))
        <5> DEFINE lu == Len(u)
        <5>1. lu = (IF q > Len(c) THEN q ELSE Len(c))
          BY <2>4
        <5> HIDE DEF lu
        <5>2. ~(i <= lu) => ~(i <= Len(c))
          BY <2>1, <3>0, <5>1
        <5> QED
          BY <5>2 DEF lu
      <4> QED
        BY <4>2, <4>3, <4>4, <4>5
    <3> QED
      BY <2>1, <2>7, <3>0, <3>1, <3>2, <3>3
  <2>10. x = y
    BY <2>5, <2>6, <2>8, <2>9, SeqEqual
  <2> QED
    BY <2>10 DEF x, y, u, q
<1> QED
  BY <1>1, <1>2, <1>3

\* A write changes nothing before its place, nor does it shorten the file.
LEMMA WriteAtKeeps ==
    ASSUME NEW c \in Seq(Char), NEW p \in Nat, NEW w \in Seq(Char)
    PROVE  /\ Len(c) <= Len(WriteAt(c, p, w))
           /\ p <= Len(c) => p + Len(w) <= Len(WriteAt(c, p, w))
           /\ \A i \in 1..Len(c) : i <= p => WriteAt(c, p, w)[i] = c[i]
<1> DEFINE v == WriteAt(c, p, w)
           lw == Len(w) lc == Len(c) lv == Len(v)
<1>1. /\ lw \in Nat /\ lc \in Nat /\ lv = (IF w # <<>> /\ p + lw > lc THEN p + lw ELSE lc)
      /\ (w = <<>> => lw = 0)
      /\ \A i \in 1..lv : v[i] = IF p < i /\ i <= p + lw THEN w[i - p]
                                 ELSE IF i <= lc THEN c[i] ELSE "nul"
  BY WriteAtIs
<1> HIDE DEF v, lw, lc, lv
<1>2. lc <= lv /\ (p <= lc => p + lw <= lv)
  BY <1>1
<1>3. ASSUME NEW i \in 1..lc, i <= p PROVE v[i] = c[i]
  <2>1. i \in 1..lv /\ ~(p < i) /\ i <= lc
    BY <1>1, <1>2, <1>3
  <2> QED
    BY <1>1, <2>1
<1> QED
  BY <1>2, <1>3 DEF v, lw, lc, lv

LEMMA ThreeTexts ==
    ASSUME NEW a \in Seq(Char), NEW b \in Seq(Char), NEW c \in Seq(Char)
    PROVE  (a \o b) \o c = a \o (b \o c)
<1> DEFINE l == (a \o b) \o c
           r == a \o (b \o c)
<1>1. /\ a \o b \in Seq(Char) /\ Len(a \o b) = Len(a) + Len(b)
      /\ b \o c \in Seq(Char) /\ Len(b \o c) = Len(b) + Len(c)
  BY ConcatProperties
<1>2. /\ l \in Seq(Char) /\ r \in Seq(Char)
      /\ Len(l) = Len(a) + Len(b) + Len(c) /\ Len(r) = Len(l)
  BY <1>1, ConcatProperties
<1>3. ASSUME NEW i \in 1..Len(l) PROVE l[i] = r[i]
  BY <1>1, <1>2, ConcatProperties
<1> QED
  BY <1>2, <1>3, SeqEqual

\* What is written first and what stays pending are what was pending.
LEMMA SplitAt ==
    ASSUME NEW w \in Seq(Char), NEW k \in 0..Len(w)
    PROVE  /\ SubSeq(w, 1, k) \in Seq(Char) /\ SubSeq(w, k + 1, Len(w)) \in Seq(Char)
           /\ Len(SubSeq(w, 1, k)) = k
           /\ SubSeq(w, 1, k) \o SubSeq(w, k + 1, Len(w)) = w
           /\ k = Len(w) => SubSeq(w, 1, k) = w
<1>1. Len(w) \in Nat /\ k \in Nat /\ k <= Len(w)
  OBVIOUS
<1>2. /\ SubSeq(w, 1, k) \in Seq(Char) /\ SubSeq(w, k + 1, Len(w)) \in Seq(Char)
      /\ Len(SubSeq(w, 1, k)) = k
  BY <1>1, SubSeqType
<1>3. SubSeq(w, 1, Len(w)) = w
  BY SubSeqFull
<1>4. SubSeq(w, 1, k) \o SubSeq(w, k + 1, Len(w)) = SubSeq(w, 1, Len(w))
  <2>1. 1 \in 1..Len(w) + 1 /\ k \in (1 - 1)..Len(w) /\ Len(w) \in k..Len(w)
    BY <1>1
  <2> QED
    BY <2>1, ConcatAdjacentSubSeq
<1> QED
  BY <1>2, <1>3, <1>4

\* The characters a reader can still get, one by one.
LEMMA AvailableAt ==
    ASSUME NEW d \in FStream, NEW c \in Seq(Char), NEW i \in 1..Len(Available(d, c))
    PROVE  /\ i <= Len(d.rbuf) => Available(d, c)[i] = d.rbuf[i]
           /\ i > Len(d.rbuf) => /\ d.pos < Len(c) /\ i - Len(d.rbuf) <= Len(c) - d.pos
                                 /\ Available(d, c)[i] = c[d.pos + i - Len(d.rbuf)]
<1> DEFINE t == IF d.pos < Len(c) THEN SubSeq(c, d.pos + 1, Len(c)) ELSE <<>>
<1>1. d.rbuf \in Seq(Char) /\ d.pos \in Nat /\ Len(d.rbuf) \in Nat /\ Len(c) \in Nat
  BY FStreamFields
<1>2. t \in Seq(Char) /\ Len(t) = (IF d.pos < Len(c) THEN Len(c) - d.pos ELSE 0)
  BY <1>1, SubSeqType
<1>3. \A j \in 1..Len(t) : t[j] = c[d.pos + j]
  <2> SUFFICES ASSUME NEW j \in 1..Len(t) PROVE t[j] = c[d.pos + j]
    OBVIOUS
  <2>1. d.pos < Len(c) /\ j \in 1..(Len(c) - (d.pos + 1) + 1)
    BY <1>1, <1>2
  <2>2. t[j] = c[(d.pos + 1) + j - 1]
    BY <1>1, <2>1, SubSeqType, SMTT(30)
  <2> QED
    BY <1>1, <2>2, SMTT(30)
<1>4. Available(d, c) = d.rbuf \o t
  BY DEF Available
<1> HIDE DEF t
<1>5. /\ Len(d.rbuf \o t) = Len(d.rbuf) + Len(t)
      /\ \A j \in 1..(Len(d.rbuf) + Len(t)) :
           (d.rbuf \o t)[j] = IF j <= Len(d.rbuf) THEN d.rbuf[j] ELSE t[j - Len(d.rbuf)]
  BY <1>1, <1>2, ConcatProperties
<1>6. CASE i <= Len(d.rbuf)
  BY <1>1, <1>2, <1>4, <1>5, <1>6
<1>7. CASE i > Len(d.rbuf)
  <2> DEFINE j == i - Len(d.rbuf)
  <2>1. j \in 1..Len(t) /\ Available(d, c)[i] = t[j]
    BY <1>1, <1>2, <1>4, <1>5, <1>7, SMTT(30)
  <2>2. t[j] = c[d.pos + j]
    BY <1>3, <2>1
  <2>3. d.pos + j = d.pos + i - Len(d.rbuf)
    BY <1>1
  <2>4. d.pos < Len(c) /\ j <= Len(c) - d.pos
    BY <1>1, <1>2, <2>1
  <2> QED
    BY <1>1, <1>7, <2>1, <2>2, <2>3, <2>4
<1> QED
  BY <1>1, <1>6, <1>7

\* A refill brings all that was asked for, or all there is.
LEMMA RefillSuffices ==
    ASSUME NEW p \in Nat, NEW l \in Nat, NEW q \in Nat, p + q <= l
    PROVE  p + q <= Refilled(p, l, q)
<1> DEFINE x == q + BufSize - 1
           r == x \div BufSize
<1>0. BufSize \in Nat /\ BufSize > 0
  BY StreamAssumption
<1>1. x \in Nat
  BY <1>0
<1>2. Refilled(p, l, q) = IF p + r * BufSize > l THEN l ELSE p + r * BufSize
  BY DEF Refilled
<1>3. r \in Nat /\ (x % BufSize) \in Nat /\ (x % BufSize) < BufSize
      /\ x = r * BufSize + (x % BufSize)
  <2> HIDE DEF x
  <2> QED
    BY <1>0, <1>1
<1> DEFINE m == r * BufSize
<1>4. m \in Nat
  <2> HIDE DEF r
  <2> QED
    BY <1>0, <1>3
<1>5. q <= m
  <2> DEFINE y == x % BufSize
  <2>1. y \in Nat /\ y < BufSize /\ x = m + y
    BY <1>3
  <2> HIDE DEF y, m
  <2> QED
    BY <1>0, <1>4, <2>1
<1> HIDE DEF m
<1> QED
  BY <1>2, <1>4, <1>5 DEF m

-----------------------------------------------------------------------------
(* The fields of a fstream after each of its operations.                    *)

LEMMA SetStateFields ==
    ASSUME NEW d \in FStream, NEW bits \in SUBSET {"eof", "fail", "bad"}
    PROVE  LET e == SetState(d, bits) IN
           /\ e \in FStream
           /\ e.file = d.file /\ e.mode = d.mode /\ e.open = d.open
           /\ e.pos = d.pos /\ e.rbuf = d.rbuf /\ e.wbuf = d.wbuf
BY DEF SetState, FStream

LEMMA ClosedFields ==
    ASSUME NEW d \in FStream
    PROVE  LET e == Closed(d) IN
           /\ e.file = d.file /\ e.mode = {} /\ e.open = FALSE /\ e.pos = 0
           /\ e.rbuf = <<>> /\ e.wbuf = <<>>
BY DEF Closed, FStream

LEMMA DrainedFields ==
    ASSUME NEW d \in FStream, NEW k
    PROVE  LET e == Drained(d, k) IN
           /\ e.file = d.file /\ e.mode = d.mode /\ e.open = d.open
           /\ e.pos = d.pos + k /\ e.rbuf = d.rbuf
           /\ e.wbuf = SubSeq(d.wbuf, k + 1, Len(d.wbuf))
BY DEF Drained, FStream

LEMMA PendingFields ==
    ASSUME NEW d \in FStream, NEW line
    PROVE  LET e == Pending(d, line) IN
           /\ e.file = d.file /\ e.mode = d.mode /\ e.open = d.open
           /\ e.pos = d.pos - Len(d.rbuf) /\ e.rbuf = <<>>
           /\ e.wbuf = d.wbuf \o Append(line, "nl")
BY DEF Pending, FStream

-----------------------------------------------------------------------------
(* The inductive invariant.  FlushedIsDurable speaks of the disk alone; what *)
(* keeps it is that the offset never goes back before what was flushed, and  *)
(* that no other stream on the file can write.                               *)

\* A closed fstream has no mode; only a stream open for output has output
\* pending, only one open for input has read ahead, and none has both.
Buffers(d) ==
    /\ ~d.open => d.mode = {}
    /\ d.wbuf # <<>> => "out" \in d.mode /\ d.rbuf = <<>>
    /\ "in" \notin d.mode => d.rbuf = <<>>

\* No other stream can write to the file of s.
Alone(s) ==
    \A t \in Streams \ {s} : fs[t].file = fs[s].file => "out" \notin fs[t].mode

\* The file that holds c begins with what was flushed through d, and the next
\* write through d cannot reach it.
Saved(d, c, h) ==
    /\ h.safe <= Len(c) /\ h.safe <= h.at /\ h.at <= Len(h.text)
    /\ \A i \in 1..h.safe : c[i] = h.text[i]
    /\ d.open => d.pos <= Len(c) /\ h.safe + Len(d.rbuf) <= d.pos

\* File, buffer and offset are together what the calls asked for.
Meets(d, c, h) ==
    /\ WriteAt(c, d.pos, d.wbuf) = h.text
    /\ d.open => Place(d) = h.at /\ d.rbuf = SubSeq(c, d.pos - Len(d.rbuf) + 1, d.pos)

Fits(d, c, h) == Saved(d, c, h) /\ (~h.refused => Meets(d, c, h))

DiskInv ==
    \A s \in Streams :
        /\ Buffers(fs[s])
        /\ object[s] = "none" => fs[s].mode = {} /\ log[s] = NoLog
        /\ log[s].sole => Alone(s) /\ Fits(fs[s], content[fs[s].file], log[s])

LEMMA DiskImpliesDurable == DiskInv => FlushedIsDurable /\ BuffersAreInvisible
BY DEF DiskInv, Fits, Saved, Meets, FlushedIsDurable, BuffersAreInvisible

\* What is flushed stays when more is written behind it.
LEMMA SavedDrains ==
    ASSUME NEW d \in FStream, NEW c \in Seq(Char), NEW h \in Log, Saved(d, c, h), Buffers(d),
           NEW k \in 0..Len(d.wbuf),
           NEW e \in FStream, e.open = d.open, e.pos = d.pos + k, e.rbuf = d.rbuf
    PROVE  Saved(e, WriteAt(c, d.pos, SubSeq(d.wbuf, 1, k)), h)
<1> DEFINE w == SubSeq(d.wbuf, 1, k)
           x == WriteAt(c, d.pos, w)
           safe == h.safe
           lc == Len(c)
           lx == Len(x)
           p == d.pos
           q == Len(d.rbuf)
<1>0. /\ d.pos \in Nat /\ d.wbuf \in Seq(Char) /\ q \in Nat /\ lc \in Nat /\ d.open \in BOOLEAN
      /\ safe \in Nat /\ k \in Nat
  BY FStreamFields, LogFields
<1>1. w \in Seq(Char) /\ Len(w) = k
  BY <1>0, SplitAt
<1>2. CASE d.open
  <2>1. safe <= lc /\ p <= lc /\ safe + q <= p /\ \A i \in 1..safe : c[i] = h.text[i]
    BY <1>2 DEF Saved
  <2>2. lc <= lx /\ p + k <= lx /\ \A i \in 1..lc : i <= p => x[i] = c[i]
    <3> HIDE DEF w
    <3> QED
      BY <1>0, <1>1, <2>1, WriteAtKeeps
  <2>3. lx \in Nat
    <3> HIDE DEF w
    <3>1. x \in Seq(Char)
      BY <1>0, <1>1, WriteAtIs
    <3> HIDE DEF x
    <3> QED
      BY <3>1
  <2> HIDE DEF w, x, lc, lx, p, q, safe
  <2>4. safe <= lx /\ p + k <= lx /\ safe + q <= p + k
    BY <1>0, <2>1, <2>2, <2>3 DEF p
  <2>5. \A i \in 1..safe : x[i] = h.text[i]
    BY <1>0, <2>1, <2>2 DEF p
  <2>6. Saved(e, x, h)
    BY <2>4, <2>5 DEF Saved, lx, p, q, safe
  <2> QED
    BY <2>6 DEF x, w
<1>3. CASE ~d.open
  <2>1. d.wbuf = <<>>
    BY <1>3 DEF Buffers
  <2>2. k = 0 /\ w = <<>>
    BY <1>0, <1>1, <2>1
  <2>3. x = c
    BY <2>2 DEF WriteAt
  <2> QED
    BY <1>3, <2>3 DEF Saved
<1> QED
  BY <1>0, <1>2, <1>3

\* Handing pending output to the system changes nothing the script can see.
LEMMA MeetsDrains ==
    ASSUME NEW d \in FStream, NEW c \in Seq(Char), NEW h \in Log, Meets(d, c, h), Buffers(d),
           NEW k \in 0..Len(d.wbuf)
    PROVE  Meets(Drained(d, k), WriteAt(c, d.pos, SubSeq(d.wbuf, 1, k)), h)
<1> DEFINE w1 == SubSeq(d.wbuf, 1, k)
           w2 == SubSeq(d.wbuf, k + 1, Len(d.wbuf))
           x == WriteAt(c, d.pos, w1)
           e == Drained(d, k)
<1>0. /\ d.pos \in Nat /\ d.wbuf \in Seq(Char) /\ d.rbuf \in Seq(Char) /\ d.open \in BOOLEAN
      /\ k \in Nat /\ k <= Len(d.wbuf) /\ Len(d.wbuf) \in Nat /\ Len(d.rbuf) \in Nat
  BY FStreamFields
<1>1. /\ w1 \in Seq(Char) /\ w2 \in Seq(Char) /\ Len(w1) = k /\ w1 \o w2 = d.wbuf
  BY <1>0, SplitAt
<1>2. Len(w2) = Len(d.wbuf) - k
  BY <1>0, SubSeqType
<1>3. e.pos = d.pos + k /\ e.wbuf = w2 /\ e.rbuf = d.rbuf /\ e.open = d.open
  BY DrainedFields
<1> HIDE DEF w1, w2, e
<1>4. WriteAt(x, e.pos, e.wbuf) = h.text
  <2>1. WriteAt(x, d.pos + Len(w1), w2) = WriteAt(c, d.pos, w1 \o w2)
    <3>1. d.pos \in Nat /\ w1 \in Seq(Char) /\ w2 \in Seq(Char)
      BY <1>0, <1>1
    <3> QED
      BY <3>1, WriteTwice, Zenon
  <2>2. WriteAt(c, d.pos, d.wbuf) = h.text
    BY DEF Meets
  <2>3. e.pos = d.pos + Len(w1) /\ e.wbuf = w2 /\ w1 \o w2 = d.wbuf
    BY <1>1, <1>3
  <2> QED
    BY <2>1, <2>2, <2>3
<1>5. Place(e) = Place(d)
  BY <1>0, <1>2, <1>3 DEF Place
<1>6. ASSUME d.open
      PROVE  e.rbuf = SubSeq(x, e.pos - Len(e.rbuf) + 1, e.pos)
  <2>1. CASE d.wbuf = <<>>
    <3>1. k = 0 /\ w1 = <<>>
      BY <1>0, <1>1, <2>1
    <3>2. x = c /\ e.pos = d.pos
      BY <1>0, <1>3, <3>1 DEF WriteAt
    <3> QED
      BY <1>3, <1>6, <3>2 DEF Meets
  <2>2. CASE d.wbuf # <<>>
    <3>1. d.rbuf = <<>>
      BY <2>2 DEF Buffers
    <3>2. e.pos - Len(e.rbuf) + 1 = e.pos + 1 /\ e.pos \in Nat
      BY <1>0, <1>3, <3>1
    <3>3. SubSeq(x, e.pos + 1, e.pos) = <<>>
      BY <3>2, SubSeqEmpty
    <3> QED
      BY <1>3, <3>1, <3>2, <3>3
  <2> QED
    BY <2>1, <2>2
<1> QED
  <2>1. Meets(e, x, h)
    BY <1>3, <1>4, <1>5, <1>6 DEF Meets
  <2> QED
    BY <2>1 DEF x, e, w1

LEMMA FitsDrains ==
    ASSUME NEW d \in FStream, NEW c \in Seq(Char), NEW h \in Log, Fits(d, c, h), Buffers(d),
           ReadAhead(d), NEW k \in 0..Len(d.wbuf)
    PROVE  Fits(Drained(d, k), WriteAt(c, d.pos, SubSeq(d.wbuf, 1, k)), h)
<1> DEFINE e == Drained(d, k)
<1>1. e \in FStream /\ e.open = d.open /\ e.pos = d.pos + k /\ e.rbuf = d.rbuf
  BY DrainedType, DrainedFields
<1> HIDE DEF e
<1>2. Saved(e, WriteAt(c, d.pos, SubSeq(d.wbuf, 1, k)), h)
  BY <1>1, SavedDrains DEF Fits
<1> QED
  BY <1>2, MeetsDrains DEF Fits, e

-----------------------------------------------------------------------------
(* Reading.                                                                 *)

\* How getline finds the end of the line and how far it reads to find it.
LEMMA GotLineIs ==
    ASSUME NEW d \in FStream, NEW c \in Seq(Char), ReadAhead(d), d.pos <= Len(c)
    PROVE  LET a == Available(d, c)
               held == Len(d.rbuf)
               e == GotLine(d, c).fs
           IN  /\ e.file = d.file /\ e.mode = d.mode /\ e.open = d.open /\ e.wbuf = d.wbuf
               /\ \/ \E n \in 1..Len(a) :
                       /\ a[n] = "nl" /\ \A j \in 1..(n - 1) : a[j] # "nl"
                       /\ d.pos <= e.pos /\ e.pos <= Len(c) /\ n <= held + e.pos - d.pos
                       /\ held + e.pos - d.pos <= Len(a)
                       /\ e.rbuf = SubSeq(a, n + 1, held + e.pos - d.pos)
                  \/ /\ \A i \in 1..Len(a) : a[i] # "nl"
                     /\ e.pos = Len(c) /\ e.rbuf = <<>>
<1> DEFINE a == Available(d, c)
           n == LineEnd(a)
           held == Len(d.rbuf)
           p == d.pos
           lc == Len(c)
           la == Len(a)
           pos == IF n <= held THEN p ELSE Refilled(p, lc, n - held)
           rest == SubSeq(a, n + 1, held + pos - p)
           e == GotLine(d, c).fs
<1>1. a \in Seq(Char) /\ la = held + lc - p
  <2>1. /\ a \in Seq(Char) /\ la = held + (IF p < lc THEN lc - p ELSE 0)
    BY AvailableType
  <2>2. p \in Nat /\ lc \in Nat /\ held \in Nat /\ p <= lc
    BY FStreamFields
  <2> HIDE DEF a, la, p, lc, held
  <2> QED
    BY <2>1, <2>2
<1>2. held \in Nat /\ p \in Nat /\ held <= p /\ lc \in Nat /\ p <= lc /\ la \in Nat
  BY <1>1, FStreamFields DEF ReadAhead
<1>3. CASE \E i \in 1..la : a[i] = "nl"
  <2>1. n \in 1..la /\ a[n] = "nl" /\ \A j \in 1..(n - 1) : a[j] # "nl"
    <3>1. \E i \in 1..Len(a) : a[i] = "nl" /\ \A j \in 1..(i - 1) : a[j] # "nl"
      <4> DEFINE P == {i \in 1..Len(a) : a[i] = "nl"}
      <4>1. P \in SUBSET Nat /\ P # {}
        BY <1>3
      <4>2. PICK i \in P : \A j \in P : i <= j
        BY <4>1, LeastElement
      <4> QED
        BY <4>2
    <3> HIDE DEF a
    <3> QED
      BY <3>1 DEF LineEnd
  <2>2. pos \in Nat /\ p <= pos /\ pos <= lc /\ n <= held + pos - p
    <3>1. CASE n <= held
      <4> HIDE DEF n, held, p, lc, la
      <4> QED
        BY <1>2, <3>1
    <3>2. CASE n > held
      <4> HIDE DEF n, held, p, lc, la
      <4>1. n \in Nat /\ n - held \in Nat /\ p + (n - held) <= lc /\ n <= la
        BY <1>1, <1>2, <2>1, <3>2
      <4>2. pos = Refilled(p, lc, n - held)
        BY <1>2, <3>2, <4>1
      <4> HIDE DEF pos
      <4>3. pos \in Nat /\ p <= pos /\ pos <= lc
        BY <1>2, <4>1, <4>2, RefillBounds, Zenon
      <4>4. p + (n - held) <= pos
        BY <1>2, <4>1, <4>2, RefillSuffices, Zenon
      <4> QED
        BY <1>2, <4>1, <4>3, <4>4
    <3> HIDE DEF pos
    <3> QED
      BY <1>2, <2>1, <3>1, <3>2
  <2>3. GotLine(d, c) = [line |-> SubSeq(a, 1, n - 1),
                         fs |-> [d EXCEPT !.pos = pos, !.rbuf = rest]]
    BY <1>3 DEF GotLine
  <2> HIDE DEF n, pos, rest, a
  <2>4. /\ e.file = d.file /\ e.mode = d.mode /\ e.open = d.open /\ e.wbuf = d.wbuf
        /\ e.pos = pos /\ e.rbuf = rest
    <3> DEFINE q == [d EXCEPT !.pos = pos, !.rbuf = rest]
    <3>1. /\ q.file = d.file /\ q.mode = d.mode /\ q.open = d.open /\ q.wbuf = d.wbuf
          /\ q.pos = pos /\ q.rbuf = rest
      BY DEF FStream
    <3>2. e = q
      BY <2>3
    <3> HIDE DEF q, e
    <3> QED
      BY <3>1, <3>2
  <2> HIDE DEF e, held, p, lc, la
  <2>5. held + pos - p <= la
    BY <1>1, <1>2, <2>2
  <2>6. e.rbuf = SubSeq(a, n + 1, held + e.pos - p)
    BY <2>4 DEF rest
  <2>7. \E m \in 1..la :
           /\ a[m] = "nl" /\ \A j \in 1..(m - 1) : a[j] # "nl"
           /\ p <= e.pos /\ e.pos <= lc /\ m <= held + e.pos - p
           /\ held + e.pos - p <= la
           /\ e.rbuf = SubSeq(a, m + 1, held + e.pos - p)
    BY <2>1, <2>2, <2>4, <2>5, <2>6
  <2> QED
    BY <2>4, <2>7 DEF e, held, p, lc, la, a
<1>4. CASE ~ \E i \in 1..la : a[i] = "nl"
  <2> DEFINE p2 == IF p < lc THEN lc ELSE p
             bits == IF a = <<>> THEN {"eof", "fail"} ELSE {"eof"}
  <2>1. GotLine(d, c) = [line |-> a, fs |-> [d EXCEPT !.pos = p2, !.rbuf = <<>>, !.state = bits]]
    BY <1>4 DEF GotLine
  <2>2. p2 = lc
    <3> HIDE DEF p, lc
    <3> QED
      BY <1>2
  <2> HIDE DEF a, bits, p2
  <2>3. /\ e.file = d.file /\ e.mode = d.mode /\ e.open = d.open /\ e.wbuf = d.wbuf
        /\ e.pos = p2 /\ e.rbuf = <<>>
    <3> DEFINE q == [d EXCEPT !.pos = p2, !.rbuf = <<>>, !.state = bits]
    <3>1. /\ q.file = d.file /\ q.mode = d.mode /\ q.open = d.open /\ q.wbuf = d.wbuf
          /\ q.pos = p2 /\ q.rbuf = <<>>
      BY DEF FStream
    <3>2. e = q
      BY <2>1
    <3> HIDE DEF q, e
    <3> QED
      BY <3>1, <3>2
  <2> HIDE DEF e
  <2> QED
    BY <1>4, <2>2, <2>3 DEF e, a
<1> QED
  BY <1>3, <1>4

\* The next line is never before this one, whatever the file holds.
LEMMA GotLineAdvances ==
    ASSUME NEW d \in FStream, NEW c \in Seq(Char), ReadAhead(d), d.pos <= Len(c)
    PROVE  LET e == GotLine(d, c).fs IN
           e.pos <= Len(c) /\ d.pos - Len(d.rbuf) <= e.pos - Len(e.rbuf)
<1> DEFINE a == Available(d, c)
           held == Len(d.rbuf)
           e == GotLine(d, c).fs
<1>1. /\ held \in Nat /\ d.pos \in Nat /\ held <= d.pos /\ Len(c) \in Nat /\ a \in Seq(Char)
      /\ e \in FStream
  BY FStreamFields, AvailableType, GotLineType DEF ReadAhead
<1>2. e.pos \in Nat /\ Len(e.rbuf) \in Nat /\ Len(a) \in Nat
  BY <1>1, FStreamFields
<1>3. CASE e.pos = Len(c) /\ e.rbuf = <<>>
  BY <1>1, <1>3
<1>4. ASSUME NEW n \in 1..Len(a), e.pos <= Len(c), n <= held + e.pos - d.pos,
             held + e.pos - d.pos <= Len(a),
             e.rbuf = SubSeq(a, n + 1, held + e.pos - d.pos)
      PROVE  e.pos <= Len(c) /\ d.pos - held <= e.pos - Len(e.rbuf)
  <2> HIDE DEF e, a, held
  <2> DEFINE m == n + 1
             r == held + e.pos - d.pos
             x == e.pos
             p == d.pos
  <2>1. m \in Nat /\ r \in Int /\ m >= 1 /\ r <= Len(a) /\ n \in Nat /\ n <= r /\ m = n + 1
    BY <1>1, <1>2, <1>4
  <2>2. e.rbuf = SubSeq(a, m, r)
    BY <1>4
  <2>3. r = held + x - p /\ x \in Nat /\ p \in Nat /\ held \in Nat /\ x <= Len(c)
    BY <1>1, <1>2, <1>4
  <2> HIDE DEF m, r, x, p
  <2>4. Len(SubSeq(a, m, r)) = IF m <= r THEN r - m + 1 ELSE 0
    BY <1>1, <2>1, SubSeqType
  <2>5. Len(e.rbuf) = r - n
    BY <2>1, <2>2, <2>4
  <2>6. p - held <= x - (r - n)
    BY <2>1, <2>3
  <2> QED
    BY <2>3, <2>5, <2>6 DEF x, p
<1>5. \/ e.pos = Len(c) /\ e.rbuf = <<>>
      \/ \E n \in 1..Len(a) : /\ e.pos <= Len(c) /\ n <= held + e.pos - d.pos
                              /\ held + e.pos - d.pos <= Len(a)
                              /\ e.rbuf = SubSeq(a, n + 1, held + e.pos - d.pos)
  BY GotLineIs, Zenon
<1> HIDE DEF e, a, held
<1> QED
  BY <1>3, <1>4, <1>5 DEF e, a, held

LEMMA AfterLineIs ==
    ASSUME NEW text \in Seq(Char), NEW p \in Nat, NEW m \in (p + 1)..Len(text), text[m] = "nl",
           \A j \in (p + 1)..(m - 1) : text[j] # "nl"
    PROVE  AfterLine(text, p) = m
<1> DEFINE ends == {i \in (p + 1)..Len(text) : text[i] = "nl"}
<1>1. m \in ends /\ Len(text) \in Nat
  OBVIOUS
<1>2. \A j \in ends : m <= j
  OBVIOUS
<1>3. ASSUME NEW i \in ends, \A j \in ends : i <= j PROVE i = m
  BY <1>1, <1>2, <1>3
<1>4. AfterLine(text, p) = CHOOSE i \in ends : \A j \in ends : i <= j
  BY <1>1 DEF AfterLine
<1> HIDE DEF ends
<1> QED
  BY <1>1, <1>2, <1>3, <1>4

\* A line is read from where the last one ended to its newline, whatever part
\* of it has been read ahead.
LEMMA GotLineReads ==
    ASSUME NEW d \in FStream, NEW c \in Seq(Char), ReadAhead(d), d.pos <= Len(c),
           d.rbuf = SubSeq(c, d.pos - Len(d.rbuf) + 1, d.pos)
    PROVE  LET e == GotLine(d, c).fs IN
           /\ e.pos - Len(e.rbuf) = AfterLine(c, d.pos - Len(d.rbuf))
           /\ e.rbuf = SubSeq(c, e.pos - Len(e.rbuf) + 1, e.pos)
<1> DEFINE a == Available(d, c)
           held == Len(d.rbuf)
           p == d.pos
           q == p - held
           lc == Len(c)
           la == Len(a)
           e == GotLine(d, c).fs
<1>1. held \in Nat /\ p \in Nat /\ held <= p /\ lc \in Nat /\ p <= lc
  BY FStreamFields DEF ReadAhead
<1>2. a \in Seq(Char) /\ la = lc - q /\ q \in Nat /\ q <= lc
  <2>1. a \in Seq(Char) /\ la = held + (IF p < lc THEN lc - p ELSE 0)
    BY AvailableType
  <2> HIDE DEF a, la, p, lc, held
  <2> QED
    BY <1>1, <2>1
<1>3. ASSUME NEW i \in 1..la PROVE a[i] = c[q + i]
  <2>1. CASE i <= held
    <3>1. a[i] = d.rbuf[i]
      BY <2>1, AvailableAt
    <3>2. q + 1 \in Nat /\ p \in Int /\ q + 1 >= 1 /\ p <= Len(c) /\ i \in 1..(p - (q + 1) + 1)
      <4> HIDE DEF held, p, la
      <4> QED
        BY <1>1, <1>2, <2>1 DEF lc
    <3>3. d.rbuf = SubSeq(c, q + 1, p)
      OBVIOUS
    <3> DEFINE m == q + 1
    <3> HIDE DEF m, p, q
    <3>4. SubSeq(c, m, p)[i] = c[m + i - 1]
      BY <3>2, SubSeqType DEF m
    <3>5. m + i - 1 = q + i
      BY <1>2, <3>2 DEF m
    <3> QED
      BY <3>1, <3>3, <3>4, <3>5 DEF m
  <2>2. CASE i > held
    <3>1. a[i] = c[p + i - held]
      BY <2>2, AvailableAt
    <3>2. p + i - held = q + i
      <4> HIDE DEF held, p, la
      <4> QED
        BY <1>1, <1>3
    <3> QED
      BY <3>1, <3>2
  <2> HIDE DEF held, la
  <2> QED
    BY <1>1, <1>2, <1>3, <2>1, <2>2
<1>4. /\ e \in FStream /\ e.pos \in Nat /\ e.rbuf \in Seq(Char) /\ Len(e.rbuf) \in Nat /\ la \in Nat
  <2>1. e \in FStream
    BY GotLineType
  <2> HIDE DEF e
  <2> QED
    BY <1>2, <2>1, FStreamFields
<1>5. ASSUME \A i \in 1..la : a[i] # "nl", e.pos = lc, e.rbuf = <<>>
      PROVE  e.pos - Len(e.rbuf) = AfterLine(c, q) /\ e.rbuf = SubSeq(c, e.pos - Len(e.rbuf) + 1, e.pos)
  <2>1. \A j \in (q + 1)..lc : c[j] # "nl"
    <3> SUFFICES ASSUME NEW j \in (q + 1)..lc PROVE c[j] # "nl"
      OBVIOUS
    <3> HIDE DEF q, lc, la, a
    <3>1. j - q \in 1..la /\ q + (j - q) = j
      BY <1>1, <1>2
    <3> QED
      BY <1>3, <1>5, <3>1
  <2>2. AfterLine(c, q) = lc
    <3> HIDE DEF q
    <3> QED
      BY <2>1 DEF AfterLine
  <2>3. SubSeq(c, lc + 1, lc) = <<>>
    BY <1>1, SubSeqEmpty
  <2> HIDE DEF e, q, lc
  <2>4. lc - Len(<<>>) = lc /\ lc - Len(<<>>) + 1 = lc + 1
    BY <1>1
  <2> QED
    BY <1>5, <2>2, <2>3, <2>4
<1>6. ASSUME NEW n \in 1..la, a[n] = "nl", \A j \in 1..(n - 1) : a[j] # "nl",
             p <= e.pos, e.pos <= lc, n <= held + e.pos - p, held + e.pos - p <= la,
             e.rbuf = SubSeq(a, n + 1, held + e.pos - p)
      PROVE  e.pos - Len(e.rbuf) = AfterLine(c, q) /\ e.rbuf = SubSeq(c, e.pos - Len(e.rbuf) + 1, e.pos)
  <2> DEFINE m == n + 1
             x == e.pos
             r == held + x - p
             y == q + n
  <2> HIDE DEF held, p, lc, la, a, e
  <2>1. /\ m \in Nat /\ r \in Int /\ m >= 1 /\ r <= la /\ n \in Nat /\ n <= r /\ m = n + 1
        /\ x \in Nat /\ y \in Nat /\ r = x - q /\ y + 1 \in Nat /\ y \in (q + 1)..lc /\ x <= lc
        /\ y = q + n /\ q \in Nat
    <3>1. /\ held \in Nat /\ p \in Nat /\ held <= p /\ lc \in Nat /\ la \in Nat /\ n \in 1..la
          /\ x \in Nat /\ p <= x /\ x <= lc /\ n <= r /\ r <= la
      BY <1>1, <1>4, <1>6
    <3>2. la = lc - q /\ q = p - held /\ q \in Nat
      BY <1>2
    <3>3. m = n + 1 /\ r = held + x - p /\ y = q + n
      OBVIOUS
    <3> HIDE DEF m, x, r, y, q
    <3> QED
      BY <3>1, <3>2, <3>3
  <2>2. AfterLine(c, q) = y
    <3>1. c[y] = "nl"
      BY <1>3, <1>6
    <3>2. \A j \in (q + 1)..(y - 1) : c[j] # "nl"
      <4> SUFFICES ASSUME NEW j \in (q + 1)..(y - 1) PROVE c[j] # "nl"
        OBVIOUS
      <4> HIDE DEF q, y
      <4>1. j - q \in 1..(n - 1) /\ j - q \in 1..la /\ q + (j - q) = j
        BY <1>2, <1>4, <2>1
      <4> QED
        BY <1>3, <1>6, <4>1
    <3> HIDE DEF y, q
    <3> QED
      BY <2>1, <3>1, <3>2, AfterLineIs DEF lc
  <2> HIDE DEF m, x, r, y, q
  <2>3. e.rbuf = SubSeq(a, m, r)
    BY <1>6 DEF m, r, x
  <2>4. /\ Len(SubSeq(a, m, r)) = IF m <= r THEN r - m + 1 ELSE 0
        /\ \A i \in 1..(r - m + 1) : SubSeq(a, m, r)[i] = a[m + i - 1]
    BY <1>2, <2>1, SubSeqType DEF la
  <2>5. Len(e.rbuf) = r - n
    BY <2>1, <2>3, <2>4
  <2>6. x - Len(e.rbuf) = y
    BY <2>1, <2>5
  <2> DEFINE b == SubSeq(c, y + 1, x)
  <2>7. /\ b \in Seq(Char) /\ Len(b) = IF y + 1 <= x THEN x - (y + 1) + 1 ELSE 0
        /\ \A i \in 1..(x - (y + 1) + 1) : b[i] = c[(y + 1) + i - 1]
    <3>1. y + 1 \in Nat /\ y + 1 >= 1 /\ x \in Int /\ x <= Len(c)
      BY <2>1 DEF lc
    <3> DEFINE z == y + 1
    <3> HIDE DEF z
    <3>2. /\ SubSeq(c, z, x) \in Seq(Char) /\ Len(SubSeq(c, z, x)) = IF z <= x THEN x - z + 1 ELSE 0
          /\ \A i \in 1..(x - z + 1) : SubSeq(c, z, x)[i] = c[z + i - 1]
      BY <3>1, SubSeqType DEF z
    <3> QED
      BY <3>2 DEF z
  <2> HIDE DEF b
  <2>8. Len(b) = r - n
    BY <2>1, <2>7
  <2>9. ASSUME NEW i \in 1..(r - n) PROVE e.rbuf[i] = b[i]
    <3>1. /\ i \in 1..(r - m + 1) /\ i \in 1..(x - (y + 1) + 1) /\ m + i - 1 \in 1..la
          /\ q + (m + i - 1) = (y + 1) + i - 1
      BY <2>1, <1>4
    <3>2. e.rbuf[i] = a[m + i - 1]
      BY <2>3, <2>4, <3>1
    <3>3. a[m + i - 1] = c[q + (m + i - 1)]
      BY <1>3, <3>1
    <3>4. b[i] = c[(y + 1) + i - 1]
      BY <2>7, <3>1
    <3> QED
      BY <3>1, <3>2, <3>3, <3>4
  <2>10. e.rbuf = b
    BY <1>4, <2>5, <2>7, <2>8, <2>9, SeqEqual
  <2> QED
    BY <2>2, <2>6, <2>10 DEF b, x
<1>7. \/ (\A i \in 1..la : a[i] # "nl") /\ e.pos = lc /\ e.rbuf = <<>>
      \/ \E n \in 1..la : /\ a[n] = "nl" /\ \A j \in 1..(n - 1) : a[j] # "nl"
                          /\ p <= e.pos /\ e.pos <= lc /\ n <= held + e.pos - p
                          /\ held + e.pos - p <= la
                          /\ e.rbuf = SubSeq(a, n + 1, held + e.pos - p)
  BY GotLineIs, Zenon
<1> HIDE DEF e, q, a, held, p, la, lc
<1>8. e.pos - Len(e.rbuf) = AfterLine(c, q) /\ e.rbuf = SubSeq(c, e.pos - Len(e.rbuf) + 1, e.pos)
  BY <1>5, <1>6, <1>7
<1> QED
  BY <1>8 DEF e, q, p, held

-----------------------------------------------------------------------------
(* What each operation does to a stream and its history that fit together.  *)

LEMMA SameBuffers ==
    ASSUME NEW d, NEW c, NEW h, NEW e,
           e.open = d.open, e.pos = d.pos, e.rbuf = d.rbuf, e.wbuf = d.wbuf
    PROVE  /\ Saved(d, c, h) => Saved(e, c, h)
           /\ Fits(d, c, h) => Fits(e, c, h)
BY DEF Fits, Saved, Meets, Place

LEMMA FitsRefused ==
    ASSUME NEW d, NEW c, NEW h \in Log, h.sole, Saved(d, c, h)
    PROVE  Fits(d, c, LogRefused(h))
BY LogRefusedIs DEF Fits, Saved

LEMMA FitsCloses ==
    ASSUME NEW d \in FStream, NEW c \in Seq(Char), NEW h \in Log, NEW e, ~e.open, e.wbuf = <<>>
    PROVE  /\ Saved(d, c, h) => Saved(e, c, h)
           /\ Fits(d, c, h) /\ d.wbuf = <<>> => Fits(e, c, h)
BY DEF Fits, Saved, Meets, WriteAt

\* With nothing pending, the file holds all that was written up to here.
LEMMA FitsFlushed ==
    ASSUME NEW d \in FStream, NEW c \in Seq(Char), NEW h \in Log, Fits(d, c, h),
           d.open, d.wbuf = <<>>, ReadAhead(d)
    PROVE  Fits(d, c, LogFlushed(h))
<1> DEFINE e == LogFlushed(h)
<1>1. /\ e.refused = h.refused /\ e.text = h.text /\ e.at = h.at
      /\ e.safe = IF h.sole /\ ~h.refused THEN h.at ELSE h.safe
  BY LogFlushedIs
<1>2. /\ d.pos \in Nat /\ Len(d.rbuf) \in Nat /\ Len(d.wbuf) = 0 /\ h.at \in Nat /\ h.safe \in Nat
  BY FStreamFields, LogFields
<1> HIDE DEF e
<1>3. Saved(d, c, h) /\ (~h.refused => Meets(d, c, h))
  BY DEF Fits
<1>4. ~e.refused => Meets(d, c, e)
  BY <1>1, <1>3 DEF Meets
<1>5. CASE e.safe = h.safe
  BY <1>1, <1>3, <1>4, <1>5 DEF Saved, Fits, e
<1>6. CASE e.safe = h.at /\ ~h.refused
  <2>1. c = h.text /\ d.pos - Len(d.rbuf) + 0 = h.at
    BY <1>2, <1>3, <1>6 DEF Meets, WriteAt, Place
  <2>2. e.safe + Len(d.rbuf) <= d.pos
    BY <1>2, <1>6, <2>1
  <2>3. d.pos <= Len(c) /\ h.at <= Len(h.text)
    BY <1>3 DEF Saved
  <2>4. \A i \in 1..e.safe : c[i] = e.text[i]
    BY <1>1, <2>1
  <2>5. e.safe <= Len(c) /\ e.safe <= e.at /\ e.at <= Len(e.text)
    BY <1>1, <1>2, <1>6, <2>1, <2>3
  <2>6. Saved(d, c, e)
    BY <2>2, <2>3, <2>4, <2>5 DEF Saved
  <2> QED
    BY <1>4, <2>6 DEF Fits, e
<1> QED
  BY <1>1, <1>5, <1>6

\* The next line goes where the last call left off, over the read-ahead.
LEMMA PendingFits ==
    ASSUME NEW d \in FStream, NEW c \in Seq(Char), NEW h \in Log, NEW line \in Seq(Char),
           Fits(d, c, h), d.open, "out" \in d.mode, Buffers(d), ReadAhead(d)
    PROVE  LET all == Pending(d, line) IN
           /\ Buffers(all) /\ Saved(all, c, h)
           /\ h.sole => Fits(all, c, LogWrite(h, line))
<1> DEFINE all == Pending(d, line)
           w == Append(line, "nl")
           e == LogWrite(h, line)
           p == d.pos - Len(d.rbuf)
<1>1. /\ all.mode = d.mode /\ all.open = d.open /\ all.pos = p /\ all.rbuf = <<>>
      /\ all.wbuf = d.wbuf \o w
  BY PendingFields
<1>2. w \in Seq(Char) /\ Len(w) = Len(line) + 1 /\ Len(line) \in Nat /\ Len(w) \in Nat
  BY LineIsText
<1>3. /\ d.pos \in Nat /\ Len(d.rbuf) \in Nat /\ d.wbuf \in Seq(Char) /\ Len(d.wbuf) \in Nat
      /\ p \in Nat /\ p <= d.pos /\ Len(c) \in Nat /\ Len(<<>>) = 0
  BY FStreamFields DEF ReadAhead
<1>4. /\ h.text \in Seq(Char) /\ h.at \in Nat /\ h.safe \in Nat /\ Len(h.text) \in Nat
  BY LogFields
<1>5. /\ e.refused = h.refused /\ e.safe = h.safe
      /\ h.sole => e.text = WriteAt(h.text, h.at, w) /\ e.at = h.at + Len(line) + 1
  BY LogWriteIs
<1>6. Saved(d, c, h) /\ (~h.refused => Meets(d, c, h))
  BY DEF Fits
<1> HIDE DEF all, w, e, p
<1>7. Buffers(all)
  BY <1>1 DEF Buffers
<1>8. Saved(all, c, h)
  <2>1. d.pos <= Len(c) /\ h.safe + Len(d.rbuf) <= d.pos
    BY <1>6 DEF Saved
  <2>2. p <= Len(c) /\ h.safe + Len(<<>>) <= p
    BY <1>3, <1>4, <2>1 DEF p
  <2> QED
    BY <1>1, <1>6, <2>2 DEF Saved
<1>9. ASSUME h.sole PROVE Saved(all, c, e)
  <2>1. /\ Len(h.text) <= Len(e.text) /\ e.text \in Seq(Char) /\ h.at + Len(w) <= Len(e.text)
        /\ \A i \in 1..Len(h.text) : i <= h.at => e.text[i] = h.text[i]
    <3>1. h.at <= Len(h.text)
      BY <1>6 DEF Saved
    <3> DEFINE x == WriteAt(h.text, h.at, w)
    <3>2. x \in Seq(Char)
      BY <1>2, <1>4, WriteAtType
    <3>3. /\ Len(h.text) <= Len(x) /\ (h.at <= Len(h.text) => h.at + Len(w) <= Len(x))
          /\ \A i \in 1..Len(h.text) : i <= h.at => x[i] = h.text[i]
      BY <1>2, <1>4, WriteAtKeeps
    <3>4. e.text = x
      BY <1>5, <1>9
    <3> HIDE DEF x
    <3> QED
      BY <3>1, <3>2, <3>3, <3>4
  <2>2. \A i \in 1..h.safe : c[i] = e.text[i]
    <3> SUFFICES ASSUME NEW i \in 1..h.safe PROVE c[i] = e.text[i]
      OBVIOUS
    <3>1. i \in 1..Len(h.text) /\ i <= h.at /\ c[i] = h.text[i]
      BY <1>4, <1>6 DEF Saved
    <3> QED
      BY <2>1, <3>1
  <2>3. e.safe <= e.at /\ e.at <= Len(e.text)
    <3>1. h.safe <= h.at
      BY <1>6 DEF Saved
    <3>2. e.at = h.at + Len(w) /\ e.safe = h.safe
      <4>1. e.at = h.at + Len(line) + 1 /\ e.safe = h.safe
        BY <1>5, <1>9
      <4>2. Len(w) = Len(line) + 1 /\ Len(line) \in Nat
        BY <1>2
      <4>3. h.at \in Nat
        BY <1>4
      <4> DEFINE n == Len(line)
                 m == Len(w)
                 x == h.at
      <4>4. e.at = x + n + 1 /\ e.safe = h.safe
        BY <4>1
      <4>5. x \in Nat /\ m = n + 1 /\ n \in Nat
        BY <4>2, <4>3
      <4> HIDE DEF n, m, x
      <4>6. x + n + 1 = x + m
        BY <4>5
      <4> QED
        BY <4>4, <4>6 DEF m, x
    <3> QED
      BY <1>2, <1>4, <2>1, <3>1, <3>2
  <2> QED
    BY <1>5, <1>8, <2>2, <2>3 DEF Saved
<1>10. ASSUME h.sole, ~h.refused PROVE Meets(all, c, e)
  <2>1. /\ WriteAt(c, d.pos, d.wbuf) = h.text
        /\ d.pos - Len(d.rbuf) + Len(d.wbuf) = h.at
    BY <1>6, <1>10 DEF Meets, Place
  <2>2. WriteAt(c, p, d.wbuf) = h.text
    <3>1. CASE d.wbuf = <<>>
      BY <2>1, <3>1 DEF WriteAt
    <3>2. CASE d.wbuf # <<>>
      <4>1. d.rbuf = <<>>
        BY <3>2 DEF Buffers
      <4>2. p = d.pos
        BY <1>3, <4>1 DEF p
      <4> QED
        BY <2>1, <4>2
    <3> QED
      BY <3>1, <3>2
  <2>3. h.at = p + Len(d.wbuf)
    BY <2>1 DEF p
  <2>4. WriteAt(WriteAt(c, p, d.wbuf), p + Len(d.wbuf), w) = WriteAt(c, p, d.wbuf \o w)
    <3>1. w \in Seq(Char) /\ d.wbuf \in Seq(Char) /\ p \in Nat
      BY <1>2, <1>3
    <3> QED
      BY <3>1, WriteTwice, Zenon
  <2>5. WriteAt(c, all.pos, all.wbuf) = e.text
    BY <1>1, <1>5, <1>10, <2>2, <2>3, <2>4
  <2>6. Len(d.wbuf \o w) = Len(d.wbuf) + Len(w)
    BY <1>2, <1>3, ConcatProperties
  <2>7. Place(all) = e.at
    <3>1. Place(all) = p - 0 + (Len(d.wbuf) + Len(w))
      BY <1>1, <1>3, <2>6 DEF Place
    <3>2. e.at = h.at + Len(line) + 1
      BY <1>5, <1>10
    <3>3. /\ p \in Nat /\ Len(d.wbuf) \in Nat /\ Len(line) \in Nat /\ Len(w) = Len(line) + 1
      BY <1>2, <1>3
    <3> DEFINE n == Len(line)
               m == Len(w)
               b == Len(d.wbuf)
    <3> HIDE DEF p, n, m, b
    <3>4. Place(all) = p - 0 + (b + m) /\ e.at = (p + b) + n + 1
      BY <2>3, <3>1, <3>2 DEF n, m, b
    <3>5. p \in Nat /\ b \in Nat /\ n \in Nat /\ m = n + 1
      BY <3>3 DEF n, m, b
    <3>6. p - 0 + (b + m) = (p + b) + n + 1
      BY <3>5
    <3> QED
      BY <3>4, <3>6
  <2>8. SubSeq(c, all.pos - Len(all.rbuf) + 1, all.pos) = <<>>
    <3>1. all.pos - Len(all.rbuf) + 1 = p + 1 /\ all.pos = p
      BY <1>1, <1>3
    <3>2. SubSeq(c, p + 1, p) = <<>>
      <4>1. p + 1 \in Int /\ p \in Int /\ p < p + 1
        BY <1>3
      <4> QED
        BY <4>1, SubSeqEmpty
    <3> QED
      BY <3>1, <3>2
  <2> QED
    BY <1>1, <2>5, <2>7, <2>8 DEF Meets
<1> QED
  BY <1>5, <1>7, <1>8, <1>9, <1>10 DEF Fits, all, e

LEMMA FitsReads ==
    ASSUME NEW d \in FStream, NEW c \in Seq(Char), NEW h \in Log, Fits(d, c, h), h.sole,
           d.open, d.wbuf = <<>>, ReadAhead(d)
    PROVE  Fits(GotLine(d, c).fs, c, LogRead(h))
<1> DEFINE e == GotLine(d, c).fs
           g == LogRead(h)
           q == d.pos - Len(d.rbuf)
<1>1. /\ g.refused = h.refused /\ g.safe = h.safe /\ g.text = h.text
      /\ g.at = AfterLine(h.text, h.at)
  BY LogReadIs
<1>2. /\ h.text \in Seq(Char) /\ h.at \in Nat /\ h.safe \in Nat
  BY LogFields
<1>3. /\ e \in FStream /\ e.pos \in Nat /\ Len(e.rbuf) \in Nat
      /\ d.pos \in Nat /\ Len(d.rbuf) \in Nat
  <2>1. e \in FStream
    BY GotLineType
  <2> HIDE DEF e
  <2> QED
    BY <2>1, FStreamFields
<1>4. Saved(d, c, h) /\ (~h.refused => Meets(d, c, h))
  BY DEF Fits
<1>5. d.pos <= Len(c) /\ h.safe + Len(d.rbuf) <= d.pos /\ h.safe <= h.at /\ h.at <= Len(h.text)
  BY <1>4 DEF Saved
<1>6. e.open = d.open /\ e.wbuf = <<>>
  BY <1>5, GotLineIs
<1>7. e.pos <= Len(c) /\ q <= e.pos - Len(e.rbuf)
  BY <1>5, GotLineAdvances
<1>8. h.at <= g.at /\ g.at <= Len(h.text) /\ g.at \in Nat
  BY <1>1, <1>2, <1>5, AfterLineType
<1>9. ~h.refused => /\ e.pos - Len(e.rbuf) = AfterLine(c, q)
                    /\ e.rbuf = SubSeq(c, e.pos - Len(e.rbuf) + 1, e.pos)
  BY <1>4, <1>5, GotLineReads DEF Meets
<1> HIDE DEF e, g
<1>10. Saved(e, c, g)
  <2>1. g.safe <= g.at /\ g.at <= Len(g.text)
    BY <1>1, <1>2, <1>5, <1>8
  <2>2. g.safe + Len(e.rbuf) <= e.pos
    BY <1>1, <1>2, <1>3, <1>5, <1>7
  <2> QED
    BY <1>1, <1>4, <1>7, <2>1, <2>2 DEF Saved
<1>11. ASSUME ~h.refused PROVE Meets(e, c, g)
  <2>1. c = h.text /\ q + Len(d.wbuf) = h.at
    BY <1>4, <1>11 DEF Meets, Place, WriteAt
  <2>2. q = h.at /\ Len(e.wbuf) = 0
    BY <1>3, <1>6, <2>1
  <2>3. Place(e) = g.at
    <3>1. e.pos - Len(e.rbuf) = g.at
      BY <1>1, <1>9, <1>11, <2>1, <2>2
    <3> QED
      BY <1>3, <2>2, <3>1 DEF Place
  <2> QED
    BY <1>1, <1>6, <1>9, <1>11, <2>1, <2>3 DEF Meets, WriteAt
<1> QED
  BY <1>1, <1>10, <1>11 DEF Fits, e, g

-----------------------------------------------------------------------------
(* One stream acts.  Its own part of the invariant is for the caller to      *)
(* show; the streams that are sole on other files do not notice.             *)

LEMMA OneStreamActs ==
    ASSUME TypeInv, DiskInv, NEW t \in Streams, object[t] # "none",
           NEW e \in FStream, NEW c \in Seq(Char), NEW h,
           fs' = [fs EXCEPT ![t] = e],
           content' = [content EXCEPT ![fs[t].file] = c],
           log' = [log EXCEPT ![t] = h],
           object' = object, h.sole => log[t].sole,
           e.file = fs[t].file, e.mode \subseteq fs[t].mode, Buffers(e),
           "out" \notin fs[t].mode => c = content[fs[t].file],
           h.sole => Fits(e, c, h)
    PROVE  DiskInv'
<1>1. /\ fs \in [Streams -> FStream] /\ content \in [Files -> Seq(Char)]
      /\ log \in [Streams -> Log]
  BY DEF TypeInv, TypeOK
<1>2. fs[t].file \in Files
  BY <1>1, FStreamFields
<1>3. \A s \in Streams : fs'[s].file = fs[s].file /\ fs'[s].mode \subseteq fs[s].mode
  BY <1>1
<1>4. ASSUME NEW s \in Streams, log[s].sole
      PROVE  Alone(s)'
  <2>1. Alone(s)
    BY <1>4 DEF DiskInv
  <2> QED
    BY <1>3, <2>1 DEF Alone
<1>5. ASSUME NEW s \in Streams, s # t
      PROVE  /\ Buffers(fs'[s])
             /\ object'[s] = "none" => fs'[s].mode = {} /\ log'[s] = NoLog
             /\ log'[s].sole => Alone(s)' /\ Fits(fs'[s], content'[fs'[s].file], log'[s])
  <2>1. fs'[s] = fs[s] /\ log'[s] = log[s]
    BY <1>1, <1>5
  <2>2. ASSUME log[s].sole
        PROVE  content'[fs[s].file] = content[fs[s].file]
    <3>1. Alone(s)
      BY <2>2 DEF DiskInv
    <3>2. CASE fs[t].file = fs[s].file
      <4>1. "out" \notin fs[t].mode
        BY <1>5, <3>1, <3>2 DEF Alone
      <4> QED
        BY <1>1, <1>2, <3>2, <4>1
    <3>3. CASE fs[t].file # fs[s].file
      BY <3>3, <1>1
    <3> QED
      BY <3>2, <3>3
  <2> QED
    BY <1>4, <2>1, <2>2 DEF DiskInv
<1>6. /\ Buffers(fs'[t]) /\ object'[t] # "none"
      /\ log'[t].sole => Alone(t)' /\ Fits(fs'[t], content'[fs'[t].file], log'[t])
  <2>1. fs'[t] = e /\ log'[t] = h /\ content'[e.file] = c
    BY <1>1, <1>2
  <2> QED
    BY <1>4, <2>1
<1> QED
  BY <1>5, <1>6 DEF DiskInv

\* Handing pending output to the system, or failing to, writes for a stream
\* only what it may write.
LEMMA StreamDrains ==
    ASSUME TypeInv, DiskInv, NEW s \in Streams, NEW o \in Drainings(fs[s])
    PROVE  /\ o.ok \in BOOLEAN /\ o.fs \in FStream /\ ReadAhead(o.fs) /\ o.disk \in Seq(Char)
           /\ o.fs.file = fs[s].file /\ o.fs.mode = fs[s].mode /\ o.fs.open = fs[s].open
           /\ Buffers(o.fs)
           /\ "out" \notin fs[s].mode => o.disk = content[fs[s].file]
           /\ o.ok => o.fs.wbuf = <<>>
           /\ log[s].sole /\ o.ok => Fits(o.fs, o.disk, log[s])
           /\ log[s].sole => Saved(o.fs, o.disk, log[s])
<1> DEFINE d == fs[s]
           c == content[d.file]
           h == log[s]
<1>1. /\ d \in FStream /\ ReadAhead(d) /\ c \in Seq(Char) /\ h \in Log /\ Buffers(d)
      /\ content \in [Files -> Seq(Char)] /\ o \in Drainings(d)
      /\ h.sole => Fits(d, c, h)
  BY StreamIs DEF DiskInv
<1> HIDE DEF d, h
<1>2. o.ok \in BOOLEAN /\ o.fs \in FStream /\ ReadAhead(o.fs) /\ o.disk \in Seq(Char)
  BY <1>1, DrainingsType
<1>3. /\ d.pos \in Nat /\ d.wbuf \in Seq(Char) /\ Len(d.wbuf) \in Nat
      /\ (d.wbuf = <<>> => Len(d.wbuf) = 0)
  BY <1>1, FStreamFields
<1>4. \A k : DiskAfter(d, k) = WriteAt(c, d.pos, SubSeq(d.wbuf, 1, k))
  BY DEF DiskAfter
<1> HIDE DEF c
<1>5. ASSUME NEW k \in 0..Len(d.wbuf), "out" \notin d.mode PROVE DiskAfter(d, k) = c
  <2>1. d.wbuf = <<>>
    BY <1>1, <1>5 DEF Buffers
  <2>2. k = 0
    BY <1>3, <2>1
  <2>3. SubSeq(d.wbuf, 1, 0) = <<>>
    BY SubSeqEmpty
  <2> QED
    BY <1>4, <2>2, <2>3 DEF WriteAt
<1>6. ASSUME o.ok = TRUE, o.fs = Drained(d, Len(d.wbuf)), o.disk = DiskAfter(d, Len(d.wbuf))
      PROVE  /\ o.fs.file = d.file /\ o.fs.mode = d.mode /\ o.fs.open = d.open
             /\ Buffers(o.fs)
             /\ "out" \notin d.mode => o.disk = c
             /\ o.ok => o.fs.wbuf = <<>>
             /\ h.sole /\ o.ok => Fits(o.fs, o.disk, h)
             /\ h.sole => Saved(o.fs, o.disk, h)
  <2> DEFINE n == Len(d.wbuf)
  <2>1. /\ o.fs.file = d.file /\ o.fs.mode = d.mode /\ o.fs.open = d.open
        /\ o.fs.rbuf = d.rbuf /\ o.fs.wbuf = SubSeq(d.wbuf, n + 1, n)
    <3> DEFINE q == Drained(d, n)
    <3>1. /\ q.file = d.file /\ q.mode = d.mode /\ q.open = d.open
          /\ q.rbuf = d.rbuf /\ q.wbuf = SubSeq(d.wbuf, n + 1, Len(d.wbuf))
      BY <1>1, DrainedFields
    <3>2. o.fs = q
      BY <1>6
    <3> HIDE DEF q
    <3> QED
      BY <3>1, <3>2
  <2>2. n \in 0..Len(d.wbuf) /\ n \in Nat
    BY <1>3
  <2> HIDE DEF n
  <2>3. SubSeq(d.wbuf, n + 1, n) = <<>>
    <3>1. n + 1 \in Int /\ n \in Int /\ n < n + 1
      BY <2>2
    <3> QED
      BY <3>1, SubSeqEmpty
  <2>4. Buffers(o.fs)
    BY <1>1, <2>1, <2>3 DEF Buffers
  <2>5. "out" \notin d.mode => o.disk = c
    BY <1>5, <1>6, <2>2 DEF n
  <2>6. h.sole => Fits(o.fs, o.disk, h)
    <3>1. ASSUME h.sole PROVE Fits(Drained(d, n), WriteAt(c, d.pos, SubSeq(d.wbuf, 1, n)), h)
      BY <1>1, <2>2, <3>1, FitsDrains
    <3> QED
      BY <1>4, <1>6, <3>1 DEF n
  <2> QED
    BY <2>1, <2>3, <2>4, <2>5, <2>6 DEF Fits
<1>7. ASSUME NEW j \in 0..(Len(d.wbuf) - 1), o.ok = FALSE,
             o.fs = [d EXCEPT !.pos = d.pos + j], o.disk = DiskAfter(d, j)
      PROVE  /\ o.fs.file = d.file /\ o.fs.mode = d.mode /\ o.fs.open = d.open
             /\ Buffers(o.fs)
             /\ "out" \notin d.mode => o.disk = c
             /\ o.ok => o.fs.wbuf = <<>>
             /\ h.sole /\ o.ok => Fits(o.fs, o.disk, h)
             /\ h.sole => Saved(o.fs, o.disk, h)
  <2>1. j \in 0..Len(d.wbuf) /\ d.pos + j \in Nat
    BY <1>3
  <2>2. /\ o.fs \in FStream /\ o.fs.file = d.file /\ o.fs.mode = d.mode /\ o.fs.open = d.open
        /\ o.fs.rbuf = d.rbuf /\ o.fs.wbuf = d.wbuf /\ o.fs.pos = d.pos + j
    BY <1>1, <1>7, <2>1, Set_pos
  <2>3. Buffers(o.fs)
    BY <1>1, <2>2 DEF Buffers
  <2>4. "out" \notin d.mode => o.disk = c
    BY <1>5, <1>7, <2>1
  <2>5. ASSUME h.sole PROVE Saved(o.fs, WriteAt(c, d.pos, SubSeq(d.wbuf, 1, j)), h)
    <3> DEFINE e == o.fs
    <3>1. e \in FStream /\ e.open = d.open /\ e.pos = d.pos + j /\ e.rbuf = d.rbuf
      BY <2>2
    <3> HIDE DEF e
    <3>2. Saved(e, WriteAt(c, d.pos, SubSeq(d.wbuf, 1, j)), h)
      BY <1>1, <2>1, <2>5, <3>1, SavedDrains DEF Fits
    <3> QED
      BY <3>2 DEF e
  <2> QED
    BY <1>4, <1>7, <2>2, <2>3, <2>4, <2>5
<1>8. \/ o.ok = TRUE /\ o.fs = Drained(d, Len(d.wbuf)) /\ o.disk = DiskAfter(d, Len(d.wbuf))
      \/ /\ o.ok = FALSE
         /\ \E j \in 0..(Len(d.wbuf) - 1) :
              o.fs = [d EXCEPT !.pos = d.pos + j] /\ o.disk = DiskAfter(d, j)
  BY <1>1, DrainingIs
<1>9. /\ o.fs.file = d.file /\ o.fs.mode = d.mode /\ o.fs.open = d.open
      /\ Buffers(o.fs)
      /\ "out" \notin d.mode => o.disk = c
      /\ o.ok => o.fs.wbuf = <<>>
      /\ h.sole /\ o.ok => Fits(o.fs, o.disk, h)
      /\ h.sole => Saved(o.fs, o.disk, h)
  BY <1>6, <1>7, <1>8, Zenon
<1> QED
  BY <1>2, <1>9 DEF d, c, h

\* close() and the collector: nothing more is written through the stream.
LEMMA CloseKeepsDisk ==
    ASSUME TypeInv, DiskInv, NEW s \in Streams, object[s] # "none", NEW o \in Drainings(fs[s]),
           NEW e \in FStream, e.file = fs[s].file, e.mode = {}, e.open = FALSE,
           e.rbuf = <<>>, e.wbuf = <<>>,
           content' = [content EXCEPT ![fs[s].file] = o.disk],
           fs' = [fs EXCEPT ![s] = e],
           log' = [log EXCEPT ![s] = LogDrained(log[s], fs[s].open, o.ok)],
           object' = object
    PROVE  DiskInv'
<1> DEFINE d == fs[s]
           h == log[s]
           g == LogDrained(h, d.open, o.ok)
<1>1. /\ o.ok \in BOOLEAN /\ o.fs \in FStream /\ o.disk \in Seq(Char) /\ o.fs.open = d.open
      /\ "out" \notin d.mode => o.disk = content[d.file]
      /\ o.ok => o.fs.wbuf = <<>>
      /\ h.sole /\ o.ok => Fits(o.fs, o.disk, h)
      /\ h.sole => Saved(o.fs, o.disk, h)
      /\ ReadAhead(o.fs)
  BY StreamDrains
<1>2. h \in Log /\ d \in FStream
  BY StreamIs
<1>3. Buffers(e)
  BY DEF Buffers
<1> HIDE DEF d, h
<1>4. CASE ~o.ok
  <2>1. g = LogRefused(h)
    BY <1>4 DEF LogDrained
  <2>2. g.sole = h.sole
    BY <1>2, <2>1, LogRefusedIs
  <2>3. ASSUME h.sole PROVE Fits(e, o.disk, g)
    <3>1. Saved(e, o.disk, h)
      BY <1>1, <1>2, <2>3, FitsCloses
    <3> QED
      BY <1>2, <2>1, <2>3, <3>1, FitsRefused
  <2> HIDE DEF g
  <2> QED
    BY <1>1, <1>3, <2>2, <2>3, OneStreamActs DEF d, h, g
<1>5. CASE o.ok /\ d.open
  <2>1. g = LogFlushed(h)
    BY <1>5 DEF LogDrained
  <2>2. g \in Log /\ g.sole = h.sole
    BY <1>2, <2>1, LogFlushedIs
  <2>3. ASSUME h.sole PROVE Fits(e, o.disk, g)
    <3> DEFINE x == o.fs
               c == o.disk
    <3>1. x \in FStream /\ c \in Seq(Char) /\ Fits(x, c, h) /\ x.open /\ x.wbuf = <<>> /\ ReadAhead(x)
      BY <1>1, <1>5, <2>3
    <3> HIDE DEF x, c
    <3>2. Fits(x, c, g)
      BY <1>2, <2>1, <3>1, FitsFlushed
    <3> HIDE DEF g
    <3>3. Fits(e, c, g)
      BY <2>2, <3>1, <3>2, FitsCloses
    <3> QED
      BY <3>3 DEF c
  <2> HIDE DEF g
  <2> QED
    BY <1>1, <1>3, <2>2, <2>3, OneStreamActs DEF d, h, g
<1>6. CASE o.ok /\ ~d.open
  <2>1. g = h
    BY <1>6 DEF LogDrained
  <2>2. ASSUME h.sole PROVE Fits(e, o.disk, g)
    BY <1>1, <1>2, <1>6, <2>1, <2>2, FitsCloses
  <2> HIDE DEF g
  <2> QED
    BY <1>1, <1>3, <2>1, <2>2, OneStreamActs DEF d, h, g
<1> QED
  BY <1>1, <1>4, <1>5, <1>6

LEMMA FlushKeepsDisk ==
    ASSUME TypeInv, DiskInv, NEW s \in Streams, object[s] # "none", NEW o \in Drainings(fs[s]),
           content' = [content EXCEPT ![fs[s].file] = o.disk],
           fs' = [fs EXCEPT ![s] = IF o.ok THEN o.fs ELSE SetState(o.fs, {"bad"})],
           log' = [log EXCEPT ![s] = LogDrained(log[s], fs[s].open, o.ok)],
           object' = object
    PROVE  DiskInv'
<1> DEFINE d == fs[s]
           h == log[s]
           g == LogDrained(h, d.open, o.ok)
           e == IF o.ok THEN o.fs ELSE SetState(o.fs, {"bad"})
<1>1. /\ o.ok \in BOOLEAN /\ o.fs \in FStream /\ ReadAhead(o.fs) /\ o.disk \in Seq(Char)
      /\ o.fs.file = d.file /\ o.fs.mode = d.mode /\ o.fs.open = d.open /\ Buffers(o.fs)
      /\ "out" \notin d.mode => o.disk = content[d.file]
      /\ o.ok => o.fs.wbuf = <<>>
      /\ h.sole /\ o.ok => Fits(o.fs, o.disk, h)
      /\ h.sole => Saved(o.fs, o.disk, h)
  BY StreamDrains
<1>2. h \in Log /\ d \in FStream
  BY StreamIs
<1>3. /\ e \in FStream /\ e.file = o.fs.file /\ e.mode = o.fs.mode /\ e.open = o.fs.open
      /\ e.pos = o.fs.pos /\ e.rbuf = o.fs.rbuf /\ e.wbuf = o.fs.wbuf
  <2> DEFINE x == o.fs
  <2>1. x \in FStream
    BY <1>1
  <2> HIDE DEF x
  <2>2. LET y == SetState(x, {"bad"}) IN
        /\ y \in FStream /\ y.file = x.file /\ y.mode = x.mode /\ y.open = x.open
        /\ y.pos = x.pos /\ y.rbuf = x.rbuf /\ y.wbuf = x.wbuf
    BY <2>1, SetStateFields
  <2> QED
    BY <2>1, <2>2 DEF x
<1> HIDE DEF d, h, e
<1>4. Buffers(e)
  BY <1>1, <1>3 DEF Buffers
<1>5. g.sole = h.sole
  <2>1. d.open \in BOOLEAN
    BY <1>2, FStreamFields
  <2> QED
    BY <1>1, <1>2, <2>1, LogRefusedIs, LogFlushedIs DEF LogDrained
<1>6. ASSUME h.sole PROVE Fits(e, o.disk, g)
  <2> DEFINE x == o.fs
             c == o.disk
  <2>1. /\ x \in FStream /\ c \in Seq(Char) /\ ReadAhead(x) /\ x.open = d.open
        /\ e.open = x.open /\ e.pos = x.pos /\ e.rbuf = x.rbuf /\ e.wbuf = x.wbuf
        /\ Saved(x, c, h) /\ (o.ok => x.wbuf = <<>> /\ Fits(x, c, h))
    BY <1>1, <1>3, <1>6
  <2> HIDE DEF x, c
  <2>2. Fits(x, c, g)
    <3>1. CASE ~o.ok
      BY <1>2, <1>6, <2>1, <3>1, FitsRefused DEF LogDrained
    <3>2. CASE o.ok /\ d.open
      BY <1>2, <2>1, <3>2, FitsFlushed DEF LogDrained
    <3>3. CASE o.ok /\ ~d.open
      BY <2>1, <3>3 DEF LogDrained
    <3> QED
      BY <1>1, <3>1, <3>2, <3>3
  <2> HIDE DEF g
  <2>3. Fits(e, c, g)
    BY <2>1, <2>2, SameBuffers
  <2> QED
    BY <2>3 DEF c
<1> HIDE DEF g
<1>7. e.file = d.file /\ e.mode \subseteq d.mode
  BY <1>1, <1>3
<1> QED
  BY <1>1, <1>3, <1>4, <1>5, <1>6, <1>7, OneStreamActs DEF d, h, g, e

LEMMA GotLineFields ==
    ASSUME NEW d \in FStream, NEW c \in Seq(Char)
    PROVE  LET e == GotLine(d, c).fs IN
           e.file = d.file /\ e.mode = d.mode /\ e.open = d.open /\ e.wbuf = d.wbuf
<1>1. \E p, b : \/ GotLine(d, c).fs = [d EXCEPT !.pos = p, !.rbuf = b]
                \/ \E st : GotLine(d, c).fs = [d EXCEPT !.pos = p, !.rbuf = b, !.state = st]
  BY Zenon DEF GotLine
<1>2. PICK p, b : \/ GotLine(d, c).fs = [d EXCEPT !.pos = p, !.rbuf = b]
                  \/ \E st : GotLine(d, c).fs = [d EXCEPT !.pos = p, !.rbuf = b, !.state = st]
  BY <1>1
<1> QED
  BY <1>2 DEF FStream

\* getline on a stream with nothing pending, or that cannot be read.
LEMMA GetlineKeeps ==
    ASSUME NEW d \in FStream, NEW c \in Seq(Char), NEW h \in Log, Buffers(d), ReadAhead(d),
           CanRead(d) => d.wbuf = <<>>, h.sole => Fits(d, c, h)
    PROVE  LET e == Getline(d, c).fs
               g == IF CanRead(d) THEN LogRead(h) ELSE h
           IN  /\ e \in FStream /\ e.file = d.file /\ e.mode = d.mode /\ Buffers(e)
               /\ g.sole = h.sole /\ (h.sole => Fits(e, c, g))
<1> DEFINE e == Getline(d, c).fs
           g == IF CanRead(d) THEN LogRead(h) ELSE h
<1>1. e \in FStream
  BY GetlineType
<1>2. CASE ~CanRead(d)
  <2>1. PICK bits \in SUBSET {"eof", "fail", "bad"} : Getline(d, c).fs = SetState(d, bits)
    BY <1>2 DEF Getline
  <2> DEFINE x == SetState(d, bits)
  <2>2. /\ x.file = d.file /\ x.mode = d.mode /\ x.open = d.open
        /\ x.pos = d.pos /\ x.rbuf = d.rbuf /\ x.wbuf = d.wbuf
    BY SetStateFields
  <2> HIDE DEF x
  <2>3. e = x /\ g = h
    BY <1>2, <2>1 DEF x
  <2>4. Buffers(x)
    BY <2>2 DEF Buffers
  <2>5. h.sole => Fits(x, c, h)
    BY <2>2, SameBuffers
  <2> HIDE DEF e, g
  <2> QED
    BY <1>1, <2>2, <2>3, <2>4, <2>5 DEF e, g
<1>3. CASE CanRead(d)
  <2>1. d.open /\ "in" \in d.mode /\ d.wbuf = <<>>
    BY <1>3 DEF CanRead
  <2>2. e = GotLine(d, c).fs /\ g = LogRead(h)
    BY <1>3 DEF Getline, CanRead
  <2>3. e.file = d.file /\ e.mode = d.mode /\ e.open = d.open /\ e.wbuf = d.wbuf
    BY <2>2, GotLineFields
  <2>4. h.sole => Fits(e, c, g)
    BY <2>1, <2>2, FitsReads
  <2>5. g.sole = h.sole
    BY <2>2, LogReadIs
  <2> HIDE DEF e, g
  <2>6. Buffers(e)
    BY <2>1, <2>3 DEF Buffers
  <2> QED
    BY <1>1, <2>3, <2>4, <2>5, <2>6 DEF e, g
<1> QED
  BY <1>2, <1>3

LEMMA ReadKeepsDisk ==
    ASSUME TypeInv, DiskInv, NEW s \in Streams, object[s] # "none",
           NEW r \in Readings(fs[s]), Read(s, r), object' = object
    PROVE  DiskInv'
<1> DEFINE d == fs[s]
           c == content[d.file]
           h == log[s]
           g == IF ~r.ok THEN LogRefused(h) ELSE IF CanRead(d) THEN LogRead(h) ELSE h
           e == r.got.fs
<1>1. /\ d \in FStream /\ ReadAhead(d) /\ c \in Seq(Char) /\ h \in Log /\ Buffers(d)
      /\ h.sole => Fits(d, c, h)
  BY StreamIs DEF DiskInv
<1>2. /\ content' = [content EXCEPT ![d.file] = r.disk] /\ fs' = [fs EXCEPT ![s] = e]
      /\ log' = [log EXCEPT ![s] = g]
  BY DEF Read
<1>3. CASE ~(CanRead(d) /\ d.wbuf # <<>>) /\ r.ok = TRUE /\ r.disk = c /\ r.got = Getline(d, c)
  <2> DEFINE x == Getline(d, c).fs
             y == IF CanRead(d) THEN LogRead(h) ELSE h
  <2> HIDE DEF d, h, c
  <2>1. /\ x \in FStream /\ x.file = d.file /\ x.mode = d.mode /\ Buffers(x)
        /\ y.sole = h.sole /\ (h.sole => Fits(x, c, y))
    BY <1>1, <1>3, GetlineKeeps
  <2>2. e = x /\ g = y
    BY <1>3
  <2> HIDE DEF x, y, e, g
  <2> QED
    BY <1>1, <1>2, <1>3, <2>1, <2>2, OneStreamActs DEF d, h, c
<1>4. ASSUME CanRead(d), NEW o \in Drainings(d), r.ok = o.ok, r.disk = o.disk,
             o.ok => r.got = Getline(o.fs, o.disk),
             ~o.ok => r.got = [line |-> <<>>, fs |-> SetState(o.fs, {"eof", "fail"})]
      PROVE  DiskInv'
  <2> DEFINE x == o.fs
             b == o.disk
  <2>1. /\ o.ok \in BOOLEAN /\ x \in FStream /\ ReadAhead(x) /\ b \in Seq(Char)
        /\ x.file = d.file /\ x.mode = d.mode /\ x.open = d.open /\ Buffers(x)
        /\ "out" \notin d.mode => b = c
        /\ o.ok => x.wbuf = <<>>
        /\ h.sole /\ o.ok => Fits(x, b, h)
        /\ h.sole => Saved(x, b, h)
    BY <1>4, StreamDrains
  <2>2. o.ok => x.state = d.state
    <3> HIDE DEF d
    <3>1. o.ok => x = Drained(d, Len(d.wbuf))
      BY <1>4, DrainingIs
    <3> QED
      BY <1>1, <3>1 DEF Drained, FStream
  <2> HIDE DEF d, h, c, x, b
  <2>3. CASE o.ok
    <3> DEFINE z == Getline(x, b).fs
               y == IF CanRead(x) THEN LogRead(h) ELSE h
    <3>1. CanRead(x)
      BY <1>4, <2>1, <2>2, <2>3 DEF CanRead, Good
    <3>2. /\ z \in FStream /\ z.file = x.file /\ z.mode = x.mode /\ Buffers(z)
          /\ y.sole = h.sole /\ (h.sole => Fits(z, b, y))
      BY <1>1, <2>1, <2>3, GetlineKeeps
    <3>3. e = z /\ g = y /\ r.disk = b
      BY <1>4, <2>3, <3>1 DEF x, b
    <3>4. z.file = d.file /\ z.mode \subseteq d.mode
      BY <2>1, <3>2
    <3> HIDE DEF z, y, e, g
    <3> QED
      BY <1>1, <1>2, <2>1, <3>2, <3>3, <3>4, OneStreamActs DEF d, h, c
  <2>4. CASE ~o.ok
    <3> DEFINE z == SetState(x, {"eof", "fail"})
               y == LogRefused(h)
    <3>1. /\ z \in FStream /\ z.file = x.file /\ z.mode = x.mode /\ z.open = x.open
          /\ z.pos = x.pos /\ z.rbuf = x.rbuf /\ z.wbuf = x.wbuf
      BY <2>1, SetStateFields
    <3>2. y.sole = h.sole
      BY <1>1, LogRefusedIs
    <3> HIDE DEF z
    <3>3. h.sole => Fits(z, b, y)
      <4>1. h.sole => Saved(z, b, h)
        BY <2>1, <3>1, SameBuffers
      <4> QED
        BY <1>1, <4>1, FitsRefused
    <3>4. Buffers(z)
      BY <2>1, <3>1 DEF Buffers
    <3>5. e = z /\ g = y /\ r.disk = b
      BY <1>4, <2>4 DEF x, b, z
    <3>6. z.file = d.file /\ z.mode \subseteq d.mode
      BY <2>1, <3>1
    <3> HIDE DEF y, e, g
    <3> QED
      BY <1>1, <1>2, <2>1, <3>1, <3>2, <3>3, <3>4, <3>5, <3>6, OneStreamActs DEF d, h, c
  <2> QED
    BY <2>1, <2>3, <2>4
<1>5. \/ ~(CanRead(d) /\ d.wbuf # <<>>) /\ r.ok = TRUE /\ r.disk = c /\ r.got = Getline(d, c)
      \/ /\ CanRead(d)
         /\ \E o \in Drainings(d) :
              /\ r.ok = o.ok /\ r.disk = o.disk
              /\ o.ok => r.got = Getline(o.fs, o.disk)
              /\ ~o.ok => r.got = [line |-> <<>>, fs |-> SetState(o.fs, {"eof", "fail"})]
  BY ReadingIs
<1> QED
  BY <1>3, <1>4, <1>5, Zenon

LEMMA WriteLineKeepsDisk ==
    ASSUME TypeInv, DiskInv, LifeInv, NEW line \in Lines, stream_writeLine(line)
    PROVE  DiskInv'
<1> DEFINE s == calls[Len(calls)]
           d == fs[s]
           c == content[d.file]
           h == log[s]
           all == Pending(d, line)
           n == Len(all.wbuf)
<1>1. s \in Streams /\ object[s] # "none"
  <2>1. calls # <<>> /\ TypeOK
    BY DEF stream_writeLine, TypeInv
  <2> QED
    BY <2>1, InnermostIsHeld DEF LifeInv
<1>2. object' = object
  BY DEF stream_writeLine, heapVars
<1>3. line \in Seq(Char)
  BY StreamAssumption
<1>4. \/ /\ Accepts(d)
         /\ \E o \in Writings(d, line) :
             /\ content' = [content EXCEPT ![d.file] = o.disk]
             /\ fs' = [fs EXCEPT ![s] = o.fs]
             /\ log' = [log EXCEPT ![s] = IF o.ok THEN LogWrite(h, line) ELSE LogRefused(h)]
      \/ /\ fs' = [fs EXCEPT ![s] = SetState(d, IF Good(d) THEN {"bad"} ELSE {"fail"})]
         /\ content' = content /\ log' = log
  BY DEF stream_writeLine
<1> HIDE DEF s
<1>5. /\ d \in FStream /\ ReadAhead(d) /\ c \in Seq(Char) /\ h \in Log /\ Buffers(d)
      /\ d.file \in Files /\ content \in [Files -> Seq(Char)] /\ log \in [Streams -> Log]
      /\ h.sole => Fits(d, c, h)
  BY <1>1, StreamIs DEF DiskInv
<1> HIDE DEF d, h
<1>6. ASSUME Accepts(d)
      PROVE  /\ all \in FStream /\ ReadAhead(all) /\ all.file = d.file /\ all.mode = d.mode
             /\ all.open /\ "out" \in all.mode /\ "out" \in d.mode /\ all.rbuf = <<>>
             /\ Buffers(all) /\ n \in Nat
             /\ h.sole => Fits(all, c, LogWrite(h, line)) /\ Saved(all, c, h)
  <2>1. d.open /\ "out" \in d.mode
    BY <1>6 DEF Accepts
  <2>2. /\ all.file = d.file /\ all.mode = d.mode /\ all.open = d.open /\ all.rbuf = <<>>
    BY <1>5, PendingFields
  <2>3. all \in FStream /\ ReadAhead(all)
    BY <1>3, <1>5, PendingType
  <2>4. h.sole => Fits(all, c, LogWrite(h, line)) /\ Saved(all, c, h)
    <3> HIDE DEF c
    <3> QED
      BY <1>3, <1>5, <2>1, PendingFits
  <2> HIDE DEF all
  <2>5. Buffers(all)
    BY <2>1, <2>2 DEF Buffers
  <2>6. n \in Nat
    BY <2>3, FStreamFields
  <2> QED
    BY <2>1, <2>2, <2>3, <2>4, <2>5, <2>6
<1>7. ASSUME Accepts(d), NEW k \in 0..n,
             content' = [content EXCEPT ![d.file] = DiskAfter(all, k)],
             fs' = [fs EXCEPT ![s] = Drained(all, k)],
             log' = [log EXCEPT ![s] = LogWrite(h, line)]
      PROVE  DiskInv'
  <2> DEFINE e == Drained(all, k)
             b == DiskAfter(all, k)
             g == LogWrite(h, line)
  <2>1. g \in Log /\ g.sole = h.sole
    BY <1>3, <1>5, LogWriteIs
  <2> HIDE DEF all, g
  <2>2. e \in FStream /\ b \in Seq(Char)
    BY <1>5, <1>6, <1>7, DrainedType, DiskAfterType
  <2>3. /\ e.file = d.file /\ e.mode = d.mode /\ e.open /\ e.rbuf = <<>> /\ "out" \in d.mode
    BY <1>6, <1>7, DrainedFields
  <2>4. h.sole => Fits(e, b, g)
    <3>1. b = WriteAt(c, all.pos, SubSeq(all.wbuf, 1, k))
      BY <1>6, <1>7 DEF DiskAfter
    <3> HIDE DEF c, e, b
    <3>2. ASSUME h.sole PROVE Fits(Drained(all, k), WriteAt(c, all.pos, SubSeq(all.wbuf, 1, k)), g)
      BY <1>5, <1>6, <1>7, <2>1, <3>2, FitsDrains DEF g
    <3> QED
      BY <3>1, <3>2 DEF e
  <2> HIDE DEF e, b
  <2>5. Buffers(e)
    BY <2>3 DEF Buffers
  <2>6. /\ content' = [content EXCEPT ![d.file] = b] /\ fs' = [fs EXCEPT ![s] = e]
        /\ log' = [log EXCEPT ![s] = g]
    BY <1>7 DEF e, b, g
  <2> QED
    BY <1>1, <1>2, <2>1, <2>2, <2>3, <2>4, <2>5, <2>6, OneStreamActs DEF d, h
<1>8. ASSUME Accepts(d), NEW t \in Stops(Len(d.wbuf), n), NEW o, o = Refused(all, t[1], t[2], t[3]),
             content' = [content EXCEPT ![d.file] = o.disk],
             fs' = [fs EXCEPT ![s] = o.fs],
             log' = [log EXCEPT ![s] = IF o.ok THEN LogWrite(h, line) ELSE LogRefused(h)]
      PROVE  DiskInv'
  <2> DEFINE e == o.fs
             b == o.disk
             g == LogRefused(h)
             k == t[1] + t[3]
             held == Len(d.wbuf)
  <2>1. g.sole = h.sole
    BY <1>5, LogRefusedIs
  <2>2. /\ t[1] \in Nat /\ t[3] \in Nat /\ k \in 0..n
        /\ o.ok = FALSE /\ e \in FStream /\ b = DiskAfter(all, k)
        /\ e.file = all.file /\ e.mode = all.mode /\ e.open = all.open
        /\ e.pos = all.pos + t[1] + t[3] /\ e.rbuf = all.rbuf
    <3> DEFINE q == Refused(all, t[1], t[2], t[3])
    <3>1. held \in Nat /\ t \in Stops(held, Len(all.wbuf)) /\ all \in FStream /\ o = q
      BY <1>5, <1>6, <1>8, FStreamFields
    <3> HIDE DEF all, held
    <3>2. /\ t[1] \in Nat /\ t[3] \in Nat /\ k \in 0..Len(all.wbuf)
          /\ q.ok = FALSE /\ q.fs \in FStream /\ q.disk = DiskAfter(all, k)
          /\ q.fs.file = all.file /\ q.fs.mode = all.mode /\ q.fs.open = all.open
          /\ q.fs.pos = all.pos + t[1] + t[3] /\ q.fs.rbuf = all.rbuf
      BY <3>1, RefusedIs
    <3> HIDE DEF q
    <3> QED
      BY <3>1, <3>2
  <2> HIDE DEF all, g
  <2>3. /\ e.file = d.file /\ e.mode = d.mode /\ e.open /\ e.rbuf = <<>> /\ "out" \in d.mode
    BY <1>6, <1>8, <2>2
  <2>4. e.pos = all.pos + k
    <3>1. all.pos \in Nat
      BY <1>6, <1>8, FStreamFields
    <3> QED
      BY <2>2, <3>1
  <2>5. b \in Seq(Char)
    BY <1>5, <1>6, <1>8, <2>2, DiskAfterType
  <2> HIDE DEF k
  <2>6. h.sole => Fits(e, b, g)
    <3>1. b = WriteAt(c, all.pos, SubSeq(all.wbuf, 1, k))
      BY <1>6, <1>8, <2>2 DEF DiskAfter
    <3> HIDE DEF c, e, b
    <3>2. ASSUME h.sole PROVE Saved(e, WriteAt(c, all.pos, SubSeq(all.wbuf, 1, k)), h)
      BY <1>5, <1>6, <1>8, <2>2, <2>4, <3>2, SavedDrains
    <3> QED
      BY <1>5, <3>1, <3>2, FitsRefused DEF g
  <2>7. /\ content' = [content EXCEPT ![d.file] = b] /\ fs' = [fs EXCEPT ![s] = e]
        /\ log' = [log EXCEPT ![s] = g] /\ e \in FStream
    BY <1>8, <2>2 DEF g
  <2> HIDE DEF e, b
  <2>8. Buffers(e)
    BY <2>3 DEF Buffers
  <2> QED
    BY <1>1, <1>2, <2>1, <2>3, <2>5, <2>6, <2>7, <2>8, OneStreamActs DEF d, h
<1>9. ASSUME fs' = [fs EXCEPT ![s] = SetState(d, IF Good(d) THEN {"bad"} ELSE {"fail"})],
             content' = content, log' = log
      PROVE  DiskInv'
  <2> DEFINE bits == IF Good(d) THEN {"bad"} ELSE {"fail"}
             e == SetState(d, bits)
  <2>1. bits \in SUBSET {"eof", "fail", "bad"}
    OBVIOUS
  <2> HIDE DEF bits
  <2>2. /\ e \in FStream /\ e.file = d.file /\ e.mode = d.mode /\ e.open = d.open
        /\ e.pos = d.pos /\ e.rbuf = d.rbuf /\ e.wbuf = d.wbuf
    BY <1>5, <2>1, SetStateFields
  <2> HIDE DEF e
  <2>3. Buffers(e)
    BY <1>5, <2>2 DEF Buffers
  <2>4. h.sole => Fits(e, c, h)
    BY <1>5, <2>2, SameBuffers
  <2>5. /\ content' = [content EXCEPT ![d.file] = c] /\ log' = [log EXCEPT ![s] = h]
        /\ fs' = [fs EXCEPT ![s] = e]
    BY <1>5, <1>9 DEF e, bits, h
  <2> QED
    BY <1>1, <1>2, <1>5, <2>2, <2>3, <2>4, <2>5, OneStreamActs DEF d, h
<1>10. ASSUME Accepts(d), NEW o \in Writings(d, line),
              content' = [content EXCEPT ![d.file] = o.disk],
              fs' = [fs EXCEPT ![s] = o.fs],
              log' = [log EXCEPT ![s] = IF o.ok THEN LogWrite(h, line) ELSE LogRefused(h)]
       PROVE  DiskInv'
  <2>1. \/ o.ok = TRUE /\ \E k \in 0..n : o.fs = Drained(all, k) /\ o.disk = DiskAfter(all, k)
        \/ \E t \in Stops(Len(d.wbuf), n) : o = Refused(all, t[1], t[2], t[3])
    BY WritingIs, Zenon
  <2> HIDE DEF all, n
  <2>2. ASSUME o.ok = TRUE, NEW k \in 0..n, o.fs = Drained(all, k), o.disk = DiskAfter(all, k)
        PROVE  DiskInv'
    BY <1>7, <1>10, <2>2
  <2>3. ASSUME NEW t \in Stops(Len(d.wbuf), n), o = Refused(all, t[1], t[2], t[3])
        PROVE  DiskInv'
    BY <1>8, <1>10, <2>3, Zenon
  <2> QED
    BY <2>1, <2>2, <2>3, Zenon
<1> HIDE DEF all, n, c
<1> QED
  BY <1>4, <1>9, <1>10, Zenon

-----------------------------------------------------------------------------
(* The invariant, and what it shows.                                        *)

LEMMA DiskInit == Init => DiskInv
<1> SUFFICES ASSUME Init, NEW s \in Streams
             PROVE  /\ Buffers(fs[s])
                    /\ object[s] = "none" => fs[s].mode = {} /\ log[s] = NoLog
                    /\ ~log[s].sole
  BY DEF DiskInv
<1> DEFINE f0 == CHOOSE f \in Files : TRUE
           d == Opened(f0, {})
<1>1. f0 \in Files
  BY StreamAssumption
<1>2. fs[s] = Closed(d) /\ log[s] = NoLog
  BY DEF Init
<1> HIDE DEF f0
<1>3. d \in FStream
  BY <1>1, OpenedType
<1> HIDE DEF d
<1>4. fs[s].mode = {} /\ fs[s].wbuf = <<>> /\ fs[s].rbuf = <<>>
  BY <1>2, <1>3, ClosedFields
<1> QED
  BY <1>2, <1>4 DEF Buffers, NoLog

\* A new stream is sole on its file if no other stream is open for output on
\* it; a new stream that is open for output ends that of the others.
LEMMA OpenKeepsDisk ==
    ASSUME TypeInv, DiskInv, NEW s \in Streams, NEW f \in Files, NEW modes \in Modes,
           stream_constructor(s, f, modes)
    PROVE  DiskInv'
<1> DEFINE e == Opened(f, modes)
           m == OpenMode(modes)
           new == [NoLog EXCEPT !.sole = TRUE, !.text = content'[f]]
<1>1. /\ object[s] = "none" /\ m # {} /\ m \subseteq {"in", "out"}
      /\ content' = [content EXCEPT ![f] = IF "in" \in m THEN content[f] ELSE <<>>]
      /\ fs' = [fs EXCEPT ![s] = e]
      /\ object' = [object EXCEPT ![s] = "reachable"]
  BY DEF stream_constructor, OpenMode
<1>2. \A t \in Streams :
        log'[t] = IF t = s THEN IF \E u \in Streams : fs[u].file = f /\ "out" \in fs[u].mode
                                THEN NoLog ELSE new
                  ELSE IF fs[t].file = f /\ "out" \in m THEN NoLog ELSE log[t]
  BY DEF stream_constructor
<1>3. /\ fs \in [Streams -> FStream] /\ content \in [Files -> Seq(Char)]
      /\ object \in [Streams -> {"none", "reachable", "garbage"}]
  BY DEF TypeInv, TypeOK
<1>4. /\ e.file = f /\ e.mode = m /\ e.open = TRUE /\ e.pos = 0
      /\ e.rbuf = <<>> /\ e.wbuf = <<>>
  BY DEF Opened
<1> HIDE DEF e, m
<1>5. fs'[s] = e /\ object'[s] = "reachable" /\ Buffers(e)
  BY <1>1, <1>3, <1>4 DEF Buffers
<1>6. ~NoLog.sole
  BY DEF NoLog
<1>7. ASSUME log'[s].sole
      PROVE  Alone(s)' /\ Fits(e, content'[f], log'[s])
  <2>1. log'[s] = new /\ \A u \in Streams : fs[u].file = f => "out" \notin fs[u].mode
    BY <1>2, <1>6, <1>7
  <2>2. \A t \in Streams \ {s} : fs'[t] = fs[t]
    BY <1>1, <1>3
  <2>3. Alone(s)'
    BY <1>4, <1>5, <2>1, <2>2 DEF Alone
  <2> DEFINE x == content'[f]
  <2>4. x \in Seq(Char)
    <3>1. <<>> \in Seq(Char)
      BY EmptySeq
    <3> QED
      BY <1>1, <1>3, <3>1
  <2>5. new.text = x /\ new.at = 0 /\ new.safe = 0
    BY DEF NoLog
  <2> HIDE DEF new, x
  <2>6. Len(<<>>) = 0 /\ Len(x) \in Nat
    BY <2>4
  <2>7. Saved(e, x, new)
    <3>1. 0 <= Len(x) /\ 0 <= Len(new.text) /\ 0 + Len(e.rbuf) <= 0
      BY <1>4, <2>5, <2>6
    <3> QED
      BY <1>4, <2>5, <3>1 DEF Saved
  <2>8. Meets(e, x, new)
    <3>1. Place(e) = 0
      BY <1>4, <2>6 DEF Place
    <3>2. SubSeq(x, 1, 0) = <<>>
      BY SubSeqEmpty
    <3>3. e.pos - Len(e.rbuf) + 1 = 1
      BY <1>4, <2>6
    <3> QED
      BY <1>4, <2>5, <3>1, <3>2, <3>3 DEF Meets, WriteAt
  <2> QED
    BY <2>1, <2>3, <2>7, <2>8 DEF Fits, x
<1>8. ASSUME NEW t \in Streams, t # s
      PROVE  /\ Buffers(fs'[t])
             /\ object'[t] = "none" => fs'[t].mode = {} /\ log'[t] = NoLog
             /\ log'[t].sole => Alone(t)' /\ Fits(fs'[t], content'[fs'[t].file], log'[t])
  <2>1. /\ fs'[t] = fs[t] /\ object'[t] = object[t]
        /\ log'[t] = IF fs[t].file = f /\ "out" \in m THEN NoLog ELSE log[t]
    BY <1>1, <1>2, <1>3, <1>8
  <2>2. ASSUME log'[t].sole
        PROVE  Alone(t)' /\ content'[fs[t].file] = content[fs[t].file] /\ log'[t] = log[t]
    <3>1. log'[t] = log[t] /\ (fs[t].file = f => "out" \notin m)
      BY <1>6, <2>1, <2>2
    <3>2. Alone(t)
      BY <2>2, <3>1 DEF DiskInv
    <3>3. \A u \in Streams \ {s} : fs'[u] = fs[u]
      BY <1>1, <1>3
    <3>4. Alone(t)'
      BY <1>4, <1>5, <1>8, <3>1, <3>2, <3>3 DEF Alone
    <3>5. content'[fs[t].file] = content[fs[t].file]
      <4>1. fs[t].file \in Files
        BY <1>3, FStreamFields
      <4>2. CASE fs[t].file = f
        <5>1. "in" \in m
          BY <1>1, <3>1, <4>2
        <5> QED
          BY <1>1, <1>3, <5>1
      <4>3. CASE fs[t].file # f
        BY <1>1, <1>3, <4>1, <4>3
      <4> QED
        BY <4>2, <4>3
    <3> QED
      BY <3>1, <3>4, <3>5
  <2>3. object[t] = "none" => fs[t].mode = {} /\ log[t] = NoLog
    BY DEF DiskInv
  <2>4. Buffers(fs[t]) /\ (log[t].sole => Fits(fs[t], content[fs[t].file], log[t]))
    BY DEF DiskInv
  <2> QED
    BY <2>1, <2>2, <2>3, <2>4
<1>9. object'[s] # "none" /\ fs'[s].file = f
  BY <1>4, <1>5
<1> QED
  BY <1>5, <1>7, <1>8, <1>9 DEF DiskInv

LEMMA DiskStep == TypeInv /\ LifeInv /\ DiskInv /\ [Next]_vars => DiskInv'
<1> SUFFICES ASSUME TypeInv, LifeInv, DiskInv, [Next]_vars PROVE DiskInv'
  OBVIOUS
<1>1. ASSUME NEW s \in Streams, NEW f \in Files, NEW modes \in Modes,
             stream_constructor(s, f, modes)
      PROVE  DiskInv'
  BY <1>1, OpenKeepsDisk
<1>2. ASSUME UNCHANGED <<content, fs, log>>,
             object' = object \/ \E s \in Streams : object' = [object EXCEPT ![s] = "garbage"]
      PROVE  DiskInv'
  <2>1. \A s \in Streams : object'[s] = "none" => object[s] = "none"
    BY <1>2 DEF TypeInv, TypeOK
  <2> QED
    BY <1>2, <2>1 DEF DiskInv, Alone
<1>3. ASSUME NEW s \in Streams,
             OpenThrows(s) \/ OpenCrashes(s) \/ WrongArity(s) \/ WriteLineCall(s) \/ Drop(s)
      PROVE  DiskInv'
  <2>1. UNCHANGED <<content, fs, log>>
    BY <1>3 DEF OpenThrows, OpenCrashes, WrongArity, WriteLineCall, Drop, diskVars
  <2>2. object' = object \/ object' = [object EXCEPT ![s] = "garbage"]
    BY <1>3 DEF OpenThrows, OpenCrashes, WrongArity, WriteLineCall, Drop, heapVars
  <2> QED
    BY <1>2, <2>1, <2>2
<1>4. ASSUME NEW s \in Streams, stream_close(s)
      PROVE  DiskInv'
  <2>1. PICK o \in Drainings(fs[s]) :
          /\ content' = [content EXCEPT ![fs[s].file] = o.disk]
          /\ fs' = [fs EXCEPT ![s] = SetState(Closed(@), IF o.ok /\ @.open THEN {} ELSE {"fail"})]
          /\ log' = [log EXCEPT ![s] = LogDrained(@, fs[s].open, o.ok)]
    BY <1>4 DEF stream_close
  <2> DEFINE c == Closed(fs[s])
             bits == IF o.ok /\ fs[s].open THEN {} ELSE {"fail"}
             e == SetState(c, bits)
  <2>2. fs' = [fs EXCEPT ![s] = e] /\ object[s] # "none" /\ object' = object
    BY <1>4, <2>1 DEF stream_close, CanCall, heapVars
  <2>3. /\ c \in FStream /\ c.file = fs[s].file /\ c.mode = {} /\ c.open = FALSE
        /\ c.rbuf = <<>> /\ c.wbuf = <<>> /\ bits \in SUBSET {"eof", "fail", "bad"}
    BY StreamIs, ClosedType, ClosedFields
  <2> HIDE DEF c, bits
  <2>4. /\ e \in FStream /\ e.file = fs[s].file /\ e.mode = {} /\ e.open = FALSE
        /\ e.rbuf = <<>> /\ e.wbuf = <<>>
    BY <2>3, SetStateFields
  <2> HIDE DEF e
  <2>5. log' = [log EXCEPT ![s] = LogDrained(log[s], fs[s].open, o.ok)]
    BY <2>1
  <2> QED
    BY <2>1, <2>2, <2>4, <2>5, CloseKeepsDisk
<1>5. ASSUME NEW s \in Streams, stream_flush(s)
      PROVE  DiskInv'
  <2>1. object[s] # "none" /\ object' = object
    BY <1>5 DEF stream_flush, CanCall, heapVars
  <2>2. CASE UNCHANGED <<content, fs, log>>
    BY <1>2, <2>1, <2>2
  <2>3. ASSUME NEW o \in Drainings(fs[s]),
               content' = [content EXCEPT ![fs[s].file] = o.disk],
               fs' = [fs EXCEPT ![s] = IF o.ok THEN o.fs ELSE SetState(o.fs, {"bad"})],
               log' = [log EXCEPT ![s] = LogDrained(log[s], fs[s].open, o.ok)]
        PROVE  DiskInv'
    BY <2>1, <2>3, FlushKeepsDisk
  <2> QED
    BY <1>5, <2>2, <2>3 DEF stream_flush
<1>6. ASSUME NEW s \in Streams, stream_next(s) \/ stream_readLine(s)
      PROVE  DiskInv'
  <2>1. object[s] # "none" /\ UNCHANGED object
    BY <1>6 DEF stream_next, stream_readLine, CanCall, heapVars
  <2>2. (\E r \in Readings(fs[s]) : Read(s, r)) \/ UNCHANGED <<content, fs, log>>
    BY <1>6 DEF stream_next, stream_readLine
  <2>3. CASE UNCHANGED <<content, fs, log>>
    BY <1>2, <2>1, <2>3
  <2>4. ASSUME NEW r \in Readings(fs[s]), Read(s, r)
        PROVE  DiskInv'
    BY <2>1, <2>4, ReadKeepsDisk
  <2> QED
    BY <2>2, <2>3, <2>4
<1>7. ASSUME NEW line \in Lines, stream_writeLine(line)
      PROVE  DiskInv'
  BY <1>7, WriteLineKeepsDisk
<1>8. ASSUME NEW s \in Streams, CleanupStream(s)
      PROVE  DiskInv'
  <2>1. PICK o \in Drainings(fs[s]) :
          /\ content' = [content EXCEPT ![fs[s].file] = o.disk]
          /\ fs' = [fs EXCEPT ![s] = Closed(@)]
          /\ log' = [log EXCEPT ![s] = LogDrained(@, fs[s].open, o.ok)]
    BY <1>8 DEF CleanupStream
  <2> DEFINE e == Closed(fs[s])
  <2>2. /\ e \in FStream /\ e.file = fs[s].file /\ e.mode = {} /\ e.open = FALSE
        /\ e.rbuf = <<>> /\ e.wbuf = <<>>
    BY StreamIs, ClosedType, ClosedFields
  <2>3. fs' = [fs EXCEPT ![s] = e]
    BY <2>1
  <2> HIDE DEF e
  <2>4. object[s] # "none" /\ object' = object
    BY <1>8 DEF CleanupStream
  <2>5. log' = [log EXCEPT ![s] = LogDrained(log[s], fs[s].open, o.ok)]
    BY <2>1
  <2> QED
    BY <2>1, <2>2, <2>3, <2>4, <2>5, CloseKeepsDisk
<1>9. CASE Exit \/ UNCHANGED vars
  <2>1. UNCHANGED <<content, fs, log, object>>
    BY <1>9 DEF Exit, vars, diskVars, heapVars
  <2> QED
    BY <1>2, <2>1
<1> QED
  BY <1>1, <1>3, <1>4, <1>5, <1>6, <1>7, <1>8, <1>9 DEF Next

LEMMA DiskInvariant == Spec => [](TypeInv /\ LifeInv /\ DiskInv)
<1>1. TypeInv => TypeOK
  BY DEF TypeInv
<1> QED
  BY <1>1, TypeInit, TypeStep, LifeInit, LifeStep, DiskInit, DiskStep, PTL DEF Spec

\* Whatever a script does with its streams, wherever the system stops a write
\* that it refuses, and whatever is then written a second time: what a flush(), a
\* close() or a collection of a stream that is sole on its file reported written
\* stays in the file.
THEOREM FlushedStays == Spec => []FlushedIsDurable
BY DiskInvariant, DiskImpliesDurable, PTL

\* As long as no write is refused, neither the read-ahead nor the pending output
\* of such a stream can be noticed, in whatever order readLine, next, writeLine
\* and flush are called: no character is lost, written twice, out of place or
\* read after it was overwritten.
THEOREM BuffersStayInvisible == Spec => []BuffersAreInvisible
BY DiskInvariant, DiskImpliesDurable, PTL
=============================================================================
