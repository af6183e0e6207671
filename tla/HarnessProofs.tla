---------------------------- MODULE HarnessProofs ----------------------------
(* Proofs about Harness, for any number of rounds, any contents, any tree   *)
(* and any read buffer, the collector running whenever it may: test_parser  *)
(* calls Stream as Stream allows, reads its files whole and finds the trees *)
(* it recorded.                                                             *)
EXTENDS Harness, StreamProofs

-----------------------------------------------------------------------------
(* Reading a line.                                                          *)

\* Without the line and its end, what is available is what was: no refill loses
\* a character or brings one twice.
LEMMA LineRead ==
    ASSUME NEW d \in FStream, NEW c \in Seq(Char), ReadAhead(d),
           \E i \in 1..Len(Available(d, c)) : Available(d, c)[i] = "nl"
    PROVE  LET g == GotLine(d, c) IN
           /\ g.line \in Seq(Char)
           /\ Append(g.line, "nl") \o Available(g.fs, c) = Available(d, c)
           /\ g.fs.state = d.state /\ g.fs.mode = d.mode /\ g.fs.open = d.open
           /\ g.fs.file = d.file /\ g.fs.wbuf = d.wbuf
<1> DEFINE a == Available(d, c)
           n == LineEnd(a)
           held == Len(d.rbuf)
           pos == IF n <= held THEN d.pos ELSE Refilled(d.pos, Len(c), n - held)
           rest == SubSeq(a, n + 1, held + pos - d.pos)
           e == [d EXCEPT !.pos = pos, !.rbuf = rest]
           b == Available(e, c)
           line == SubSeq(a, 1, n - 1)
<1>1. /\ a \in Seq(Char)
      /\ Len(a) = held + (IF d.pos < Len(c) THEN Len(c) - d.pos ELSE 0)
  BY AvailableType
<1>2. held \in Nat /\ d.pos \in Nat /\ held <= d.pos /\ Len(c) \in Nat /\ Len(a) \in Nat
  BY <1>1, FStreamFields DEF ReadAhead
<1>3. n \in 1..Len(a) /\ a[n] = "nl"
  <2>1. \E i \in 1..Len(a) : a[i] = "nl" /\ \A j \in 1..(i - 1) : a[j] # "nl"
    <3> DEFINE P == {i \in 1..Len(a) : a[i] = "nl"}
    <3>1. P \in SUBSET Nat /\ P # {}
      BY <1>2
    <3>2. PICK i \in P : \A j \in P : i <= j
      BY <3>1, LeastElement
    <3> QED
      BY <1>2, <3>2
  <2> QED
    BY <2>1 DEF LineEnd
<1>4. /\ pos \in Nat /\ d.pos <= pos /\ n <= held + pos - d.pos /\ held + pos - d.pos <= Len(a)
      /\ pos = d.pos \/ pos <= Len(c)
  <2>1. CASE n <= held
    BY <1>1, <1>2, <1>3, <2>1
  <2>2. CASE n > held
    <3>1. n - held \in Nat /\ d.pos < Len(c) /\ d.pos <= Len(c) /\ d.pos + (n - held) <= Len(c)
      BY <1>1, <1>2, <1>3, <2>2, SMTT(30)
    <3>2. pos = Refilled(d.pos, Len(c), n - held)
      BY <1>2, <1>3, <2>2
    <3> HIDE DEF pos, n, a, held
    <3>3. pos \in Nat /\ d.pos <= pos /\ pos <= Len(c)
      BY <1>2, <3>1, <3>2, RefillBounds, Zenon
    <3>4. d.pos + (n - held) <= pos
      BY <1>2, <3>1, <3>2, RefillSuffices, Zenon
    <3> QED
      BY <1>1, <1>2, <1>3, <2>2, <3>1, <3>3, <3>4, SMTT(30)
  <2> QED
    BY <1>2, <1>3, <2>1, <2>2
<1> HIDE DEF pos, a, n, held
<1>5. /\ rest \in Seq(Char) /\ Len(rest) = (held + pos - d.pos) - n
      /\ \A i \in 1..Len(rest) : rest[i] = a[n + i]
  <2> DEFINE u == held + pos - d.pos
             v == n + 1
  <2>1. u \in Int /\ u <= Len(a) /\ v \in Nat /\ v >= 1 /\ n <= u
    BY <1>2, <1>3, <1>4
  <2> HIDE DEF u, v
  <2>2. /\ SubSeq(a, v, u) \in Seq(Char) /\ Len(SubSeq(a, v, u)) = (IF v <= u THEN u - v + 1 ELSE 0)
        /\ \A i \in 1..(u - v + 1) : SubSeq(a, v, u)[i] = a[v + i - 1]
    BY <1>1, <2>1, SubSeqType
  <2>3. Len(SubSeq(a, v, u)) = u - n
    BY <1>3, <2>1, <2>2 DEF v
  <2>4. \A i \in 1..(u - n) : SubSeq(a, v, u)[i] = a[n + i]
    BY <1>3, <2>1, <2>2 DEF v
  <2> QED
    BY <2>2, <2>3, <2>4 DEF u, v
<1>6. line \in Seq(Char) /\ Len(line) = n - 1 /\ \A i \in 1..(n - 1) : line[i] = a[i]
  BY <1>1, <1>3, SubSeqType
<1> HIDE DEF rest, line
<1>7. GotLine(d, c) = [line |-> line, fs |-> e]
  BY DEF GotLine, pos, a, n, rest, held, line
<1>8. /\ e \in FStream /\ e.pos = pos /\ e.rbuf = rest /\ e.state = d.state /\ e.mode = d.mode
      /\ e.open = d.open /\ e.file = d.file /\ e.wbuf = d.wbuf
  BY <1>4, <1>5 DEF FStream
<1> HIDE DEF e
<1>9. /\ b \in Seq(Char) /\ Len(b) = Len(a) - n
  <2>1. b \in Seq(Char) /\ Len(b) = Len(rest) + (IF pos < Len(c) THEN Len(c) - pos ELSE 0)
    BY <1>8, AvailableType
  <2> HIDE DEF b
  <2>2. CASE pos = d.pos
    BY <1>1, <1>2, <1>3, <1>5, <2>1, <2>2, SMTT(30)
  <2>3. CASE pos > d.pos
    <3>1. pos <= Len(c) /\ d.pos < Len(c)
      BY <1>2, <1>4, <2>3
    <3>2. Len(b) = Len(rest) + (Len(c) - pos) /\ Len(a) = held + (Len(c) - d.pos)
      BY <1>1, <1>2, <1>4, <1>5, <2>1, <3>1, SMTT(30)
    <3> DEFINE h == held p == pos q == d.pos m == n z == Len(c) k == Len(a)
               o == Len(rest) y == Len(b)
    <3>3. h \in Nat /\ p \in Nat /\ q \in Nat /\ m \in Nat /\ z \in Nat
      BY <1>2, <1>3, <1>4
    <3>4. y = o + (z - p) /\ k = h + (z - q) /\ o = (h + p - q) - m
      BY <1>5, <3>2
    <3> HIDE DEF h, p, q, m, z, k, o, y
    <3>5. y = k - m
      BY <3>3, <3>4
    <3> QED
      BY <2>1, <3>5 DEF y, k, m
  <2> QED
    BY <1>2, <1>4, <2>2, <2>3
<1>10. ASSUME NEW i \in 1..Len(b) PROVE b[i] = a[n + i]
  <2>1. i <= Len(rest) => b[i] = rest[i]
    BY <1>8, AvailableAt
  <2>2. i > Len(rest) => b[i] = c[pos + i - Len(rest)]
    BY <1>8, AvailableAt
  <2>3. n + i \in 1..Len(a)
    BY <1>2, <1>3, <1>9
  <2>4. n + i > held => a[n + i] = c[d.pos + (n + i) - held]
    BY <2>3, AvailableAt DEF a, held
  <2> HIDE DEF b
  <2>5. CASE i <= Len(rest)
    BY <1>5, <2>1, <2>5
  <2>6. CASE i > Len(rest)
    <3>1. n + i > held /\ pos + i - Len(rest) = d.pos + (n + i) - held
      BY <1>2, <1>3, <1>4, <1>5, <2>6, SMTT(30)
    <3> QED
      BY <2>2, <2>4, <2>6, <3>1
  <2> QED
    BY <1>5, <2>5, <2>6
<1> HIDE DEF b
<1>11. Append(line, "nl") \o b = a
  <2> DEFINE l == Append(line, "nl")
  <2>1. "nl" \in Char
    BY DEF Char
  <2>2. l \in Seq(Char) /\ Len(l) = n /\ l[n] = "nl" /\ \A i \in 1..(n - 1) : l[i] = line[i]
    BY <1>3, <1>6, <2>1, AppendProperties
  <2> HIDE DEF l
  <2>3. /\ l \o b \in Seq(Char) /\ Len(l \o b) = Len(l) + Len(b)
        /\ \A i \in 1..(Len(l) + Len(b)) : (l \o b)[i] = IF i <= Len(l) THEN l[i] ELSE b[i - Len(l)]
    BY <1>9, <2>2, ConcatProperties
  <2>4. ASSUME NEW i \in 1..Len(a) PROVE (l \o b)[i] = a[i]
    <3>1. CASE i < n
      <4>1. i \in 1..(n - 1) /\ i \in 1..(Len(l) + Len(b)) /\ i <= Len(l)
        BY <1>2, <1>3, <1>9, <2>2, <3>1
      <4>2. (l \o b)[i] = l[i] /\ l[i] = line[i] /\ line[i] = a[i]
        BY <1>6, <2>2, <2>3, <4>1
      <4> QED
        BY <4>2
    <3>2. CASE i = n
      <4>1. n \in 1..(Len(l) + Len(b)) /\ n <= Len(l)
        BY <1>2, <1>3, <1>9, <2>2
      <4> QED
        BY <1>3, <2>2, <2>3, <3>2, <4>1
    <3>3. CASE i > n
      <4>1. i - n \in 1..Len(b) /\ n + (i - n) = i /\ ~(i <= n)
        BY <1>2, <1>3, <1>9, <3>3
      <4>2. (l \o b)[i] = b[i - n]
        <5>1. i \in 1..(Len(l) + Len(b))
          BY <1>2, <1>3, <1>9, <2>2
        <5> QED
          BY <2>2, <2>3, <4>1, <5>1
      <4>3. b[i - n] = a[n + (i - n)]
        BY <1>10, <4>1
      <4>4. a[n + (i - n)] = a[i]
        BY <4>1, Zenon
      <4> QED
        BY <4>2, <4>3, <4>4, Zenon
    <3>4. i < n \/ i = n \/ i > n
      BY <1>2, <1>3
    <3> QED
      BY <3>1, <3>2, <3>3, <3>4, Zenon
  <2>5. Len(l \o b) = Len(a)
    BY <1>2, <1>3, <1>9, <2>2, <2>3
  <2>6. l \o b = a
    BY <1>1, <2>3, <2>4, <2>5, SeqEqual
  <2> QED
    BY <2>6 DEF l
<1> QED
  BY <1>6, <1>7, <1>8, <1>11 DEF b, a

\* The last line, which no newline ends.
LEMMA LastLineRead ==
    ASSUME NEW d \in FStream, NEW c \in Seq(Char), ReadAhead(d),
           ~ \E i \in 1..Len(Available(d, c)) : Available(d, c)[i] = "nl"
    PROVE  LET g == GotLine(d, c) IN
           /\ g.line = Available(d, c) /\ "eof" \in g.fs.state
           /\ g.fs.mode = d.mode /\ g.fs.open = d.open /\ g.fs.file = d.file /\ g.fs.wbuf = d.wbuf
BY DEF GotLine, FStream

-----------------------------------------------------------------------------
(* The inductive invariant.                                                 *)

StreamInv == TypeInv /\ LifeInv /\ DiskInv

Reading == doing \in {"source", "reference"}
Writing == doing \in {"create", "differ"}

\* The file the running readFile or writeFile is about.
Its == FileOf[doing]
Recorded == Append(Syntax, "nl")

Stages == [source |-> 1, reference |-> 2, create |-> 3, differ |-> 3]
Verdicts == {"empty", "same", "created", "different"}

\* Types, and which places belong to which of the two functions.  A round
\* uses three streams at most.
Places ==
    /\ doing \in {"source", "reference", "create", "differ", "aborted", "done"}
    /\ at \in {"open", "loop", "write", "close", "return"}
    /\ acc \in Seq(Char) /\ verdicts \in Seq(Verdicts) /\ cur \in Nat \ {0}
    /\ Active => cur <= 3 * Len(verdicts) + Stages[doing] /\ Len(verdicts) < Rounds
    /\ at = "loop" => Reading
    /\ at = "write" => Writing
    /\ at = "close" => Active
    /\ calls = <<>> \/ (at = "write" /\ calls = <<cur>>)

\* Only the stream in use is open, and the script still has it.
OneOpen ==
    /\ \A s \in Streams : s # cur \/ at \in {"open", "return"} => fs[s].mode = {}
    /\ at \in {"loop", "write", "close"} => object[cur] = "reachable" /\ fs[cur].file = Its

FilesAreText == \A f \in Files : content[f] \in Seq(Text)

\* What readFile has so far, and what the stream still has, is the file.
ReadSoFar ==
    /\ at = "loop" =>
         /\ fs[cur].open /\ fs[cur].mode = {"in"}
         /\ \/ fs[cur].state = {} /\ acc \o Available(fs[cur], content[Its]) = content[Its]
            \/ "eof" \in fs[cur].state /\ acc = Append(content[Its], "nl")
    /\ Reading /\ at \in {"close", "return"} => acc = Append(content[Its], "nl")
    /\ Reading /\ at = "close" => fs[cur].mode = {"in"}

\* The history of a stream that has emptied its file and written nothing.
Untouched(h) == h.sole /\ ~h.refused /\ h.text = <<>> /\ h.at = 0

\* The stream of writeFile is the sole writer of its file.
WrittenSoFar ==
    /\ at = "write" =>
         /\ fs[cur].open /\ fs[cur].mode = {"out"} /\ fs[cur].state = {}
         /\ fs[cur].wbuf = <<>> /\ Untouched(log[cur])
    /\ Writing /\ at = "close" =>
         /\ fs[cur].open /\ fs[cur].wbuf \in Seq(Text) /\ log[cur].sole
         /\ ~WriteErrors => ~log[cur].refused /\ log[cur].text = Recorded
    /\ ~WriteErrors /\ doing = "create" /\ at = "return" => content["syntax"] = Recorded

HasRecord == \E i \in 1..Len(verdicts) : verdicts[i] = "created"

\* A recorded tree stays in its file, and no other is written.
RecordStays ==
    /\ HasRecord => content["syntax"] = Recorded /\ ~Writing
    /\ RecordedTreeIsFoundEqual

ClientInv == Places /\ OneOpen /\ FilesAreText /\ ReadSoFar /\ WrittenSoFar

-----------------------------------------------------------------------------
(* The client makes calls of Stream.                                        *)

LEMMA CurIsStream == Places /\ Active => cur \in Streams /\ Its \in Files
<1> SUFFICES ASSUME Places, Active PROVE cur \in Streams /\ Its \in Files
  OBVIOUS
<1>1. doing \in {"source", "reference", "create", "differ"}
  BY DEF Active, FileOf
<1>2. Its \in Files
  BY <1>1, HarnessAssumption DEF Its, FileOf
<1>3. /\ cur \in Nat \ {0} /\ Len(verdicts) \in Nat /\ Len(verdicts) < Rounds
      /\ cur <= 3 * Len(verdicts) + 3
  <2>1. Stages[doing] \in 1 .. 3
    BY <1>1 DEF Stages
  <2> QED
    BY <2>1 DEF Places
<1>4. Rounds \in Nat /\ Streams = 1..(3 * Rounds)
  BY HarnessAssumption
<1>5. cur <= 3 * Rounds
  BY <1>3, <1>4
<1> QED
  BY <1>2, <1>3, <1>4, <1>5

LEMMA ClientStep == ASSUME Places, [HNext]_allVars PROVE [Next]_vars
<1>1. CASE UNCHANGED allVars
  BY <1>1 DEF allVars
<1>2. CASE Collect
  BY <1>2 DEF Collect, Next
<1>3. CASE Quit
  BY <1>3 DEF Quit, Next
<1>4. CASE Script
  <2>1. at = "loop" \/ at = "write" \/ at = "close" => Active
    BY DEF Places, Reading, Writing, Active, FileOf
  <2>2. CASE OpenFails
    BY <2>2, CurIsStream DEF OpenFails, Next
  <2>3. CASE readFileOpen
    <3>1. Active /\ {"r"} \in Modes
      BY <2>3 DEF readFileOpen, Active, FileOf, Modes
    <3> QED
      BY <2>3, <3>1, CurIsStream DEF readFileOpen, Next, Its
  <2>4. CASE readFileLoop
    BY <2>1, <2>4, CurIsStream DEF readFileLoop, Next
  <2>5. CASE writeFileOpen
    <3>1. Active /\ {"w"} \in Modes
      BY <2>5 DEF writeFileOpen, Active, FileOf, Modes
    <3> QED
      BY <2>5, <3>1, CurIsStream DEF writeFileOpen, Next, Its
  <2>6. CASE writeFileWrite
    <3>1. cur \in Streams /\ Syntax \in Lines
      BY <2>1, <2>6, CurIsStream, HarnessAssumption DEF writeFileWrite
    <3> QED
      BY <2>6, <3>1 DEF writeFileWrite, Next
  <2>7. CASE closeFile
    BY <2>1, <2>7, CurIsStream DEF closeFile, Next
  <2>8. CASE parseThrows
    <3>1. Active
      BY <2>8 DEF parseThrows, Active, FileOf
    <3> QED
      BY <2>8, <3>1, CurIsStream DEF parseThrows, Next
  <2>9. CASE test_parser
    BY <2>9, CurIsStream DEF test_parser, Next
  <2> QED
    BY <1>4, <2>2, <2>3, <2>4, <2>5, <2>6, <2>7, <2>8, <2>9 DEF Script
<1> QED
  BY <1>1, <1>2, <1>3, <1>4 DEF HNext

LEMMA StreamInvStep == StreamInv /\ Places /\ [HNext]_allVars => StreamInv'
BY ClientStep, TypeStep, LifeStep, DiskStep DEF StreamInv, TypeInv

\* What is known of a stream.
LEMMA OneStream ==
    ASSUME StreamInv, NEW s \in Streams
    PROVE  /\ fs[s] \in FStream /\ ReadAhead(fs[s]) /\ Buffers(fs[s])
           /\ fs[s].file \in Files /\ content[fs[s].file] \in Seq(Char)
           /\ content \in [Files -> Seq(Char)] /\ log[s] \in Log /\ log \in [Streams -> Log]
           /\ fs \in [Streams -> FStream] /\ object \in [Streams -> {"none", "reachable", "garbage"}]
           /\ log[s].sole => Fits(fs[s], content[fs[s].file], log[s])
BY StreamIs DEF StreamInv, TypeInv, TypeOK, DiskInv

\* A stream that is not open for output has nothing to write.
LEMMA NothingPending ==
    ASSUME StreamInv, NEW s \in Streams, "out" \notin fs[s].mode
    PROVE  /\ fs[s].wbuf = <<>>
           /\ \A o \in Drainings(fs[s]) : [content EXCEPT ![fs[s].file] = o.disk] = content
<1>1. Buffers(fs[s]) /\ content \in [Files -> Seq(Char)]
  BY OneStream
<1>2. ASSUME NEW o \in Drainings(fs[s])
      PROVE  [content EXCEPT ![fs[s].file] = o.disk] = content
  <2>1. o.disk = content[fs[s].file]
    BY StreamDrains DEF StreamInv
  <2> QED
    BY <1>1, <2>1
<1> QED
  BY <1>1, <1>2 DEF Buffers

LEMMA FsChanges ==
    ASSUME StreamInv, NEW s \in Streams, NEW e, fs' = [fs EXCEPT ![s] = e]
    PROVE  fs'[s] = e /\ \A t \in Streams : t # s => fs'[t] = fs[t]
BY DEF StreamInv, TypeInv, TypeOK

-----------------------------------------------------------------------------
(* readFile.                                                                *)

LEMMA readFileOpenKeeps ==
    ASSUME StreamInv, ClientInv, readFileOpen
    PROVE  ClientInv' /\ content' = content
<1> DEFINE f == Its
           d == Opened(f, {"r"})
<1>0. /\ Reading /\ at = "open" /\ acc' = <<>> /\ stream_constructor(cur, f, {"r"})
      /\ at' = (IF exists'[f] THEN "loop" ELSE "return")
      /\ doing' = doing /\ cur' = cur /\ verdicts' = verdicts
  BY DEF readFileOpen, Reading, Its
<1>2. Places /\ Active /\ cur \in Streams /\ f \in Files
  BY <1>0, CurIsStream DEF ClientInv, Active, Reading, FileOf
<1>1. /\ Reading /\ at = "open" /\ at' = "loop" /\ acc' = <<>> /\ stream_constructor(cur, f, {"r"})
      /\ doing' = doing /\ cur' = cur /\ verdicts' = verdicts
  <2>1. exists \in [Files -> BOOLEAN] /\ exists' = [exists EXCEPT ![f] = TRUE]
    BY <1>0 DEF stream_constructor, StreamInv, TypeInv, TypeOK
  <2>2. exists'[f] = TRUE
    BY <1>2, <2>1
  <2> QED
    BY <1>0, <2>2
<1>3. OpenMode({"r"}) = {"in"}
  BY DEF OpenMode
<1>4. content' = content
  <2>1. content' = [content EXCEPT ![f] = content[f]]
    BY <1>1, <1>3 DEF stream_constructor
  <2> QED
    BY <1>2, <2>1, OneStream
<1>5. /\ fs' = [fs EXCEPT ![cur] = d] /\ object' = [object EXCEPT ![cur] = "reachable"]
      /\ calls' = calls
  BY <1>1 DEF stream_constructor
<1>6. fs'[cur] = d /\ (\A t \in Streams : t # cur => fs'[t] = fs[t]) /\ object'[cur] = "reachable"
  <2> HIDE DEF d
  <2> QED
    BY <1>2, <1>5, FsChanges, OneStream
<1>7. /\ d.file = f /\ d.mode = {"in"} /\ d.open /\ d.state = {} /\ d.rbuf = <<>> /\ d.pos = 0
      /\ d.wbuf = <<>>
  BY <1>3 DEF Opened
<1>8. Available(d, content[f]) = content[f]
  <2>1. content[f] \in Seq(Char) /\ Len(content[f]) \in Nat
    BY <1>2, OneStream
  <2>2. CASE content[f] = <<>>
    BY <1>7, <2>2 DEF Available
  <2>3. CASE content[f] # <<>>
    <3>1. 0 < Len(content[f])
      BY <2>1, <2>3, EmptySeq
    <3>2. SubSeq(content[f], 0 + 1, Len(content[f])) = content[f]
      BY <2>1
    <3> QED
      BY <1>7, <2>1, <3>1, <3>2, ConcatEmptySeq DEF Available
  <2> QED
    BY <2>2, <2>3
<1> HIDE DEF d
<1>9. Places'
  BY <1>1, <1>2, <1>5, EmptySeq DEF Places, Active, Reading
<1>10. OneOpen'
  BY <1>1, <1>2, <1>6, <1>7 DEF ClientInv, OneOpen, Its
<1>11. FilesAreText'
  BY <1>4 DEF ClientInv, FilesAreText
<1>12. ReadSoFar'
  <2>1. <<>> \o content[f] = content[f]
    BY <1>2, OneStream, ConcatEmptySeq
  <2> QED
    BY <1>1, <1>4, <1>6, <1>7, <1>8, <2>1 DEF ReadSoFar, Its
<1>13. WrittenSoFar'
  BY <1>1 DEF WrittenSoFar, Writing, Reading
<1> QED
  BY <1>4, <1>9, <1>10, <1>11, <1>12, <1>13 DEF ClientInv

\* Text has no NUL, so a line that came from it is returned as it is.
LEMMA TextIsReturned ==
    ASSUME NEW s \in Seq(Char), \A i \in 1..Len(s) : s[i] # "nul"
    PROVE  CStr(s) = s
BY DEF CStr

LEMMA PartsAreText ==
    ASSUME NEW a \in Seq(Char), NEW b \in Seq(Char), a \o b \in Seq(Text)
    PROVE  a \in Seq(Text) /\ b \in Seq(Text)
<1>1. /\ Len(a) \in Nat /\ Len(b) \in Nat /\ Len(a \o b) = Len(a) + Len(b)
      /\ \A i \in 1..(Len(a) + Len(b)) : (a \o b)[i] = IF i <= Len(a) THEN a[i] ELSE b[i - Len(a)]
  BY ConcatProperties
<1>2. \A i \in 1..(Len(a) + Len(b)) : (a \o b)[i] \in Text
  BY <1>1
<1>3. ASSUME NEW i \in 1..Len(a) PROVE a[i] \in Text
  BY <1>1, <1>2
<1>4. ASSUME NEW i \in 1..Len(b) PROVE b[i] \in Text
  <2>1. Len(a) + i \in 1..(Len(a) + Len(b)) /\ ~(Len(a) + i <= Len(a)) /\ (Len(a) + i) - Len(a) = i
    BY <1>1
  <2>2. (a \o b)[Len(a) + i] = b[(Len(a) + i) - Len(a)]
    BY <1>1, <2>1
  <2> QED
    BY <1>2, <2>1, <2>2
<1> QED
  BY <1>3, <1>4

\* One more turn of the loop.
LEMMA readLineContinues ==
    ASSUME StreamInv, ClientInv, at = "loop", Reading, cur \in Streams, stream_readLine(cur)
    PROVE  /\ content' = content
           /\ \E e \in FStream :
                /\ fs' = [fs EXCEPT ![cur] = e]
                /\ e.file = fs[cur].file /\ e.mode = fs[cur].mode /\ e.open = fs[cur].open
                /\ \/ /\ result'.str = <<>> /\ acc = Append(content[Its], "nl") /\ e = fs[cur]
                   \/ /\ result'.str \in Seq(Char) \ {<<>>}
                      /\ \/ /\ e.state = {}
                            /\ (acc \o result'.str) \o Available(e, content[Its]) = content[Its]
                         \/ /\ "eof" \in e.state
                            /\ acc \o result'.str = Append(content[Its], "nl")
<1> DEFINE d == fs[cur]
           c == content[Its]
           a == Available(d, c)
<1>1. /\ d.open /\ d.mode = {"in"} /\ d.file = Its
      /\ \/ d.state = {} /\ acc \o a = c
         \/ "eof" \in d.state /\ acc = Append(c, "nl")
  BY DEF ClientInv, ReadSoFar, OneOpen
<1>2. /\ d \in FStream /\ ReadAhead(d) /\ c \in Seq(Char) /\ acc \in Seq(Char) /\ d.wbuf = <<>>
      /\ fs \in [Streams -> FStream] /\ c \in Seq(Text)
  <2>1. d.wbuf = <<>>
    BY <1>1, NothingPending
  <2>2. Its \in Files
    BY <1>1, OneStream
  <2>3. c \in Seq(Text)
    BY <2>2 DEF ClientInv, FilesAreText
  <2> QED
    BY <1>1, <2>1, <2>3, OneStream DEF ClientInv, Places
<1>3. CASE "eof" \in d.state
  <2>1. /\ result'.str = <<>> /\ content' = content /\ fs' = fs
    BY <1>3 DEF stream_readLine, Returned
  <2>2. fs' = [fs EXCEPT ![cur] = d] /\ acc = Append(c, "nl")
    BY <1>1, <1>2, <1>3, <2>1
  <2> QED
    BY <1>2, <2>1, <2>2
<1>4. CASE "eof" \notin d.state
  <2>1. d.state = {} /\ acc \o a = c
    BY <1>1, <1>4
  <2>2. Readings(d) = {[ok |-> TRUE, disk |-> c, got |-> GotLine(d, c)]}
    <3>1. ~(CanRead(d) /\ d.wbuf # <<>>)
      BY <1>2
    <3>2. Getline(d, c) = GotLine(d, c)
      BY <1>1, <2>1 DEF Getline, CanRead, Good
    <3> QED
      BY <1>1, <3>1, <3>2 DEF Readings
  <2> DEFINE g == GotLine(d, c)
             str == Append(g.line, "nl")
  <2> HIDE DEF g
  <2>3. content' = content /\ fs' = [fs EXCEPT ![cur] = g.fs] /\ result'.str = CStr(str)
    <3>1. content' = [content EXCEPT ![d.file] = c] /\ fs' = [fs EXCEPT ![cur] = g.fs]
          /\ result'.str = CStr(str)
      BY <1>4, <2>2 DEF stream_readLine, Read, Returned, g
    <3>2. content \in [Files -> Seq(Char)]
      BY OneStream
    <3> QED
      BY <1>1, <3>1, <3>2
  <2>4. g.line \in Seq(Char) /\ g.fs \in FStream
    BY <1>2, GotLineType DEF g
  <2>5. /\ str \in Seq(Char) /\ str # <<>> /\ Len(str) = Len(g.line) + 1
        /\ str[Len(g.line) + 1] = "nl" /\ \A i \in 1..Len(g.line) : str[i] = g.line[i]
    <3>1. "nl" \in Char
      BY DEF Char
    <3> QED
      BY <2>4, <3>1, AppendProperties
  <2>6. a \in Seq(Char) /\ a \in Seq(Text)
    <3>1. a \in Seq(Char)
      BY <1>2, AvailableType
    <3> QED
      BY <1>2, <2>1, <3>1, PartsAreText
  <2>7. CASE \E i \in 1..Len(a) : a[i] = "nl"
    <3> DEFINE b == Available(g.fs, c)
    <3>1. /\ str \o b = a /\ g.fs.state = {} /\ g.fs.mode = d.mode /\ g.fs.open = d.open
          /\ g.fs.file = d.file
      BY <1>2, <2>1, <2>7, LineRead DEF g
    <3>2. b \in Seq(Char)
      BY <1>2, <2>4, AvailableType
    <3> HIDE DEF b, str, a
    <3>3. str \in Seq(Text)
      BY <2>5, <2>6, <3>1, <3>2, PartsAreText
    <3>4. CStr(str) = str
      BY <2>5, <3>3, TextIsReturned DEF Text
    <3>5. (acc \o str) \o b = acc \o (str \o b)
      BY <1>2, <2>5, <3>2, ThreeTexts
    <3>6. (acc \o str) \o b = c
      BY <2>1, <3>1, <3>5
    <3> QED
      BY <1>2, <2>3, <2>4, <2>5, <3>1, <3>4, <3>6 DEF b
  <2>8. CASE ~ \E i \in 1..Len(a) : a[i] = "nl"
    <3>1. /\ g.line = a /\ "eof" \in g.fs.state /\ g.fs.mode = d.mode /\ g.fs.open = d.open
          /\ g.fs.file = d.file
      BY <1>2, <2>8, LastLineRead DEF g
    <3> HIDE DEF a
    <3>2. \A i \in 1..Len(str) : str[i] # "nul"
      <4>1. \A i \in 1..Len(a) : a[i] # "nul"
        BY <2>6 DEF Text
      <4> QED
        BY <2>5, <3>1, <4>1
    <3>3. CStr(str) = str
      BY <2>5, <3>2, TextIsReturned
    <3>4. acc \o Append(a, "nl") = Append(acc \o a, "nl")
      <4>1. <<"nl">> \in Seq(Char)
        BY DEF Char
      <4>2. Append(a, "nl") = a \o <<"nl">> /\ Append(acc \o a, "nl") = (acc \o a) \o <<"nl">>
        BY <1>2, <2>6, ConcatProperties
      <4> QED
        BY <1>2, <2>6, <4>1, <4>2, ThreeTexts
    <3>5. acc \o str = Append(c, "nl")
      BY <2>1, <3>1, <3>4
    <3> HIDE DEF str
    <3> QED
      BY <1>2, <2>3, <2>4, <2>5, <3>1, <3>3, <3>5
  <2> QED
    BY <2>7, <2>8
<1> QED
  BY <1>3, <1>4

LEMMA readFileLoopKeeps ==
    ASSUME StreamInv, ClientInv, readFileLoop
    PROVE  ClientInv' /\ content' = content
<1>1. /\ at = "loop" /\ Reading /\ stream_readLine(cur) /\ acc' = acc \o result'.str
      /\ at' = (IF result'.str = <<>> THEN "close" ELSE "loop")
      /\ doing' = doing /\ cur' = cur /\ verdicts' = verdicts
  BY DEF readFileLoop, ClientInv, Places
<1>2. Places /\ Active /\ cur \in Streams
  BY <1>1, CurIsStream DEF ClientInv, Active, Reading, FileOf
<1>3. object' = object /\ calls' = calls
  BY <1>1 DEF stream_readLine, heapVars
<1>4. content' = content
  BY <1>1, <1>2, readLineContinues
<1>5. PICK e \in FStream :
        /\ fs' = [fs EXCEPT ![cur] = e]
        /\ e.file = fs[cur].file /\ e.mode = fs[cur].mode /\ e.open = fs[cur].open
        /\ \/ /\ result'.str = <<>> /\ acc = Append(content[Its], "nl") /\ e = fs[cur]
           \/ /\ result'.str \in Seq(Char) \ {<<>>}
              /\ \/ /\ e.state = {}
                    /\ (acc \o result'.str) \o Available(e, content[Its]) = content[Its]
                 \/ /\ "eof" \in e.state
                    /\ acc \o result'.str = Append(content[Its], "nl")
  BY <1>1, <1>2, readLineContinues
<1>6. fs'[cur] = e /\ \A t \in Streams : t # cur => fs'[t] = fs[t]
  BY <1>2, <1>5, FsChanges
<1>7. acc \in Seq(Char) /\ (result'.str = <<>> => acc' = acc)
  BY <1>1, <1>2, ConcatEmptySeq DEF Places
<1>8. Its' = Its
  BY <1>1 DEF Its
<1>9. Places'
  <2>1. acc' \in Seq(Char)
    BY <1>1, <1>5, <1>7, ConcatProperties
  <2> QED
    BY <1>1, <1>2, <1>3, <2>1 DEF Places, Active, Reading, Writing
<1>10. OneOpen'
  BY <1>1, <1>2, <1>3, <1>5, <1>6, <1>8 DEF ClientInv, OneOpen
<1>11. FilesAreText'
  BY <1>4 DEF ClientInv, FilesAreText
<1>12. ReadSoFar'
  <2>1. fs[cur].open /\ fs[cur].mode = {"in"}
    BY <1>1 DEF ClientInv, ReadSoFar
  <2> QED
    BY <1>1, <1>4, <1>5, <1>6, <1>7, <1>8, <2>1 DEF ReadSoFar
<1>13. WrittenSoFar'
  BY <1>1 DEF WrittenSoFar, Writing, Reading
<1> QED
  BY <1>4, <1>9, <1>10, <1>11, <1>12, <1>13 DEF ClientInv

-----------------------------------------------------------------------------
(* writeFile.                                                               *)

LEMMA writeFileOpenKeeps ==
    ASSUME StreamInv, ClientInv, writeFileOpen
    PROVE  ClientInv' /\ content' = [content EXCEPT ![Its] = <<>>]
<1> DEFINE f == Its
           d == Opened(f, {"w"})
<1>1. /\ Writing /\ at = "open" /\ at' = "write" /\ stream_constructor(cur, f, {"w"})
      /\ doing' = doing /\ cur' = cur /\ verdicts' = verdicts /\ acc' = acc
  BY DEF writeFileOpen, Writing, Its
<1>2. Places /\ Active /\ cur \in Streams /\ f \in Files
  BY <1>1, CurIsStream DEF ClientInv, Active, Writing, FileOf
<1>3. OpenMode({"w"}) = {"out"}
  BY DEF OpenMode
<1>4. /\ content' = [content EXCEPT ![f] = <<>>] /\ fs' = [fs EXCEPT ![cur] = d]
      /\ object[cur] = "none" /\ object' = [object EXCEPT ![cur] = "reachable"]
      /\ calls' = calls
  BY <1>1, <1>3 DEF stream_constructor
<1>5. fs'[cur] = d /\ (\A t \in Streams : t # cur => fs'[t] = fs[t]) /\ object'[cur] = "reachable"
  <2> HIDE DEF d
  <2> QED
    BY <1>2, <1>4, FsChanges, OneStream
<1>6. d.file = f /\ d.mode = {"out"} /\ d.open /\ d.state = {} /\ d.wbuf = <<>>
  BY <1>3 DEF Opened
<1> HIDE DEF d
<1>7. Untouched(log'[cur])
  <2>1. ~ \E u \in Streams : fs[u].file = f /\ "out" \in fs[u].mode
    BY <1>1 DEF ClientInv, OneOpen
  <2>2. log'[cur] = [NoLog EXCEPT !.sole = TRUE, !.text = content'[f]]
    BY <1>1, <1>2, <2>1 DEF stream_constructor
  <2>3. content'[f] = <<>>
    BY <1>2, <1>4, OneStream
  <2> QED
    BY <2>2, <2>3 DEF NoLog, Untouched
<1>8. Places'
  BY <1>1, <1>2, <1>4, EmptySeq DEF Places, Active, Writing
<1>9. OneOpen'
  BY <1>1, <1>2, <1>5, <1>6 DEF ClientInv, OneOpen, Its
<1>10. FilesAreText'
  <2>1. content \in [Files -> Seq(Char)] /\ <<>> \in Seq(Text)
    BY <1>2, OneStream, EmptySeq
  <2> QED
    BY <1>2, <1>4, <2>1 DEF ClientInv, FilesAreText
<1>11. ReadSoFar'
  BY <1>1 DEF ReadSoFar, Writing, Reading
<1>12. WrittenSoFar'
  BY <1>1, <1>5, <1>6, <1>7 DEF WrittenSoFar
<1> QED
  BY <1>4, <1>8, <1>9, <1>10, <1>11, <1>12 DEF ClientInv

LEMMA RecordedIsText == Recorded \in Seq(Text) /\ Recorded \in Seq(Char)
BY HarnessAssumption DEF Recorded, Text, Char

\* What is written into text, not behind its end, leaves text.
LEMMA WriteAtIsText ==
    ASSUME NEW c \in Seq(Text), NEW p \in Nat, NEW w \in Seq(Text), p <= Len(c)
    PROVE  WriteAt(c, p, w) \in Seq(Text)
<1> DEFINE v == WriteAt(c, p, w)
           lw == Len(w)
           lc == Len(c)
           lv == Len(v)
<1>1. c \in Seq(Char) /\ w \in Seq(Char)
  BY DEF Text
<1>2. /\ v \in Seq(Char) /\ lw \in Nat /\ lc \in Nat
      /\ lv = (IF w # <<>> /\ p + lw > lc THEN p + lw ELSE lc)
      /\ \A i \in 1..lv : v[i] = IF p < i /\ i <= p + lw THEN w[i - p]
                                 ELSE IF i <= lc THEN c[i] ELSE "nul"
  BY <1>1, WriteAtIs
<1>3. (\A i \in 1..lc : c[i] \in Text) /\ (\A i \in 1..lw : w[i] \in Text) /\ p <= lc
  OBVIOUS
<1> HIDE DEF v, lw, lc, lv
<1>4. ASSUME NEW i \in 1..lv PROVE v[i] \in Text
  <2>1. CASE p < i /\ i <= p + lw
    <3>1. i - p \in 1..lw
      BY <1>2, <2>1
    <3> QED
      BY <1>2, <1>3, <2>1, <3>1
  <2>2. CASE ~(p < i /\ i <= p + lw)
    <3>1. i \in 1..lc
      BY <1>2, <1>3, <2>2
    <3> QED
      BY <1>2, <1>3, <2>2, <3>1
  <2> QED
    BY <2>1, <2>2
<1>5. v \in Seq(Text)
  BY <1>2, <1>4 DEF lv
<1> QED
  BY <1>5 DEF v

LEMMA PartIsText ==
    ASSUME NEW w \in Seq(Text), NEW m \in Nat, NEW n \in Nat, m >= 1, n <= Len(w)
    PROVE  SubSeq(w, m, n) \in Seq(Text)
<1>1. \A i \in m..n : w[i] \in Text
  OBVIOUS
<1> QED
  BY <1>1, SubSeqProperties

\* An empty file holds what is written into it.
LEMMA WriteAtStart ==
    ASSUME NEW w \in Seq(Char)
    PROVE  WriteAt(<<>>, 0, w) = w
<1> DEFINE c == <<>>
           p == 0
           v == WriteAt(c, p, w)
<1>1. c \in Seq(Char) /\ Len(c) = 0 /\ p \in Nat /\ p = 0 /\ Len(w) \in Nat /\ (w = <<>> => Len(w) = 0)
  BY EmptySeq
<1> HIDE DEF c, p
<1>2. /\ v \in Seq(Char) /\ Len(v) = (IF w # <<>> /\ p + Len(w) > Len(c) THEN p + Len(w) ELSE Len(c))
      /\ \A i \in 1..Len(v) : v[i] = IF p < i /\ i <= p + Len(w) THEN w[i - p]
                                     ELSE IF i <= Len(c) THEN c[i] ELSE "nul"
  BY <1>1, WriteAtIs
<1> HIDE DEF v
<1>3. Len(v) = Len(w)
  <2>1. CASE w = <<>>
    BY <1>1, <1>2, <2>1
  <2>2. CASE w # <<>>
    <3>1. Len(w) # 0
      BY <2>2, EmptySeq
    <3> QED
      BY <1>1, <1>2, <2>2, <3>1
  <2> QED
    BY <2>1, <2>2
<1>4. ASSUME NEW i \in 1..Len(v) PROVE v[i] = w[i]
  <2>1. p < i /\ i <= p + Len(w) /\ i - p = i
    BY <1>1, <1>3
  <2> QED
    BY <1>2, <2>1
<1> QED
  BY <1>2, <1>3, <1>4, SeqEqual DEF v, c, p

\* Only the file of the stream in use changes.
LEMMA OneFileChanges ==
    ASSUME StreamInv, FilesAreText, NEW f \in Files, NEW c \in Seq(Text),
           \E v : content' = [content EXCEPT ![f] = v], content'[f] = c
    PROVE  FilesAreText' /\ \A h \in Files : h # f => content'[h] = content[h]
<1>1. content \in [Files -> Seq(Char)]
  BY DEF StreamInv, TypeInv, TypeOK
<1> QED
  BY <1>1 DEF FilesAreText

\* A tree written to an empty file: what is in it, and what is left to write.
AtStart(d) ==
    d.open /\ d.pos = 0 /\ d.rbuf = <<>> /\ d.wbuf = <<>> /\ content[d.file] = <<>>

LEMMA FirstLine ==
    ASSUME NEW d \in FStream, ReadAhead(d), AtStart(d), NEW o \in Writings(d, Syntax)
    PROVE  /\ o.fs.file = d.file /\ o.fs.open
           /\ o.fs.wbuf \in Seq(Text) /\ o.disk \in Seq(Text)
           /\ ~WriteErrors => o.ok
<1> DEFINE all == Pending(d, Syntax)
           n == Len(all.wbuf)
           c == content[d.file]
<1>1. /\ all \in FStream /\ all.file = d.file /\ all.open /\ all.pos = 0 /\ all.wbuf = Recorded
      /\ n \in Nat
  <2>1. Syntax \in Seq(Char)
    BY HarnessAssumption DEF Text
  <2>2. all \in FStream /\ all.file = d.file /\ all.open = d.open
        /\ all.pos = d.pos - Len(d.rbuf) /\ all.wbuf = d.wbuf \o Recorded
    BY <2>1, PendingType, PendingFields DEF Recorded
  <2>3. d.rbuf = <<>> /\ Len(d.rbuf) = 0 /\ d.pos = 0 /\ d.open
    BY DEF AtStart
  <2>4. d.wbuf \o Recorded = Recorded
    BY RecordedIsText, ConcatEmptySeq DEF AtStart
  <2>5. Len(Recorded) \in Nat
    BY RecordedIsText
  <2> HIDE DEF all, c
  <2>7. all.wbuf = Recorded /\ all.file = d.file /\ all.open
    BY <2>2, <2>3, <2>4
  <2>8. all.pos = 0
    <3> DEFINE x == d.pos
               y == Len(d.rbuf)
    <3>1. x = 0 /\ y = 0 /\ all.pos = x - y
      BY <2>2, <2>3
    <3> HIDE DEF x, y
    <3> QED
      BY <3>1
  <2> QED
    BY <2>2, <2>5, <2>7, <2>8
<1>2. \/ /\ o.ok = TRUE
         /\ \E k \in 0..n : o.fs = Drained(all, k) /\ o.disk = DiskAfter(all, k)
      \/ /\ WriteErrors
         /\ \E t \in Stops(Len(d.wbuf), n) : o = Refused(all, t[1], t[2], t[3])
  BY WritingIs, Zenon
<1> HIDE DEF all
<1>3. ASSUME NEW k \in 0..n PROVE DiskAfter(all, k) \in Seq(Text)
  <2>1. c \in Seq(Text) /\ Len(c) = 0 /\ content[all.file] = c /\ all.pos \in Nat /\ all.pos <= Len(c)
    BY <1>1, EmptySeq DEF AtStart
  <2>2. SubSeq(all.wbuf, 1, k) \in Seq(Text)
    <3>1. k \in Nat /\ k <= Len(all.wbuf) /\ all.wbuf \in Seq(Text) /\ 1 \in Nat
      BY <1>1, RecordedIsText
    <3> QED
      BY <3>1, PartIsText
  <2> HIDE DEF c
  <2>3. WriteAt(c, all.pos, SubSeq(all.wbuf, 1, k)) \in Seq(Text)
    BY <2>1, <2>2, WriteAtIsText
  <2> QED
    BY <2>1, <2>3 DEF DiskAfter
<1>4. ASSUME NEW k \in 0..n, o.ok = TRUE, o.fs = Drained(all, k), o.disk = DiskAfter(all, k)
      PROVE  o.fs.file = d.file /\ o.fs.open /\ o.fs.wbuf \in Seq(Text) /\ o.disk \in Seq(Text)
  <2>1. SubSeq(all.wbuf, k + 1, n) \in Seq(Text)
    <3>1. k + 1 \in Nat /\ k + 1 >= 1 /\ n \in Nat /\ n <= Len(all.wbuf) /\ all.wbuf \in Seq(Text)
      BY <1>1, RecordedIsText
    <3> QED
      BY <3>1, PartIsText
  <2>2. /\ Drained(all, k).file = all.file /\ Drained(all, k).open = all.open
        /\ Drained(all, k).wbuf = SubSeq(all.wbuf, k + 1, n)
    BY <1>1, DrainedFields
  <2> QED
    BY <1>1, <1>3, <1>4, <2>1, <2>2
<1>5. ASSUME NEW t \in Stops(Len(d.wbuf), n), o = Refused(all, t[1], t[2], t[3])
      PROVE  o.fs.file = d.file /\ o.fs.open /\ o.fs.wbuf \in Seq(Text) /\ o.disk \in Seq(Text)
  <2>1. Len(d.wbuf) \in Nat
    BY FStreamFields
  <2>2. /\ t[1] \in Nat /\ t[1] + t[3] \in 0..n /\ t[2] \in Nat /\ t[2] <= n
        /\ o.disk = DiskAfter(all, t[1] + t[3]) /\ o.fs.file = all.file /\ o.fs.open = all.open
        /\ o.fs.wbuf = SubSeq(all.wbuf, t[1] + 1, t[2])
    <3> DEFINE held == Len(d.wbuf)
               q == Refused(all, t[1], t[2], t[3])
    <3>1. held \in Nat /\ t \in Stops(held, Len(all.wbuf)) /\ all \in FStream /\ o = q
      BY <1>1, <1>5, <2>1
    <3> HIDE DEF held
    <3>2. /\ t[1] \in Nat /\ t[1] + t[3] \in 0..Len(all.wbuf) /\ t[2] \in Nat
          /\ t[2] <= Len(all.wbuf) /\ q.disk = DiskAfter(all, t[1] + t[3])
          /\ q.fs.file = all.file /\ q.fs.open = all.open
          /\ q.fs.wbuf = SubSeq(all.wbuf, t[1] + 1, t[2])
      BY <3>1, RefusedIs
    <3> HIDE DEF q
    <3> QED
      BY <3>1, <3>2
  <2>3. SubSeq(all.wbuf, t[1] + 1, t[2]) \in Seq(Text)
    <3>1. t[1] + 1 \in Nat /\ t[1] + 1 >= 1 /\ t[2] <= Len(all.wbuf) /\ all.wbuf \in Seq(Text)
      BY <1>1, <2>2, RecordedIsText
    <3> QED
      BY <2>2, <3>1, PartIsText
  <2>4. DiskAfter(all, t[1] + t[3]) \in Seq(Text)
    BY <1>3, <2>2
  <2> QED
    BY <1>1, <2>2, <2>3, <2>4
<1> QED
  BY <1>2, <1>4, <1>5

LEMMA FirstWrite ==
    ASSUME StreamInv, NEW s \in Streams, fs[s].open, fs[s].mode = {"out"}, fs[s].wbuf = <<>>,
           Untouched(log[s]), NEW o \in Writings(fs[s], Syntax)
    PROVE  /\ o.fs.file = fs[s].file /\ o.fs.open
           /\ o.fs.wbuf \in Seq(Text) /\ o.disk \in Seq(Text)
           /\ ~WriteErrors => o.ok
<1> DEFINE d == fs[s]
           c == content[d.file]
<1>1. /\ d \in FStream /\ ReadAhead(d) /\ Buffers(d) /\ Fits(d, c, log[s])
      /\ log[s].sole /\ ~log[s].refused /\ log[s].text = <<>> /\ log[s].at = 0
  BY OneStream DEF Untouched
<1>2. c = <<>> /\ d.pos = 0 /\ d.rbuf = <<>>
  <2>1. WriteAt(c, d.pos, d.wbuf) = <<>> /\ Place(d) = 0 /\ d.rbuf = <<>>
    BY <1>1 DEF Fits, Meets, Buffers
  <2>2. d.pos \in Nat /\ Len(d.rbuf) = 0 /\ Len(d.wbuf) = 0
    BY <1>1, <2>1, FStreamFields
  <2> QED
    BY <2>1, <2>2 DEF WriteAt, Place
<1> QED
  BY <1>1, <1>2, FirstLine DEF AtStart

LEMMA writeFileWriteKeeps ==
    ASSUME StreamInv, ClientInv, writeFileWrite
    PROVE  ClientInv' /\ \A h \in Files : h # Its => content'[h] = content[h]
<1>1. /\ at = "write" /\ Writing /\ Active
      /\ doing' = doing /\ cur' = cur /\ verdicts' = verdicts /\ acc' = acc
  BY DEF writeFileWrite, ClientInv, Places, Writing, Active, FileOf
<1>2. Places /\ cur \in Streams /\ Its \in Files /\ Its' = Its
  BY <1>1, CurIsStream DEF ClientInv, Its
<1>3. /\ fs[cur].open /\ fs[cur].mode = {"out"} /\ fs[cur].state = {}
      /\ fs[cur].wbuf = <<>> /\ Untouched(log[cur])
      /\ fs[cur].file = Its /\ object[cur] = "reachable"
  BY <1>1 DEF ClientInv, WrittenSoFar, OneOpen
<1>4. ReadSoFar'
  BY <1>1 DEF writeFileWrite, ReadSoFar, Writing, Reading
<1>5. CASE calls = <<>>
  <2>1. /\ at' = at /\ calls' = Append(calls, cur) /\ fs' = fs /\ content' = content
        /\ object' = object /\ log' = log
    BY <1>5 DEF writeFileWrite, WriteLineCall, diskVars, heapVars
  <2>2. calls' = <<cur>>
    BY <1>5, <2>1
  <2>3. Places'
    BY <1>1, <1>2, <2>1, <2>2 DEF Places, Active, Reading, Writing
  <2>4. OneOpen' /\ FilesAreText'
    BY <1>1, <1>2, <2>1 DEF ClientInv, OneOpen, FilesAreText
  <2>5. WrittenSoFar'
    BY <1>1, <1>3, <2>1 DEF WrittenSoFar
  <2> QED
    BY <1>4, <2>1, <2>3, <2>4, <2>5 DEF ClientInv
<1>6. CASE calls # <<>>
  <2>1. calls = <<cur>> /\ at' = "close" /\ stream_writeLine(Syntax)
    BY <1>2, <1>6 DEF writeFileWrite, Places
  <2>2. calls[Len(calls)] = cur /\ SubSeq(calls, 1, Len(calls) - 1) = <<>>
    BY <2>1
  <2>3. Accepts(fs[cur])
    BY <1>3 DEF Accepts, Good
  <2>4. object' = object /\ calls' = <<>>
    BY <2>1, <2>2 DEF stream_writeLine, heapVars
  <2>5. PICK o \in Writings(fs[cur], Syntax) :
          /\ content' = [content EXCEPT ![Its] = o.disk]
          /\ fs' = [fs EXCEPT ![cur] = o.fs]
          /\ log' = [log EXCEPT ![cur] = IF o.ok THEN LogWrite(log[cur], Syntax)
                                        ELSE LogRefused(log[cur])]
    BY <1>3, <2>1, <2>2, <2>3 DEF stream_writeLine
  <2>6. /\ o.fs.file = Its /\ o.fs.open /\ o.fs.wbuf \in Seq(Text) /\ o.disk \in Seq(Text)
        /\ ~WriteErrors => o.ok
    BY <1>2, <1>3, FirstWrite
  <2>7. /\ fs'[cur] = o.fs /\ \A t \in Streams : t # cur => fs'[t] = fs[t]
    BY <1>2, <2>5, FsChanges
  <2>8. FilesAreText' /\ \A h \in Files : h # Its => content'[h] = content[h]
    <3>1. content'[Its] = o.disk
      BY <1>2, <2>5, OneStream
    <3> QED
      BY <1>2, <2>5, <2>6, <3>1, OneFileChanges DEF ClientInv
  <2>9. Places'
    BY <1>1, <1>2, <2>1, <2>4 DEF Places, Active, Reading, Writing
  <2>10. OneOpen'
    BY <1>1, <1>2, <1>3, <2>1, <2>4, <2>6, <2>7 DEF ClientInv, OneOpen
  <2>11. WrittenSoFar'
    <3>1. log'[cur] = IF o.ok THEN LogWrite(log[cur], Syntax) ELSE LogRefused(log[cur])
      BY <1>2, <2>5, OneStream
    <3>2. LogRefused(log[cur]).sole
      BY <1>3 DEF LogRefused, Untouched
    <3>3. /\ LogWrite(log[cur], Syntax).sole /\ ~LogWrite(log[cur], Syntax).refused
          /\ LogWrite(log[cur], Syntax).text = WriteAt(<<>>, 0, Recorded)
      BY <1>3 DEF LogWrite, Untouched, Recorded
    <3>4. WriteAt(<<>>, 0, Recorded) = Recorded
      BY RecordedIsText, WriteAtStart
    <3>5. log'[cur].sole /\ (~WriteErrors => ~log'[cur].refused /\ log'[cur].text = Recorded)
      BY <2>6, <3>1, <3>2, <3>3, <3>4
    <3>6. Recorded' = Recorded
      BY DEF Recorded
    <3> QED
      BY <1>1, <2>1, <2>6, <2>7, <3>5, <3>6 DEF WrittenSoFar
  <2> QED
    BY <1>4, <2>8, <2>9, <2>10, <2>11 DEF ClientInv
<1> QED
  BY <1>5, <1>6

-----------------------------------------------------------------------------
(* The end of a call.                                                       *)

\* What the buffer of writeFile's stream adds to its file.
LEMMA DrainedIsText ==
    ASSUME StreamInv, FilesAreText, NEW s \in Streams, fs[s].open, fs[s].wbuf \in Seq(Text),
           log[s].sole, NEW o \in Drainings(fs[s])
    PROVE  o.disk \in Seq(Text)
<1> DEFINE d == fs[s]
           c == content[d.file]
           n == Len(d.wbuf)
<1>1. /\ d \in FStream /\ d.file \in Files /\ Fits(d, c, log[s]) /\ d.pos \in Nat /\ n \in Nat
  BY OneStream, FStreamFields
<1>2. c \in Seq(Text) /\ d.pos <= Len(c)
  BY <1>1 DEF FilesAreText, Fits, Saved
<1>3. PICK k \in 0..n : o.disk = DiskAfter(d, k)
  <2>1. n \in 0..n /\ \A j \in 0..(n - 1) : j \in 0..n
    BY <1>1
  <2>2. \/ o.disk = DiskAfter(d, n)
        \/ \E j \in 0..(n - 1) : o.disk = DiskAfter(d, j)
    <3>1. o \in Drainings(d)
      OBVIOUS
    <3> HIDE DEF d
    <3> QED
      BY <3>1, DrainingIs, Zenon
  <2> HIDE DEF n, d
  <2> QED
    BY <2>1, <2>2
<1>4. SubSeq(d.wbuf, 1, k) \in Seq(Text)
  BY <1>1, PartIsText
<1>5. WriteAt(c, d.pos, SubSeq(d.wbuf, 1, k)) \in Seq(Text)
  BY <1>1, <1>2, <1>4, WriteAtIsText
<1> QED
  BY <1>3, <1>5 DEF DiskAfter

LEMMA closeFileKeeps ==
    ASSUME StreamInv, ClientInv, closeFile
    PROVE  /\ ClientInv' /\ \A h \in Files : h # Its \/ Reading => content'[h] = content[h]
<1>1. /\ at = "close" /\ Active /\ stream_close(cur) /\ at' = "return"
      /\ doing' = doing /\ cur' = cur /\ verdicts' = verdicts /\ acc' = acc
  BY DEF closeFile, ClientInv, Places
<1>2. Places /\ cur \in Streams /\ Its \in Files /\ Its' = Its
  BY <1>1, CurIsStream DEF ClientInv, Its
<1>3. fs[cur].file = Its
  BY <1>1 DEF ClientInv, OneOpen
<1>4. PICK o \in Drainings(fs[cur]) :
        /\ content' = [content EXCEPT ![Its] = o.disk]
        /\ fs' = [fs EXCEPT ![cur] = SetState(Closed(fs[cur]), IF o.ok /\ fs[cur].open THEN {} ELSE {"fail"})]
  BY <1>1, <1>3 DEF stream_close
<1>5. object' = object /\ calls' = calls
  BY <1>1 DEF stream_close, heapVars
<1>6. fs'[cur].mode = {} /\ fs'[cur].file = Its /\ \A t \in Streams : t # cur => fs'[t] = fs[t]
  <2>1. \A bits : /\ SetState(Closed(fs[cur]), bits).mode = {}
                  /\ SetState(Closed(fs[cur]), bits).file = fs[cur].file
    <3>1. fs[cur] \in FStream
      BY <1>2, OneStream
    <3> QED
      BY <3>1 DEF SetState, Closed, FStream
  <2> DEFINE e == SetState(Closed(fs[cur]), IF o.ok /\ fs[cur].open THEN {} ELSE {"fail"})
  <2>2. e.mode = {} /\ e.file = Its
    BY <1>3, <2>1, Zenon
  <2>3. fs' = [fs EXCEPT ![cur] = e]
    BY <1>4
  <2> HIDE DEF e
  <2>4. fs'[cur] = e /\ \A t \in Streams : t # cur => fs'[t] = fs[t]
    BY <1>2, <2>3, FsChanges
  <2> QED
    BY <2>2, <2>4, Zenon
<1>7. Places'
  BY <1>1, <1>2, <1>5 DEF Places, Active
<1>8. OneOpen'
  BY <1>1, <1>2, <1>6 DEF ClientInv, OneOpen
<1>9. CASE Reading
  <2>1. content' = content
    <3>1. fs[cur].mode = {"in"}
      BY <1>1, <1>9 DEF ClientInv, ReadSoFar
    <3> QED
      BY <1>2, <1>3, <1>4, <3>1, NothingPending
  <2>2. FilesAreText'
    BY <2>1 DEF ClientInv, FilesAreText
  <2>3. ReadSoFar'
    BY <1>1, <1>2, <2>1 DEF ClientInv, ReadSoFar, Reading
  <2>4. WrittenSoFar'
    BY <1>1, <1>9 DEF WrittenSoFar, Reading, Writing
  <2> QED
    BY <1>7, <1>8, <2>1, <2>2, <2>3, <2>4 DEF ClientInv
<1>10. CASE ~Reading
  <2>1. /\ Writing /\ fs[cur].open /\ fs[cur].wbuf \in Seq(Text) /\ log[cur].sole
        /\ ~WriteErrors => ~log[cur].refused /\ log[cur].text = Recorded
    BY <1>1, <1>10 DEF ClientInv, WrittenSoFar, Active, Reading, Writing, FileOf
  <2>2. content'[Its] = o.disk
    BY <1>2, <1>4, OneStream
  <2>3. o.disk \in Seq(Text)
    BY <1>2, <1>3, <2>1, DrainedIsText DEF ClientInv
  <2>4. ~WriteErrors => o.disk = Recorded
    <3>1. ~WriteErrors => o.ok
      BY DrainingIs
    <3>2. o.ok => o.fs.wbuf = <<>> /\ Fits(o.fs, o.disk, log[cur])
      BY <1>2, <2>1, StreamDrains DEF StreamInv
    <3> QED
      BY <2>1, <3>1, <3>2 DEF Fits, Meets, WriteAt
  <2>5. FilesAreText' /\ \A h \in Files : h # Its => content'[h] = content[h]
    BY <1>2, <1>4, <2>2, <2>3, OneFileChanges DEF ClientInv
  <2>6. ReadSoFar'
    BY <1>1, <1>10 DEF ReadSoFar, Reading
  <2>7. ~WriteErrors => content'[Its] = Recorded
    BY <2>2, <2>4
  <2>8. WrittenSoFar'
    <3>1. doing = "create" => Its = "syntax"
      BY DEF Its, FileOf
    <3> QED
      BY <1>1, <2>7, <3>1 DEF WrittenSoFar, Recorded
  <2> QED
    BY <1>7, <1>8, <1>10, <2>5, <2>6, <2>8 DEF ClientInv
<1> QED
  BY <1>9, <1>10

\* Nothing of the Stream changes but what the script can reach.
LEMMA QuietKeeps ==
    ASSUME ClientInv, at \in {"open", "return"}, at' \in {"open", "return"},
           UNCHANGED <<content, fs, calls>>, Places',
           Reading' /\ at' = "return" => Reading /\ at = "return" /\ Its' = Its /\ acc' = acc,
           doing' = "create" /\ at' = "return" => doing = "create" /\ at = "return"
    PROVE  ClientInv'
<1>1. OneOpen'
  BY DEF ClientInv, OneOpen
<1>2. FilesAreText'
  BY DEF ClientInv, FilesAreText
<1>3. ReadSoFar'
  BY DEF ClientInv, ReadSoFar
<1>4. WrittenSoFar'
  BY DEF ClientInv, WrittenSoFar, Recorded
<1> QED
  BY <1>1, <1>2, <1>3, <1>4 DEF ClientInv

LEMMA OpenFailsKeeps ==
    ASSUME ClientInv, OpenFails
    PROVE  ClientInv' /\ content' = content
<1>1. /\ at = "open" /\ at' = "open" /\ doing' = "aborted" /\ cur' = cur /\ acc' = acc
      /\ verdicts' = verdicts /\ UNCHANGED <<content, fs, calls>>
  BY DEF OpenFails, OpenThrows, diskVars
<1>2. Places'
  BY <1>1 DEF ClientInv, Places, Active, FileOf
<1> QED
  BY <1>1, <1>2, QuietKeeps

LEMMA parseThrowsKeeps ==
    ASSUME ClientInv, parseThrows
    PROVE  ClientInv' /\ content' = content
<1>1. /\ at = "return" /\ at' = "return" /\ doing' = "aborted" /\ cur' = cur /\ acc' = acc
      /\ verdicts' = verdicts /\ UNCHANGED <<content, fs, calls>>
  BY DEF parseThrows, Drop, diskVars
<1>2. Places'
  BY <1>1 DEF ClientInv, Places, Active, FileOf
<1> QED
  BY <1>1, <1>2, QuietKeeps DEF Reading

LEMMA FollowingIs ==
    ASSUME Active
    PROVE  /\ doing = "source" => Following = (IF acc = <<>> THEN "empty" ELSE "reference")
           /\ doing = "reference" =>
                Following = (IF Stripped(acc) = <<>> THEN "create"
                             ELSE IF Stripped(acc) # Stripped(Syntax) THEN "differ"
                             ELSE "same")
           /\ doing = "create" => Following = "created"
           /\ doing = "differ" => Following = "different"
BY DEF Following

LEMMA test_parserKeeps ==
    ASSUME ClientInv, test_parser
    PROVE  /\ ClientInv' /\ content' = content
<1>1. /\ Active /\ at = "return" /\ at' = "open" /\ cur' = cur + 1 /\ acc' = acc
      /\ UNCHANGED <<content, fs, calls>>
      /\ IF Following \in DOMAIN FileOf
         THEN doing' = Following /\ verdicts' = verdicts
         ELSE /\ verdicts' = Append(verdicts, Following)
              /\ doing' = IF Len(verdicts) + 1 < Rounds THEN "source" ELSE "done"
  BY DEF test_parser, Drop, diskVars
<1>2. /\ DOMAIN FileOf = {"source", "reference", "create", "differ"}
      /\ doing \in {"source", "reference", "create", "differ"}
  BY <1>1 DEF Active, FileOf
<1>3. /\ acc \in Seq(Char) /\ verdicts \in Seq(Verdicts) /\ cur \in Nat \ {0} /\ Len(verdicts) \in Nat
      /\ cur <= 3 * Len(verdicts) + Stages[doing] /\ Len(verdicts) < Rounds
      /\ calls = <<>> /\ Rounds \in Nat
  BY <1>1, HarnessAssumption DEF ClientInv, Places
<1>4. ASSUME Following \in DOMAIN FileOf PROVE Places'
  <2>1. doing' \in {"reference", "create", "differ"} /\ Stages[doing'] = Stages[doing] + 1
    BY <1>1, <1>2, <1>4, FollowingIs DEF Stages
  <2>2. cur' <= 3 * Len(verdicts') + Stages[doing'] /\ cur' \in Nat \ {0}
    <3>1. Stages[doing] \in Nat
      BY <1>2 DEF Stages
    <3> QED
      BY <1>1, <1>3, <1>4, <2>1, <3>1
  <2> QED
    BY <1>1, <1>3, <1>4, <2>1, <2>2 DEF Places, Reading, Writing, Active
<1>5. ASSUME Following \notin DOMAIN FileOf PROVE Places'
  <2>1. Following \in Verdicts
    BY <1>1, <1>2, <1>5, FollowingIs DEF Verdicts
  <2>2. verdicts' \in Seq(Verdicts) /\ Len(verdicts') = Len(verdicts) + 1
    BY <1>1, <1>3, <1>5, <2>1, AppendProperties
  <2>3. Stages[doing] <= 3 /\ Stages[doing] \in Nat /\ Stages["source"] = 1
    BY <1>2 DEF Stages
  <2>4. doing' \in {"source", "done"} /\ (doing' = "source" => Len(verdicts') < Rounds)
    BY <1>1, <1>5, <2>2
  <2>5. cur' <= 3 * Len(verdicts') + 1 /\ cur' \in Nat \ {0}
    BY <1>1, <1>3, <2>2, <2>3
  <2> QED
    BY <1>1, <1>2, <1>3, <2>2, <2>3, <2>4, <2>5 DEF Places, Reading, Writing, Active
<1>6. Places'
  BY <1>4, <1>5
<1> QED
  BY <1>1, <1>6, QuietKeeps

\* The collector finds only streams that are closed.
LEMMA CollectKeeps ==
    ASSUME StreamInv, ClientInv, Collect
    PROVE  ClientInv' /\ content' = content
<1>1. PICK s \in Streams : CleanupStream(s) /\ UNCHANGED clientVars
  BY DEF Collect
<1>2. /\ doing' = doing /\ at' = at /\ cur' = cur /\ acc' = acc /\ verdicts' = verdicts
      /\ calls' = calls /\ object' = object /\ object[s] = "garbage"
      /\ fs' = [fs EXCEPT ![s] = Closed(fs[s])]
      /\ \E o \in Drainings(fs[s]) : content' = [content EXCEPT ![fs[s].file] = o.disk]
      /\ \E h : log' = [log EXCEPT ![s] = h]
  BY <1>1 DEF clientVars, CleanupStream
<1>3. fs[s].mode = {} /\ (s = cur => at \in {"open", "return"})
  BY <1>2 DEF ClientInv, OneOpen, Places
<1>4. content' = content
  BY <1>2, <1>3, NothingPending
<1>5. /\ fs'[s].mode = {} /\ \A t \in Streams : t # s => fs'[t] = fs[t]
  <2>1. fs[s] \in FStream
    BY OneStream
  <2> QED
    BY <1>2, <2>1, FsChanges, ClosedFields
<1>6. Places'
  BY <1>2 DEF ClientInv, Places, Active, Reading, Writing
<1>7. at \in {"loop", "write", "close"} =>
        Active /\ cur \in Streams /\ fs'[cur] = fs[cur] /\ log'[cur] = log[cur]
  <2>1. at \in {"loop", "write", "close"} => Active /\ cur \in Streams
    BY CurIsStream DEF ClientInv, Places, Active, Reading, Writing, FileOf
  <2>2. cur \in Streams /\ s # cur => log'[cur] = log[cur]
    BY <1>2, OneStream
  <2> QED
    BY <1>3, <1>5, <2>1, <2>2
<1>8. OneOpen'
  BY <1>2, <1>5, <1>7 DEF ClientInv, OneOpen, Its
<1>9. FilesAreText'
  BY <1>4 DEF ClientInv, FilesAreText
<1>10. ReadSoFar'
  BY <1>2, <1>4, <1>7 DEF ClientInv, ReadSoFar, Its, Reading
<1>11. WrittenSoFar'
  BY <1>2, <1>4, <1>7 DEF ClientInv, WrittenSoFar, Recorded, Writing
<1> QED
  BY <1>4, <1>6, <1>8, <1>9, <1>10, <1>11 DEF ClientInv

-----------------------------------------------------------------------------
(* Every step of the client.                                                *)

LEMMA ClientInit == HInit => StreamInv /\ ClientInv
<1> SUFFICES ASSUME HInit PROVE StreamInv /\ ClientInv
  OBVIOUS
<1>1. StreamInv
  BY TypeInit, LifeInit, DiskInit DEF HInit, StreamInv, TypeInv
<1>2. /\ doing = "source" /\ at = "open" /\ cur = 1 /\ acc = <<>> /\ verdicts = <<>> /\ calls = <<>>
      /\ fs = [s \in Streams |-> Closed(Opened(CHOOSE f \in Files : TRUE, {}))]
      /\ content \in [Files -> Contents \cup {<<>>}]
  BY DEF HInit, Init
<1>3. Places
  BY <1>2, EmptySeq, HarnessAssumption DEF Places, Stages, Reading, Writing
<1>4. OneOpen
  BY <1>2 DEF OneOpen, Closed, Opened
<1>5. FilesAreText
  <2>1. <<>> \in Seq(Text)
    BY EmptySeq
  <2> QED
    BY <1>2, <2>1, HarnessAssumption DEF FilesAreText
<1>6. ReadSoFar
  BY <1>2 DEF ReadSoFar
<1>7. WrittenSoFar
  BY <1>2 DEF WrittenSoFar
<1> QED
  BY <1>1, <1>3, <1>4, <1>5, <1>6, <1>7 DEF ClientInv

LEMMA StutterKeeps ==
    ASSUME ClientInv, Quit \/ UNCHANGED allVars
    PROVE  ClientInv' /\ content' = content /\ verdicts' = verdicts /\ doing' = doing
<1>1. /\ doing' = doing /\ at' = at /\ cur' = cur /\ acc' = acc /\ verdicts' = verdicts
      /\ calls' = calls /\ log' = log /\ object' = object /\ fs' = fs /\ content' = content
  <2>1. CASE Quit
    BY <2>1 DEF Quit, Exit, clientVars, diskVars, heapVars
  <2>2. CASE UNCHANGED allVars
    BY <2>2 DEF allVars, vars, clientVars, diskVars, heapVars
  <2> QED
    BY <2>1, <2>2
<1>2. Places'
  BY <1>1 DEF ClientInv, Places, Active, Reading, Writing
<1>3. OneOpen' /\ FilesAreText'
  BY <1>1 DEF ClientInv, OneOpen, FilesAreText, Its
<1>4. ReadSoFar' /\ WrittenSoFar'
  BY <1>1 DEF ClientInv, ReadSoFar, WrittenSoFar, Its, Reading, Writing, Recorded
<1> QED
  BY <1>1, <1>2, <1>3, <1>4 DEF ClientInv

LEMMA ClientInvStep ==
    ASSUME StreamInv, ClientInv, [HNext]_allVars
    PROVE  ClientInv'
<1>1. CASE Quit \/ UNCHANGED allVars
  BY <1>1, StutterKeeps
<1>2. CASE Collect
  BY <1>2, CollectKeeps
<1>3. CASE Script
  BY <1>3, OpenFailsKeeps, readFileOpenKeeps, readFileLoopKeeps, writeFileOpenKeeps,
     writeFileWriteKeeps, closeFileKeeps, parseThrowsKeeps, test_parserKeeps DEF Script
<1> QED
  BY <1>1, <1>2, <1>3 DEF HNext

LEMMA ClientInvariant == HSpec => [](StreamInv /\ ClientInv)
<1>1. StreamInv /\ ClientInv /\ [HNext]_allVars => StreamInv' /\ ClientInv'
  <2>1. ClientInv => Places
    BY DEF ClientInv
  <2> QED
    BY <2>1, StreamInvStep, ClientInvStep
<1> QED
  BY <1>1, ClientInit, PTL DEF HSpec

\* The client uses Stream as Stream allows: whatever is proved of Stream holds
\* in test_parser, the collector included.
THEOREM ClientMakesCalls == HSpec => Spec
<1>1. HInit => Init
  BY DEF HInit
<1>2. StreamInv /\ ClientInv /\ [HNext]_allVars => [Next]_vars
  BY ClientStep DEF ClientInv
<1> QED
  BY <1>1, <1>2, ClientInvariant, PTL DEF HSpec, Spec

\* readFile of tests/run.js returns the file and one newline, whatever the
\* placement of newlines, the length of the file and the size of the read
\* buffer, and whatever the collector does to earlier streams.
THEOREM FilesAreReadWhole == HSpec => []ReadFileIsContentPlusNewline
<1>1. ClientInv => ReadFileIsContentPlusNewline
  BY DEF ClientInv, ReadSoFar, ReadFileIsContentPlusNewline, Reading, Its
<1> QED
  BY <1>1, ClientInvariant, PTL

-----------------------------------------------------------------------------
(* What test_parser compares.  Stripped is recursive; that it has a value    *)
(* and that a newline at the end makes no difference is shown by a least     *)
(* counterexample.                                                           *)

Kept(f, text, i) ==
    IF i = 0 THEN <<>>
    ELSE IF text[i] = "nl" THEN f[i - 1]
    ELSE Append(f[i - 1], text[i])

IsKept(f, text, n) == f = [i \in 0..n |-> Kept(f, text, i)]

LEMMA KeptExists ==
    ASSUME NEW text, NEW m \in Nat
    PROVE  \E f : IsKept(f, text, m)
<1> DEFINE T == {n \in Nat : ~ \E f : IsKept(f, text, n)}
<1> SUFFICES ASSUME T # {} PROVE FALSE
  OBVIOUS
<1>1. PICK n \in T : \A k \in T : n <= k
  BY LeastElement
<1>2. CASE n = 0
  <2> DEFINE f == [i \in 0..0 |-> <<>>]
  <2>1. \A i \in 0..0 : i = 0
    OBVIOUS
  <2>2. f = [i \in 0..0 |-> Kept(f, text, i)]
    BY <2>1 DEF Kept
  <2> QED
    BY <1>1, <1>2, <2>2 DEF IsKept
<1>3. CASE n # 0
  <2>1. n \in Nat /\ n - 1 \in Nat /\ n - 1 \notin T
    BY <1>1, <1>3
  <2>2. PICK f : IsKept(f, text, n - 1)
    BY <2>1
  <2> DEFINE g == [i \in 0..n |-> IF i < n THEN f[i] ELSE Kept(f, text, n)]
  <2>3. ASSUME NEW i \in 0..n PROVE g[i] = Kept(g, text, i)
    <3>1. i > 0 => i - 1 \in 0..n /\ i - 1 < n /\ g[i - 1] = f[i - 1]
      BY <2>1
    <3>2. i = 0 \/ i > 0
      BY <2>1
    <3>3. Kept(g, text, i) = Kept(f, text, i)
      <4> HIDE DEF g
      <4> QED
        BY <3>1, <3>2 DEF Kept
    <3>4. CASE i < n
      <4>1. i \in 0..(n - 1)
        BY <2>1, <3>4
      <4>2. f[i] = Kept(f, text, i)
        BY <2>2, <4>1 DEF IsKept
      <4> QED
        BY <3>3, <3>4, <4>2
    <3>5. CASE ~(i < n)
      <4>1. i = n
        BY <2>1, <3>5
      <4> QED
        BY <3>3, <3>5, <4>1
    <3> QED
      BY <3>4, <3>5
  <2>4. IsKept(g, text, n)
    BY <2>3 DEF IsKept
  <2> QED
    BY <1>1, <2>4
<1> QED
  BY <1>2, <1>3

LEMMA StrippedIs ==
    ASSUME NEW text, Len(text) \in Nat
    PROVE  \E f : IsKept(f, text, Len(text)) /\ Stripped(text) = f[Len(text)]
<1> DEFINE f == CHOOSE h : h = [i \in 0..Len(text) |-> Kept(h, text, i)]
<1>1. IsKept(f, text, Len(text))
  BY KeptExists DEF IsKept
<1>2. Stripped(text) = f[Len(text)]
  BY DEF Stripped, Kept
<1> QED
  BY <1>1, <1>2

LEMMA NewlineIsStripped ==
    ASSUME NEW text \in Seq(Char)
    PROVE  Stripped(Append(text, "nl")) = Stripped(text)
<1> DEFINE more == Append(text, "nl")
           n == Len(text)
<1>1. /\ n \in Nat /\ Len(more) = n + 1 /\ more[n + 1] = "nl" /\ \A i \in 1..n : more[i] = text[i]
  <2>1. "nl" \in Char
    BY DEF Char
  <2> QED
    BY <2>1, AppendProperties
<1> HIDE DEF more, n
<1>2. PICK f : IsKept(f, text, n) /\ Stripped(text) = f[n]
  BY <1>1, StrippedIs DEF n
<1>3. PICK g : IsKept(g, more, n + 1) /\ Stripped(more) = g[n + 1]
  BY <1>1, StrippedIs
<1>4. \A i \in 0..n : g[i] = f[i]
  <2> DEFINE T == {i \in 0..n : g[i] # f[i]}
  <2> SUFFICES ASSUME T # {} PROVE FALSE
    OBVIOUS
  <2>1. T \in SUBSET Nat
    OBVIOUS
  <2>2. PICK i \in T : \A k \in T : i <= k
    BY <2>1, LeastElement
  <2>3. i \in 0..n /\ i \in 0..(n + 1) /\ g[i] # f[i]
    BY <1>1, <2>2
  <2>4. f[i] = Kept(f, text, i) /\ g[i] = Kept(g, more, i)
    BY <1>2, <1>3, <2>3 DEF IsKept
  <2>5. CASE i = 0
    BY <2>3, <2>4, <2>5 DEF Kept
  <2>6. CASE i # 0
    <3>1. i - 1 \in 0..n /\ i - 1 \notin T /\ i \in 1..n
      BY <1>1, <2>2, <2>3, <2>6
    <3>2. g[i - 1] = f[i - 1] /\ more[i] = text[i]
      BY <1>1, <3>1
    <3> HIDE DEF T
    <3> QED
      BY <2>3, <2>4, <2>6, <3>2 DEF Kept
  <2> QED
    BY <2>5, <2>6
<1>5. g[n + 1] = g[n]
  <2> DEFINE m == n + 1
  <2>1. m \in 0..m
    BY <1>1
  <2>2. IsKept(g, more, m)
    BY <1>3
  <2> HIDE DEF m
  <2>3. g = [i \in 0..m |-> Kept(g, more, i)]
    BY <2>2 DEF IsKept
  <2>4. g[m] = Kept(g, more, m)
    BY <2>1, <2>3, Zenon
  <2>5. g[n + 1] = Kept(g, more, n + 1)
    BY <2>4 DEF m
  <2>6. n + 1 # 0 /\ (n + 1) - 1 = n
    BY <1>1
  <2> QED
    BY <1>1, <2>5, <2>6 DEF Kept
<1> QED
  BY <1>1, <1>2, <1>3, <1>4, <1>5 DEF more

-----------------------------------------------------------------------------
(* Recorded trees.                                                          *)

\* A round that has a reference to compare with finds it equal.
LEMMA RecordIsFound ==
    ASSUME ClientInv, RecordStays, HasRecord, test_parser
    PROVE  \/ doing' = "reference" /\ verdicts' = verdicts
           \/ doing' \in {"source", "done"} /\ verdicts' = Append(verdicts, "same")
<1>1. /\ Active /\ at = "return"
      /\ IF Following \in DOMAIN FileOf
         THEN doing' = Following /\ verdicts' = verdicts
         ELSE /\ verdicts' = Append(verdicts, Following)
              /\ doing' = IF Len(verdicts) + 1 < Rounds THEN "source" ELSE "done"
  BY DEF test_parser
<1>2. DOMAIN FileOf = {"source", "reference", "create", "differ"}
  BY DEF FileOf
<1>3. Reading /\ content["syntax"] = Recorded
  BY <1>1, <1>2 DEF RecordStays, Reading, Writing, Active
<1>4. acc = Append(content[Its], "nl")
  BY <1>1, <1>3 DEF ClientInv, ReadSoFar
<1>5. CASE doing = "source"
  <2>1. Its \in Files /\ content[Its] \in Seq(Text)
    BY <1>1, CurIsStream DEF ClientInv, FilesAreText
  <2>2. acc # <<>>
    BY <1>4, <2>1
  <2> QED
    BY <1>1, <1>2, <1>5, <2>2, FollowingIs
<1>6. CASE doing = "reference"
  <2>1. Its = "syntax"
    BY <1>6 DEF Its, FileOf
  <2>2. acc = Append(Recorded, "nl")
    BY <1>3, <1>4, <2>1
  <2>3. Stripped(acc) = Stripped(Recorded)
    BY <2>2, RecordedIsText, NewlineIsStripped
  <2>4. Syntax \in Seq(Char) /\ Stripped(Syntax) # <<>>
    BY HarnessAssumption DEF Text, Char
  <2>5. Stripped(Recorded) = Stripped(Syntax)
    BY <2>4, NewlineIsStripped DEF Recorded
  <2>6. Following = "same"
    BY <1>1, <1>6, <2>3, <2>4, <2>5, FollowingIs
  <2> QED
    BY <1>1, <1>2, <2>6
<1> QED
  BY <1>3, <1>5, <1>6 DEF Reading

LEMMA RecordStep ==
    ASSUME StreamInv, ClientInv, ~WriteErrors, RecordStays, [HNext]_allVars
    PROVE  RecordStays'
<1>1. ASSUME verdicts' = verdicts,
             HasRecord => content'["syntax"] = content["syntax"] /\ ~Writing'
      PROVE  RecordStays'
  <2>1. HasRecord' <=> HasRecord
    BY <1>1 DEF HasRecord
  <2> QED
    BY <1>1, <2>1 DEF RecordStays, Recorded, RecordedTreeIsFoundEqual
<1>2. CASE Quit \/ UNCHANGED allVars
  BY <1>1, <1>2, StutterKeeps DEF RecordStays, Writing
<1>3. CASE Collect
  BY <1>1, <1>3, CollectKeeps DEF RecordStays, Writing, Collect, clientVars
<1>4. CASE OpenFails
  BY <1>1, <1>4, OpenFailsKeeps DEF OpenFails, Writing
<1>5. CASE readFileOpen
  BY <1>1, <1>5, readFileOpenKeeps DEF readFileOpen, Writing
<1>6. CASE readFileLoop
  BY <1>1, <1>6, readFileLoopKeeps DEF readFileLoop, RecordStays, Writing
<1>7. CASE writeFileOpen
  BY <1>1, <1>7 DEF writeFileOpen, RecordStays, Writing
<1>8. CASE writeFileWrite
  BY <1>1, <1>8 DEF writeFileWrite, ClientInv, Places, RecordStays
<1>9. CASE closeFile
  <2>1. ~Writing => Reading
    BY <1>9 DEF closeFile, ClientInv, Places, Active, Reading, Writing, FileOf
  <2>2. "syntax" \in Files
    BY HarnessAssumption
  <2>3. Reading => content'["syntax"] = content["syntax"]
    BY <1>9, <2>2, closeFileKeeps
  <2>4. verdicts' = verdicts /\ doing' = doing
    BY <1>9 DEF closeFile
  <2> QED
    BY <1>1, <2>1, <2>3, <2>4 DEF RecordStays, Writing
<1>10. CASE parseThrows
  BY <1>1, <1>10, parseThrowsKeeps DEF parseThrows, Writing
<1>11. CASE test_parser
  <2>1. content' = content /\ verdicts \in Seq(Verdicts) /\ Len(verdicts) \in Nat
    BY <1>11, test_parserKeeps DEF ClientInv, Places
  <2>2. CASE HasRecord
    <3>1. CASE doing' = "reference" /\ verdicts' = verdicts
      BY <1>1, <2>1, <3>1 DEF Writing
    <3>2. CASE doing' \in {"source", "done"} /\ verdicts' = Append(verdicts, "same")
      <4>1. /\ Len(verdicts') = Len(verdicts) + 1 /\ verdicts'[Len(verdicts) + 1] = "same"
            /\ \A i \in 1..Len(verdicts) : verdicts'[i] = verdicts[i]
        BY <2>1, <3>2, AppendProperties DEF Verdicts
      <4>2. RecordedTreeIsFoundEqual'
        <5> SUFFICES ASSUME NEW i \in 1..Len(verdicts'), NEW j \in 1..Len(verdicts'),
                            i < j, verdicts'[i] = "created"
                     PROVE  verdicts'[j] = "same"
          BY DEF RecordedTreeIsFoundEqual
        <5>1. CASE j = Len(verdicts) + 1
          BY <4>1, <5>1
        <5>2. CASE j # Len(verdicts) + 1
          <6>1. i \in 1..Len(verdicts) /\ j \in 1..Len(verdicts)
            BY <2>1, <4>1, <5>2
          <6> QED
            BY <4>1, <6>1 DEF RecordStays, RecordedTreeIsFoundEqual
        <5> QED
          BY <5>1, <5>2
      <4> QED
        BY <2>1, <2>2, <3>2, <4>2 DEF RecordStays, Recorded, Writing
    <3> QED
      BY <1>11, <2>2, <3>1, <3>2, RecordIsFound
  <2>3. CASE ~HasRecord
    <3>1. \/ verdicts' = verdicts
          \/ /\ verdicts' = Append(verdicts, Following) /\ doing' \in {"source", "done"}
      BY <1>11 DEF test_parser
    <3>2. CASE verdicts' = verdicts
      BY <1>1, <2>3, <3>2
    <3>3. CASE verdicts' = Append(verdicts, Following) /\ doing' \in {"source", "done"}
      <4>1. /\ Len(verdicts') = Len(verdicts) + 1 /\ verdicts'[Len(verdicts) + 1] = Following
            /\ \A i \in 1..Len(verdicts) : verdicts'[i] = verdicts[i]
        BY <2>1, <3>3
      <4>2. RecordedTreeIsFoundEqual'
        <5> SUFFICES ASSUME NEW i \in 1..Len(verdicts'), NEW j \in 1..Len(verdicts'),
                            i < j, verdicts'[i] = "created"
                     PROVE  FALSE
          BY DEF RecordedTreeIsFoundEqual
        <5>1. i \in 1..Len(verdicts)
          BY <2>1, <4>1
        <5> QED
          BY <2>3, <4>1, <5>1 DEF HasRecord
      <4>3. HasRecord' => content["syntax"] = Recorded
        <5> SUFFICES ASSUME HasRecord' PROVE content["syntax"] = Recorded
          OBVIOUS
        <5>1. PICK i \in 1..Len(verdicts') : verdicts'[i] = "created"
          BY DEF HasRecord
        <5>2. i = Len(verdicts) + 1
          BY <2>1, <2>3, <4>1, <5>1 DEF HasRecord
        <5>3. Following = "created" /\ Active /\ at = "return"
          BY <1>11, <4>1, <5>1, <5>2 DEF test_parser
        <5>4. doing = "create"
          BY <5>3, FollowingIs DEF Active, FileOf
        <5> QED
          BY <5>3, <5>4 DEF ClientInv, WrittenSoFar
      <4> QED
        BY <2>1, <3>3, <4>2, <4>3 DEF RecordStays, Recorded, Writing
    <3> QED
      BY <3>1, <3>2, <3>3
  <2> QED
    BY <2>2, <2>3
<1> QED
  BY <1>2, <1>3, <1>4, <1>5, <1>6, <1>7, <1>8, <1>9, <1>10, <1>11 DEF HNext, Script

\* A tree that one round records every later round finds and finds equal, for
\* any number of rounds, any tree and any buffer, as long as the disk takes
\* what is written.
THEOREM RecordedTreesAreFound ==
    ASSUME ~WriteErrors
    PROVE  HSpec => []RecordedTreeIsFoundEqual
<1>1. HInit => RecordStays
  BY DEF HInit, RecordStays, HasRecord, RecordedTreeIsFoundEqual
<1>2. StreamInv /\ ClientInv /\ RecordStays /\ [HNext]_allVars => RecordStays'
  BY RecordStep
<1>3. RecordStays => RecordedTreeIsFoundEqual
  BY DEF RecordStays
<1> QED
  BY <1>1, <1>2, <1>3, ClientInvariant, PTL DEF HSpec
=============================================================================
