------------------------------- MODULE Stream -------------------------------
(***************************************************************************)
(* The Stream class of modules/fs/fs.cpp: a JavaScript object whose        *)
(* internal field points to a heap-allocated std::fstream, deleted by a    *)
(* weak-handle callback when the garbage collector finds the object dead.  *)
(*                                                                         *)
(* A script makes one call at a time.  The only call that can be re-entered*)
(* is writeLine: it fetches its fstream pointer and only then converts its *)
(* argument to a string, which may run script code (toString) that calls   *)
(* other methods.  The collector may run between any two calls.            *)
(*                                                                         *)
(* External, modelled from how fs.cpp uses them: the libstdc++ fstream     *)
(* (state bits, one buffer that is either a read-ahead or pending output,  *)
(* one file offset) and V8's weak handles.                                 *)
(***************************************************************************)
EXTENDS Integers, Sequences

CONSTANTS
    Streams,        \* the Stream objects a script may create, each once
    Files,          \* path names
    Contents,       \* what a file may hold when the script starts
    Lines,          \* the strings passed to writeLine, sequences of Char
    BufSize,        \* how much one refill of the read buffer asks for
    MaxOffset,      \* bound: how far into its file a stream writes
    MaxNesting,     \* bound: writeLine calls open at the same time
    WriteErrors     \* may the operating system refuse a write (disk full)?

Char == {"x", "y", "nl", "nul"}

ASSUME StreamAssumption ==
    /\ Streams # {} /\ Files # {}
    /\ Contents \subseteq Seq(Char)
    /\ Lines \subseteq Seq(Char)
    /\ BufSize \in Nat \ {0}
    /\ MaxOffset \in Nat
    /\ MaxNesting \in Nat
    /\ WriteErrors \in BOOLEAN

VARIABLES
    exists,     \* exists[f]: does the path name a file
    content,    \* content[f]: its characters on disk (<<>> when absent)
    object,     \* object[s]: the JavaScript object, as the script sees it
    data,       \* data[s]: the memory the object's internal field points to
    weak,       \* weak[s]: state of the persistent handle
    fs,         \* fs[s]: the fields of the std::fstream
    calls,      \* writeLine calls that are converting their argument
    log,        \* history: log[s] is what the script asked of the file through s
    result,     \* what the last call returned
    running     \* FALSE once the process has exited

diskVars == <<exists, content>>
heapVars == <<object, data, weak>>
vars == <<diskVars, heapVars, fs, calls, log, result, running>>

-----------------------------------------------------------------------------
(* std::fstream.                                                           *)

FStream == [file : Files, mode : SUBSET {"in", "out"}, open : BOOLEAN,
            pos : Nat, rbuf : Seq(Char), wbuf : Seq(Char),
            state : SUBSET {"eof", "fail", "bad"}]

Good(d) == d.state = {}
SetState(d, bits) == [d EXCEPT !.state = @ \cup bits]

\* data->open(name, mode) that succeeds.  modes is the constructor's second
\* argument as the set of mode letters in it, or {"none"} if it is missing.
Modes == {{"none"}, {}, {"r"}, {"w"}, {"r", "w"}}
OpenMode(modes) == (IF modes \cap {"none", "r"} # {} THEN {"in"} ELSE {})
                     \cup (IF "w" \in modes THEN {"out"} ELSE {})

Opened(f, modes) ==
    [file |-> f, mode |-> OpenMode(modes), open |-> TRUE,
     pos |-> 0, rbuf |-> <<>>, wbuf |-> <<>>, state |-> {}]

\* filebuf::close releases the descriptor and the buffer, no state bit changes.
Closed(d) == [d EXCEPT !.open = FALSE, !.mode = {}, !.pos = 0,
                       !.rbuf = <<>>, !.wbuf = <<>>]

\* Where the next character is read or written.
Place(d) == d.pos - Len(d.rbuf) + Len(d.wbuf)

\* Bytes c after w is written at offset p; a gap reads as NUL bytes.
WriteAt(c, p, w) ==
    IF w = <<>> THEN c
    ELSE LET n == IF p + Len(w) > Len(c) THEN p + Len(w) ELSE Len(c)
         IN  [i \in 1..n |->
                IF p < i /\ i <= p + Len(w) THEN w[i - p]
                ELSE IF i <= Len(c) THEN c[i] ELSE "nul"]

\* The filebuf hands the first k pending characters to the system.
Drained(d, k) == [d EXCEPT !.pos = @ + k, !.wbuf = SubSeq(@, k + 1, Len(@))]
DiskAfter(d, k) == WriteAt(content[d.file], d.pos, SubSeq(d.wbuf, 1, k))

(* All that is pending is written, by close, flush, the destructor or a     *)
(* switch to reading.  The system takes it, or refuses after the first j    *)
(* characters: these are in the file and the offset is behind them, but the *)
(* filebuf keeps all of its buffer and, asked again, writes it all again.   *)
Drainings(d) ==
    {[ok |-> TRUE, fs |-> Drained(d, Len(d.wbuf)), disk |-> DiskAfter(d, Len(d.wbuf))]}
    \cup {[ok |-> FALSE, fs |-> [d EXCEPT !.pos = @ + j], disk |-> DiskAfter(d, j)]
            : j \in IF WriteErrors THEN 0..(Len(d.wbuf) - 1) ELSE {}}

\* Characters a reader can still get: its read-ahead, then the file.
Available(d, c) ==
    d.rbuf \o (IF d.pos < Len(c) THEN SubSeq(c, d.pos + 1, Len(c)) ELSE <<>>)

\* std::getline on a readable stream in a good state.  Refills ask for
\* BufSize characters until a newline or the end of the file is seen.
LineEnd(a) == CHOOSE i \in 1..Len(a) :
                 a[i] = "nl" /\ \A j \in 1..(i - 1) : a[j] # "nl"

\* The file offset after refills from offset p supplied q more characters of
\* a file of length l.
Refilled(p, l, q) ==
    LET n == p + ((q + BufSize - 1) \div BufSize) * BufSize
    IN  IF n > l THEN l ELSE n

GotLine(d, c) ==
    LET a == Available(d, c)
        n == LineEnd(a)
        held == Len(d.rbuf)
        pos == IF n <= held THEN d.pos ELSE Refilled(d.pos, Len(c), n - held)
    IN  IF \E i \in 1..Len(a) : a[i] = "nl"
        THEN [line |-> SubSeq(a, 1, n - 1),
              fs   |-> [d EXCEPT !.pos = pos,
                                 !.rbuf = SubSeq(a, n + 1, held + pos - d.pos)]]
        ELSE [line |-> a,
              fs   |-> [d EXCEPT !.pos = IF @ < Len(c) THEN Len(c) ELSE @,
                                 !.rbuf = <<>>,
                                 !.state = IF a = <<>> THEN {"eof", "fail"} ELSE {"eof"}]]

\* std::getline in every state.  A stream that is not good only sets failbit;
\* one that is closed or not open for input meets end of file at once.
\* Pending output has been drained (c is the file after that).
CanRead(d) == Good(d) /\ d.open /\ "in" \in d.mode

Getline(d, c) ==
    IF ~Good(d) THEN [line |-> <<>>, fs |-> SetState(d, {"fail"})]
    ELSE IF ~CanRead(d) THEN [line |-> <<>>, fs |-> SetState(d, {"eof", "fail"})]
    ELSE GotLine(d, c)

\* String::New(buffer.c_str()): the C string ends at the first NUL.
CStr(s) ==
    IF \E i \in 1..Len(s) : s[i] = "nul"
    THEN SubSeq(s, 1, (CHOOSE i \in 1..Len(s) :
                          s[i] = "nul" /\ \A j \in 1..(i - 1) : s[j] # "nul") - 1)
    ELSE s

-----------------------------------------------------------------------------
(* The history of a stream for as long as it is sole, no other stream being *)
(* able to write its file: what the file would hold (text), and where the   *)
(* stream would stand in it (at), had every call reached the file at once;  *)
(* whether the system has refused a write; and how far the stream stood at  *)
(* the last flush or close before that (safe).                              *)

Log == [sole : BOOLEAN, refused : BOOLEAN, text : Seq(Char), at : Nat, safe : Nat]
NoLog == [sole |-> FALSE, refused |-> FALSE, text |-> <<>>, at |-> 0, safe |-> 0]

\* Where the line that begins behind the first p characters ends.
AfterLine(text, p) ==
    LET ends == {i \in (p + 1)..Len(text) : text[i] = "nl"}
    IN  IF ends = {} THEN Len(text) ELSE CHOOSE i \in ends : \A j \in ends : i <= j

LogWrite(h, line) ==
    IF h.sole THEN [h EXCEPT !.text = WriteAt(@, h.at, Append(line, "nl")),
                             !.at = @ + Len(line) + 1]
              ELSE h
LogRead(h) == IF h.sole THEN [h EXCEPT !.at = AfterLine(h.text, @)] ELSE h
LogRefused(h) == [h EXCEPT !.refused = h.sole]
LogFlushed(h) == IF h.sole /\ ~h.refused THEN [h EXCEPT !.safe = h.at] ELSE h

\* close, flush or the destructor of a stream drained it, or could not.
LogDrained(h, open, ok) ==
    IF ~ok THEN LogRefused(h) ELSE IF open THEN LogFlushed(h) ELSE h

-----------------------------------------------------------------------------
\* What a call on s hands back: an exception, or a value (str, when it is a
\* string).
Results == [op : {"start", "open", "arity", "close", "flush", "next", "readLine", "writeLine"},
            s : Streams, threw : BOOLEAN, str : Seq(Char)]

Returned(op, s, threw, str) ==
    result' = [op |-> op, s |-> s, threw |-> threw, str |-> str]

\* The script can call a method of s: it still has a reference to it.
CanCall(s) == running /\ object[s] = "reachable"

Init ==
    /\ exists \in [Files -> BOOLEAN]
    /\ content \in [Files -> Contents \cup {<<>>}]
    /\ \A f \in Files : ~exists[f] => content[f] = <<>>
    /\ object = [s \in Streams |-> "none"]
    /\ data = [s \in Streams |-> "none"]
    /\ weak = [s \in Streams |-> "none"]
    /\ fs = [s \in Streams |-> Closed(Opened(CHOOSE f \in Files : TRUE, {}))]
    /\ calls = <<>>
    /\ log = [s \in Streams |-> NoLog]
    /\ result = [op |-> "start", s |-> CHOOSE s \in Streams : TRUE,
                 threw |-> FALSE, str |-> <<>>]
    /\ running = TRUE

\* An invalid mode, a missing file opened for input, or a path the system
\* refuses: the fstream is deleted and no object reaches the script.
OpenThrows(s) ==
    /\ running
    /\ object[s] = "none"
    /\ Returned("open", s, TRUE, <<>>)
    /\ UNCHANGED <<diskVars, heapVars, fs, calls, log, running>>

\* If the conversion of the mode throws, *modes is null and strchr(*modes, 'r')
\* ends the process.
OpenCrashes(s) ==
    /\ running
    /\ object[s] = "none"
    /\ running' = FALSE
    /\ UNCHANGED <<diskVars, heapVars, fs, calls, log, result>>

\* stream_constructor, also reached through fs.open, when the open succeeds.
\* Output alone truncates or creates the file; input needs it to exist.
stream_constructor(s, f, modes) ==
    /\ running
    /\ object[s] = "none"
    /\ OpenMode(modes) # {}
    /\ "in" \in OpenMode(modes) => exists[f]
    /\ exists' = [exists EXCEPT ![f] = TRUE]
    /\ content' = [content EXCEPT ![f] = IF "in" \in OpenMode(modes) THEN @ ELSE <<>>]
    /\ fs' = [fs EXCEPT ![s] = Opened(f, modes)]
    /\ object' = [object EXCEPT ![s] = "reachable"]
    /\ data' = [data EXCEPT ![s] = "live"]
    /\ weak' = [weak EXCEPT ![s] = "WEAK"]
    /\ log' = [t \in Streams |->
                 IF t = s THEN IF \E u \in Streams : fs[u].file = f /\ "out" \in fs[u].mode
                               THEN NoLog
                               ELSE [NoLog EXCEPT !.sole = TRUE, !.text = content'[f]]
                 ELSE IF fs[t].file = f /\ "out" \in OpenMode(modes) THEN NoLog
                 ELSE log[t]]
    /\ Returned("open", s, FALSE, <<>>)
    /\ UNCHANGED <<calls, running>>

\* Every method throws when it is given a wrong number of arguments.
WrongArity(s) ==
    /\ CanCall(s)
    /\ Returned("arity", s, TRUE, <<>>)
    /\ UNCHANGED <<diskVars, heapVars, fs, calls, log, running>>

\* Slip: close() frees the fstream but leaves the internal field pointing to it.
stream_close_deletes(s) ==
    /\ CanCall(s)
    /\ content' = [content EXCEPT ![fs[s].file] = DiskAfter(fs[s], Len(fs[s].wbuf))]
    /\ fs' = [fs EXCEPT ![s] = SetState(Closed(@), IF fs[s].open THEN {} ELSE {"fail"})]
    /\ data' = [data EXCEPT ![s] = "deleted"]
    /\ Returned("close", s, FALSE, <<>>)
    /\ UNCHANGED <<exists, object, weak, calls, log, running>>

stream_close(s) ==
    /\ CanCall(s)
    /\ \E o \in Drainings(fs[s]) :
        /\ content' = [content EXCEPT ![fs[s].file] = o.disk]
        /\ fs' = [fs EXCEPT ![s] = SetState(Closed(@), IF o.ok /\ @.open THEN {} ELSE {"fail"})]
        /\ log' = [log EXCEPT ![s] = LogDrained(@, fs[s].open, o.ok)]
    /\ Returned("close", s, FALSE, <<>>)
    /\ UNCHANGED <<exists, heapVars, calls, running>>

\* Slip: flush() empties the buffer without handing it to the system.
stream_flush_discards(s) ==
    /\ CanCall(s)
    /\ fs' = [fs EXCEPT ![s] = Drained(@, Len(@.wbuf))]
    /\ log' = [log EXCEPT ![s] = LogFlushed(@)]
    /\ Returned("flush", s, FALSE, <<>>)
    /\ UNCHANGED <<diskVars, heapVars, calls, running>>

\* Newer libraries do not try to flush a stream that is not good, older ones
\* do.
stream_flush(s) ==
    /\ CanCall(s)
    /\ \/ /\ ~Good(fs[s])
          /\ UNCHANGED <<content, fs, log>>
       \/ \E o \in Drainings(fs[s]) :
          /\ Good(fs[s]) \/ Place(fs[s]) <= MaxOffset
          /\ content' = [content EXCEPT ![fs[s].file] = o.disk]
          /\ fs' = [fs EXCEPT ![s] = IF o.ok THEN o.fs ELSE SetState(o.fs, {"bad"})]
          /\ log' = [log EXCEPT ![s] = LogDrained(@, fs[s].open, o.ok)]
    /\ Returned("flush", s, FALSE, <<>>)
    /\ UNCHANGED <<exists, heapVars, calls, running>>

(* getline on s: a stream switching from output to input first drains its  *)
(* pending output, and meets end of file when the system refuses it.       *)
Readings(d) ==
    IF CanRead(d) /\ d.wbuf # <<>>
    THEN {[ok |-> o.ok, disk |-> o.disk,
           got |-> IF o.ok THEN Getline(o.fs, o.disk)
                   ELSE [line |-> <<>>, fs |-> SetState(o.fs, {"eof", "fail"})]]
          : o \in Drainings(d)}
    ELSE {[ok |-> TRUE, disk |-> content[d.file], got |-> Getline(d, content[d.file])]}

Read(s, r) ==
    /\ content' = [content EXCEPT ![fs[s].file] = r.disk]
    /\ fs' = [fs EXCEPT ![s] = r.got.fs]
    /\ log' = [log EXCEPT ![s] = IF ~r.ok THEN LogRefused(@)
                                 ELSE IF CanRead(fs[s]) THEN LogRead(@) ELSE @]

stream_next(s) ==
    /\ CanCall(s)
    /\ \E r \in Readings(fs[s]) :
        /\ Read(s, r)
        /\ Returned("next", s, "eof" \in r.got.fs.state,
                    IF "eof" \in r.got.fs.state THEN <<>> ELSE CStr(r.got.line))
    /\ UNCHANGED <<exists, heapVars, calls, running>>

stream_readLine(s) ==
    /\ CanCall(s)
    /\ \/ /\ "eof" \in fs[s].state
          /\ Returned("readLine", s, FALSE, <<>>)
          /\ UNCHANGED <<content, fs, log>>
       \/ /\ "eof" \notin fs[s].state
          /\ \E r \in Readings(fs[s]) :
              /\ Read(s, r)
              /\ Returned("readLine", s, FALSE, CStr(Append(r.got.line, "nl")))
    /\ UNCHANGED <<exists, heapVars, calls, running>>

(* writeLine, first half: the pointer is fetched, the argument's toString  *)
(* starts to run.  The call holds a handle on its receiver.                *)
WriteLineCall(s) ==
    /\ CanCall(s)
    /\ Len(calls) < MaxNesting
    /\ calls' = Append(calls, s)
    /\ UNCHANGED <<diskVars, heapVars, fs, log, result, running>>

\* Slip: the seek back to the logical position is off by one.
Pending_seeksTooFar(d, line) == [d EXCEPT !.pos = @ - Len(d.rbuf) - 1, !.rbuf = <<>>,
                                          !.wbuf = @ \o Append(line, "nl")]
\* Slip: the stream goes on where its last refill ended.
Pending_staysAhead(d, line) == [d EXCEPT !.rbuf = <<>>, !.wbuf = @ \o Append(line, "nl")]

(* writeLine, second half: write() and put() through that pointer.  A      *)
(* stream switching from input to output seeks back over its read-ahead.   *)
Accepts(d) == Good(d) /\ d.open /\ "out" \in d.mode
Pending(d, line) == [d EXCEPT !.pos = @ - Len(d.rbuf), !.rbuf = <<>>,
                              !.wbuf = @ \o Append(line, "nl")]

(* The filebuf may hand any prefix of what is pending to the system.  If    *)
(* the system refuses, k characters went out before and j more made it to   *)
(* the file, but only the k have left the buffer.  The buffer then ends at  *)
(* m: behind the character that was written last, or, when a long line      *)
(* bypasses the buffer and is dropped, where it ended before.  The stream   *)
(* is not good from then on and accepts no other line.                      *)
Stops(held, n) ==
    {t \in (0..n) \X (held..n) \X (0..n) :
        IF t[2] = held THEN t[1] = 0 /\ t[3] < n - 1 ELSE t[1] + t[3] < t[2]}

Refused(all, k, m, j) ==
    [ok |-> FALSE,
     fs |-> SetState([all EXCEPT !.pos = @ + k + j, !.wbuf = SubSeq(@, k + 1, m)], {"bad"}),
     disk |-> DiskAfter(all, k + j)]

Writings(d, line) ==
    LET all == Pending(d, line)
        n == Len(all.wbuf)
    IN  {[ok |-> TRUE, fs |-> Drained(all, k), disk |-> DiskAfter(all, k)] : k \in 0..n}
        \cup {Refused(all, t[1], t[2], t[3]) : t \in IF WriteErrors THEN Stops(Len(d.wbuf), n) ELSE {}}

stream_writeLine(line) ==
    /\ running
    /\ calls # <<>>
    /\ LET s == calls[Len(calls)]
           d == fs[s]
       IN  /\ Place(d) + Len(line) < MaxOffset
           /\ \/ /\ Accepts(d)
                 /\ \E o \in Writings(d, line) :
                     /\ content' = [content EXCEPT ![d.file] = o.disk]
                     /\ fs' = [fs EXCEPT ![s] = o.fs]
                     /\ log' = [log EXCEPT ![s] = IF o.ok THEN LogWrite(@, line)
                                                  ELSE LogRefused(@)]
              \/ /\ ~Accepts(d)
                 /\ fs' = [fs EXCEPT ![s] = SetState(d, IF Good(d) THEN {"bad"} ELSE {"fail"})]
                 /\ UNCHANGED <<content, log>>
           /\ calls' = SubSeq(calls, 1, Len(calls) - 1)
           /\ Returned("writeLine", s, FALSE, <<>>)
    /\ UNCHANGED <<exists, heapVars, running>>

-----------------------------------------------------------------------------
\* The script forgets its last reference to s.
Drop(s) ==
    /\ CanCall(s)
    /\ object' = [object EXCEPT ![s] = "garbage"]
    /\ UNCHANGED <<diskVars, data, weak, fs, calls, log, result, running>>

\* A call on s that is still running holds a handle on it.
Held(s) == \E i \in 1..Len(calls) : calls[i] = s

(* The collector finds a weakly held object dead and calls CleanupStream,  *)
(* which deletes the fstream (its destructor closes the file).  The handle *)
(* is not disposed: it stays NEAR_DEATH, and only WEAK handles are looked  *)
(* at again.  (A V8 built with DEBUG, which no build file here defines,    *)
(* ends the process after such a callback: global-handles.cc:205.)         *)
CleanupStream(s) ==
    /\ running
    /\ object[s] = "garbage"
    /\ ~Held(s)
    /\ weak[s] = "WEAK"
    /\ \E o \in Drainings(fs[s]) :
        /\ content' = [content EXCEPT ![fs[s].file] = o.disk]
        /\ fs' = [fs EXCEPT ![s] = Closed(@)]
        /\ log' = [log EXCEPT ![s] = LogDrained(@, fs[s].open, o.ok)]
    /\ data' = [data EXCEPT ![s] = "deleted"]
    /\ weak' = [weak EXCEPT ![s] = "NEAR_DEATH"]
    /\ UNCHANGED <<exists, object, calls, result, running>>

(* system.exit, or main returning: no fstream is deleted, so what is still *)
(* pending in their buffers is lost.                                       *)
Exit ==
    /\ running
    /\ running' = FALSE
    /\ UNCHANGED <<diskVars, heapVars, fs, calls, log, result>>

Next ==
    \/ \E s \in Streams, f \in Files, modes \in Modes : stream_constructor(s, f, modes)
    \/ \E s \in Streams :
          \/ OpenThrows(s)
          \/ OpenCrashes(s)
          \/ WrongArity(s)
          \/ stream_close(s)
          \/ stream_flush(s)
          \/ stream_next(s)
          \/ stream_readLine(s)
          \/ WriteLineCall(s)
          \/ Drop(s)
          \/ CleanupStream(s)
    \/ \E line \in Lines : stream_writeLine(line)
    \/ Exit

Spec == Init /\ [][Next]_vars

-----------------------------------------------------------------------------
\* Every variable keeps its type; offsets never go below zero when a stream
\* switches from reading to writing (stream_writeLine after stream_readLine).
TypeOK ==
    /\ exists \in [Files -> BOOLEAN]
    /\ content \in [Files -> Seq(Char)]
    /\ object \in [Streams -> {"none", "reachable", "garbage"}]
    /\ data \in [Streams -> {"none", "live", "deleted"}]
    /\ weak \in [Streams -> {"none", "WEAK", "NEAR_DEATH"}]
    /\ fs \in [Streams -> FStream]
    /\ calls \in Seq(Streams)
    /\ log \in [Streams -> Log]
    /\ result \in Results
    /\ running \in BOOLEAN

\* A stream that a script can name, or whose writeLine is still converting its
\* argument, has not had its fstream deleted by CleanupStream, whatever the
\* converted argument's toString did meanwhile.
CallsUseLiveStream ==
    \A s \in Streams : object[s] = "reachable" \/ Held(s) => data[s] = "live"

\* What a flush(), close() or collection reported written stays on disk: the
\* file of a sole stream holds, up to where the stream stood then, what the
\* script had written, whatever is written, refused or sent again afterwards,
\* and also after exit().
FlushedIsDurable ==
    \A s \in Streams : log[s].sole =>
        LET c == content[fs[s].file] IN
        /\ log[s].safe <= Len(c)
        /\ \A i \in 1..log[s].safe : c[i] = log[s].text[i]

\* As long as no write is refused, the read-ahead and the pending output of a
\* sole stream cannot be noticed: with the pending output put in its place the
\* file is what the calls of readLine, next and writeLine, in any order, make
\* of it without a buffer, the next line is read or written where they left
\* off, and nothing is read ahead that the file no longer holds.
BuffersAreInvisible ==
    \A s \in Streams : log[s].sole /\ ~log[s].refused =>
        LET d == fs[s]
            c == content[d.file]
        IN  /\ WriteAt(c, d.pos, d.wbuf) = log[s].text
            /\ d.open => /\ Place(d) = log[s].at
                         /\ d.rbuf = SubSeq(c, d.pos - Len(d.rbuf) + 1, d.pos)

-----------------------------------------------------------------------------
(* A claim of README.md that the code does not keep.                       *)

Called(op) == result' # result /\ result'.op = op

\* README.md, next(): an exception is thrown "if there is nothing more to
\* read".  stream_next also throws, and drops the line, when the last line of
\* the file has no newline.
NextThrowsOnlyAtEnd ==
    [][Called("next") /\ result'.threw =>
          LET d == fs[result'.s] IN
          ~d.open \/ "in" \notin d.mode \/ Available(d, content[d.file]) = <<>>]_vars
=============================================================================
