------------------------------ MODULE Harness ------------------------------
(***************************************************************************)
(* The client of Stream in tests/run.js: readFile, writeFile and the body  *)
(* of test_parser, which compares the syntax tree of a source file with    *)
(* the one recorded in a .syntax file and records it if there is none.     *)
(* The source file is handled Rounds times, as by repeated runs.  Every    *)
(* readFile and writeFile uses a Stream of its own, and the garbage        *)
(* collector runs whenever it likes.                                       *)
(***************************************************************************)
EXTENDS Stream

CONSTANTS
    Syntax,     \* JSON.stringify(Reflect.parse(content)), the same every time
    Rounds      \* bound: how often the source file is handled

\* .replace(/[\r\n]/g, '')
Stripped(text) ==
    LET kept[i \in 0..Len(text)] ==
          IF i = 0 THEN <<>>
          ELSE IF text[i] = "nl" THEN kept[i - 1]
          ELSE Append(kept[i - 1], text[i])
    IN  kept[Len(text)]

\* The files of the test are text: a NUL would end the C string that readLine
\* makes of a line.  So is a tree, and it is not empty.
Text == Char \ {"nul"}

ASSUME HarnessAssumption ==
    /\ {"js", "syntax", "actual"} \subseteq Files
    /\ Rounds \in Nat \ {0} /\ Streams = 1..(3 * Rounds)
    /\ Syntax \in Lines
    /\ Contents \subseteq Seq(Text)
    /\ Syntax \in Seq(Text) /\ Stripped(Syntax) # <<>>

VARIABLES
    doing,      \* which readFile or writeFile of test_parser is running
    at,         \* where it is
    cur,        \* the Stream it uses
    acc,        \* readFile's content so far
    verdicts    \* how each round ended

clientVars == <<doing, at, cur, acc, verdicts>>
allVars == <<vars, clientVars>>

FileOf == [source |-> "js", reference |-> "syntax", create |-> "syntax", differ |-> "actual"]

HInit ==
    /\ Init
    /\ doing = "source"
    /\ at = "open"
    /\ cur = 1
    /\ acc = <<>>
    /\ verdicts = <<>>

Active == doing \in DOMAIN FileOf

\* fs.open(fname, ...) outside any try block: an exception ends the script.
OpenFails ==
    /\ Active /\ at = "open"
    /\ OpenThrows(cur)
    /\ doing' = "aborted"
    /\ UNCHANGED <<at, cur, acc, verdicts>>

\* The file is opened first, and asked for with fs.exists after that.
readFileOpen ==
    /\ doing \in {"source", "reference"} /\ at = "open"
    /\ stream_constructor(cur, FileOf[doing], {"r"})
    /\ at' = IF exists'[FileOf[doing]] THEN "loop" ELSE "return"
    /\ acc' = <<>>
    /\ UNCHANGED <<doing, cur, verdicts>>

\* Slip: the loop tests the line before it reads on, and keeps only full ones.
readFileLoop_dropsLast ==
    /\ at = "loop"
    /\ stream_readLine(cur)
    /\ at' = IF "eof" \in fs'[cur].state THEN "close" ELSE "loop"
    /\ acc' = IF "eof" \in fs'[cur].state THEN acc ELSE acc \o result'.str
    /\ UNCHANGED <<doing, cur, verdicts>>

\* Slip: the loop takes a null value, not an empty string, for the end.
readFileLoop_neverBreaks ==
    /\ at = "loop"
    /\ stream_readLine(cur)
    /\ acc' = acc \o result'.str
    /\ UNCHANGED <<doing, at, cur, verdicts>>

readFileLoop ==
    /\ at = "loop"
    /\ stream_readLine(cur)
    /\ at' = IF result'.str = <<>> THEN "close" ELSE "loop"
    /\ acc' = acc \o result'.str
    /\ UNCHANGED <<doing, cur, verdicts>>

writeFileOpen ==
    /\ doing \in {"create", "differ"} /\ at = "open"
    /\ stream_constructor(cur, FileOf[doing], {"w"})
    /\ at' = "write"
    /\ UNCHANGED <<doing, cur, acc, verdicts>>

\* Slip: the stream is left for the collector to close.
closeFile_forgets ==
    /\ at = "close"
    /\ at' = "return"
    /\ UNCHANGED <<vars, doing, cur, acc, verdicts>>

\* The content is a string already: its conversion runs no script code.
writeFileWrite ==
    /\ at = "write"
    /\ IF calls = <<>> THEN WriteLineCall(cur) /\ UNCHANGED at
                       ELSE stream_writeLine(Syntax) /\ at' = "close"
    /\ UNCHANGED <<doing, cur, acc, verdicts>>

closeFile ==
    /\ at = "close"
    /\ stream_close(cur)
    /\ at' = "return"
    /\ UNCHANGED <<doing, cur, acc, verdicts>>

\* Reflect.parse(content) throws on a syntax error, outside any try block.
parseThrows ==
    /\ doing = "source" /\ at = "return" /\ acc # <<>>
    /\ Drop(cur)
    /\ doing' = "aborted"
    /\ UNCHANGED <<at, cur, acc, verdicts>>

(* What test_parser does with the value a call returned, and how the round *)
(* ends.  A round that is not over goes on to the next readFile/writeFile. *)
Following ==
    CASE doing = "source"    -> IF acc = <<>> THEN "empty" ELSE "reference"
      [] doing = "reference" -> IF Stripped(acc) = <<>> THEN "create"
                                ELSE IF Stripped(acc) # Stripped(Syntax) THEN "differ"
                                ELSE "same"
      [] doing = "create"    -> "created"
      [] doing = "differ"    -> "different"

test_parser ==
    /\ Active /\ at = "return"
    /\ Drop(cur)
    /\ cur' = cur + 1
    /\ at' = "open"
    /\ IF Following \in DOMAIN FileOf
       THEN doing' = Following /\ UNCHANGED verdicts
       ELSE /\ verdicts' = Append(verdicts, Following)
            /\ doing' = IF Len(verdicts) + 1 < Rounds THEN "source" ELSE "done"
    /\ UNCHANGED acc

Script ==
    \/ OpenFails
    \/ readFileOpen
    \/ readFileLoop
    \/ writeFileOpen
    \/ writeFileWrite
    \/ closeFile
    \/ parseThrows
    \/ test_parser

Collect == \E s \in Streams : CleanupStream(s) /\ UNCHANGED clientVars

\* After the last round main returns.
Quit == ~Active /\ Exit /\ UNCHANGED clientVars

HNext == Script \/ Collect \/ Quit

\* The script is one thread that V8 runs to its end; nothing promises that
\* the collector ever runs.
HSpec == HInit /\ [][HNext]_allVars /\ WF_allVars(Script)

-----------------------------------------------------------------------------
\* readFile returns every character of the file in order plus one newline: the
\* read loop of tests/run.js neither skips, repeats nor reorders a line, across
\* buffer refills and for every placement of newlines, even the collector's
\* deleting earlier streams of the same file.
ReadFileIsContentPlusNewline ==
    at = "close" /\ doing \in {"source", "reference"} =>
        acc = Append(content[FileOf[doing]], "nl")

\* A reference tree recorded by one round is found again, and found equal, by
\* every later round: writeLine's and readLine's extra newlines and the order
\* of write, close and re-open never make the comparison fail.
RecordedTreeIsFoundEqual ==
    \A i \in 1..Len(verdicts), j \in 1..Len(verdicts) :
        i < j /\ verdicts[i] = "created" => verdicts[j] = "same"

\* The read loop ends at the end of the file, so the script ends.
ScriptEnds == <>(doing \in {"done", "aborted"})
=============================================================================
