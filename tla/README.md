# A TLA+ verification project for HammerJS

HammerJS is a command-line shell for JavaScript on top of V8. It gives scripts
three objects written in C++: `system` (process services), `fs` (file system and
the `Stream` class) and `Reflect` (a parser that turns source text into a syntax
tree). This directory models the parts of it that hold state and make decisions,
checks them with TLC and proves what matters most with TLAPS.

All paths below are relative to the repository root, `src/`.

## 1. The system

### Components, their state and their operations

| Component | State | Operations | Model |
|---|---|---|---|
| `fs`: class `Stream` (`modules/fs/fs.cpp` 56-59, 238-377) | one heap-allocated `std::fstream` per JavaScript object, reached through an internal field; a weak persistent handle; the file on disk | constructor (`fs.open`), `close`, `flush`, `next`, `readLine`, `writeLine`, the weak callback `CleanupStream` | `Stream` |
| Test script (`tests/run.js`) | one stream at a time, the text read so far, the `.syntax` file that records a tree from one run to the next | `readFile`, `writeFile`, `test_parser` | `Harness`, on top of `Stream` |
| `Reflect`: grammar functions (`modules/reflect/parser/JSParser.cpp`) | the C++ call stack, locals of about 40 mutually recursive functions | one `parse...` function per syntactic form | `JSGrammar`, with the tokens in `JSTokens` |
| `Reflect`: class `JSParser` and the expression stacks of the tree builder (`JSParser.cpp`, `JSParser.h`, `SyntaxTree.h` 430-460, 990-1060) | `m_token`, `m_error`, `m_allowsIn`, `m_nonLHSCount`, `m_tokenCount`; per function body four stacks of operands, operators, unary tokens and assignments | `next`, `consume`, `match`, `autoSemiColon`, the `AllowInOverride` guard, the operator-precedence loop | `JSParser`; `ExpressionTrees` for what the stacks hold |
| `Reflect`: `Lexer` (`Lexer.cpp`) | position, line, `m_terminator`, `m_atLineStart`, `m_lastToken`, `m_error`, two buffers for half-read literals | `lex`, `scanRegExp` and the functions they call for names, numbers, strings, comments | `Lexer`; `TokenSource` is what the parser knows of it |
| `Reflect`: tree nodes (`SyntaxTree.h` 35-430, 474-1037) | a tree of nodes with a type, an operator and children | about 60 `create...` and `make...` functions | `SyntaxTree` |
| `Reflect`: conversion (`reflect.cpp`) | the calls of a recursive descent, the objects under construction | `reflect_parse`, `convertNode`, `convertChild`, `convertChildren`, `operatorAsText` | `Reflect`, on top of `SyntaxTree` |
| `Reflect`: `Parser`, `ParserArena`, `JSGlobalData`, `SegmentedVector` | pools for nodes, the arena of identifiers, the life of one parse | `allocateFreeable`, `makeIdentifier`, `reset`, constructors and destructors, `createSyntaxTree` | `SegmentedVector`, `ParserArena`; `Allocator` is what the nodes expect of it |
| `fs`: functions (`fs.cpp` 61-236) | the directory tree, which belongs to everyone | `exists`, `isFile`, `isDirectory`, `makeDirectory`, `list` | `FileSystem` |
| Example `examples/scandir.js`, and `scanDirectory` of `tests/run.js` | the active calls of a recursive walk | `scanDirectory` | `ScanDirectory`, on top of `FileSystem` |
| `system` (`modules/system/system.cpp`) | `args` | `print`, `sleep`, `execute`, `exit` | `exit` in `Stream` and `Shell`, `args` in `Shell` |
| Shell (`hammerjs.cpp`) | options, the script text, the arguments | `main` | `Shell`, on top of `ScanDirectory` |
| `modules/reflect/wtf`, `dtoa.cpp`, V8 | | | third-party; only their use is modelled |

### How the components interact

A script runs on one thread. It calls methods of `Stream` synchronously; each
call finishes before the next one starts, with one exception: `writeLine` first
fetches the pointer to its `fstream` and then converts its argument to a string.
The conversion can run script code, which may call other methods on the same
stream, drop it, or start another `writeLine`. V8's collector can run between any
two calls, find a `Stream` object dead and call `CleanupStream`, which deletes the
`fstream`; its destructor writes what is still buffered. `system.exit`, and a
return from `main`, end the process without deleting any `fstream`.

`Reflect.parse` runs to its end inside one call. `reflect_parse` makes a
`Parser`, whose `createSyntaxTree` makes a `JSParser` and a `Builder` and calls
`parseSourceElements`; that pulls tokens from the `Lexer` one at a time. All
expression functions of one function body share the stacks of one `Builder`;
every nested function body gets a `Builder` of its own. A null result plus the
sticky flag `m_error` reports failure, and some callers do not look at it until
later. The finished tree goes to `convertNode`, which turns it into JavaScript
objects; the only things it passes down are a node and an indent.

### What is hard here

* A deletion by the collector while a `writeLine` is half way (`fs.cpp` 341-347).
* Output that is buffered, refused by the system after a part of it, sent again by
  the next call, or lost at exit; streams that turn from reading to writing and seek back over their read-ahead.
* The end-of-file rules of `getline` for files that are empty or lack the last
  newline, on which the read loops of scripts depend.
* Parser state that outlives the function that set it: `m_allowsIn` in the head of
  a `for` loop, `m_nonLHSCount` across brackets, entries left on shared stacks by a
  function that fails early.
* A conversion with some sixty node types, where a wrong index, a missing case or a
  list without a node gives a tree with holes instead of an error, and a
  constructor that leaves the operator uninitialized.
* Failures that are noticed late, loops that end only because every round takes a
  token, a `goto` into the middle of another branch.
* Lexer fields that survive from call to call (`m_terminator`, `m_lastToken`,
  `m_atLineStart`) and decide where semicolons are inserted; numbers that change
  their representation in the middle; names and strings copied in pieces.
* Memory handed out by comparing pointers, freed by two functions, and references
  into a vector that grows.
* A script that asks four questions about one path while other processes delete,
  create and lock what it asks about, and an answer of `false` that may only mean
  that `stat` failed.

`PROJECT.json` lists these as hazards, each at its line, with the property that
would catch it.

## 2. Modules

```
Stream  <--EXTENDS--  Harness  <--  MCHarness
   ^  ^                  ^
   |  +--  MCStream      +----  HarnessProofs  (TLAPS)
   |                            |
   +--------------------  StreamProofs  (TLAPS)

JSTokens <-- JSGrammar  <---+
   ^  ^                     +--EXTENDS--  JSParser  <--  MCJSParser
   |  +----- TokenSource <--+               ^   ^------  ExpressionTrees  <--  MCExpressionTrees
   |             ^                          |                                      |
   |             |                     ParserCode  <--------------------------------+
   |             |                          ^
   |             |                          +----  ParserProofs  <--  BuilderProofs  (TLAPS)
   |             | refinement (INSTANCE ... WITH)
   +---------- Lexer  <--  MCLexer
                 ^-------  LexerProofs  (TLAPS)

SyntaxTree  <--EXTENDS--  Reflect  <--  MCReflect
                             ^--------  ReflectProofs  (TLAPS)

SegmentedVector  <--  ParserArena  <--  MCParserArena
                       |     ^--------  ArenaProofs  (TLAPS)
                       +-- refinement -->  Allocator

FileSystem  <--  ScanDirectory  <--  Shell  <--  MCShell
                                       ^------  ShellProofs  (TLAPS)
```

### Stream

One action per operation: `stream_constructor`, `OpenThrows` and `OpenCrashes` (the
three ways the constructor ends; the last is `strchr` of a null pointer, if the mode
cannot be converted to a string), `stream_close`, `stream_flush`, `stream_next`,
`stream_readLine`, `WriteLineCall` and `stream_writeLine` (the two halves of
`writeLine`, before and after the conversion of its argument), `WrongArity`
(every method's first test), `Drop` (the script forgets its last reference),
`CleanupStream`, and `Exit`.

The `std::fstream` is external and modelled by what libstdc++ does: `fs[s]` has the
mode, whether the file is open, the file offset, the read-ahead `rbuf`, the pending
output `wbuf` and the state bits. A refill asks for `BufSize` characters. The buffer
may hand any prefix of its output to the system early (`Writings`). With `WriteErrors`
the system may refuse a write after any part of it: that part is in the file and
the offset is behind it, but the buffer keeps everything it was asked to write
(`Drainings`, and `Refused` during `writeLine`). A refused `flush` sets `badbit` and
leaves that buffer pending, and the next `flush`, `close` or the destructor
writes all of it again, behind the part that went through. A refused `close` drops
it and sets `failbit`. A refused switch to reading meets end of file. libstdc++ versions
differ on whether `flush` tries at all on a stream in an error state, so both are
allowed. A character is `x`, `y`, newline or NUL; `CStr` is the cut at the first NUL
that `String::New(buffer.c_str())` makes.

`object`, `data` and `weak` are the three views of a stream's life: what the
script sees, what the internal field points to, and V8's handle. A running call
holds a handle on its receiver (`Held`). The callback neither disposes nor revives
the handle; that V8's sources assert otherwise is in section 5.

`log` is history. A stream is `sole` as long as no other stream of the script can
write its file; for such a stream `text` is what the file would hold and `at` where
the stream would stand if every call reached the file at once, `refused` is whether a
write has been refused since, and `safe` is how far the stream stood when `flush`, `close`
or the collector last wrote everything before that.

### Harness

`test_parser` of `tests/run.js`, handled twice over the same source, each
`readFile` and `writeFile` with a stream of its own, the collector running at any
moment. Every step that touches a file is an action of `Stream` conjoined with
the script's own bookkeeping, so that what is checked here is the composition of
the two. `readFile` opens its file first and asks `fs.exists` afterwards; with the one
file system of `Stream` the answer is yes, and the way out for a no is there as in the
code. `Reflect.parse` is a constant, `Syntax`, that may also throw.

### JSGrammar

Each parse function of `JSParser.cpp` is a set of rules. A rule gives, for a set
of current tokens, the sequence of symbols the function goes through next. A token
name is `consumeOrFail`; the name of a parse function is a call with `failIfFalse`
(with `?` the result is not looked at, with `*` the call is repeated until it
returns null); the left side of another rule is a decision of the same function
(`if`, `switch`, `while`); every other symbol is an operation of `JSParser`. Order
is kept exactly: `forInit`, for example, switches `m_allowsIn` back on before it
looks at the result, as the code does. `OneRulePerToken`, which TLC evaluates,
says the rules are deterministic and complete.

`parseStatement` and `parsePrimaryExpression` return the result of the function
they dispatch to; `Callee` makes that dispatch part of the call.

Two stretches of code cannot be reached and are left out, for reasons the model
shows: the loop over further `const` declarators and the restart with
`parseStrictObjectLiteral` both come after a call that ends the process.

### JSParser

The machine that runs the rules: `stack` is the C++ call stack, a frame's `todo`
the rest of its function, `n`, `m` and `mark` its locals. Every step is one symbol.
`Leave` is the return of a function with its destructors (`AllowInOverride`
restores `m_allowsIn`, a function body's builder goes away) and with the caller's
reaction (`Resume`). The builder's four stacks are counters, except that the
operator stack keeps precedences, which decide the reductions.

The tokens come from `TokenSource`; asking a failed lexer for another token
breaks an assertion (`Lexer.cpp` 697), which is the status `aborted`.

Left out: source positions, `m_assignmentCount` and which node is built.

### ParserCode

The control flow of the parse functions, as the proofs need it. The rules are finitely
many, so the rests of a function that a frame can hold, `Codes`, are finitely many too;
`Places` and `Goes` are what a function can be at and where it can go from there. The
assumptions of the module say which functions own an operation and in which order it
comes, and where a function takes tokens, counts, compares and restores
`m_nonLHSCount` (section 4).

### ExpressionTrees

The nodes, for expressions. `held` is what the locals of each active function hold,
`contents` what is on the four stacks of the builder, `tree` the last result; every
step of `JSParser` is conjoined with what it does to them, one definition for each
function of the builder. `Text` prints a tree as chapter 11 of ECMAScript 5.1 wants
it, with the parentheses that are needed and no others; it is written from the
grammar and knows nothing of the parser. Since the grammar is unambiguous, printing
the tree of a printed tree gives the same text only if it is the same tree. Left
out: array, object, function and pattern literals, and `void`.

### TokenSource and Lexer

`TokenSource` is the abstract specification of the lexer and the assumption the
parser is checked under: any token that a text of the chosen family can have next,
with the rules that cross the boundary (a line break after a restricted keyword
makes a semicolon, `++` after a line break becomes `AUTOPLUSPLUS`, reserved words are
names after `next(IgnoreReservedWords)`, the end of the text is returned for ever,
and only an error token leaves a mark that the assertions of the next call find).

`Lexer` reads characters. It has the fields of class `Lexer`, `pc` and `local` for
the place and the locals of the running call, and one action per stretch of code
between two loops or labels: `lexEnd`, `lexLineTerminator`, `lexComment`,
`lexLineComment`, `lexMultilineComment`, `lexOperator`, `lexNumber`,
`lexIdentifier` with `parseIdentifier` (one turn per escape), `lexString` with
`parseString` (one turn per escape), `scanRegExp` with `readRegExp` (one turn per
character). `Implements` is the refinement: a running call is a stutter, its
return a step of `TokenSource`. With it, what the parser is checked with is not
an assumption about the lexer any more: the run shows it for its texts,
`LexerImplementsSource` proves it for texts of any length (section 4).

A text is a sequence of characters, a few for each class of the table
`typesOfASCIICharacters`; `Coded` gives each its code, so that `\uXXXX` in a name or a
string stands for the character it is, and a code without a character of the model
keeps its number. Which codes above ASCII are letters, marks and digits is Unicode's
business and comes as two constants, `NonASCIIIdentStart` and `NonASCIIIdentPart`; operators are a table from spellings to tokens, of
which the longest one wins, as the nested `if`s do; the letters of `return` are one
character, since only `if` and `in` are needed to see names and keywords told
apart. The value of a number is its digits and radix: what `strtod` and
`parseIntOverflow` make of them is floating point. Left out: `setOffset`, which
nobody calls; `skipRegExp`, for a tree builder that is not used; `m_delimited`,
which nobody reads; token positions, except where a property needs them.

### SegmentedVector, ParserArena and Allocator

`ParserArena` follows the memory of `reflect_parse` through the making of a
`JSGlobalData`, parsing, the conversion and the destructors, as often as scripts
call it. Pointers are a region and an offset, so that the difference of two
pointers is meant as in the code: two null pointers leave no room. `malloc` gives
any region that is free; `free` of anything else is recorded in `badFrees`.
`IdentifierArena` is the vector of `SegmentedVector`, whose segments come from
`new` and whose references are recorded when `last()` returns them. `reset` has no
caller in the program; its comment says it runs after a failed parse, and it is
modelled there, because a double free between it and the destructor is what could
go wrong. `Allocator` is what the nodes expect of their memory: aligned, inside one
region, disjoint from every block in use, released all at once.

### FileSystem, ScanDirectory and Shell

`FileSystem` has the tree (`kind`, from paths to kinds) and the functions of `fs.cpp`
on it. The kinds are what the functions tell apart: a `locked` directory cannot be
opened, reading a `failing` one may end early, since `fs_list` takes an error of
`readdir_r` for the end, and what is `hidden` has a name that `list` returns while
`stat` refuses it and all below it (a link to nothing, a directory that may be read
but not searched, a damaged disk). `exists` is false when `stat` fails, and
`isFile` and `isDirectory` throw, for whatever reason it fails. `list` is not one
step: `opendir`, one `readdir` per entry, and `closedir`, with the guarantee POSIX
gives for a directory that changes meanwhile (what was there all the time is
returned once, what came or went may be). Other processes create, delete, and
`Alter`: permissions change, links lose and find their targets, disks fail. `been`
and `gone` are history: what every path has named, and what was deleted.

`ScanDirectory` is `examples/scandir.js` with one action per call of an `fs`
function, because another process may act between any two; a frame of `stack`
is an active call of `scanDirectory`. `Interfere` is that other process.

`Shell` is `main`: it reads options and arguments word by word, opens and compiles
the script, waits for a debugger with `--debug`, prints the tree with `--syntax`, and
exits. Left out: the text of the tree that `--syntax` prints (`Reflect` is checked by
itself) and what follows a crash of the parser.

### SyntaxTree

One definition for each `create...` and `make...` function of `Builder` that the
parser calls: the set of nodes its calls can make. A node has its type, its
operator and its children, each given by a sort (what kind of node the parser can
hand over) or `"null"`. The three groups of constructors are kept apart, because
the ones that take an identifier or a first child leave `m_operator`
uninitialized. `convertOperator` is the relation between the token in the text and
the operator, so that the operator can be compared with the text it is turned into.

### Reflect

`convertNode` makes one object per node, and most of its cases set fields one
after the other. A case is therefore a row: the type of the node, the `type` of
the object, and how each field is set (`child`, `children`, `all`, `only`, `fold`,
`empty`, `direct`). `stack` holds the active calls; a frame has its node, its
indent, the fields still to set, the kinds of values set so far, and the children
that no field has shown yet. The cases that do not make an object are actions of
their own: `ConvertPassedOn` (arguments and function bodies return what their only
child is converted to, with the same indent), `ConvertList`, `ConvertParameters`
and `ConvertUnknown` (no case). The tree is chosen while it is converted: a child is
any node of its sort, so that all trees up to a depth are covered without building
them. A read of an uninitialized operator counts as the worst it can do, the
`CRASH()` of `operatorAsText`.

Left out: names, literal values and the fields that hold them.

A definition named `something_likeThis` is the slip `likeThis` in `something`;
`Next` never uses it. Each property has one, to show that it can fail.

## 3. Model checking

| Run | Bounds | What it shows |
|---|---|---|
| `stream` | two streams on one file, read buffer of 2, written up to offset 3 (`MaxOffset`), empty lines and lines of one letter, one open `writeLine`, write errors | `TypeOK`, `CallsUseLiveStream`, `FlushedIsDurable`, `BuffersAreInvisible` |
| `harness` | two rounds, six streams, sources and recorded trees of up to 3 characters in every placement of newlines | `ReadFileIsContentPlusNewline`, `RecordedTreeIsFoundEqual`, `ScriptEnds` |
| `parser` | eleven families of texts, see below | the eight properties of `JSParser` |
| `expressions` | the texts of 5566 expressions, see below | `TreeIsTheText` |
| `reflect` | lists of up to 2, all nodes down to 4 active calls | the six properties of `Reflect` |
| `arena` | three pools of three words, objects of 1, 8, 9 and 24 bytes, five nodes, five identifiers in segments of two | the three invariants of `ParserArena`, and that it implements `Allocator` |
| `lexer` | six families of texts, 6689 in all | the seven properties of `Lexer`, that it implements `TokenSource` among them |
| `scandir` | two names in two levels of directories, trees with every kind of entry, two changes by other processes, eight command lines | the seven properties of `Shell` |
| `stream_next`, `parser_const`, `parser_new`, `reflect_lost` | small | disagreements, section 5 |

**stream.** Two streams are what it takes for one to write what the other has read
ahead, and to truncate a file under the other. A buffer of two and a file of three
characters make refills, read-ahead and the seek back happen; a second stream that
writes behind the end makes gaps. One open `writeLine` is enough for its argument
to call every other method on both streams. Lines of a letter and a newline make
order show: written in the wrong place, twice or too late they are seen. With at
most three characters pending, a write can be refused before, between and after them
and sent again behind itself. About a million states. Streams are interchangeable
(symmetry). The view leaves out what no step reads: the result of the last
call, which of the two error bits is set, and after the exit everything but the disk
and the histories (the properties were checked in the state before). The script
may stop at any point, so a state without successors is no error.

**harness.** Files of up to five characters can be written. The contents are the shapes the end-of-file rules tell apart: empty,
only a newline, no last newline, an empty last line, a line longer than what is left
of the buffer.

**parser.** A text is any sequence over a family's alphabet after its opening, up
to a length; each family keeps one group of functions busy so that long texts stay
few. `Expressions` (5 tokens over 10, with lexical errors), `Literals` (arrays,
objects, `new`, calls), `Accessors`, `ForHeads` (6 tokens after `for (`),
`NestedFors` (a function with loops of its own inside a `for` head), `IfChains`
(two `else if`), `Switches`, `Tries`, `Jumps` (line breaks), `Abandoned` (a conditional
inside brackets whose middle part fails with operators on the stack) and `EveryToken` (all 80
tokens, texts of up to 2). The passing run fires every action.

**expressions.** Every construct in every place of every other one, the other places
filled with a leaf; every such expression as the target of an assignment; every chain
of up to four member accesses, calls and `new` with and without arguments; every
grouping of four operators of three precedences; two constructs joined by an
operator. Two levels are what it takes for one construct to disturb another one's
entries, a third one for an assignment around them. Targets with `new ...(...)` in
them are kept for `parser_new`. Leaves differ in their token, so that exchanged
operands show.

**reflect.** The outermost list of statements takes two calls, a statement the
third; with `MaxDepth` 4 a statement has any expression or statement below it, and
only there the smallest ones (`this` and the empty statement) stand for the rest.
What a case does depends on its own node, its indent and the kind of value a child
returns, all of which occur within this depth. Lists, clauses, arguments and
function bodies are never cut. Two elements tell a list from its first element.

**arena.** A pool of 24 bytes has room for three small objects, or for one of 9
bytes (16 with its alignment) and one small one, or for one that fills it; five
nodes fill three pools. Segments of two and five identifiers need three segments.
Pools and segments are interchangeable (symmetry). Phases repeat, so pools come
back to `malloc` and are handed out again.

**lexer.** Each family joins short pieces in every order: `Numbers` puts 0, 1, 7, 8 or
9 digits, around the limits of 7 and 9, after nothing, `0` or `0x` and before a
fraction, an exponent, a digit of another radix or a letter; `Lines` joins line
breaks, comments of all four kinds, `++`, `--` and `return`; `Strings`, `Names` and
`Patterns` join escapes, ends and quotes, legal or not, and `Names` has escapes for letters
(of a keyword, and one that is not ASCII), a digit, an accent, a line break and a
control character; `Spellings` has every operator
before every character that could make it longer. `calls` is bounded by the length
of the text, so that the end is asked for again. The parser may stop asking at
any point, so a state without successors is no error.

**scandir.** Two levels are what it takes to be inside a directory while its parent
changes. Two changes can delete a name and create it again, or lock or hide a directory
and open it up again, while `list` reads it. The trees are one level with each pair of
kinds (but `other`), two levels of directories and files, and a path of each kind with
nothing below it, or nothing at all. The command lines have options before, between and
after the words, an unknown option, too few words, and scripts that are missing, broken
or a directory; 629,882 states.

What the safety properties say:

* `CallsUseLiveStream`: no method works on a deleted `fstream`, whatever the argument
  of `writeLine` does.
* `FlushedIsDurable`: what `flush`, `close` or the collector reported written of a sole
  stream is on disk and stays there, whatever is written, refused or sent again
  later, and after the exit. It says nothing of what comes behind that: after a
  refused write the file may hold a piece twice (section 5).
* `BuffersAreInvisible`: until a write is refused, the file with the pending output in
  its place is what the calls of a sole stream, reading and writing in any order, would
  have made of it without a buffer, and the next one goes on where they would. This
  is where a wrong seek between reading and writing shows.
* `ReadFileIsContentPlusNewline`, `RecordedTreeIsFoundEqual`: the read loop of
  `tests/run.js` loses nothing, and its comparison is stable.
* `InIsOffExactlyInForHeads`: relates `m_allowsIn` to the whole call stack.
* `BuilderStacksAreOwned`: relates the shared stacks to the counters of all active
  functions, exactly when nothing has failed and as a lower bound afterwards.
* `OperatorsHaveOperands`: every reduction finds two operands, and, until something
  has failed, waiting operators bind tighter and tighter (left association). After a
  failure they need not: `parseConditionalExpression` does not look at the result of
  its middle part (`JSParser.cpp` 1019-1020), an expression that fails in it leaves its
  operators on the shared stack, and the ones around it go on with them on top. The
  attempt to prove the order without that condition found this; `Abandoned` shows it,
  and `m_error` keeps the tree from coming out (`NoTreeAfterError`).
* `ElseChainFolds`: the two vectors of an `else if` chain fold to one statement.
* `OnlyLeftHandSidesAreAssigned`: the counting of `m_nonLHSCount` accepts nothing
  that a direct look at the expression would refuse (it does refuse too much, see
  `parser_new`).
* `TreeIsTheText`: precedences, shared stacks, the matching of `new` with its
  arguments and the tests for left-hand sides together give every text its tree.
* `NoTreeAfterError`: late checks and ignored results never let a tree out.
* `ProgramIsTheRoot`: exactly the outermost call makes a `Program`, although only the
  indent tells it from clauses and function bodies.
* `ListsAreArrays`: each of the representations of a list becomes an array and
  nothing else does.
* `NothingCrashes`: `operatorAsText` is asked only for operators that are set and
  that it knows, and no list is taken from a null pointer.
* `NullMeansLeftOut`, `ChildrenAreShown`: null fields and unconverted children occur
  only where the language lets a part be left out, and in the places listed in
  section 5.

* `NumbersKeepTheirDigits`: on every way through the 32-bit fast paths and
  `m_buffer8`, the value is that of the digits between the offsets of the token.
* `NamesAndStringsAreDecoded`: the pieces between escapes, put together, are the
  text decoded character by character; a keyword with an escape in it is a name.
* `LinesAreCounted`: the line number is the number of line breaks behind the
  position, whatever they were part of.
* `TerminatorMeansLineBreak`: `m_terminator` is set only if there is a line break
  since the last token, and only a comment `/* */` can hide one.
* `PoolsAreFreedOnce`, `ReferencesStayValid`, and `Implements` of `ParserArena`: no pool
  is leaked or freed twice, identifiers do not move, nodes do not overlap.
* `StableScriptsAreFound`: a scan that ends has printed every script that was
  there all the time, once, whatever happened around it. `OnlyScriptsArePrinted`:
  what is printed was a script, and is printed twice only if it or a directory it
  is in was deleted and created again.
* `DirectoriesNest`: no directory is scanned inside itself. `ScanFailsForAReason`:
  an exception ends the scan only at a path that was missing from the start, may not be
  opened, was deleted after its name was learnt, or that `stat` refused, itself or a
  directory it is in.
* `ScriptIsFirstArgument`: `system.args` is the command line without its options.

Liveness and fairness: `ScriptEnds` assumes that V8 keeps running the one script
(weak fairness of `Script`); nothing is assumed of the collector, which no code
promises to run. `ParsingEnds` assumes weak fairness of the parser, one thread
without waits. Lengths of texts are bounded, so what it shows is that no loop turns
without taking a token. `LexReturns` assumes weak fairness of the steps inside a
call (one thread without waits) and none of `lex` and `scanRegExp`, which the parser
may never call again. `ScanEnds` assumes weak fairness of `main` and of the script,
and nothing of other processes, nor of the debugger: a program that waits for one
may wait for ever, and the property begins where the script does. That other
processes make a bounded number of changes is an assumption: one that adds
directories faster than they are listed keeps any walk busy.

## 4. Proofs

`StreamProofs` proves, for any set of streams and files, any contents and lines,
any buffer size, any nesting of `writeLine` and writes refused at any point, under
`StreamAssumption` (the constants have their types):

* `TypeCorrect == Spec => []TypeOK`. `TypeOK` is not inductive: a reader that turns
  to writing sets its offset to `pos - Len(rbuf)`, which is a natural number only
  because a read-ahead is never longer than the offset. `TypeInv` adds this
  (`ReadAhead`). The work is in `GotLineType`: a refill leaves `rbuf` exactly as
  long as what it read past the newline. `LineEnd` and `CStr` choose a least index;
  `LeastElement` shows there is one, from the well-foundedness of `<`.
* `CallsAreSafe == Spec => []CallsUseLiveStream`, from `LifeInv`, which ties the
  three views of a stream together: an object the script has seen has a live
  `fstream` as long as its handle is `WEAK`, reachable streams and receivers of
  running calls have a `WEAK` handle, and the handle becomes `NEAR_DEATH` exactly
  when the memory is deleted.
* `FlushedStays == Spec => []FlushedIsDurable` and
  `BuffersStayInvisible == Spec => []BuffersAreInvisible`. The first speaks of the disk
  alone; what keeps it is how offset and buffer of a sole stream stand to it. `DiskInv`
  says that no other stream can write to its file (`Alone`), that a closed stream has
  no mode, only a stream open for output has output pending and then none has read
  ahead (`Buffers`), and that file and stream fit (`Fits`), which is two things:
  * `Saved`: the file begins with what was flushed, and the offset less the read-ahead is
    never before its end, so that no write, first or repeated, reaches back into it. It
    holds whatever is refused.
  * `Meets`, as long as nothing was refused: `WriteAt` of the pending output at the
    offset gives the `text` of the history, the stream stands where the history says, and
    the read-ahead is the piece of the file before the offset. It is `BuffersAreInvisible`.

  The work is in two facts about data: writing in two pieces is writing once
  (`WriteTwice`), which the draining of any prefix needs; and a `getline` over
  read-ahead and refills ends where the line ends in the text (`GotLineReads`).

`HarnessProofs` proves, for any number of rounds, any contents and tree, any buffer size
and any moments at which the collector runs (`HarnessAssumption`: three streams per round;
the files and the tree are text without NUL, at which the C string of `readLine` would end;
the tree is more than line breaks):

* `ClientMakesCalls == HSpec => Spec`. Every step of the script is a call that `Stream`
  allows, so `StreamProofs` holds in it. It rests on `ClientInv` (below), by which three
  streams per round are enough.
* `FilesAreReadWhole == HSpec => []ReadFileIsContentPlusNewline`. The centre is `LineRead`:
  a `getline` that finds a newline takes what is `Available` up to it and leaves the
  rest, however many refills it needs (`RefillSuffices` of `StreamProofs`, with the
  division in `Refilled`).
  `ReadSoFar` then says that what `readFile` has and what the stream still has are together
  the file, until the call that sets `eof` adds the one newline. It needs that
  no other open stream can write (`OneOpen`), which holds because the script closes every
  stream before it opens the next.
* `RecordedTreesAreFound == HSpec => []RecordedTreeIsFoundEqual`, under `~WriteErrors`: if the
  disk refuses the tree, a later round rightly finds none or another one. `WrittenSoFar`
  carries what was sent to the stream from `writeLine` to `close`, `RecordStays` that no
  round writes once there is a record. That the newline which `readLine` adds makes no
  difference is `NewlineIsStripped`. `Stripped` is recursive; since the prover has no
  induction over data, that it has a value, and that both texts have the same up to
  the newline, is shown by least counterexamples.

`ArenaProofs` proves, for any pool size that is a multiple of 8, any object sizes up
to it, any set of pools and any segment size (`ArenaAssumption`,
`SegmentAssumption`):

* `ArenaTypes == Spec => []TypeOK`. The difference of pointers is a size only if
  both point into the same pool and the next block does not begin behind its end;
  the invariant adds this, and that offsets are multiples of 8. `Alignment` has
  the facts about rounding.
* `FreedOnce == Spec => []PoolsAreFreedOnce`, from the invariant that while the
  arena lives the current pool and the full ones are exactly the allocated
  regions, without repetition. `reset` keeps it only because it empties the list
  the destructor will walk.
* `ArenaImplementsAllocator == Spec => Implements`: the new block begins where all
  blocks of its pool end (an invariant over all blocks), so the step is an
  `Allocate`; a fresh pool has no blocks in it, since blocks lie only in allocated
  regions; `reset` and the destructor are `Release`; everything else stutters.
* `ReferencesStay == Spec => []ReferencesStayValid`, from the invariant that every
  segment but the last is full and that places and segments determine each other.

`ReflectProofs` proves six invariants of the conversion for lists of any length and
nodes nested to any depth (the only assumption is that the two bounds are
natural numbers, the one on lists not 0): `ConversionTypes`, `OneProgram` (`ProgramIsTheRoot`),
`ArraysForLists` (`ListsAreArrays`), `ConversionDoesNotCrash` (`NothingCrashes`),
`NullsAreLeftOut` (`NullMeansLeftOut`) and `AllChildrenAreShown`
(`ChildrenAreShown`). Each property is about the fields that are set already, and
none is inductive. `ConvInv` says of every active call what it has still to set, of
which nodes, and what the call above it will return. The argument has three parts:

* `Shape`: what the builder guarantees of the children of each type of node, proved of
  every node it can make (`NodesOf`), lists by their elements.
* The table of cases fits the shapes (`GoodTodo`): for every type, each
  field `convertNode` will set can be set (nothing is taken from a null pointer, null
  is put only where the language lets something out, a list becomes an array), and the
  fields together show every child but the two that `LeftOut` names.
* The stack: only the outermost call has indent 0; a call waits with its next
  field for the call above it, which returns an array exactly when the field wants one.

`ShellProofs` proves, for any names, any depth, any file tree, any number of changes
made by others, any set of scripts and any command lines
(`FileSystemAssumption`, `ScriptsAssumption`, `CommandLinesAssumption`: the initial
trees are trees, and no file is called `.` or `..`): `ShellTypes`, `CallsNest`
(`DirectoriesNest`), `FailuresHaveReasons` (`ScanFailsForAReason`),
`ScriptsOnly` (`OnlyScriptsArePrinted`), `ScriptsAreFound` (`StableScriptsAreFound`)
and `ArgumentsInOrder` (`ScriptIsFirstArgument`). They follow from `ScanInv`,
which has three parts:

* `WalkInv`. Every call but the innermost is in its `forEach`, one level deeper than
  the call below, at a path under that call's (`Calls`); what a call learnt from
  `exists` and `isDirectory` was so once (`Frames`); an entry is met again, in
  the rest of the list it came from or in the open directory, only
  if it was deleted in between (`CallsDiffer`, `ReadsDiffer`). That a path was not
  found has two explanations, that nothing is there or that `stat` was refused on the
  way (`WasHidden`), and neither is forgotten when the tree changes (`MeaningChanges`).
* `PrintedOnce`. A path is `Ahead` of the walk if it lies before the innermost call, in
  the rest of some `forEach` or in the open directory. What was printed and never
  deleted is not ahead any more. That a script is printed once needs exactly this.
* `NoneIsLost`. A script that has been there with all its parents is printed or
  still ahead.

Both thus rest on one notion, what the walk has still before it, and neither holds for a
path that was deleted: created again, it can be listed again.

`ParserProofs` proves, for any set of texts, of any length, and for calls nested to any
depth (`TextsAssumption`: the texts have their types), `OnlyGoodTreesComeOut`
(`NoTreeAfterError`), `InIsOffInForHeads` (`InIsOffExactlyInForHeads`),
`ElseChainsFold` (`ElseChainFolds`) and `AssignedTreesAreLeftHandSides`
(`OnlyLeftHandSidesAreAssigned`). The rules of the grammar are data, so an argument
over them needs what is true of each function at each of its places. `ParserCode`
states this as assumptions: `CodesAreClosed`, `OperationsAreOwned`, `ForFlow`,
`IfFlow` and so on. They have no constant and no variable in them; they are closed
formulas about the rules, TLC evaluates them completely in the run `expressions`, and
nothing is left in them that a larger instance could change. If the rules are
changed so that one becomes false, that run fails. The inductive invariant is
`ParserInv`:

* `Registers`, `Frames`: types; every function is at one of its places, each but the
  innermost waits at the call that made the next one, and its counters are what its
  place demands (`GoodCounts`). `ElseChainFolds` is one line of it.
* `Root`: how the statement loop of the outermost function ends. `NoTreeAfterError` is
  not inductive, because the loop is left by a null result: `Root` says that the
  function that can return null without an error does so only at its very start and
  never at an error token.
* `AllowsIn`: `m_allowsIn`, and every value `AllowInOverride` has saved, is what the
  calls below say; between the head of a `for` and an operand in it only
  the `HeadFunctions` are active. The property speaks of the present value alone; what
  restores it is the saved ones.

`AssignedTreesAreLeftHandSides` rests on `LHSInv`, which is `ParserInv` with
`MarkInv`. `parseAssignmentExpression` and `parseForStatement` infer from an unchanged
`m_nonLHSCount` that the tree they were handed is a left-hand side. What is in danger is
the other inference: in between, operators are counted in one function, and calls and
indices put saved counts back in others.

* `MarksGrow`: a count that will be put back is not less than any saved below it to be
  compared, so that putting it back undoes nothing those below have yet to see.
* `CountsStay`: once a function has counted its operator, what those below it have saved is
  less than the present count, and less than all that will still be put back above it.
  This is the strict form of `MarksGrow`. It holds for the functions that hand a
  tree down unchanged (`Chain`); through brackets of any kind a new expression begins.
* `TreeIsCounted`: a tree that was handed down is a left-hand side, or its operator shows in
  the count. The property is this, where the tree is assigned to.
* `Takings`, `TreeAtHand`: a function that has not taken a token has not made a tree
  of its own; a tree that is compared is there.

Where a function compares, restores, has counted or holds a tree it was handed are
predicates of its place in the rules; `MarkFlow`, `CountFlow` and four more assumptions of
`ParserCode` say how a step changes them, and TLC evaluates them like the others. A step is a
move of the innermost function (`StepKeeps`), a call (`CallKeepsMarks`), a return
(`LeaveKeepsMarks`) or the end (`StopKeepsMarks`).

`BuilderProofs` adds the four stacks of the tree builder: `CountersStayNatural`
(`TypeOK` of `JSParser`), `StacksAreOwned` (`BuilderStacksAreOwned`) and
`OperatorsFindOperands` (`OperatorsHaveOperands`). `BuilderInv` is `ParserInv` with

* `Balanced`: each builder holds at least what its functions own and, until something
  fails, exactly that. `TypeOK` needs it: a counter of the builder does not become
  negative because the function that pops owns what it pops.
* `Ordered`: the operators of every active binary expression, and not only of the
  innermost one, ascend in their part of the shared stack, between the shares of the
  functions below.

What functions own is a sum over the call stack. The induction theorems of the library
cannot be used here (they take an operator as a parameter), so facts about sums are
proved by a least counterexample (`LeastElement`): there is one function that satisfies
the recursion (`TotalsExist`, `TotalsAgree`), the sum of a stack is that of its front
and its last element (`TotalFacts`), and it grows with the stack (`ShareMonotone`).
These rules hold in every state, so they hold in the next one (`NextRules`). Each
step is then one of five kinds: no function changes what it owns (`SteadyKeeps`), a
call (`CalledKeeps`), a return (`LeftKeeps`; without an error the function owns
nothing any more), a new function body (`BodyKeeps`), and a step of the innermost
function that changes its own counters and the top of the stacks alike
(`BuiltKeeps`). `PushMatch` and `PopMatch` say what the precedence loop does to the
operators.

`LexerProofs`, for every set of texts over the characters of the model
(`LexerTextsAssumption`), however long, and whatever codes above ASCII are letters
(`UnicodeAssumption`: those that begin a name may also stand in one). The inductive invariant `LexerInv` is the types
and the order of the offsets that a call keeps (`Offsets`). Under it every step `Moves`:
it passes characters none of which is a line break, or such characters and then exactly
one whole line break, which it counts. The reading functions for numbers and escapes
have a lemma each that says so (`parseNumberReads`, `StringEscapeReads`). On this rest

* `LexerTypes` (`TypeOK`): no reader leaves the text, no escape is wider than a `UChar`.
* `EveryLineIsCounted` (`LinesAreCounted`). In the model, whether a line break begins
  at a position is a recursive function, as CR LF CR is two line breaks and not three.
  `BreaksBegin` gives its closed form `Begins`, an even number of alternating line
  terminators before it, proved by a least counterexample (`LeastElement`). `Counted` then
  has two parts: the count, and that the lexer never stands inside a line break,
  without which the count is not inductive.
* `TerminatorsAreLineBreaks` (`TerminatorMeansLineBreak`), from `Terminates`: inside a call
  the property is about the text up to the token that is being read, and a comment that
  is open began behind its two characters.
* `LexerImplementsSource` (`Implements`), from `SourceInv`: a call finds no error and empty
  buffers (`Clean`), `m_lastToken` is the token the parser has and no call goes on after
  a line break behind a restricted keyword (`LastIsToken`), and every token but the end has
  a character of its own (`Consumes`), so that a text has at most as many tokens as
  characters. Each action begins a call (`lexKeeps`), stays in one (`Stays`), or ends it
  with a token that `TokenSource` allows (`Returns`); the first two are stutters
  (`SourceStutters`), the last is a step of `TokenSource` (`SourceLexes`).
* `NumbersAreRead` (`NumbersKeepTheirDigits`). `parseNumberKeeps` says of every reader,
  on its fast path or through `m_buffer8`, that what it returns has the digits of the
  text it passed. The point is what `m_buffer8` holds when one reader hands over to the
  next, as `parseOctal` does to `parseDecimal` at a 9, and that to the readers of a
  fraction and an exponent: the text so far, no more and no less (`DecimalKeeps`,
  `FractionKeeps`). Only the zero in front of octal digits may be one more, and
  `ZerosAreInsignificant`.
* `NamesAndStringsAreRead` (`NamesAndStringsAreDecoded`). `Decoded` goes over a text
  character by character, while the lexer copies the pieces between the escapes.
  That the recursion has a value, and that on a piece without a backslash the value
  begins with the piece itself, is shown by least counterexamples (`DecodedExists`,
  `DecodedRun`). The invariant `Reading` is about a name or a string whose end is not
  known yet: wherever it will end, what it stands for is `m_buffer16` followed by what
  the rest stands for. That a name without an escape has nothing in `m_buffer16`, and
  begins where the lexer stands, keeps a name with an escape from being a keyword.

Together with the theorems of `ParserProofs` and `BuilderProofs`, which hold for
token sources of any length, the refinement makes the parser's invariants hold whatever
the characters of the text are.

Only model-checked:

* Liveness (`ScriptEnds`, `ParsingEnds`, `LexReturns`, `ScanEnds`), out of the prover's
  reach.
* `TreeIsTheText`: `ExpressionTrees` uses recursive operators, with which the prover's
  main backend cannot be used.

## 5. Where the code and its documents disagree

* `stream_next`. `README.md` 176-177: `next()` throws if there is nothing more to
  read. It throws whenever `eof()` is set after `getline`, so a last line without a
  newline is read and dropped.
* `parser_const`. Every `const` declaration dereferences a null pointer
  (`SyntaxTree.h` 450-456 with the null tail of `JSParser.cpp` 351). A getter or
  setter in an object literal ends the process as well (`SyntaxTree.h` 737).
* `parser_new`. `README.md` 133: parse returns the "syntax tree corresponding to the
  code". `JSParser.cpp` 1416-1422 restores `m_nonLHSCount` after the arguments of a call,
  1408-1413 does not after those of `new`. An operator in them makes the whole
  expression count as no left-hand side, so `new X(a + b).c = d` is refused.
* `reflect_lost`. `README.md` 133 again. The left side of `for (x in o)`, or the
  initializer of `for (var x = 1 in o)`, is never converted, nor are the clauses of a
  `switch` after its `default`. `ChildrenAreShown` says that these are the only ones.
  A labelled statement has no case and becomes `undefined`; the operand of `void` is
  not even in the tree.

Others were met while modelling and have no run of their own:

* `CleanupStream` (`fs.cpp` 56-59) neither disposes nor revives the weak handle it is
  called for. V8 requires one of them: `v8/src/global-handles.cc` 203-205 asserts after
  the callback that the handle is not `NEAR_DEATH`. The assertion is compiled only
  with `DEBUG`, which no build file of HammerJS defines; a V8 built with it ends the
  process at the first stream that is collected. Without it the handle stays
  `NEAR_DEATH`, which the collector does not look at again, and leaks. The model
  is the build without assertions.
* Output that the system refuses after a part of it is written again from its beginning
  by the next `flush` (`fs.cpp` 298), `close` (286) or the destructor (58), behind the
  part that is in the file already: a disk that was full for a moment leaves a file
  with a piece in it twice, or with a piece of one line joined to the next. Neither
  `flush` nor `close` tells the script that anything was refused.
* `stream_constructor` does not look whether its second argument could be converted
  (`fs.cpp` 251-253): if the conversion throws, `*modes` is null and `strchr` ends the
  process.
* `fs_list` does not look at the result of `readdir_r` (`fs.cpp` 186-191): a directory that
  cannot be read to its end is a shorter list.
* `README.md` 170-171: "Further operation on a closed stream will throw an exception."
  No method looks at `is_open()`; all but `next` return normally.
* After two declarations in the head of a `for` the jump to `standardForLoop`
  (`JSParser.cpp` 399) takes the next token without looking at it, so
  `for (var a, b in c; d) e` is accepted, against the comment in line 385. If that token
  is a lexical error, the lexer is asked for another one against its own assertion.
* `tests/run.js` 82-83 reports an empty file; the read loop returns one newline for
  it (`readLine` adds one), so the test never succeeds.
* `README.md` 133 again: the statement loop stops at `}`, `case` or `default` and
  nothing looks for the end of the text, so what follows a stray `}` is dropped
  without an error. `operatorAsText` exchanges `<=` with `>=` and `<<=` with `>>=`, turns
  `~` into `!` and `instanceof` into `instance of`.
* `README.md` 105-109: `isDirectory` and `isFile` "otherwise return false". For a path
  that does not exist they throw, so the walk of `scandir.js` ends with an uncaught
  exception if a file vanishes after `list` has named it, and also at a link to
  nothing and in a directory that may be read but not searched, where nothing
  ever vanished: `exists` is false there and the script goes on to `isDirectory`,
  which throws (`ScanFailsForAReason` has the whole list). On Windows `isFile` is true
  of everything that is no directory.
* `README.md` 111: `makeDirectory` "creates a new directory if the directory does not
  exist yet"; if it does, it throws.
* `README.md` 88: `system.args` are "all the arguments". Words that begin with `-` are
  taken by the shell wherever they stand, and an unknown one ends the program.
* The shell exits with 0 after an unknown option, a missing script, a script that
  does not compile and an uncaught exception, and the message about a file that can
  not be opened names `argv[1]`, which may be an option. A directory given as the
  script can be opened; its length is -1 as an `int`, and what is compiled is memory
  that was never written.
* A line break inside a comment `/* */` is no line terminator for the parser, although
  ECMAScript says it is one.

Smaller ones: a `default` clause without clauses before it is taken
apart, so that `cases` holds a null and a block; `new X` without arguments becomes an
`ExpressionStatement`; `Integer::New` drops the fraction of a number; `readLine` adds a newline to a last line that has
none and returns one more line at the end of a file that ends in a newline; a line
that begins with NUL reads as the empty string that means end of file; `flush`
returns normally after a refused write.

## 6. Not modelled, and why

* The C++ stack: `canRecurse()` is constantly true, so deep nesting exhausts it; its
  size is no part of the code.
* `dtoa.cpp`, `parseIntOverflow` and number values: floating point. `Lexer` ends where
  the digits are handed over.
* `Vector`: copied from WebKit; used as a sequence. Of `SegmentedVector` only what the
  identifier arena calls.
* Destructors of nodes: the arena frees their memory and runs none, so the vectors
  they own leak; a leak is no state the program can see.
* Failing `malloc` (`ParserArena.cpp` 80 does not look) and the conversion of source
  bytes to characters in `reflect_parse`, which sign-extends.
* Symbolic links that make a loop: `stat` follows links, and a link to a parent makes the
  walk of `scandir.js` endless until the path gets too long for the system. Other links
  have the kind of what they lead to, or are `hidden`.
* Other processes that write a file while a stream has it open, and a process that
  runs out of file descriptors, so that `opendir` fails for a directory that is
  not `locked`.
* `fs_open`, `workingDirectory`, `print`, `sleep`, `execute`: one call of the system or of
  another function each, with no state of their own.
* `tests/run.js` apart from its file functions: assertions in a row.
* V8: vendored, and by far the largest part of the source tree; modelled by how
  `fs.cpp` uses weak handles. The modules here are about the program around it.
* Other examples: the read loop of `examples/syntax.js` is the one in `tests/run.js`.

## 7. Plan

1. *Done*: `Stream`, `Harness`, `JSTokens`, `JSGrammar`, `JSParser`, `ExpressionTrees`,
   `SyntaxTree`, `Reflect`; `TokenSource` and `Lexer` with the refinement between them;
   `SegmentedVector`, `ParserArena`, `Allocator`; `FileSystem`, `ScanDirectory`, `Shell`.
2. Theorems. *Done*: the invariants of `Stream`, `ParserArena`, `Reflect` and `Shell`
   that the runs check, those of `Harness` over `Stream`, those of `JSParser`, and those of
   `Lexer` with its refinement. Left: liveness, and the trees of `ExpressionTrees`, which
   the prover cannot do (end of section 4).
3. Array and object literals in `ExpressionTrees`, and the trees of statements.
