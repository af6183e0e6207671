------------------------------- MODULE Lexer -------------------------------
(***************************************************************************)
(* The lexer of modules/reflect/parser/Lexer.cpp: the fields of class      *)
(* Lexer, the buffers that literals and names are put together in, and the *)
(* steps of lex() and scanRegExp().  Straight-line code is one step, and   *)
(* so is each turn of a loop that an error or the end of the text may end. *)
(*                                                                         *)
(* A text is a sequence of characters, a few of each class of              *)
(* typesOfASCIICharacters; "return" stands for the letters of a keyword    *)
(* that a line break ends, and a few other characters go by a name.        *)
(*                                                                         *)
(* A definition whose name ends in _somethingWrong is a slip that a        *)
(* property is tested against; Next does not use it.                       *)
(***************************************************************************)
EXTENDS JSTokens, SequencesExt

CONSTANTS
    Texts,              \* the source texts
    NonASCIIIdentStart, \* the codes above ASCII that may begin a name: letters,
    NonASCIIIdentPart   \* and those that may stand in one: marks and digits too

WhiteSpace == {" "}
LineTerminators == {"nl", "cr", "ls"}
Quotes == {"'", "q"}                    \* ' and "
OctalDigits == {"0", "3", "6", "7"}
Digits == OctalDigits \cup {"9"}
HexDigits == Digits \cup {"a", "e"}
IdentStart == {"a", "e", "i", "f", "n", "u", "x", "return"}
IdentPart == IdentStart \cup Digits

\* The operator characters, each token by its longest spelling.
Operators == {
    <<<<">">>, "GT">>, <<<<">", "=">>, "GE">>, <<<<">", ">">>, "RSHIFT">>,
    <<<<">", ">", "=">>, "RSHIFTEQUAL">>, <<<<">", ">", ">">>, "URSHIFT">>,
    <<<<">", ">", ">", "=">>, "URSHIFTEQUAL">>,
    <<<<"<">>, "LT">>, <<<<"<", "=">>, "LE">>, <<<<"<", "<">>, "LSHIFT">>,
    <<<<"<", "<", "=">>, "LSHIFTEQUAL">>,
    <<<<"=">>, "EQUAL">>, <<<<"=", "=">>, "EQEQ">>, <<<<"=", "=", "=">>, "STREQ">>,
    <<<<"!">>, "EXCLAMATION">>, <<<<"!", "=">>, "NE">>, <<<<"!", "=", "=">>, "STRNEQ">>,
    <<<<"+">>, "PLUS">>, <<<<"+", "+">>, "PLUSPLUS">>, <<<<"+", "=">>, "PLUSEQUAL">>,
    <<<<"-">>, "MINUS">>, <<<<"-", "-">>, "MINUSMINUS">>, <<<<"-", "=">>, "MINUSEQUAL">>,
    <<<<"*">>, "TIMES">>, <<<<"*", "=">>, "MULTEQUAL">>,
    <<<<"/">>, "DIVIDE">>, <<<<"/", "=">>, "DIVEQUAL">>,
    <<<<"&">>, "BITAND">>, <<<<"&", "&">>, "AND">>, <<<<"&", "=">>, "ANDEQUAL">>,
    <<<<"|">>, "BITOR">>, <<<<"|", "|">>, "OR">>, <<<<"|", "=">>, "OREQUAL">>,
    <<<<"^">>, "BITXOR">>, <<<<"^", "=">>, "XOREQUAL">>,
    <<<<"%">>, "MOD">>, <<<<"%", "=">>, "MODEQUAL">>,
    <<<<"(">>, "OPENPAREN">>, <<<<")">>, "CLOSEPAREN">>, <<<<"[">>, "OPENBRACKET">>,
    <<<<"]">>, "CLOSEBRACKET">>, <<<<"lbrace">>, "OPENBRACE">>,
    <<<<"rbrace">>, "CLOSEBRACE">>, <<<<"comma">>, "COMMA">>, <<<<":">>, "COLON">>,
    <<<<"?">>, "QUESTION">>,
    <<<<"~">>, "TILDE">>, <<<<"semi">>, "SEMICOLON">>, <<<<".">>, "DOT">>}

Characters == WhiteSpace \cup LineTerminators \cup Quotes \cup IdentPart
    \cup (UNION {ToSet(op[1]) : op \in Operators}) \cup {"\\", "#"}

ASSUME LexerTextsAssumption == Texts \subseteq Seq(Characters)
ASSUME UnicodeAssumption ==
    NonASCIIIdentStart \subseteq NonASCIIIdentPart /\ NonASCIIIdentPart \subseteq 128 .. 2^16 - 1

VARIABLES
    text,           \* m_codeStart .. m_codeEnd
    pos,            \* m_code: how many characters lie behind
    m_lineNumber,
    m_terminator,
    m_atLineStart,
    m_lastToken,
    m_error,
    m_buffer8,      \* the digits of a number
    m_buffer16,     \* the characters of a name, a string or a pattern
    pc,             \* where lex or scanRegExp is, see Places
    local,          \* the locals of the function that runs
    token,          \* what the last call returned
    value,          \* the number or the text that came with it
    calls           \* how many calls have returned: m_tokenCount

vars == <<text, pos, m_lineNumber, m_terminator, m_atLineStart, m_lastToken, m_error,
          m_buffer8, m_buffer16, pc, local, token, value, calls>>

\* "idle" and "scanned": no call is active, and a pattern has just been read.
Places == {"idle", "start", "inSingleLineComment", "inComment", "inString",
           "inIdentifier", "inRegExp", "scanned"}
Waiting == {"idle", "scanned"}

\* lexType; m_terminator and the offset when the call began; startOffset; the
\* first character not yet copied to m_buffer16; the quote of a string;
\* bufferRequired; lastWasEscape and inBrackets.
Locals == [reserved : BOOLEAN, before : BOOLEAN, from : Nat, startOffset : Nat, chunk : Nat,
           quote : Quotes \cup {"none"}, bufferRequired : BOOLEAN,
           lastWasEscape : BOOLEAN, inBrackets : BOOLEAN]

NoValue == [radix |-> 0, chars |-> <<>>]

-----------------------------------------------------------------------------
(* Reading characters.                                                     *)

\* *(m_codeStart + p), and -1 past the end.
CharAt(p) == IF p < Len(text) THEN text[p + 1] ELSE "end"
m_current == CharAt(pos)
peek(k) == CharAt(pos + k)

\* The offset after the characters of class C that begin at p.
SkipWhile(p, C) ==
    CHOOSE q \in p .. Len(text) :
        CharAt(q) \notin C /\ \A i \in p .. q - 1 : CharAt(i) \in C

Between(p, q) == SubSeq(text, p + 1, q)
StartsWith(p, s) == p + Len(s) <= Len(text) /\ Between(p, p + Len(s)) = s

\* shiftLineTerminator: CRLF and LFCR are one line break.
AfterLineTerminator_oneByOne(p) == p + 1
AfterLineTerminator(p) ==
    IF {CharAt(p), CharAt(p + 1)} = {"nl", "cr"} THEN p + 2 ELSE p + 1

\* toASCIIHexValue, for the digits of the model.
HexValue(c) == CASE c = "0" -> 0 [] c = "3" -> 3 [] c = "6" -> 6 [] c = "7" -> 7
                 [] c = "9" -> 9 [] c = "a" -> 10 [] c = "e" -> 14

convertHex(c1, c2) == HexValue(c1) * 16 + HexValue(c2)
convertUnicode(c1, c2, c3, c4) == convertHex(c1, c2) * 256 + convertHex(c3, c4)

\* The characters of the model, but for the keyword, and their codes.
Coded == {<<10, "nl">>, <<13, "cr">>, <<32, " ">>, <<33, "!">>, <<34, "q">>, <<35, "#">>,
    <<37, "%">>, <<38, "&">>, <<39, "'">>, <<40, "(">>, <<41, ")">>, <<42, "*">>, <<43, "+">>,
    <<44, "comma">>, <<45, "-">>, <<46, ".">>, <<47, "/">>, <<48, "0">>, <<51, "3">>,
    <<54, "6">>, <<55, "7">>, <<57, "9">>, <<58, ":">>, <<59, "semi">>, <<60, "<">>,
    <<61, "=">>, <<62, ">">>, <<63, "?">>, <<91, "[">>, <<92, "\\">>, <<93, "]">>,
    <<94, "^">>, <<97, "a">>, <<101, "e">>, <<102, "f">>, <<105, "i">>, <<110, "n">>,
    <<117, "u">>, <<120, "x">>, <<123, "lbrace">>, <<124, "|">>, <<125, "rbrace">>,
    <<126, "~">>, <<8232, "ls">>}

\* The character of a code; one that is not in the model keeps its number.
Char(n) == IF \E c \in Characters : <<n, c>> \in Coded
           THEN CHOOSE c \in Characters : <<n, c>> \in Coded ELSE "\\u" \o ToString(n)

\* isIdentStart and isIdentPart, of what an escape stands for.
LetterCodes == {36, 95} \cup 65 .. 90 \cup 97 .. 122
EscapedIdentStart == {Char(n) : n \in LetterCodes \cup NonASCIIIdentStart}
EscapedIdentPart == {Char(n) : n \in LetterCodes \cup 48 .. 57 \cup NonASCIIIdentPart}

\* What a text, or an escape in it, can stand for: a UChar has 16 bits.
Codes == 0 .. 2^16 - 1
UChar == Characters \cup {Char(n) : n \in Codes}

\* getUnicodeCharacter at p: the character, or "none".
getUnicodeCharacter(p) ==
    IF \A k \in 0..3 : CharAt(p + k) \in HexDigits
    THEN Char(convertUnicode(CharAt(p), CharAt(p + 1), CharAt(p + 2), CharAt(p + 3)))
    ELSE "none"

-----------------------------------------------------------------------------
(* Number literals, which begin at local.startOffset.  A reader returns    *)
(* the offset after what it reads, m_buffer8, and the number, if done: its *)
(* digits and their radix.  A 32-bit number holds no more than 8, 10 or 9. *)

Number(radix, digits) ==
    IF Len(digits) <= (CASE radix = 16 -> 8 [] radix = 8 -> 10 [] radix = 10 -> 9)
    THEN [radix |-> radix, chars |-> digits] ELSE [radix |-> radix, chars |-> <<"overflow">>]

Read(p, buffer8, v) == [pos |-> p, buffer8 |-> buffer8, value |-> v]

\* maximumDigits.
FewDigits_oneTooMany(radix, n) == n <= (IF radix = 16 THEN 7 ELSE 10)
FewDigits(radix, n) == n <= (IF radix = 16 THEN 7 ELSE 9)

\* The eight digits of hexValue are written back before the others.
parseHex(p) ==
    LET q == SkipWhile(p + 1, HexDigits)
        digits == Between(p + 1, q)
    IN  IF FewDigits(16, Len(digits)) THEN Read(q, <<>>, Number(16, digits))
        ELSE Read(q, digits, [radix |-> 16, chars |-> digits])

parseOctal(p) ==
    LET q == SkipWhile(p, OctalDigits)
        digits == Between(p, q)
    IN  IF CharAt(q) \notin Digits /\ FewDigits(8, Len(digits))
        THEN Read(q, <<"0">>, Number(8, digits))
        ELSE Read(q, <<"0">> \o digits,
                  IF CharAt(q) \in Digits THEN NoValue
                  ELSE [radix |-> 8, chars |-> <<"0">> \o digits])

\* The fast path of parseDecimal is not taken with digits in m_buffer8.
parseDecimal(p, buffer8) ==
    LET q == SkipWhile(p, Digits)
        digits == Between(p, q)
    IN  IF buffer8 = <<>> /\ FewDigits(10, Len(digits)) /\ CharAt(q) \notin {".", "e"}
        THEN Read(q, <<>>, Number(10, digits))
        ELSE Read(q, buffer8 \o digits, NoValue)

parseNumberAfterDecimalPoint(r) ==
    LET q == SkipWhile(r.pos, Digits)
    IN  Read(q, r.buffer8 \o <<".">> \o Between(r.pos, q), NoValue)

\* Without a digit after e, e+ or e- there is no number.
parseNumberAfterExponentIndicator(r) ==
    LET sign == IF CharAt(r.pos + 1) \in {"+", "-"} THEN 1 ELSE 0
        q == SkipWhile(r.pos + 1 + sign, Digits)
    IN  Read(q, r.buffer8 \o Between(r.pos, q),
             IF q = r.pos + 1 + sign THEN [NoValue EXCEPT !.chars = <<"error">>] ELSE NoValue)

\* From the decimal point on; strtod reads m_buffer8.
Fraction(r) ==
    LET f == IF CharAt(r.pos) = "." THEN parseNumberAfterDecimalPoint([r EXCEPT !.pos = @ + 1])
             ELSE r
        e == IF CharAt(f.pos) = "e" THEN parseNumberAfterExponentIndicator(f) ELSE f
    IN  [e EXCEPT !.value = IF @.chars = <<"error">> THEN @
                            ELSE [radix |-> 10, chars |-> e.buffer8]]

Finished(r) == IF r.value = NoValue THEN Fraction(r) ELSE r

\* The cases CharacterDot, CharacterZero and CharacterNumber.
parseNumber(p) ==
    IF CharAt(p) = "." THEN Fraction(Read(p, <<>>, NoValue))
    ELSE IF CharAt(p) # "0" THEN Finished(parseDecimal(p, <<>>))
    ELSE IF CharAt(p + 1) = "x" /\ CharAt(p + 2) \in HexDigits THEN parseHex(p + 1)
    ELSE LET octal == IF CharAt(p + 1) \in OctalDigits THEN parseOctal(p + 1)
                      ELSE Read(p + 1, <<"0">>, NoValue)
         IN  IF octal.value # NoValue THEN octal
             ELSE Finished(parseDecimal(octal.pos, octal.buffer8))

-----------------------------------------------------------------------------
(* Returning from a call.                                                  *)

\* The locals of no call, and the offset of the token that was returned.
NoLocals == [reserved |-> TRUE, before |-> FALSE, from |-> 0, startOffset |-> 0, chunk |-> 0,
             quote |-> "none", bufferRequired |-> FALSE, lastWasEscape |-> FALSE,
             inBrackets |-> FALSE]

Leave(l) ==
    /\ pc' = "idle" /\ calls' = calls + 1
    /\ local' = [NoLocals EXCEPT !.from = l.from, !.startOffset = l.startOffset]

\* returnToken.
returnToken(t, l) == token' = t /\ m_lastToken' = t /\ Leave(l)

\* returnError, at whatever character the lexer stands.
returnError(l) == token' = "ERRORTOK" /\ m_error' = TRUE /\ Leave(l) /\ UNCHANGED m_lastToken

\* EOFTOK is returned without a note in m_lastToken.
returnEnd(l) == token' = "EOFTOK" /\ Leave(l) /\ UNCHANGED m_lastToken

\* Go on inside the call.
GoOn(place, l) ==
    /\ pc' = place /\ local' = l
    /\ UNCHANGED <<token, m_lastToken, calls>>

lastTokenWasRestrKeyword == m_lastToken \in {"CONTINUE", "BREAK", "RETURN", "THROW"}

\* A line break between tokens: the statement ends if the last token is restricted.
lineBreakAt(p, l) ==
    /\ pos' = AfterLineTerminator(p)
    /\ m_lineNumber' = m_lineNumber + 1
    /\ m_atLineStart' = TRUE
    /\ m_terminator' = TRUE
    /\ IF lastTokenWasRestrKeyword THEN returnToken("SEMICOLON", l) ELSE GoOn("start", l)
    /\ UNCHANGED <<text, m_error, m_buffer8, m_buffer16, value>>

-----------------------------------------------------------------------------
(* lex.                                                                    *)

\* The asserts at the head of lex; the parser never gets past them, see Lex in
\* module JSParser.  The end of the text may be asked for again.
Ready == ~m_error /\ m_buffer8 = <<>> /\ m_buffer16 = <<>>

lex_keepsTerminator ==
    /\ pc \in Waiting /\ Ready /\ calls < Len(text) + 2
    /\ \E reserved \in BOOLEAN :
         GoOn("start", [local EXCEPT !.reserved = reserved, !.before = m_terminator,
                                     !.from = pos])
    /\ UNCHANGED <<text, pos, m_lineNumber, m_terminator, m_atLineStart, m_error, m_buffer8,
                   m_buffer16, value>>
lex ==
    /\ pc \in Waiting /\ Ready /\ calls < Len(text) + 2
    /\ \E reserved \in BOOLEAN :
         GoOn("start", [local EXCEPT !.reserved = reserved, !.before = m_terminator,
                                     !.from = pos])
    /\ m_terminator' = FALSE
    /\ UNCHANGED <<text, pos, m_lineNumber, m_atLineStart, m_error, m_buffer8, m_buffer16, value>>

\* start: the offset and the character of the switch.
TokenStart == SkipWhile(pos, WhiteSpace)
First == CharAt(TokenStart)
Started == [local EXCEPT !.startOffset = TokenStart]

lexEnd ==
    /\ pc = "start" /\ First = "end"
    /\ pos' = TokenStart
    /\ returnEnd(Started)
    /\ UNCHANGED <<text, m_lineNumber, m_terminator, m_atLineStart, m_error, m_buffer8,
                   m_buffer16, value>>

lexInvalid ==
    /\ pc = "start" /\ First = "#"
    /\ pos' = TokenStart
    /\ returnError(Started)
    /\ UNCHANGED <<text, m_lineNumber, m_terminator, m_atLineStart, m_buffer8, m_buffer16, value>>

lexLineTerminator ==
    /\ pc = "start" /\ First \in LineTerminators
    /\ lineBreakAt(TokenStart, Started)

StartsLineComment(p) ==
    \/ StartsWith(p, <<"/", "/">>) \/ StartsWith(p, <<"<", "!", "-", "-">>)
    \/ m_atLineStart /\ StartsWith(p, <<"-", "-", ">">>)

StartsComment(p) == StartsWith(p, <<"/", "*">>)

lexComment ==
    /\ pc = "start"
    /\ \/ StartsLineComment(TokenStart) /\ GoOn("inSingleLineComment", Started)
       \/ StartsComment(TokenStart) /\ GoOn("inComment", Started)
    /\ pos' = TokenStart + 2
    /\ UNCHANGED <<text, m_lineNumber, m_terminator, m_atLineStart, m_error, m_buffer8,
                   m_buffer16, value>>

\* inSingleLineComment: to the end of the line, or of the text.
lexLineComment ==
    LET p == SkipWhile(pos, Characters \ LineTerminators) IN
    /\ pc = "inSingleLineComment"
    /\ \/ CharAt(p) # "end" /\ lineBreakAt(p, local)
       \/ /\ CharAt(p) = "end"
          /\ pos' = p /\ returnEnd(local)
          /\ UNCHANGED <<text, m_lineNumber, m_terminator, m_atLineStart, m_error, m_buffer8,
                         m_buffer16, value>>

unterminatedComment_goesOn ==
    /\ pc = "inComment" /\ m_current = "end"
    /\ GoOn("inComment", local)
    /\ UNCHANGED <<text, pos, m_lineNumber, m_terminator, m_atLineStart, m_error, m_buffer8,
                   m_buffer16, value>>
unterminatedComment ==
    /\ pc = "inComment" /\ m_current = "end"
    /\ returnError(local)
    /\ UNCHANGED <<text, pos, m_lineNumber, m_terminator, m_atLineStart, m_buffer8, m_buffer16,
                   value>>

\* A line break in parseMultilineComment counts, but is none for the parser.
lexMultilineComment ==
    /\ pc = "inComment"
    /\ \/ /\ m_current = "*" /\ peek(1) = "/"
          /\ pos' = pos + 2
          /\ GoOn("start", local) /\ UNCHANGED m_lineNumber
       \/ /\ m_current \in LineTerminators
          /\ pos' = AfterLineTerminator(pos) /\ m_lineNumber' = m_lineNumber + 1
          /\ GoOn("inComment", local)
       \/ /\ m_current \notin LineTerminators \cup {"end"}
          /\ ~(m_current = "*" /\ peek(1) = "/")
          /\ pos' = pos + 1
          /\ GoOn("inComment", local) /\ UNCHANGED m_lineNumber
    /\ UNCHANGED <<text, m_terminator, m_atLineStart, m_error, m_buffer8, m_buffer16, value>>

\* The AUTO forms of ++ and -- after a line break.
Automatic_atLineStart(t) ==
    CASE m_atLineStart /\ t = "PLUSPLUS" -> "AUTOPLUSPLUS"
      [] m_atLineStart /\ t = "MINUSMINUS" -> "AUTOMINUSMINUS"
      [] OTHER -> t
Automatic(t) ==
    CASE m_terminator /\ t = "PLUSPLUS" -> "AUTOPLUSPLUS"
      [] m_terminator /\ t = "MINUSMINUS" -> "AUTOMINUSMINUS"
      [] OTHER -> t

lexOperator ==
    LET spelled == {op \in Operators : StartsWith(TokenStart, op[1])} IN
    /\ pc = "start"
    /\ ~StartsLineComment(TokenStart) /\ ~StartsComment(TokenStart)
    /\ First = "." => CharAt(TokenStart + 1) \notin Digits
    /\ \E op \in spelled :
         /\ \A other \in spelled : Len(other[1]) <= Len(op[1])
         /\ pos' = TokenStart + Len(op[1])
         /\ returnToken(Automatic(op[2]), Started)
    /\ m_atLineStart' = FALSE
    /\ UNCHANGED <<text, m_lineNumber, m_terminator, m_error, m_buffer8, m_buffer16, value>>

\* No identifier may follow a number directly.
lexNumber ==
    /\ pc = "start"
    /\ First \in Digits \/ (First = "." /\ CharAt(TokenStart + 1) \in Digits)
    /\ \E r \in {parseNumber(TokenStart)} :
         /\ pos' = r.pos
         /\ IF r.value.chars = <<"error">> \/ CharAt(r.pos) \in IdentStart
            THEN /\ returnError(Started) /\ m_buffer8' = r.buffer8
                 /\ UNCHANGED <<m_atLineStart, value>>
            ELSE /\ returnToken("NUMBER", Started) /\ m_buffer8' = <<>> /\ value' = r.value
                 /\ m_atLineStart' = FALSE /\ UNCHANGED m_error
    /\ UNCHANGED <<text, m_lineNumber, m_terminator, m_buffer16>>

-----------------------------------------------------------------------------
(* parseIdentifier.                                                        *)

lexIdentifier ==
    /\ pc = "start" /\ First \in IdentStart \cup {"\\"}
    /\ pos' = TokenStart
    /\ GoOn("inIdentifier", [Started EXCEPT !.chunk = TokenStart])
    /\ UNCHANGED <<text, m_lineNumber, m_terminator, m_atLineStart, m_error, m_buffer8,
                   m_buffer16, value>>

\* testKeyword, for the keywords of the model.
Keyword(name) == CASE name = <<"i", "f">> -> "IF" [] name = <<"i", "n">> -> "INTOKEN"
                   [] name = <<"return">> -> "RETURN" [] OTHER -> "IDENT"

\* What has been read of the name since the last escape.
Copied(p) == m_buffer16 \o Between(local.chunk, p)

identifierEscape_keepsStart(l, p) == [l EXCEPT !.bufferRequired = TRUE]
identifierEscape(l, p) == [l EXCEPT !.bufferRequired = TRUE, !.chunk = p]

\* Up to the next escape or the end of the name.  A bad escape is an error
\* token, but m_error stays false.
parseIdentifier ==
    LET p == SkipWhile(pos, IdentPart)
        character == getUnicodeCharacter(p + 2)
        escape == CharAt(p) = "\\"
        legal == /\ CharAt(p + 1) = "u" /\ character # "none"
                 /\ character \in (IF Copied(p) = <<>> THEN EscapedIdentStart ELSE EscapedIdentPart)
        name == IF local.bufferRequired THEN Copied(p) ELSE Between(local.chunk, p)
    IN  /\ pc = "inIdentifier"
        /\ \/ /\ escape /\ legal
              /\ pos' = p + 6
              /\ m_buffer16' = Append(Copied(p), character)
              /\ GoOn("inIdentifier", identifierEscape(local, p + 6))
              /\ UNCHANGED <<m_atLineStart, value>>
           \/ /\ escape /\ ~legal
              /\ pos' = IF CharAt(p + 1) # "u" THEN p + 1
                        ELSE IF character = "none" THEN p + 2 ELSE p + 6
              /\ m_buffer16' = Copied(p)
              /\ returnToken("ERRORTOK", local)
              /\ m_atLineStart' = FALSE
              /\ UNCHANGED value
           \/ /\ ~escape
              /\ pos' = p
              /\ m_buffer16' = <<>>
              /\ value' = [radix |-> 0, chars |-> name]
              /\ returnToken(IF ~local.bufferRequired /\ local.reserved
                             THEN Keyword(name) ELSE "IDENT", local)
              /\ m_atLineStart' = FALSE
        /\ UNCHANGED <<text, m_lineNumber, m_terminator, m_error, m_buffer8>>

-----------------------------------------------------------------------------
(* parseString.                                                            *)

lexString ==
    /\ pc = "start" /\ First \in Quotes
    /\ pos' = TokenStart + 1
    /\ GoOn("inString", [Started EXCEPT !.quote = First, !.chunk = TokenStart + 1])
    /\ UNCHANGED <<text, m_lineNumber, m_terminator, m_atLineStart, m_error, m_buffer8,
                   m_buffer16, value>>

\* The escape after a backslash: where it ends and the characters it stands for.
Escape(p, chars) == [pos |-> p, chars |-> chars]
OctalEscape(p, n) ==
    LET v(k) == HexValue(CharAt(p + k))
    IN  Escape(p + n, <<Char(CASE n = 1 -> v(0) [] n = 2 -> v(0) * 8 + v(1)
                               [] n = 3 -> v(0) * 64 + v(1) * 8 + v(2))>>)

\* singleEscape, for the characters of the model.
singleEscape(c) == CASE c = "n" -> Char(10) [] c = "f" -> Char(12) [] OTHER -> c

\* Only the quote is allowed after a bad \u.
BadEscape_atEndIsFine(p, quote) ==
    CharAt(p) = "u" /\ getUnicodeCharacter(p + 1) = "none" /\ CharAt(p + 1) # quote
BadEscape(p, quote) ==
    \/ CharAt(p) = "end"
    \/ CharAt(p) = "u" /\ getUnicodeCharacter(p + 1) = "none" /\ CharAt(p + 1) # quote

StringEscape(p) ==
    LET c == CharAt(p)
        octal(k) == CharAt(p + k) \in OctalDigits
    IN  CASE c \in LineTerminators -> Escape(AfterLineTerminator(p), <<>>)
          [] c = "x" /\ CharAt(p + 1) \in HexDigits /\ CharAt(p + 2) \in HexDigits ->
                Escape(p + 3, <<Char(convertHex(CharAt(p + 1), CharAt(p + 2)))>>)
          [] c = "u" /\ getUnicodeCharacter(p + 1) # "none" ->
                Escape(p + 5, <<getUnicodeCharacter(p + 1)>>)
          [] octal(0) /\ ~octal(1) -> OctalEscape(p, 1)
          [] octal(0) /\ octal(1) ->
                OctalEscape(p, IF c \in {"0", "3"} /\ octal(2) THEN 3 ELSE 2)
          [] OTHER -> Escape(p + 1, <<singleEscape(c)>>)

parseString ==
    LET p == SkipWhile(pos, Characters \ ({local.quote, "\\"} \cup LineTerminators))
        e == StringEscape(p + 1)
    IN  /\ pc = "inString"
        /\ \/ /\ CharAt(p) = local.quote
              /\ pos' = p + 1
              /\ m_buffer16' = <<>>
              /\ value' = [radix |-> 0, chars |-> Copied(p)]
              /\ returnToken("STRING", local)
              /\ m_atLineStart' = FALSE
              /\ UNCHANGED <<m_lineNumber, m_error>>
           \/ /\ CharAt(p) \in LineTerminators \cup {"end"}
              /\ pos' = p
              /\ returnError(local)
              /\ UNCHANGED <<m_lineNumber, m_atLineStart, m_buffer16, value>>
           \/ /\ CharAt(p) = "\\" /\ BadEscape(p + 1, local.quote)
              /\ pos' = IF CharAt(p + 1) = "end" THEN p + 1 ELSE p + 2
              /\ m_buffer16' = Copied(p)
              /\ returnError(local)
              /\ UNCHANGED <<m_lineNumber, m_atLineStart, value>>
           \/ /\ CharAt(p) = "\\" /\ ~BadEscape(p + 1, local.quote)
              /\ pos' = e.pos
              /\ m_buffer16' = Copied(p) \o e.chars
              /\ m_lineNumber' = IF CharAt(p + 1) \in LineTerminators
                                 THEN m_lineNumber + 1 ELSE m_lineNumber
              /\ GoOn("inString", [local EXCEPT !.chunk = e.pos])
              /\ UNCHANGED <<m_atLineStart, m_error, value>>
        /\ UNCHANGED <<text, m_terminator, m_buffer8>>

-----------------------------------------------------------------------------
(* scanRegExp: parsePrimaryExpression calls it after / or /=, and goes on  *)
(* with lex, whatever it returns.                                          *)

scanRegExp ==
    /\ pc = "idle" /\ token \in {"DIVIDE", "DIVEQUAL"}
    /\ m_buffer16' = IF token = "DIVEQUAL" THEN <<"=">> ELSE <<>>
    /\ GoOn("inRegExp", local)
    /\ UNCHANGED <<text, pos, m_lineNumber, m_terminator, m_atLineStart, m_error, m_buffer8,
                   value>>

readRegExp ==
    /\ pc = "inRegExp"
    /\ \/ /\ m_current \in LineTerminators \cup {"end"}
          /\ m_buffer16' = <<>>
          /\ GoOn("scanned", [local EXCEPT !.lastWasEscape = FALSE, !.inBrackets = FALSE])
          /\ UNCHANGED <<pos, value>>
       \/ /\ m_current = "/" /\ ~local.lastWasEscape /\ ~local.inBrackets
          /\ pos' = SkipWhile(pos + 1, IdentPart)      \* the flags
          /\ m_buffer16' = <<>>
          /\ value' = [radix |-> 0, chars |-> m_buffer16]
          /\ GoOn("scanned", local)
       \/ /\ m_current \notin LineTerminators \cup {"end"}
          /\ m_current = "/" => local.lastWasEscape \/ local.inBrackets
          /\ pos' = pos + 1
          /\ m_buffer16' = Append(m_buffer16, m_current)
          /\ GoOn("inRegExp",
                  IF local.lastWasEscape THEN [local EXCEPT !.lastWasEscape = FALSE]
                  ELSE [local EXCEPT !.lastWasEscape = m_current = "\\",
                                     !.inBrackets = m_current = "[" \/ (@ /\ m_current # "]")])
          /\ UNCHANGED value
    /\ UNCHANGED <<text, m_lineNumber, m_terminator, m_atLineStart, m_error, m_buffer8>>

-----------------------------------------------------------------------------
\* The constructor and setCode.  Neither of them sets m_terminator.
Init ==
    /\ text \in Texts /\ pos = 0
    /\ m_lineNumber = 1 /\ m_terminator \in BOOLEAN /\ m_atLineStart = TRUE
    /\ m_lastToken = "none" /\ m_error = FALSE
    /\ m_buffer8 = <<>> /\ m_buffer16 = <<>>
    /\ pc = "idle" /\ local = NoLocals
    /\ token = "none" /\ value = NoValue /\ calls = 0

\* What the lexer does by itself once it is called.
Step ==
    \/ /\ pc = "start"
       /\ \/ lexEnd \/ lexInvalid \/ lexLineTerminator \/ lexComment
          \/ lexOperator \/ lexNumber \/ lexIdentifier \/ lexString
    \/ lexLineComment \/ lexMultilineComment \/ unterminatedComment
    \/ parseIdentifier \/ parseString \/ readRegExp

Next == lex \/ scanRegExp \/ Step

\* The parser may stop asking for tokens; a call that has begun goes on.
Spec == Init /\ [][Next]_vars /\ WF_vars(Step)

-----------------------------------------------------------------------------
(* Properties.                                                             *)

\* Every field and every local has its type, no position leaves the text, and
\* no escape stands for a character wider than 16 bits.
TypeOK ==
    /\ pos \in 0 .. Len(text) /\ m_lineNumber \in Nat \ {0}
    /\ m_terminator \in BOOLEAN /\ m_atLineStart \in BOOLEAN /\ m_error \in BOOLEAN
    /\ m_lastToken \in Tokens \cup {"none"} /\ token \in Tokens \cup {"none"}
    /\ m_buffer8 \in Seq(Characters) /\ m_buffer16 \in Seq(UChar)
    /\ pc \in Places /\ local \in Locals /\ calls \in Nat
    /\ value \in [radix : {0, 8, 10, 16}, chars : Seq(UChar)]

Returned(t) == pc = "idle" /\ token = t

\* What the parser knows of the lexer, module TokenSource: between two calls
\* a text of a length, with any token at any place.
AnyToken == Tokens \ {"AUTOPLUSPLUS", "AUTOMINUSMINUS"}
Family(n) == [opening |-> <<>>, alphabet |-> AnyToken, length |-> n, breaks |-> BOOLEAN]

Families == {Family(n) : n \in {Len(t) : t \in Texts}}

Source == INSTANCE TokenSource WITH
    Texts <- Families,
    text <- Family(Len(text)),
    tok <- token,
    nl <- IF pc \in Waiting \cup {"inRegExp"} THEN m_terminator ELSE local.before,
    lexer <- IF pc \notin Waiting \/ Ready THEN "ok"
             ELSE CASE m_error -> "m_error"
                    [] ~m_error /\ m_buffer8 # <<>> -> "m_buffer8"
                    [] ~m_error /\ m_buffer8 = <<>> -> "m_buffer16",
    tokenCount <- calls

\* The lexer is the token source the parser is checked with: after a restricted
\* keyword and a line break it returns a semicolon, ++ and -- after a line
\* break are the AUTO forms, a keyword is one only if reserved words are asked
\* for, the end is returned for ever, and only an error token leaves something
\* behind that the asserts of the next call would find.
Implements == Source!TokenSpec

\* The digits of a number literal, and their radix, without leading zeros.
Significant(digits) ==
    LET zeros == {i \in 0 .. Len(digits) : \A j \in 1 .. i : digits[j] = "0"}
    IN  SubSeq(digits, 1 + Max(zeros), Len(digits))

Literal(s) ==
    IF Len(s) > 2 /\ s[2] = "x" THEN [radix |-> 16, chars |-> SubSeq(s, 3, Len(s))]
    ELSE IF Len(s) > 1 /\ s[1] = "0" /\ ToSet(s) \subseteq OctalDigits
    THEN [radix |-> 8, chars |-> Tail(s)] ELSE [radix |-> 10, chars |-> s]

\* Whichever of the fast paths and of the ways through m_buffer8 a number
\* takes, its value is that of the digits in the text: no digit is lost,
\* doubled or read in the wrong radix, and no 32-bit number overflows.
NumbersKeepTheirDigits ==
    Returned("NUMBER") =>
        LET l == Literal(Between(local.startOffset, pos)) IN
        /\ value.radix = l.radix
        /\ IF l.radix = 10 THEN value.chars = l.chars
           ELSE Significant(value.chars) = Significant(l.chars)

\* Where a line break begins.
BeginsBreak[p \in Nat] ==
    /\ CharAt(p) \in LineTerminators
    /\ ~(p > 0 /\ {CharAt(p - 1), CharAt(p)} = {"nl", "cr"} /\ BeginsBreak[p - 1])

\* The line the parser reports is the line the lexer stands in, whatever the
\* line breaks it has read were part of: white space, comments, strings.
LinesAreCounted == m_lineNumber = 1 + Cardinality({p \in 0 .. pos - 1 : BeginsBreak[p]})

\* Semicolons are inserted where m_terminator is set: there is a line break
\* between the tokens, and if there is one, only a comment /* */ can hide it.
TerminatorMeansLineBreak ==
    pc = "idle" /\ calls > 0 =>
        LET breaks(q) == \E p \in local.from .. q - 1 : CharAt(p) \in LineTerminators IN
        /\ m_terminator => breaks(pos)
        /\ breaks(local.startOffset) /\ ~m_terminator =>
              \E p \in local.from .. local.startOffset - 1 : StartsComment(p)

\* A name or a string between two offsets, character by character.
Decoded(last, isString) ==
    LET d[p \in Nat] ==
            IF p >= last THEN <<>>
            ELSE IF CharAt(p) # "\\" THEN <<CharAt(p)>> \o d[p + 1]
            ELSE IF isString THEN StringEscape(p + 1).chars \o d[StringEscape(p + 1).pos]
            ELSE <<getUnicodeCharacter(p + 2)>> \o d[p + 6]
    IN  d

\* Names and strings are copied in pieces between their escapes; no piece is
\* left out or copied twice, and a keyword with an escape in it is a name.
NamesAndStringsAreDecoded ==
    LET first == local.startOffset IN
    /\ Returned("STRING") => value.chars = Decoded(pos - 1, TRUE)[first + 1]
    /\ pc = "idle" /\ token \in Keywords \cup {"IDENT"} =>
          value.chars = Decoded(pos, FALSE)[first]
    /\ pc = "idle" /\ token \in Keywords => "\\" \notin ToSet(Between(first, pos))

\* Every call returns: no loop over characters runs past the end of the text.
LexReturns == pc \notin Waiting ~> pc \in Waiting
=============================================================================
