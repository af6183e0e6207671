----------------------------- MODULE LexerProofs -----------------------------
(***************************************************************************)
(* Theorems about module Lexer, for every set of texts over the characters *)
(* of the model, however long: the positions and the buffers keep their    *)
(* types, the line number is that of the line the lexer stands in,         *)
(* m_terminator tells of a line break before the token, the lexer is the   *)
(* token source the parser is checked with, and numbers, names and strings *)
(* have the value that their characters spell.                             *)
(*                                                                         *)
(* LexerInv, the inductive invariant, is the types and the order of the    *)
(* offsets a call keeps.  Under it every step either passes characters     *)
(* none of which is a line break, or passes such characters and then one   *)
(* whole line break, which it counts.  Counted, Terminates and SourceInv   *)
(* rest on that, and ValueInv on SourceInv.                                *)
(***************************************************************************)
EXTENDS Lexer, FiniteSetTheorems, SequenceTheorems, WellFoundedInduction, TLAPS

(* Characters and the operators spelled with them.                         *)

\* The characters of the operators.
Marks == {">", "<", "=", "!", "+", "-", "*", "/", "&", "|", "^", "%", "(", ")", "[", "]",
          "lbrace", "rbrace", "comma", ":", "?", "~", "semi", "."}

IsSpelling(s) == /\ s \in Seq(Marks) /\ Len(s) \in 1 .. 4

LEMMA Spelling1 == \A a \in Marks : IsSpelling(<<a>>)
BY DEF IsSpelling
LEMMA Spelling2 == \A a, b \in Marks : IsSpelling(<<a, b>>)
BY DEF IsSpelling
LEMMA Spelling3 == \A a, b, c \in Marks : IsSpelling(<<a, b, c>>)
BY DEF IsSpelling
LEMMA Spelling4 == \A a, b, c, d \in Marks : IsSpelling(<<a, b, c, d>>)
BY DEF IsSpelling

\* An operator is spelled with one to four marks.
LEMMA Spellings == ASSUME NEW op \in Operators PROVE IsSpelling(op[1])
<1>1. /\ ">" \in Marks /\ "<" \in Marks /\ "=" \in Marks /\ "!" \in Marks /\ "+" \in Marks
      /\ "-" \in Marks /\ "*" \in Marks /\ "/" \in Marks /\ "&" \in Marks /\ "|" \in Marks
      /\ "^" \in Marks /\ "%" \in Marks /\ "(" \in Marks /\ ")" \in Marks /\ "[" \in Marks
      /\ "]" \in Marks /\ "lbrace" \in Marks /\ "rbrace" \in Marks /\ "comma" \in Marks /\ ":" \in Marks
      /\ "?" \in Marks /\ "~" \in Marks /\ "semi" \in Marks /\ "." \in Marks
  BY DEF Marks
<1>2. \/ \E a \in Marks : op[1] = <<a>>
      \/ \E a, b \in Marks : op[1] = <<a, b>>
      \/ \E a, b, c \in Marks : op[1] = <<a, b, c>>
      \/ \E a, b, c, d \in Marks : op[1] = <<a, b, c, d>>
  BY <1>1 DEF Operators
<1> QED
  BY <1>2, Spelling1, Spelling2, Spelling3, Spelling4

LEMMA OperatorsAreTokens ==
    ASSUME NEW op \in Operators
    PROVE  op[2] \in Tokens \ {"EOFTOK", "ERRORTOK", "AUTOPLUSPLUS", "AUTOMINUSMINUS"}
<1>1. \/ op[2] \in AssignmentOps \cup Punctuation
      \/ op[2] \in {"EXCLAMATION", "TILDE", "PLUSPLUS", "MINUSMINUS", "PLUS", "MINUS"}
      \/ \E p \in 1 .. 10 : op[2] \in BinaryOpsByPrecedence[p]
  <2>1. /\ BinaryOpsByPrecedence[1] = {"OR"} /\ BinaryOpsByPrecedence[2] = {"AND"}
        /\ BinaryOpsByPrecedence[3] = {"BITOR"} /\ BinaryOpsByPrecedence[4] = {"BITXOR"}
        /\ BinaryOpsByPrecedence[5] = {"BITAND"}
        /\ BinaryOpsByPrecedence[6] = {"EQEQ", "NE", "STREQ", "STRNEQ"}
        /\ BinaryOpsByPrecedence[7] = {"LT", "GT", "LE", "GE", "INSTANCEOF", "INTOKEN"}
        /\ BinaryOpsByPrecedence[8] = {"LSHIFT", "RSHIFT", "URSHIFT"}
        /\ BinaryOpsByPrecedence[10] = {"TIMES", "DIVIDE", "MOD"}
    BY DEF BinaryOpsByPrecedence
  <2>2. \/ op[2] \in AssignmentOps \cup Punctuation
        \/ op[2] \in {"EXCLAMATION", "TILDE", "PLUSPLUS", "MINUSMINUS", "PLUS", "MINUS"}
        \/ op[2] \in {"OR", "AND", "BITOR", "BITXOR", "BITAND", "EQEQ", "NE", "STREQ", "STRNEQ",
                      "LT", "GT", "LE", "GE", "LSHIFT", "RSHIFT", "URSHIFT", "TIMES", "DIVIDE",
                      "MOD"}
    BY DEF Operators, AssignmentOps, Punctuation
  <2> QED
    BY <2>1, <2>2
<1>2. op[2] \notin {"EOFTOK", "ERRORTOK", "AUTOPLUSPLUS", "AUTOMINUSMINUS"}
  BY DEF Operators
<1> QED
  BY <1>1, <1>2 DEF Tokens, UnaryOps

LEMMA MarksAreNoEnd == \A m \in Marks : m \notin LineTerminators /\ m # "end" /\ m # "none"
BY DEF Marks, LineTerminators

LEMMA SeqIsMonotonic ==
    ASSUME NEW A, NEW B, A \subseteq B, NEW s \in Seq(A)
    PROVE  s \in Seq(B)
OBVIOUS

\* No text contains the end, which is no character.
LEMMA NoEndInCharacters == "end" \notin Characters
<1>1. \A op \in Operators : ToSet(op[1]) \subseteq Marks
  BY Spellings DEF ToSet, IsSpelling
<1>2. UNION {ToSet(op[1]) : op \in Operators} \subseteq Marks
  BY <1>1
<1>3. Characters \subseteq Marks \cup WhiteSpace \cup LineTerminators \cup Quotes \cup IdentPart
                           \cup {"\\", "#"}
  BY <1>2 DEF Characters
<1>4. "end" \notin WhiteSpace \cup LineTerminators \cup Quotes \cup IdentPart \cup {"\\", "#"}
  BY DEF WhiteSpace, LineTerminators, Quotes, IdentPart, IdentStart, Digits, OctalDigits
<1> QED
  BY <1>3, <1>4, MarksAreNoEnd

\* The classes a run of characters may be skipped by.
LEMMA Classes ==
    /\ OctalDigits \subseteq Digits /\ Digits \subseteq HexDigits /\ Digits \subseteq IdentPart
    /\ IdentStart \subseteq IdentPart /\ IdentPart \subseteq Characters
    /\ HexDigits \subseteq IdentPart
    /\ IdentPart \cap (LineTerminators \cup {"end", "none", "\\"}) = {}
    /\ WhiteSpace \cap (LineTerminators \cup {"end"}) = {}
    /\ LineTerminators \cap {"end", ".", "e", "+", "-", "x", "u", "\\", "*", "/", "#", "'", "q"} = {}
    /\ LineTerminators \subseteq Characters
    /\ {"nl", "cr"} \subseteq LineTerminators
    /\ {"e", "x", "u", "n", "0"} \subseteq IdentPart
    /\ Quotes = {"'", "q"} /\ Quotes \cap LineTerminators = {}
<1>1. IdentPart \subseteq Characters /\ LineTerminators \subseteq Characters
  BY DEF Characters
<1>2. HexDigits \subseteq IdentPart
  BY DEF HexDigits, IdentPart, IdentStart
<1>3. IdentPart \cap (LineTerminators \cup {"end", "none", "\\"}) = {}
  BY DEF IdentPart, IdentStart, Digits, OctalDigits, LineTerminators
<1> QED
  BY <1>1, <1>2, <1>3 DEF IdentPart, IdentStart, HexDigits, Digits, OctalDigits, LineTerminators, WhiteSpace, Quotes

(* The text.                                                               *)

\* What a position holds: a character, or the end past the last one.
LEMMA TextCharacters ==
    ASSUME text \in Seq(Characters), NEW p \in Nat
    PROVE  /\ CharAt(p) = "end" <=> p >= Len(text)
           /\ p < Len(text) => CharAt(p) \in Characters /\ CharAt(p) = text[p + 1]
           /\ CharAt(p) # "end" => p + 1 <= Len(text)
<1>1. p < Len(text) => text[p + 1] \in Characters
  OBVIOUS
<1> QED
  BY <1>1, NoEndInCharacters DEF CharAt

LEMMA LeastElement ==
    ASSUME NEW T \in SUBSET Nat, T # {}
    PROVE  \E i \in T : \A j \in T : i <= j
<1> DEFINE R == {ss \in Nat \X Nat : ss[1] < ss[2]}
<1>1. IsWellFoundedOn(R, Nat)
  BY NatLessThanWellFounded, Zenon DEF OpToRel
<1>2. PICK i \in T : \A j \in T : <<j, i>> \notin R
  BY <1>1, WFMin
<1>3. ASSUME NEW j \in T PROVE i <= j
  <2>1. ~(j < i)
    BY <1>2
  <2> QED
    BY <2>1
<1> QED
  BY <1>3

\* SkipWhile stops at the first character that is not of the class, at the
\* latest at the end of the text.
LEMMA Skipped ==
    ASSUME text \in Seq(Characters), NEW C, "end" \notin C, NEW p \in 0 .. Len(text)
    PROVE  /\ SkipWhile(p, C) \in p .. Len(text)
           /\ CharAt(SkipWhile(p, C)) \notin C
           /\ \A i \in p .. SkipWhile(p, C) - 1 : CharAt(i) \in C
<1> DEFINE T == {q \in p .. Len(text) : CharAt(q) \notin C}
<1>1. Len(text) \in T
  BY TextCharacters
<1>2. PICK q \in T : \A j \in T : q <= j
  <2>1. T \in SUBSET Nat
    OBVIOUS
  <2> QED
    BY <1>1, <2>1, LeastElement
<1>3. \A i \in p .. q - 1 : CharAt(i) \in C
  <2>1. ASSUME NEW i \in p .. q - 1, CharAt(i) \notin C PROVE FALSE
    BY <1>2, <2>1
  <2> QED
    BY <2>1
<1>4. \E x \in p .. Len(text) : CharAt(x) \notin C /\ \A i \in p .. x - 1 : CharAt(i) \in C
  BY <1>2, <1>3
<1> QED
  BY <1>4 DEF SkipWhile

LEMMA BetweenText ==
    ASSUME text \in Seq(Characters), NEW p \in 0 .. Len(text), NEW q \in p .. Len(text)
    PROVE  /\ Between(p, q) \in Seq(Characters) /\ Between(p, q) \in Seq(UChar)
           /\ Len(Between(p, q)) = q - p
           /\ \A i \in 1 .. q - p : Between(p, q)[i] = CharAt(p + i - 1)
<1>1. /\ Between(p, q) \in Seq(Characters) /\ Len(Between(p, q)) = q - p
      /\ \A i \in 1 .. q - p : Between(p, q)[i] = text[p + i]
  BY DEF Between
<1>2. Between(p, q) \in Seq(UChar)
  <2>1. Characters \subseteq UChar
    BY Zenon DEF UChar
  <2> QED
    BY <1>1, <2>1, SeqIsMonotonic, Zenon
<1>3. ASSUME NEW i \in 1 .. q - p PROVE text[p + i] = CharAt(p + i - 1)
  <2>1. p + i - 1 \in Nat /\ p + i - 1 < Len(text) /\ (p + i - 1) + 1 = p + i
    OBVIOUS
  <2> QED
    BY <2>1, TextCharacters
<1> QED
  BY <1>1, <1>2, <1>3

LEMMA Started1 ==
    ASSUME text \in Seq(Characters), NEW p \in Nat, NEW s \in Seq(Marks), StartsWith(p, s)
    PROVE  /\ p + Len(s) <= Len(text)
           /\ \A i \in 1 .. Len(s) : CharAt(p + i - 1) = s[i]
<1>1. p + Len(s) <= Len(text) /\ Between(p, p + Len(s)) = s
  BY DEF StartsWith
<1>2. p \in 0 .. Len(text) /\ p + Len(s) \in p .. Len(text)
  BY <1>1
<1>3. \A i \in 1 .. (p + Len(s)) - p : Between(p, p + Len(s))[i] = CharAt(p + i - 1)
  BY <1>2, BetweenText
<1> QED
  BY <1>1, <1>3

(* Moving over characters.                                                 *)

\* There is no line break between two offsets.
Plain(p, q) == \A i \in p .. q - 1 : CharAt(i) \notin LineTerminators

LEMMA PlainNothing == ASSUME NEW p \in Nat PROVE Plain(p, p)
BY DEF Plain

LEMMA PlainJoin ==
    ASSUME NEW p \in Nat, NEW q \in Nat, NEW r \in Nat, p <= q, q <= r, Plain(p, q), Plain(q, r)
    PROVE  Plain(p, r)
<1>1. ASSUME NEW i \in p .. r - 1 PROVE i \in p .. q - 1 \/ i \in q .. r - 1
  OBVIOUS
<1> QED
  BY <1>1 DEF Plain

LEMMA PlainStep ==
    ASSUME NEW p \in Nat, CharAt(p) \notin LineTerminators
    PROVE  Plain(p, p + 1)
<1>1. \A i \in p .. (p + 1) - 1 : i = p
  OBVIOUS
<1> QED
  BY <1>1 DEF Plain

\* Runs that contain no line break.
LEMMA PlainSkip ==
    ASSUME text \in Seq(Characters), NEW C, C \cap (LineTerminators \cup {"end"}) = {},
           NEW p \in 0 .. Len(text)
    PROVE  /\ SkipWhile(p, C) \in p .. Len(text) /\ CharAt(SkipWhile(p, C)) \notin C
           /\ SkipWhile(p, C) \in 0 .. Len(text)
           /\ Plain(p, SkipWhile(p, C))
<1>1. "end" \notin C /\ \A c \in C : c \notin LineTerminators
  OBVIOUS
<1>2. /\ SkipWhile(p, C) \in p .. Len(text) /\ CharAt(SkipWhile(p, C)) \notin C
      /\ \A i \in p .. SkipWhile(p, C) - 1 : CharAt(i) \in C
  BY <1>1, Skipped
<1>3. SkipWhile(p, C) \in 0 .. Len(text)
  BY <1>2
<1> QED
  BY <1>1, <1>2, <1>3 DEF Plain

\* The character at p is read over.
LEMMA PlainOver ==
    ASSUME text \in Seq(Characters), NEW p \in Nat, CharAt(p) \notin LineTerminators \cup {"end"}
    PROVE  p + 1 \in 0 .. Len(text) /\ p \in 0 .. Len(text) /\ Plain(p, p + 1) /\ p < Len(text)
BY TextCharacters, PlainStep

-----------------------------------------------------------------------------
(* Numbers.                                                                *)

Values == [radix : {0, 8, 10, 16}, chars : Seq(UChar)]
ReadValues == [radix : {0, 8, 10, 16}, chars : Seq(UChar) \cup {<<"error">>}]
Readings == [pos : Nat, buffer8 : Seq(Characters), value : ReadValues]

\* What a reader of digits that begins at p promises.
ReadsFrom(p, r) ==
    /\ r \in Readings /\ r.pos \in p .. Len(text) /\ Plain(p, r.pos)

LEMMA ReadingOf ==
    ASSUME NEW p \in Nat, NEW q \in p .. Len(text), Plain(p, q), NEW b \in Seq(Characters),
           NEW v \in ReadValues
    PROVE  ReadsFrom(p, Read(q, b, v))
BY DEF ReadsFrom, Readings, Read

LEMMA NoValueIsRead == NoValue \in ReadValues /\ NoValue \in Values
BY DEF NoValue, ReadValues, Values

LEMMA CharactersAreUChars == Characters \subseteq UChar /\ Seq(Characters) \subseteq Seq(UChar)
<1>1. Characters \subseteq UChar
  BY Zenon DEF UChar
<1> QED
  BY <1>1, SeqIsMonotonic

LEMMA DigitsAreRead ==
    ASSUME NEW b \in Seq(Characters), NEW radix \in {8, 10, 16}
    PROVE  [radix |-> radix, chars |-> b] \in ReadValues
<1>1. b \in Seq(UChar)
  BY CharactersAreUChars
<1> QED
  BY <1>1 DEF ReadValues

\* A number of few digits does not overflow.
LEMMA FewDigitsFit ==
    ASSUME NEW b \in Seq(Characters), NEW radix \in {8, 10, 16}, FewDigits(radix, Len(b))
    PROVE  Number(radix, b) = [radix |-> radix, chars |-> b]
<1>1. Len(b) \in Nat
  OBVIOUS
<1> QED
  BY <1>1 DEF Number, FewDigits

LEMMA NoClassHasABreak ==
    /\ HexDigits \cap (LineTerminators \cup {"end"}) = {}
    /\ Digits \cap (LineTerminators \cup {"end"}) = {}
    /\ OctalDigits \cap (LineTerminators \cup {"end"}) = {}
    /\ IdentPart \cap (LineTerminators \cup {"end"}) = {}
    /\ IdentStart \cap (LineTerminators \cup {"end"}) = {}
    /\ WhiteSpace \cap (LineTerminators \cup {"end"}) = {}
BY Classes

\* parseHex, parseOctal and parseDecimal: what they read, if they read it.
LEMMA parseHexReads ==
    ASSUME text \in Seq(Characters), NEW p \in Nat, CharAt(p) = "x"
    PROVE  ReadsFrom(p, parseHex(p))
<1>1. p + 1 \in 0 .. Len(text) /\ Plain(p, p + 1)
  BY PlainOver, Classes
<1> DEFINE q == SkipWhile(p + 1, HexDigits)
           digits == Between(p + 1, q)
<1>2. q \in p + 1 .. Len(text) /\ Plain(p + 1, q)
  BY <1>1, PlainSkip, NoClassHasABreak
<1>3. digits \in Seq(Characters)
  BY <1>1, <1>2, BetweenText
<1>4. parseHex(p) = IF FewDigits(16, Len(digits)) THEN Read(q, <<>>, Number(16, digits))
                    ELSE Read(q, digits, [radix |-> 16, chars |-> digits])
  BY DEF parseHex
<1>5. q \in p .. Len(text) /\ Plain(p, q)
  BY <1>1, <1>2, PlainJoin
<1>6. [radix |-> 16, chars |-> digits] \in ReadValues
  BY <1>3, DigitsAreRead
<1>7. FewDigits(16, Len(digits)) => Number(16, digits) = [radix |-> 16, chars |-> digits]
  BY <1>3, FewDigitsFit
<1>8. <<>> \in Seq(Characters)
  OBVIOUS
<1> HIDE DEF q, digits
<1> QED
  BY <1>3, <1>4, <1>5, <1>6, <1>7, <1>8, ReadingOf

LEMMA parseOctalReads ==
    ASSUME text \in Seq(Characters), NEW p \in 0 .. Len(text)
    PROVE  ReadsFrom(p, parseOctal(p))
<1> DEFINE q == SkipWhile(p, OctalDigits)
           digits == Between(p, q)
<1>1. q \in p .. Len(text) /\ Plain(p, q)
  BY PlainSkip, NoClassHasABreak
<1>2. digits \in Seq(Characters)
  BY <1>1, BetweenText
<1>3. "0" \in Characters
  BY Classes
<1>4. <<"0">> \in Seq(Characters) /\ <<"0">> \o digits \in Seq(Characters)
  BY <1>2, <1>3
<1>5. parseOctal(p) = IF CharAt(q) \notin Digits /\ FewDigits(8, Len(digits))
                      THEN Read(q, <<"0">>, Number(8, digits))
                      ELSE Read(q, <<"0">> \o digits,
                                IF CharAt(q) \in Digits THEN NoValue
                                ELSE [radix |-> 8, chars |-> <<"0">> \o digits])
  BY DEF parseOctal
<1>6. /\ [radix |-> 8, chars |-> <<"0">> \o digits] \in ReadValues
      /\ [radix |-> 8, chars |-> digits] \in ReadValues
  BY <1>2, <1>4, DigitsAreRead
<1>7. FewDigits(8, Len(digits)) => Number(8, digits) = [radix |-> 8, chars |-> digits]
  BY <1>2, FewDigitsFit
<1> HIDE DEF q, digits
<1>10. p \in Nat
  OBVIOUS
<1>8. CASE CharAt(q) \notin Digits /\ FewDigits(8, Len(digits))
  BY <1>1, <1>4, <1>5, <1>6, <1>7, <1>8, <1>10, ReadingOf
<1>9. CASE ~(CharAt(q) \notin Digits /\ FewDigits(8, Len(digits)))
  BY <1>1, <1>4, <1>5, <1>6, <1>9, <1>10, NoValueIsRead, ReadingOf
<1> QED
  BY <1>8, <1>9

LEMMA parseDecimalReads ==
    ASSUME text \in Seq(Characters), NEW p \in 0 .. Len(text), NEW b \in Seq(Characters)
    PROVE  ReadsFrom(p, parseDecimal(p, b))
<1> DEFINE q == SkipWhile(p, Digits)
           digits == Between(p, q)
<1>1. q \in p .. Len(text) /\ Plain(p, q)
  BY PlainSkip, NoClassHasABreak
<1>2. digits \in Seq(Characters)
  BY <1>1, BetweenText
<1>3. <<>> \in Seq(Characters) /\ b \o digits \in Seq(Characters)
  BY <1>2
<1>4. parseDecimal(p, b) =
        IF b = <<>> /\ FewDigits(10, Len(digits)) /\ CharAt(q) \notin {".", "e"}
        THEN Read(q, <<>>, Number(10, digits))
        ELSE Read(q, b \o digits, NoValue)
  BY DEF parseDecimal
<1>5. [radix |-> 10, chars |-> digits] \in ReadValues
  BY <1>2, DigitsAreRead
<1>6. FewDigits(10, Len(digits)) => Number(10, digits) = [radix |-> 10, chars |-> digits]
  BY <1>2, FewDigitsFit
<1> DEFINE fast == b = <<>> /\ FewDigits(10, Len(digits)) /\ CharAt(q) \notin {".", "e"}
<1>7. parseDecimal(p, b) = IF fast THEN Read(q, <<>>, Number(10, digits))
                           ELSE Read(q, b \o digits, NoValue)
  BY <1>4
<1>8. fast => FewDigits(10, Len(digits))
  OBVIOUS
<1>9. p \in Nat
  OBVIOUS
<1> HIDE DEF q, digits, fast
<1> QED
  BY <1>1, <1>3, <1>5, <1>6, <1>7, <1>8, <1>9, NoValueIsRead, ReadingOf

LEMMA DotIsACharacter == "." \in Characters
<1> DEFINE op == <<<<".">>, "DOT">>
<1>1. op \in Operators
  BY DEF Operators
<1>2. "." \in ToSet(op[1])
  BY DEF ToSet
<1> QED
  BY <1>1, <1>2 DEF Characters

LEMMA parseNumberAfterDecimalPointReads ==
    ASSUME text \in Seq(Characters), NEW p \in 0 .. Len(text), NEW b \in Seq(Characters),
           NEW v \in ReadValues
    PROVE  ReadsFrom(p, parseNumberAfterDecimalPoint(Read(p, b, v)))
<1> DEFINE q == SkipWhile(p, Digits)
           digits == Between(p, q)
<1>1. q \in p .. Len(text) /\ Plain(p, q)
  BY PlainSkip, NoClassHasABreak
<1>2. digits \in Seq(Characters)
  BY <1>1, BetweenText
<1>3. b \o <<".">> \o digits \in Seq(Characters)
  BY <1>2, DotIsACharacter
<1>4. parseNumberAfterDecimalPoint(Read(p, b, v)) = Read(q, b \o <<".">> \o digits, NoValue)
  BY DEF parseNumberAfterDecimalPoint, Read
<1>5. p \in Nat
  OBVIOUS
<1> HIDE DEF q, digits
<1> QED
  BY <1>1, <1>3, <1>4, <1>5, NoValueIsRead, ReadingOf

LEMMA parseNumberAfterExponentIndicatorReads ==
    ASSUME text \in Seq(Characters), NEW p \in Nat, CharAt(p) = "e", NEW b \in Seq(Characters),
           NEW v \in ReadValues
    PROVE  ReadsFrom(p, parseNumberAfterExponentIndicator(Read(p, b, v)))
<1> DEFINE sign == IF CharAt(p + 1) \in {"+", "-"} THEN 1 ELSE 0
           q == SkipWhile(p + 1 + sign, Digits)
           u == IF q = p + 1 + sign THEN [NoValue EXCEPT !.chars = <<"error">>] ELSE NoValue
<1>1. p \in 0 .. Len(text) /\ p + 1 \in 0 .. Len(text) /\ Plain(p, p + 1)
  BY PlainOver, Classes
<1>2. p + 1 + sign \in 0 .. Len(text) /\ p + 1 + sign >= p /\ Plain(p, p + 1 + sign)
  <2>1. CASE CharAt(p + 1) \in {"+", "-"}
    <3>1. p + 1 + 1 \in 0 .. Len(text) /\ Plain(p + 1, p + 1 + 1)
      BY <1>1, <2>1, PlainOver, Classes
    <3> QED
      BY <1>1, <2>1, <3>1, PlainJoin
  <2>2. CASE CharAt(p + 1) \notin {"+", "-"}
    BY <1>1, <2>2
  <2> QED
    BY <2>1, <2>2
<1> HIDE DEF sign
<1>3. q \in p + 1 + sign .. Len(text) /\ Plain(p + 1 + sign, q)
  BY <1>2, PlainSkip, NoClassHasABreak
<1>4. q \in p .. Len(text) /\ Plain(p, q)
  BY <1>2, <1>3, PlainJoin
<1>5. Between(p, q) \in Seq(Characters)
  BY <1>1, <1>4, BetweenText
<1>6. b \o Between(p, q) \in Seq(Characters)
  BY <1>5
<1>7. u \in ReadValues
  BY NoValueIsRead DEF ReadValues, NoValue
<1>8. parseNumberAfterExponentIndicator(Read(p, b, v)) = Read(q, b \o Between(p, q), u)
  BY DEF parseNumberAfterExponentIndicator, Read, sign
<1> HIDE DEF q, u
<1> QED
  BY <1>4, <1>6, <1>7, <1>8, ReadingOf

\* A reading is put together of what is read before and after.
LEMMA ReadOn ==
    ASSUME text \in Seq(Characters), NEW p \in Nat, NEW q \in p .. Len(text), Plain(p, q), NEW r, ReadsFrom(q, r)
    PROVE  ReadsFrom(p, r)
<1>1. r.pos \in q .. Len(text) /\ q \in Nat /\ r.pos \in Nat
  BY DEF ReadsFrom
<1>2. Plain(p, r.pos)
  BY <1>1, PlainJoin DEF ReadsFrom
<1> QED
  BY <1>1, <1>2 DEF ReadsFrom

LEMMA ReadingsAreReads ==
    ASSUME NEW r \in Readings
    PROVE  /\ r = Read(r.pos, r.buffer8, r.value)
           /\ r.pos \in Nat /\ r.buffer8 \in Seq(Characters) /\ r.value \in ReadValues
           /\ [r EXCEPT !.pos = @ + 1] = Read(r.pos + 1, r.buffer8, r.value)
           /\ \A v : [r EXCEPT !.value = v] = Read(r.pos, r.buffer8, v)
BY DEF Readings, Read

LEMMA FractionReads ==
    ASSUME text \in Seq(Characters), NEW r \in Readings, r.pos \in 0 .. Len(text)
    PROVE  ReadsFrom(r.pos, Fraction(r)) /\ (CharAt(r.pos) = "." => Fraction(r).pos > r.pos)
<1> DEFINE f == IF CharAt(r.pos) = "."
                THEN parseNumberAfterDecimalPoint([r EXCEPT !.pos = @ + 1]) ELSE r
           e == IF CharAt(f.pos) = "e" THEN parseNumberAfterExponentIndicator(f) ELSE f
           v == IF e.value.chars = <<"error">> THEN e.value
                ELSE [radix |-> 10, chars |-> e.buffer8]
<1>1. Fraction(r) = [e EXCEPT !.value = v]
  BY DEF Fraction
<1>2. r.pos \in Nat
  BY ReadingsAreReads
<1>3. ReadsFrom(r.pos, f) /\ (CharAt(r.pos) = "." => f.pos > r.pos)
  <2>1. CASE CharAt(r.pos) = "."
    <3>1. r.pos + 1 \in 0 .. Len(text) /\ Plain(r.pos, r.pos + 1)
      BY <1>2, <2>1, PlainOver, Classes
    <3>2. ReadsFrom(r.pos + 1, f)
      BY <2>1, <3>1, ReadingsAreReads, parseNumberAfterDecimalPointReads
    <3>3. r.pos + 1 \in r.pos .. Len(text)
      BY <1>2, <3>1
    <3> HIDE DEF f
    <3>4. f.pos > r.pos
      BY <1>2, <3>2 DEF ReadsFrom
    <3> QED
      BY <1>2, <3>1, <3>2, <3>3, <3>4, ReadOn
  <2>2. CASE CharAt(r.pos) # "."
    BY <1>2, <2>2, PlainNothing DEF ReadsFrom
  <2> QED
    BY <2>1, <2>2
<1> HIDE DEF f
<1>4. f \in Readings /\ f.pos \in r.pos .. Len(text) /\ Plain(r.pos, f.pos)
  BY <1>3 DEF ReadsFrom
<1>5. f.pos \in Nat /\ f.pos \in f.pos .. Len(text)
  BY <1>2, <1>4
<1>6. ReadsFrom(f.pos, e)
  <2>1. CASE CharAt(f.pos) = "e"
    <3>1. f.buffer8 \in Seq(Characters) /\ f.value \in ReadValues
      BY <1>4, ReadingsAreReads
    <3>2. ReadsFrom(f.pos,
                    parseNumberAfterExponentIndicator(Read(f.pos, f.buffer8, f.value)))
      BY <1>5, <2>1, <3>1, parseNumberAfterExponentIndicatorReads
    <3>3. f = Read(f.pos, f.buffer8, f.value)
      BY <1>4, ReadingsAreReads
    <3>4. ReadsFrom(f.pos, parseNumberAfterExponentIndicator(f))
      BY <3>2, <3>3
    <3> QED
      BY <2>1, <3>4
  <2>2. CASE CharAt(f.pos) # "e"
    BY <1>4, <1>5, <2>2, PlainNothing DEF ReadsFrom
  <2> HIDE DEF e
  <2> QED
    BY <2>1, <2>2
<1> HIDE DEF e
<1>7. e \in Readings /\ e.pos \in f.pos .. Len(text) /\ Plain(f.pos, e.pos)
  BY <1>6 DEF ReadsFrom
<1>8. v \in ReadValues
  <2>1. e.value \in ReadValues /\ e.buffer8 \in Seq(Characters)
    BY <1>7, ReadingsAreReads
  <2> QED
    BY <2>1, DigitsAreRead
<1> HIDE DEF v
<1>9. [e EXCEPT !.value = v] = Read(e.pos, e.buffer8, v)
  BY <1>7, ReadingsAreReads
<1>10. ReadsFrom(f.pos, Read(e.pos, e.buffer8, v))
  BY <1>5, <1>7, <1>8, ReadingsAreReads, ReadingOf
<1>11. ReadsFrom(r.pos, Fraction(r))
  BY <1>1, <1>2, <1>4, <1>9, <1>10, ReadOn
<1>12. Fraction(r).pos = e.pos
  BY <1>1, <1>9 DEF Read
<1>13. CharAt(r.pos) = "." => Fraction(r).pos > r.pos
  BY <1>2, <1>3, <1>5, <1>7, <1>12
<1> QED
  BY <1>11, <1>13

LEMMA FinishedReads ==
    ASSUME text \in Seq(Characters), NEW p \in Nat, NEW r, ReadsFrom(p, r)
    PROVE  ReadsFrom(p, Finished(r)) /\ Finished(r).pos >= r.pos
<1>1. r \in Readings /\ r.pos \in p .. Len(text) /\ Plain(p, r.pos) /\ r.pos \in 0 .. Len(text)
  BY DEF ReadsFrom
<1>2. ReadsFrom(r.pos, Fraction(r))
  BY <1>1, FractionReads
<1>3. ReadsFrom(p, Fraction(r))
  BY <1>1, <1>2, ReadOn
<1>4. Fraction(r).pos >= r.pos
  BY <1>1, <1>2 DEF ReadsFrom
<1>5. r.pos >= r.pos
  BY <1>1
<1> QED
  BY <1>3, <1>4, <1>5 DEF Finished

\* A number is read without a line break in it, up to somewhere in the text.
LEMMA parseNumberReads ==
    ASSUME text \in Seq(Characters), NEW p \in Nat,
           CharAt(p) \in Digits \/ (CharAt(p) = "." /\ CharAt(p + 1) \in Digits)
    PROVE  ReadsFrom(p, parseNumber(p)) /\ p < Len(text) /\ parseNumber(p).pos > p
<1>1. /\ p \in 0 .. Len(text) /\ p + 1 \in 0 .. Len(text) /\ p + 1 \in p .. Len(text)
      /\ Plain(p, p + 1) /\ p < Len(text) /\ "0" \in Characters
  BY PlainOver, Classes
<1>2. <<>> \in Seq(Characters) /\ <<"0">> \in Seq(Characters)
  BY <1>1
<1>3. ReadsFrom(p, Read(p, <<>>, NoValue)) /\ ReadsFrom(p + 1, Read(p + 1, <<"0">>, NoValue))
  <2>1. p \in p .. Len(text) /\ p + 1 \in Nat /\ p + 1 \in p + 1 .. Len(text)
    BY <1>1
  <2>2. Plain(p, p) /\ Plain(p + 1, p + 1)
    BY <2>1, PlainNothing
  <2> QED
    BY <1>2, <2>1, <2>2, NoValueIsRead, ReadingOf
<1>4. ASSUME NEW q, NEW b, NEW v PROVE Read(q, b, v).pos = q
  BY DEF Read
<1>5. CASE CharAt(p) = "."
  <2>1. parseNumber(p) = Fraction(Read(p, <<>>, NoValue))
    BY <1>5 DEF parseNumber
  <2>2. Read(p, <<>>, NoValue) \in Readings
    BY <1>3 DEF ReadsFrom
  <2> QED
    BY <1>1, <1>4, <1>5, <2>1, <2>2, FractionReads
<1>6. CASE CharAt(p) \in Digits /\ CharAt(p) # "0"
  <2>1. parseNumber(p) = Finished(parseDecimal(p, <<>>))
    BY <1>6, Classes DEF parseNumber, Digits, OctalDigits
  <2>2. ReadsFrom(p, parseDecimal(p, <<>>))
    BY <1>1, <1>2, parseDecimalReads
  <2>3. parseDecimal(p, <<>>).pos = SkipWhile(p, Digits)
    BY DEF parseDecimal, Read
  <2>4. SkipWhile(p, Digits) \in p .. Len(text) /\ CharAt(SkipWhile(p, Digits)) \notin Digits
    BY <1>1, PlainSkip, NoClassHasABreak
  <2>5. parseDecimal(p, <<>>).pos > p
    BY <1>6, <2>3, <2>4
  <2>6. ReadsFrom(p, Finished(parseDecimal(p, <<>>)))
        /\ Finished(parseDecimal(p, <<>>)).pos >= parseDecimal(p, <<>>).pos
    BY <2>2, FinishedReads
  <2>7. Finished(parseDecimal(p, <<>>)).pos \in p .. Len(text) /\ parseDecimal(p, <<>>).pos \in p .. Len(text)
    BY <2>2, <2>6 DEF ReadsFrom
  <2> QED
    BY <1>1, <2>1, <2>5, <2>6, <2>7
<1>7. CASE CharAt(p) = "0"
  <2> DEFINE octal == IF CharAt(p + 1) \in OctalDigits THEN parseOctal(p + 1)
                      ELSE Read(p + 1, <<"0">>, NoValue)
             then == IF octal.value # NoValue THEN octal
                     ELSE Finished(parseDecimal(octal.pos, octal.buffer8))
  <2>1. parseNumber(p) = IF CharAt(p + 1) = "x" /\ CharAt(p + 2) \in HexDigits
                         THEN parseHex(p + 1) ELSE then
    BY <1>7 DEF parseNumber
  <2>2. CharAt(p + 1) = "x" => ReadsFrom(p + 1, parseHex(p + 1))
    BY <1>1, parseHexReads
  <2>3. ReadsFrom(p + 1, octal)
    BY <1>1, <1>3, parseOctalReads
  <2> HIDE DEF octal
  <2>4. octal \in Readings /\ octal.pos \in p + 1 .. Len(text) /\ Plain(p + 1, octal.pos)
    BY <2>3 DEF ReadsFrom
  <2>5. octal.pos \in 0 .. Len(text) /\ octal.buffer8 \in Seq(Characters)
    <3>1. octal.buffer8 \in Seq(Characters)
      BY <2>4, ReadingsAreReads
    <3>2. octal.pos \in 0 .. Len(text)
      BY <1>1, <2>4
    <3> QED
      BY <3>1, <3>2
  <2>6. ReadsFrom(octal.pos, parseDecimal(octal.pos, octal.buffer8))
    BY <2>5, parseDecimalReads
  <2>7. ReadsFrom(octal.pos, Finished(parseDecimal(octal.pos, octal.buffer8)))
    BY <2>5, <2>6, FinishedReads
  <2>8. ReadsFrom(p + 1, then)
    BY <1>1, <2>3, <2>4, <2>7, ReadOn
  <2> HIDE DEF then
  <2>9. ReadsFrom(p + 1, parseNumber(p))
    BY <2>1, <2>2, <2>8
  <2>10. parseNumber(p).pos \in p + 1 .. Len(text)
    BY <2>9 DEF ReadsFrom
  <2> QED
    BY <1>1, <2>9, <2>10, ReadOn
<1> QED
  BY <1>5, <1>6, <1>7

-----------------------------------------------------------------------------
(* Escapes.                                                                *)

LEMMA HexValueIsADigit == ASSUME NEW c \in HexDigits PROVE HexValue(c) \in 0 .. 15
<1>1. c \in {"0", "3", "6", "7", "9", "a", "e"}
  BY DEF HexDigits, Digits, OctalDigits
<1> QED
  BY <1>1 DEF HexValue

LEMMA OctalValueIsADigit == ASSUME NEW c \in OctalDigits PROVE HexValue(c) \in 0 .. 7
BY DEF HexValue, OctalDigits

LEMMA CodesAreUChars == ASSUME NEW n \in Codes PROVE Char(n) \in UChar
BY Zenon DEF UChar

LEMMA CodesHave16Bits == ASSUME NEW n \in Nat, n < 65536 PROVE n \in Codes
BY SMT DEF Codes

LEMMA convertHexIsAByte ==
    ASSUME NEW a \in HexDigits, NEW b \in HexDigits
    PROVE  convertHex(a, b) \in Nat /\ convertHex(a, b) < 256
<1>1. HexValue(a) \in 0 .. 15 /\ HexValue(b) \in 0 .. 15
  BY HexValueIsADigit
<1> HIDE DEF HexValue
<1> QED
  BY <1>1 DEF convertHex

LEMMA convertUnicodeIsACode ==
    ASSUME NEW a \in HexDigits, NEW b \in HexDigits, NEW c \in HexDigits, NEW d \in HexDigits
    PROVE  convertUnicode(a, b, c, d) \in Codes
<1>1. /\ convertHex(a, b) \in Nat /\ convertHex(a, b) < 256
      /\ convertHex(c, d) \in Nat /\ convertHex(c, d) < 256
  BY convertHexIsAByte
<1>2. convertUnicode(a, b, c, d) \in Nat /\ convertUnicode(a, b, c, d) < 65536
  BY <1>1, SMT DEF convertUnicode
<1> QED
  BY <1>2, CodesHave16Bits, SMT

\* \uXXXX is in one line of the text and stands for a character.
LEMMA getUnicodeCharacterReads ==
    ASSUME text \in Seq(Characters), NEW p \in Nat, getUnicodeCharacter(p) # "none"
    PROVE  /\ p + 4 \in 0 .. Len(text) /\ Plain(p, p + 4)
           /\ getUnicodeCharacter(p) \in UChar
<1>1. \A k \in 0 .. 3 : CharAt(p + k) \in HexDigits
  BY DEF getUnicodeCharacter
<1>2. /\ CharAt(p) \in HexDigits /\ CharAt(p + 1) \in HexDigits
      /\ CharAt(p + 2) \in HexDigits /\ CharAt(p + 3) \in HexDigits
  <2>1. CharAt(p + 0) \in HexDigits /\ CharAt(p + 1) \in HexDigits
        /\ CharAt(p + 2) \in HexDigits /\ CharAt(p + 3) \in HexDigits
    BY <1>1
  <2> QED
    BY <2>1
<1>3. getUnicodeCharacter(p)
        = Char(convertUnicode(CharAt(p), CharAt(p + 1), CharAt(p + 2), CharAt(p + 3)))
  BY <1>1, Zenon DEF getUnicodeCharacter
<1>4. getUnicodeCharacter(p) \in UChar
  <2> DEFINE code == convertUnicode(CharAt(p), CharAt(p + 1), CharAt(p + 2), CharAt(p + 3))
  <2>1. code \in Codes
    BY <1>2, convertUnicodeIsACode
  <2> HIDE DEF code
  <2>2. Char(code) \in UChar
    BY <2>1, CodesAreUChars
  <2> QED
    BY <1>3, <2>2 DEF code
<1>5. p + 4 \in 0 .. Len(text)
  <2>1. CharAt(p + 3) # "end" /\ p + 3 \in Nat
    BY <1>2, NoClassHasABreak
  <2>2. (p + 3) + 1 <= Len(text)
    BY <2>1, TextCharacters
  <2> QED
    BY <2>2
<1>6. Plain(p, p + 4)
  <2>1. ASSUME NEW i \in p .. (p + 4) - 1 PROVE CharAt(i) \notin LineTerminators
    <3>1. i = p \/ i = p + 1 \/ i = p + 2 \/ i = p + 3
      OBVIOUS
    <3> QED
      BY <1>2, <3>1, NoClassHasABreak
  <2> QED
    BY <2>1 DEF Plain
<1> QED
  BY <1>4, <1>5, <1>6

\* What an escape in a string promises: it begins at p, after the backslash.
Escapes(p, e) ==
    /\ e = Escape(e.pos, e.chars) /\ e.chars \in Seq(UChar)
    /\ e.pos \in p + 1 .. Len(text)

LEMMA EscapeOf ==
    ASSUME NEW p \in Nat, NEW q \in p + 1 .. Len(text), NEW u \in UChar
    PROVE  Escapes(p, Escape(q, <<u>>)) /\ Escape(q, <<u>>).pos = q
BY DEF Escapes, Escape

LEMMA OctalEscapeReads ==
    ASSUME text \in Seq(Characters), NEW p \in Nat, NEW n \in 1 .. 3,
           \A k \in 0 .. n - 1 : CharAt(p + k) \in OctalDigits
    PROVE  /\ Escapes(p, OctalEscape(p, n)) /\ OctalEscape(p, n).pos = p + n
           /\ Plain(p, p + n)
<1> DEFINE v(k) == HexValue(CharAt(p + k))
           code == CASE n = 1 -> v(0) [] n = 2 -> v(0) * 8 + v(1)
                     [] n = 3 -> v(0) * 64 + v(1) * 8 + v(2)
<1>1. OctalEscape(p, n) = Escape(p + n, <<Char(code)>>)
  BY Zenon DEF OctalEscape
<1>2. code \in Nat /\ code < 512
  <2>1. \A k \in 0 .. n - 1 : v(k) \in Nat /\ v(k) <= 7
    <3>1. ASSUME NEW k \in 0 .. n - 1 PROVE v(k) \in 0 .. 7
      <4>1. CharAt(p + k) \in OctalDigits
        OBVIOUS
      <4> QED
        BY <4>1, OctalValueIsADigit
    <3> HIDE DEF v
    <3> QED
      BY <3>1
  <2> HIDE DEF v
  <2>2. CASE n = 1
    <3>1. v(0) \in Nat /\ v(0) <= 7
      BY <2>1, <2>2
    <3>2. code = v(0)
      BY <2>2
    <3> QED
      BY <3>1, <3>2
  <2>3. CASE n = 2
    <3>1. v(0) \in Nat /\ v(0) <= 7 /\ v(1) \in Nat /\ v(1) <= 7
      BY <2>1, <2>3
    <3>2. code = v(0) * 8 + v(1)
      BY <2>3
    <3> QED
      BY <3>1, <3>2
  <2>4. CASE n = 3
    <3>1. v(0) \in Nat /\ v(0) <= 7 /\ v(1) \in Nat /\ v(1) <= 7 /\ v(2) \in Nat /\ v(2) <= 7
      BY <2>1, <2>4
    <3>2. code = v(0) * 64 + v(1) * 8 + v(2)
      BY <2>4
    <3> QED
      BY <3>1, <3>2
  <2> QED
    BY <2>2, <2>3, <2>4
<1>3. \A i \in p .. (p + n) - 1 : CharAt(i) \in OctalDigits
  <2>1. ASSUME NEW i \in p .. (p + n) - 1 PROVE CharAt(i) \in OctalDigits
    <3>1. i - p \in 0 .. n - 1 /\ p + (i - p) = i
      OBVIOUS
    <3> QED
      BY <3>1
  <2> QED
    BY <2>1
<1>4. Plain(p, p + n)
  BY <1>3, NoClassHasABreak DEF Plain
<1>5. p + n \in p + 1 .. Len(text)
  <2>1. (p + n) - 1 \in Nat /\ CharAt((p + n) - 1) # "end"
    BY <1>3, NoClassHasABreak
  <2>2. ((p + n) - 1) + 1 <= Len(text)
    BY <2>1, TextCharacters
  <2> QED
    BY <2>2
<1> HIDE DEF code
<1>6. Char(code) \in UChar
  <2>1. code \in Codes
    BY <1>2, CodesHave16Bits
  <2> QED
    BY <2>1, CodesAreUChars
<1> QED
  BY <1>1, <1>4, <1>5, <1>6, EscapeOf

LEMMA singleEscapeIsAUChar == ASSUME NEW c \in Characters PROVE singleEscape(c) \in UChar
<1>1. Char(10) \in UChar /\ Char(12) \in UChar /\ c \in UChar
  <2>1. 10 \in Codes /\ 12 \in Codes
    BY SMT DEF Codes
  <2> QED
    BY <2>1, CodesAreUChars, CharactersAreUChars
<1> QED
  BY <1>1, Zenon DEF singleEscape

\* An escape other than a line continuation stays in its line.
LEMMA StringEscapeReads ==
    ASSUME text \in Seq(Characters), NEW p \in Nat,
           CharAt(p) \notin LineTerminators \cup {"end"}
    PROVE  Escapes(p, StringEscape(p)) /\ Plain(p, StringEscape(p).pos)
<1> DEFINE c == CharAt(p)
           hex == CharAt(p + 1) \in HexDigits /\ CharAt(p + 2) \in HexDigits
           character == getUnicodeCharacter(p + 1)
           octal(k) == CharAt(p + k) \in OctalDigits
           three == c \in {"0", "3"} /\ octal(2)
<1>1. /\ p < Len(text) /\ p + 1 \in 0 .. Len(text) /\ p + 1 \in p + 1 .. Len(text)
      /\ Plain(p, p + 1) /\ c \in Characters /\ c \notin LineTerminators
  BY PlainOver, TextCharacters
<1>2. c = CharAt(p + 0)
  OBVIOUS
<1>3. "x" \notin OctalDigits /\ "u" \notin OctalDigits
  BY DEF OctalDigits
<1>4. StringEscape(p) =
        CASE c \in LineTerminators -> Escape(AfterLineTerminator(p), <<>>)
          [] c = "x" /\ hex -> Escape(p + 3, <<Char(convertHex(CharAt(p + 1), CharAt(p + 2)))>>)
          [] c = "u" /\ character # "none" -> Escape(p + 5, <<character>>)
          [] octal(0) /\ ~octal(1) -> OctalEscape(p, 1)
          [] octal(0) /\ octal(1) -> OctalEscape(p, IF three THEN 3 ELSE 2)
          [] OTHER -> Escape(p + 1, <<singleEscape(c)>>)
  BY Zenon DEF StringEscape
<1>5. octal(0) <=> c \in OctalDigits
  BY <1>2
<1> HIDE DEF character, three
<1>6. CASE c = "x" /\ hex
  <2>1. StringEscape(p) = Escape(p + 3, <<Char(convertHex(CharAt(p + 1), CharAt(p + 2)))>>)
    <3> HIDE DEF hex, octal
    <3> QED
      BY <1>1, <1>3, <1>4, <1>5, <1>6
  <2>2. CharAt(p + 1) \in HexDigits /\ CharAt(p + 2) \in HexDigits
    BY <1>6
  <2>3. p + 2 \in 0 .. Len(text) /\ Plain(p + 1, p + 2)
    <3>1. CharAt(p + 1) \notin LineTerminators \cup {"end"} /\ p + 1 \in Nat
      BY <2>2, NoClassHasABreak
    <3>2. (p + 1) + 1 \in 0 .. Len(text) /\ Plain(p + 1, (p + 1) + 1)
      BY <3>1, PlainOver
    <3> QED
      BY <3>2
  <2>4. p + 3 \in 0 .. Len(text) /\ Plain(p + 2, p + 3)
    <3>1. CharAt(p + 2) \notin LineTerminators \cup {"end"} /\ p + 2 \in Nat
      BY <2>2, NoClassHasABreak
    <3>2. (p + 2) + 1 \in 0 .. Len(text) /\ Plain(p + 2, (p + 2) + 1)
      BY <3>1, PlainOver
    <3> QED
      BY <3>2
  <2>5. Plain(p, p + 2) /\ p + 2 \in Nat
    BY <1>1, <2>3, PlainJoin
  <2>6. Plain(p, p + 3) /\ p + 3 \in p + 1 .. Len(text)
    BY <2>4, <2>5, PlainJoin
  <2>7. Char(convertHex(CharAt(p + 1), CharAt(p + 2))) \in UChar
    <3> DEFINE code == convertHex(CharAt(p + 1), CharAt(p + 2))
    <3>1. code \in Nat /\ code < 256
      BY <2>2, convertHexIsAByte
    <3> HIDE DEF code
    <3>2. code \in Codes
      BY <3>1, CodesHave16Bits
    <3> QED
      BY <3>2, CodesAreUChars DEF code
  <2> QED
    BY <2>1, <2>6, <2>7, EscapeOf
<1>7. CASE c = "u" /\ character # "none"
  <2>1. StringEscape(p) = Escape(p + 5, <<character>>)
    <3> HIDE DEF hex, octal
    <3> QED
      BY <1>1, <1>3, <1>4, <1>5, <1>7
  <2>2. p + 1 \in Nat /\ getUnicodeCharacter(p + 1) # "none"
    BY <1>7 DEF character
  <2>3. /\ (p + 1) + 4 \in 0 .. Len(text) /\ Plain(p + 1, (p + 1) + 4)
        /\ character \in UChar
    BY <2>2, getUnicodeCharacterReads DEF character
  <2>4. (p + 1) + 4 = p + 5
    OBVIOUS
  <2>5. Plain(p, p + 5) /\ p + 5 \in p + 1 .. Len(text)
    BY <1>1, <2>3, <2>4, PlainJoin
  <2> QED
    BY <2>1, <2>3, <2>5, EscapeOf
<1>8. CASE c \in OctalDigits
  <2>1. StringEscape(p) = OctalEscape(p, IF ~octal(1) THEN 1 ELSE IF three THEN 3 ELSE 2)
    <3> HIDE DEF hex, octal
    <3> QED
      BY <1>1, <1>3, <1>4, <1>5, <1>8
  <2> DEFINE n == IF ~octal(1) THEN 1 ELSE IF three THEN 3 ELSE 2
  <2>2. n \in 1 .. 3
    OBVIOUS
  <2>3. ASSUME NEW k \in 0 .. n - 1 PROVE octal(k)
    <3>1. CASE k = 0
      BY <1>5, <1>8, <3>1
    <3>2. CASE k = 1
      BY <3>2
    <3>3. CASE k = 2
      BY <3>3 DEF three
    <3> QED
      BY <2>2, <3>1, <3>2, <3>3
  <2> HIDE DEF n
  <2>4. Escapes(p, OctalEscape(p, n)) /\ OctalEscape(p, n).pos = p + n /\ Plain(p, p + n)
    BY <2>2, <2>3, OctalEscapeReads
  <2> QED
    BY <2>1, <2>4 DEF n
<1>9. CASE ~(c = "x" /\ hex) /\ ~(c = "u" /\ character # "none") /\ c \notin OctalDigits
  <2>1. StringEscape(p) = Escape(p + 1, <<singleEscape(c)>>)
    <3> HIDE DEF hex, octal
    <3> QED
      BY <1>1, <1>4, <1>5, <1>9
  <2> QED
    BY <1>1, <2>1, singleEscapeIsAUChar, EscapeOf
<1> QED
  BY <1>6, <1>7, <1>8, <1>9

-----------------------------------------------------------------------------
(* The inductive invariant: types, and where the offsets of a call stand.  *)

Offsets ==
    /\ local.from <= pos /\ local.startOffset <= pos
    /\ pc \in {"inIdentifier", "inString"} => local.chunk <= pos
    /\ pc # "start" => local.from <= local.startOffset

LexerInv == text \in Texts /\ TypeOK /\ Offsets

\* How far a step gets: over no line break, or to the end of one.
Moves ==
    /\ pos' \in pos .. Len(text)
    /\ \/ Plain(pos, pos') /\ m_lineNumber' = m_lineNumber
       \/ \E p \in pos .. Len(text) :
            /\ CharAt(p) \in LineTerminators /\ Plain(pos, p)
            /\ pos' = AfterLineTerminator(p) /\ m_lineNumber' = m_lineNumber + 1

\* The parts of TypeOK that a call's control, and the text it reads, are in.
ControlTypes ==
    /\ pc \in Places /\ local \in Locals /\ calls \in Nat
    /\ m_lastToken \in Tokens \cup {"none"} /\ token \in Tokens \cup {"none"}
BufferTypes ==
    /\ m_buffer8 \in Seq(Characters) /\ m_buffer16 \in Seq(UChar)
    /\ value \in Values
FlagTypes == m_terminator \in BOOLEAN /\ m_atLineStart \in BOOLEAN /\ m_error \in BOOLEAN
PlaceTypes == pos \in 0 .. Len(text) /\ m_lineNumber \in Nat \ {0}

LEMMA TypeParts == TypeOK <=> ControlTypes /\ BufferTypes /\ FlagTypes /\ PlaceTypes
BY DEF TypeOK, ControlTypes, BufferTypes, FlagTypes, PlaceTypes, Values

LEMMA TypePartsNext ==
    TypeOK' <=> ControlTypes' /\ BufferTypes' /\ FlagTypes' /\ PlaceTypes'
BY DEF TypeOK, ControlTypes, BufferTypes, FlagTypes, PlaceTypes, Values

\* The parts of the invariant, by name.
LEMMA InvMeans ==
    ASSUME LexerInv
    PROVE  /\ text \in Seq(Characters) /\ TypeOK /\ Offsets
           /\ ControlTypes /\ BufferTypes /\ FlagTypes /\ PlaceTypes
           /\ pos \in 0 .. Len(text) /\ pos \in Nat /\ Len(text) \in Nat
           /\ local \in Locals
BY LexerTextsAssumption, TypeParts DEF LexerInv, PlaceTypes, ControlTypes

\* A record of locals with some fields changed.
LEMMA LocalFields ==
    ASSUME NEW l \in Locals
    PROVE  /\ l.reserved \in BOOLEAN /\ l.before \in BOOLEAN /\ l.from \in Nat
           /\ l.startOffset \in Nat /\ l.chunk \in Nat /\ l.quote \in Quotes \cup {"none"}
           /\ l.bufferRequired \in BOOLEAN /\ l.lastWasEscape \in BOOLEAN
           /\ l.inBrackets \in BOOLEAN
BY DEF Locals

LEMMA GoOnTypes ==
    ASSUME ControlTypes, NEW place \in Places, NEW l \in Locals, GoOn(place, l)
    PROVE  /\ ControlTypes' /\ pc' = place /\ local' = l
           /\ token' = token /\ m_lastToken' = m_lastToken /\ calls' = calls
BY DEF ControlTypes, GoOn

LEMMA LeaveTypes ==
    ASSUME NEW l \in Locals, calls \in Nat, Leave(l)
    PROVE  /\ pc' \in Places /\ pc' = "idle" /\ local' \in Locals /\ calls' \in Nat
           /\ local'.from = l.from /\ local'.startOffset = l.startOffset
           /\ calls' = calls + 1
<1>1. l.from \in Nat /\ l.startOffset \in Nat
  BY LocalFields
<1>2. local' = [NoLocals EXCEPT !.from = l.from, !.startOffset = l.startOffset]
  BY DEF Leave
<1>3. NoLocals \in Locals
  BY DEF NoLocals, Locals
<1>4. local' \in Locals /\ local'.from = l.from /\ local'.startOffset = l.startOffset
  BY <1>1, <1>2, <1>3 DEF Locals
<1> QED
  BY <1>4 DEF Leave, Places

LEMMA ReturnTypes ==
    ASSUME ControlTypes, NEW l \in Locals
    PROVE  /\ \A t \in Tokens : returnToken(t, l) =>
                /\ ControlTypes' /\ pc' = "idle" /\ token' = t /\ m_lastToken' = t
                /\ local'.from = l.from /\ local'.startOffset = l.startOffset
                /\ calls' = calls + 1
           /\ returnError(l) =>
                /\ ControlTypes' /\ pc' = "idle" /\ token' = "ERRORTOK" /\ m_error' = TRUE
                /\ local'.from = l.from /\ local'.startOffset = l.startOffset
                /\ calls' = calls + 1 /\ m_lastToken' = m_lastToken
           /\ returnEnd(l) =>
                /\ ControlTypes' /\ pc' = "idle" /\ token' = "EOFTOK"
                /\ local'.from = l.from /\ local'.startOffset = l.startOffset
                /\ calls' = calls + 1 /\ m_lastToken' = m_lastToken
<1>1. "ERRORTOK" \in Tokens /\ "EOFTOK" \in Tokens
  BY DEF Tokens
<1>2. calls \in Nat
  BY DEF ControlTypes
<1>3. ASSUME NEW t \in Tokens, returnToken(t, l)
      PROVE  /\ ControlTypes' /\ pc' = "idle" /\ token' = t /\ m_lastToken' = t
             /\ local'.from = l.from /\ local'.startOffset = l.startOffset
             /\ calls' = calls + 1
  BY <1>2, <1>3, LeaveTypes DEF returnToken, ControlTypes
<1>4. ASSUME returnError(l)
      PROVE  /\ ControlTypes' /\ pc' = "idle" /\ token' = "ERRORTOK" /\ m_error' = TRUE
             /\ local'.from = l.from /\ local'.startOffset = l.startOffset
             /\ calls' = calls + 1 /\ m_lastToken' = m_lastToken
  BY <1>1, <1>2, <1>4, LeaveTypes DEF returnError, ControlTypes
<1>5. ASSUME returnEnd(l)
      PROVE  /\ ControlTypes' /\ pc' = "idle" /\ token' = "EOFTOK"
             /\ local'.from = l.from /\ local'.startOffset = l.startOffset
             /\ calls' = calls + 1 /\ m_lastToken' = m_lastToken
  BY <1>1, <1>2, <1>5, LeaveTypes DEF returnEnd, ControlTypes
<1> QED
  BY <1>3, <1>4, <1>5

LEMMA AfterLineTerminatorBounds ==
    ASSUME text \in Seq(Characters), NEW p \in Nat, CharAt(p) \in LineTerminators
    PROVE  AfterLineTerminator(p) \in p + 1 .. Len(text)
<1>1. CharAt(p) # "end"
  BY Classes
<1>2. p + 1 <= Len(text)
  BY <1>1, TextCharacters
<1>3. CASE {CharAt(p), CharAt(p + 1)} = {"nl", "cr"}
  <2>1. CharAt(p + 1) \in {"nl", "cr"} /\ p + 1 \in Nat
    BY <1>3
  <2>2. (p + 1) + 1 <= Len(text)
    BY <2>1, TextCharacters
  <2> QED
    BY <1>3, <2>2 DEF AfterLineTerminator
<1>4. CASE {CharAt(p), CharAt(p + 1)} # {"nl", "cr"}
  BY <1>2, <1>4 DEF AfterLineTerminator
<1> QED
  BY <1>3, <1>4

\* Where lex looks at the first character of a token.
LEMMA TokenStartBounds ==
    ASSUME LexerInv
    PROVE  /\ TokenStart \in pos .. Len(text) /\ Plain(pos, TokenStart) /\ TokenStart \in Nat
           /\ First \notin WhiteSpace
           /\ Started \in Locals /\ Started.from = local.from /\ Started.startOffset = TokenStart
           /\ Started.before = local.before /\ Started.reserved = local.reserved
<1>1. /\ SkipWhile(pos, WhiteSpace) \in pos .. Len(text)
      /\ CharAt(SkipWhile(pos, WhiteSpace)) \notin WhiteSpace
      /\ Plain(pos, SkipWhile(pos, WhiteSpace))
  BY InvMeans, PlainSkip, NoClassHasABreak
<1>2. TokenStart \in pos .. Len(text) /\ Plain(pos, TokenStart) /\ First \notin WhiteSpace
  BY <1>1 DEF TokenStart, First
<1>3. TokenStart \in Nat
  BY <1>2, InvMeans
<1>4. Started = [local EXCEPT !.startOffset = TokenStart]
  BY DEF Started
<1> HIDE DEF TokenStart, First, Started
<1> QED
  BY <1>2, <1>3, <1>4, InvMeans DEF Locals

\* A step of lex or scanRegExp keeps the invariant if it moves and is typed.
LEMMA StepOf ==
    ASSUME LexerInv, text' = text, Moves, ControlTypes', BufferTypes', FlagTypes', Offsets'
    PROVE  LexerInv' /\ Moves /\ text' = text
<1>1. text \in Texts /\ pos \in 0 .. Len(text) /\ m_lineNumber \in Nat \ {0} /\ Len(text) \in Nat
  BY InvMeans DEF LexerInv, PlaceTypes
<1>2. pos' \in pos .. Len(text) /\ m_lineNumber' \in {m_lineNumber, m_lineNumber + 1}
  BY DEF Moves
<1>3. PlaceTypes'
  BY <1>1, <1>2 DEF PlaceTypes
<1> QED
  BY <1>1, <1>3, TypePartsNext DEF LexerInv

LEMMA MovesNowhere ==
    ASSUME LexerInv, pos' = pos, m_lineNumber' = m_lineNumber
    PROVE  Moves
BY InvMeans, PlainNothing DEF Moves

LEMMA MovesPlainly ==
    ASSUME pos' \in pos .. Len(text), Plain(pos, pos'), m_lineNumber' = m_lineNumber
    PROVE  Moves
BY DEF Moves

\* What each action keeps, and how far it gets.
LEMMA lexStep ==
    ASSUME LexerInv, lex
    PROVE  LexerInv' /\ Moves /\ text' = text
<1>1. PICK reserved \in BOOLEAN :
        GoOn("start", [local EXCEPT !.reserved = reserved, !.before = m_terminator, !.from = pos])
  BY DEF lex
<1> DEFINE l == [local EXCEPT !.reserved = reserved, !.before = m_terminator, !.from = pos]
<1>2. m_terminator \in BOOLEAN /\ pos \in Nat /\ local \in Locals
  BY InvMeans DEF FlagTypes
<1>3. l \in Locals /\ l.from = pos /\ l.startOffset = local.startOffset
  BY <1>2 DEF Locals
<1>4. "start" \in Places
  BY DEF Places
<1> HIDE DEF l
<1>5. ControlTypes' /\ pc' = "start" /\ local' = l
  <2>1. GoOn("start", l)
    BY <1>1 DEF l
  <2> QED
    BY <1>3, <1>4, <2>1, InvMeans, GoOnTypes
<1>6. text' = text /\ pos' = pos /\ m_lineNumber' = m_lineNumber
  BY DEF lex
<1>7. Offsets'
  BY <1>2, <1>3, <1>5, <1>6, InvMeans DEF Offsets
<1>8. BufferTypes' /\ FlagTypes'
  BY InvMeans DEF lex, BufferTypes, FlagTypes
<1> QED
  BY <1>5, <1>6, <1>7, <1>8, MovesNowhere, StepOf

\* The steps at the first character of a token that go there and return.
LEMMA lexEndStep ==
    ASSUME LexerInv, lexEnd \/ lexInvalid
    PROVE  LexerInv' /\ Moves /\ text' = text /\ pc' = "idle" /\ pos' = TokenStart
           /\ local'.from = local.from /\ local'.startOffset = TokenStart
           /\ calls' = calls + 1
<1>1. /\ text' = text /\ pos' = TokenStart /\ m_lineNumber' = m_lineNumber
      /\ returnEnd(Started) \/ returnError(Started)
      /\ BufferTypes' /\ FlagTypes'
  BY InvMeans DEF lexEnd, lexInvalid, BufferTypes, FlagTypes, returnError
<1>2. /\ ControlTypes' /\ pc' = "idle" /\ local'.from = local.from /\ local'.startOffset = TokenStart
      /\ calls' = calls + 1
  BY <1>1, InvMeans, TokenStartBounds, ReturnTypes
<1>3. Moves
  BY <1>1, TokenStartBounds, MovesPlainly
<1>4. Offsets'
  <2>1. local.from <= pos /\ TokenStart \in pos .. Len(text) /\ local.from \in Nat
    BY InvMeans, TokenStartBounds, LocalFields DEF Offsets
  <2> QED
    BY <1>1, <1>2, <2>1, InvMeans DEF Offsets
<1> QED
  BY <1>1, <1>2, <1>3, <1>4, StepOf

\* A line break between tokens.
LEMMA lineBreakStep ==
    ASSUME LexerInv, NEW p \in pos .. Len(text), CharAt(p) \in LineTerminators, Plain(pos, p),
           NEW l \in Locals, l.from = local.from, l.startOffset <= p, l.from <= l.startOffset,
           lineBreakAt(p, l)
    PROVE  /\ LexerInv' /\ Moves /\ text' = text /\ pos' > p
           /\ local'.from = l.from
           /\ IF lastTokenWasRestrKeyword
              THEN /\ pc' = "idle" /\ token' = "SEMICOLON" /\ m_lastToken' = "SEMICOLON"
                   /\ local'.startOffset = l.startOffset /\ calls' = calls + 1
              ELSE /\ pc' = "start" /\ token' = token /\ m_lastToken' = m_lastToken
                   /\ local' = l /\ calls' = calls
<1>1. /\ text' = text /\ pos' = AfterLineTerminator(p) /\ m_lineNumber' = m_lineNumber + 1
      /\ BufferTypes' /\ FlagTypes'
      /\ IF lastTokenWasRestrKeyword THEN returnToken("SEMICOLON", l) ELSE GoOn("start", l)
  BY InvMeans DEF lineBreakAt, BufferTypes, FlagTypes
<1>2. "SEMICOLON" \in Tokens /\ "start" \in Places
  BY DEF Tokens, Punctuation, Places
<1>3. /\ ControlTypes' /\ local'.from = l.from /\ local'.startOffset = l.startOffset
      /\ IF lastTokenWasRestrKeyword
         THEN /\ pc' = "idle" /\ token' = "SEMICOLON" /\ m_lastToken' = "SEMICOLON"
              /\ calls' = calls + 1
         ELSE /\ pc' = "start" /\ token' = token /\ m_lastToken' = m_lastToken
              /\ local' = l /\ calls' = calls
  <2>1. CASE lastTokenWasRestrKeyword
    BY <1>1, <1>2, <2>1, InvMeans, ReturnTypes
  <2>2. CASE ~lastTokenWasRestrKeyword
    BY <1>1, <1>2, <2>2, InvMeans, GoOnTypes
  <2> QED
    BY <2>1, <2>2
<1>4. p \in Nat /\ pos' \in p + 1 .. Len(text)
  BY <1>1, InvMeans, AfterLineTerminatorBounds
<1>5. pos' \in pos .. Len(text)
  BY <1>4, InvMeans
<1>6. Moves
  BY <1>1, <1>5 DEF Moves
<1>7. Offsets'
  <2>1. l.from \in Nat /\ l.startOffset \in Nat
    BY LocalFields
  <2>2. pc' \in {"idle", "start"}
    BY <1>3
  <2> QED
    BY <1>3, <1>4, <2>1, <2>2 DEF Offsets
<1> QED
  BY <1>1, <1>3, <1>4, <1>6, <1>7, StepOf

\* Going on inside a call without a line break.
LEMMA GoOnStep ==
    ASSUME LexerInv, NEW place \in Places, NEW l \in Locals, GoOn(place, l), text' = text,
           pos' \in pos .. Len(text), Plain(pos, pos'), m_lineNumber' = m_lineNumber,
           BufferTypes', FlagTypes',
           l.from <= pos', l.startOffset <= pos',
           place \in {"inIdentifier", "inString"} => l.chunk <= pos',
           place # "start" => l.from <= l.startOffset
    PROVE  /\ LexerInv' /\ Moves /\ text' = text /\ pc' = place /\ local' = l
           /\ token' = token /\ m_lastToken' = m_lastToken /\ calls' = calls
<1>1. /\ ControlTypes' /\ pc' = place /\ local' = l
      /\ token' = token /\ m_lastToken' = m_lastToken /\ calls' = calls
  BY InvMeans, GoOnTypes
<1>2. Offsets'
  BY <1>1 DEF Offsets
<1> QED
  BY <1>1, <1>2, MovesPlainly, StepOf

\* Returning a token without a line break.
LEMMA ReturnStep ==
    ASSUME LexerInv, NEW l \in Locals, NEW t \in Tokens,
           returnToken(t, l) \/ (t = "ERRORTOK" /\ returnError(l))
                             \/ (t = "EOFTOK" /\ returnEnd(l)), text' = text,
           pos' \in pos .. Len(text), Plain(pos, pos'), m_lineNumber' = m_lineNumber,
           BufferTypes', FlagTypes',
           l.from <= l.startOffset, l.startOffset <= pos'
    PROVE  /\ LexerInv' /\ Moves /\ text' = text /\ pc' = "idle" /\ token' = t
           /\ local'.from = l.from /\ local'.startOffset = l.startOffset
           /\ calls' = calls + 1
<1>1. /\ ControlTypes' /\ pc' = "idle" /\ token' = t
      /\ local'.from = l.from /\ local'.startOffset = l.startOffset /\ calls' = calls + 1
  BY InvMeans, ReturnTypes
<1>2. l.from \in Nat /\ l.startOffset \in Nat /\ pos' \in Nat
  BY LocalFields, InvMeans
<1>3. Offsets'
  BY <1>1, <1>2 DEF Offsets
<1> QED
  BY <1>1, <1>3, MovesPlainly, StepOf

\* Going on inside a call after a line break that does not count for the parser.
LEMMA GoOnOverBreak ==
    ASSUME LexerInv, NEW place \in Places, NEW l \in Locals, GoOn(place, l), text' = text,
           NEW p \in pos .. Len(text), Plain(pos, p), CharAt(p) \in LineTerminators,
           pos' = AfterLineTerminator(p), m_lineNumber' = m_lineNumber + 1,
           BufferTypes', FlagTypes',
           l.from <= l.startOffset, l.startOffset <= pos',
           place \in {"inIdentifier", "inString"} => l.chunk <= pos'
    PROVE  /\ LexerInv' /\ Moves /\ text' = text /\ pc' = place /\ local' = l
           /\ token' = token /\ m_lastToken' = m_lastToken /\ calls' = calls /\ pos' > p
<1>1. /\ ControlTypes' /\ pc' = place /\ local' = l
      /\ token' = token /\ m_lastToken' = m_lastToken /\ calls' = calls
  BY InvMeans, GoOnTypes
<1>2. p \in Nat /\ pos' \in p + 1 .. Len(text)
  BY InvMeans, AfterLineTerminatorBounds
<1>3. Moves
  <2>1. pos' \in pos .. Len(text)
    BY <1>2, InvMeans
  <2> QED
    BY <2>1 DEF Moves
<1>4. Offsets'
  <2>1. l.from \in Nat /\ l.startOffset \in Nat /\ pos' \in Nat
    BY <1>2, LocalFields
  <2>2. l.from <= pos'
    BY <2>1
  <2> QED
    BY <1>1, <2>2 DEF Offsets
<1> QED
  BY <1>1, <1>2, <1>3, <1>4, StepOf

\* Two characters that begin a comment are no line break.
LEMMA MarksArePlain ==
    ASSUME text \in Seq(Characters), NEW p \in Nat, NEW s \in Seq(Marks), StartsWith(p, s)
    PROVE  /\ Plain(p, p + Len(s)) /\ p + Len(s) \in p .. Len(text)
           /\ \A i \in 1 .. Len(s) : CharAt(p + i - 1) = s[i]
<1>1. p + Len(s) <= Len(text) /\ \A i \in 1 .. Len(s) : CharAt(p + i - 1) = s[i]
  BY Started1
<1>2. ASSUME NEW i \in p .. (p + Len(s)) - 1 PROVE CharAt(i) \notin LineTerminators
  <2>1. (i - p) + 1 \in 1 .. Len(s) /\ p + ((i - p) + 1) - 1 = i
    OBVIOUS
  <2>2. CharAt(i) = s[(i - p) + 1] /\ s[(i - p) + 1] \in Marks
    BY <1>1, <2>1
  <2> QED
    BY <2>2, MarksAreNoEnd
<1> QED
  BY <1>1, <1>2 DEF Plain

LEMMA CommentsAreMarked ==
    /\ <<"/", "/">> \in Seq(Marks) /\ <<"/", "*">> \in Seq(Marks)
    /\ <<"<", "!", "-", "-">> \in Seq(Marks) /\ <<"-", "-", ">">> \in Seq(Marks)
BY DEF Marks

LEMMA CommentStart ==
    ASSUME text \in Seq(Characters), NEW p \in Nat, StartsLineComment(p) \/ StartsComment(p)
    PROVE  Plain(p, p + 2) /\ p + 2 \in p .. Len(text)
<1>1. ASSUME NEW s \in Seq(Marks), StartsWith(p, s), Len(s) >= 2
      PROVE  Plain(p, p + 2) /\ p + 2 \in p .. Len(text)
  <2>1. Plain(p, p + Len(s)) /\ p + Len(s) \in p .. Len(text)
    BY <1>1, MarksArePlain
  <2> QED
    BY <1>1, <2>1 DEF Plain
<1>2. /\ Len(<<"/", "/">>) >= 2 /\ Len(<<"/", "*">>) >= 2
      /\ Len(<<"<", "!", "-", "-">>) >= 2 /\ Len(<<"-", "-", ">">>) >= 2
  OBVIOUS
<1> QED
  BY <1>1, <1>2, CommentsAreMarked DEF StartsLineComment, StartsComment

LEMMA lexLineTerminatorStep ==
    ASSUME LexerInv, lexLineTerminator
    PROVE  /\ LexerInv' /\ Moves /\ text' = text /\ pos' > TokenStart
           /\ local'.from = local.from
           /\ IF lastTokenWasRestrKeyword
              THEN /\ pc' = "idle" /\ token' = "SEMICOLON" /\ m_lastToken' = "SEMICOLON"
                   /\ local'.startOffset = TokenStart /\ calls' = calls + 1
              ELSE /\ pc' = "start" /\ token' = token /\ m_lastToken' = m_lastToken
                   /\ local' = Started /\ calls' = calls
<1>1. lineBreakAt(TokenStart, Started) /\ CharAt(TokenStart) \in LineTerminators
  BY DEF lexLineTerminator, First
<1>2. /\ TokenStart \in pos .. Len(text) /\ Plain(pos, TokenStart) /\ Started \in Locals
      /\ Started.from = local.from /\ Started.startOffset = TokenStart /\ TokenStart \in Nat
  BY TokenStartBounds
<1>3. Started.from <= Started.startOffset /\ Started.startOffset <= TokenStart
  BY <1>2, InvMeans, LocalFields DEF Offsets
<1> QED
  BY <1>1, <1>2, <1>3, lineBreakStep

LEMMA lexCommentStep ==
    ASSUME LexerInv, lexComment
    PROVE  /\ LexerInv' /\ Moves /\ text' = text /\ local' = Started /\ pos' = TokenStart + 2
           /\ Plain(pos, pos')
           /\ \/ pc' = "inSingleLineComment"
              \/ pc' = "inComment" /\ StartsComment(TokenStart)
           /\ token' = token /\ m_lastToken' = m_lastToken /\ calls' = calls
<1>1. /\ TokenStart \in pos .. Len(text) /\ Plain(pos, TokenStart) /\ Started \in Locals
      /\ Started.from = local.from /\ Started.startOffset = TokenStart /\ TokenStart \in Nat
  BY TokenStartBounds
<1>2. Plain(TokenStart, TokenStart + 2) /\ TokenStart + 2 \in TokenStart .. Len(text)
  BY <1>1, InvMeans, CommentStart DEF lexComment
<1>3. TokenStart + 2 \in pos .. Len(text) /\ Plain(pos, TokenStart + 2)
  BY <1>1, <1>2, InvMeans, PlainJoin
<1>4. /\ text' = text /\ pos' = TokenStart + 2 /\ m_lineNumber' = m_lineNumber
      /\ BufferTypes' /\ FlagTypes'
  BY InvMeans DEF lexComment, BufferTypes, FlagTypes
<1>5. PICK place \in {"inSingleLineComment", "inComment"} :
        GoOn(place, Started) /\ (place = "inComment" => StartsComment(TokenStart))
  BY DEF lexComment
<1>6. place \in Places
  BY DEF Places
<1>7. Started.from <= Started.startOffset /\ Started.startOffset <= pos' /\ Started.from <= pos'
  BY <1>1, <1>4, InvMeans, LocalFields DEF Offsets
<1>8. /\ LexerInv' /\ Moves /\ pc' = place /\ local' = Started
      /\ token' = token /\ m_lastToken' = m_lastToken /\ calls' = calls
  BY <1>3, <1>4, <1>5, <1>6, <1>7, <1>1, GoOnStep
<1> QED
  BY <1>3, <1>4, <1>5, <1>8

LEMMA LineEnd ==
    ASSUME LexerInv
    PROVE  LET p == SkipWhile(pos, Characters \ LineTerminators) IN
           /\ p \in pos .. Len(text) /\ Plain(pos, p) /\ CharAt(p) \in LineTerminators \cup {"end"}
           /\ CharAt(p) = "end" <=> p = Len(text)
<1> DEFINE p == SkipWhile(pos, Characters \ LineTerminators)
<1>1. (Characters \ LineTerminators) \cap (LineTerminators \cup {"end"}) = {}
  BY NoEndInCharacters
<1>2. p \in pos .. Len(text) /\ CharAt(p) \notin Characters \ LineTerminators /\ Plain(pos, p)
  BY <1>1, InvMeans, PlainSkip
<1>3. p \in Nat
  BY <1>2, InvMeans
<1> HIDE DEF p
<1>4. CharAt(p) = "end" \/ CharAt(p) \in Characters
  BY <1>3, InvMeans, TextCharacters
<1>5. CharAt(p) = "end" <=> p = Len(text)
  BY <1>2, <1>3, InvMeans, TextCharacters
<1> QED
  BY <1>2, <1>4, <1>5 DEF p

LEMMA lexLineCommentStep ==
    ASSUME LexerInv, lexLineComment
    PROVE  /\ LexerInv' /\ Moves /\ text' = text /\ local'.from = local.from
           /\ \/ /\ pc' = "idle" /\ token' = "EOFTOK" /\ pos' = Len(text)
                 /\ local'.startOffset = local.startOffset /\ calls' = calls + 1
                 /\ m_lastToken' = m_lastToken /\ m_terminator' = m_terminator
                 /\ UNCHANGED <<m_error, m_buffer8, m_buffer16>>
              \/ /\ \E p \in pos .. Len(text) : lineBreakAt(p, local)
                                                /\ CharAt(p) \in LineTerminators /\ pos' > p
                 /\ IF lastTokenWasRestrKeyword
                    THEN /\ pc' = "idle" /\ token' = "SEMICOLON" /\ m_lastToken' = "SEMICOLON"
                         /\ local'.startOffset = local.startOffset /\ calls' = calls + 1
                    ELSE /\ pc' = "start" /\ token' = token /\ m_lastToken' = m_lastToken
                         /\ local' = local /\ calls' = calls
<1> DEFINE p == SkipWhile(pos, Characters \ LineTerminators)
<1>1. /\ p \in pos .. Len(text) /\ Plain(pos, p) /\ CharAt(p) \in LineTerminators \cup {"end"}
      /\ CharAt(p) = "end" <=> p = Len(text)
  BY LineEnd
<1>2. /\ pc = "inSingleLineComment"
      /\ \/ CharAt(p) # "end" /\ lineBreakAt(p, local)
         \/ /\ CharAt(p) = "end" /\ pos' = p /\ returnEnd(local)
            /\ UNCHANGED <<text, m_lineNumber, m_terminator, m_atLineStart, m_error, m_buffer8,
                           m_buffer16, value>>
  BY DEF lexLineComment
<1>3. /\ local \in Locals /\ local.from <= local.startOffset /\ local.startOffset <= pos
      /\ local.startOffset \in Nat /\ pos \in Nat
  BY <1>2, InvMeans, LocalFields DEF Offsets
<1> HIDE DEF p
<1>4. local.startOffset <= p
  BY <1>1, <1>3
<1>5. CASE CharAt(p) # "end" /\ lineBreakAt(p, local)
  <2>1. CharAt(p) \in LineTerminators
    BY <1>1, <1>5
  <2> QED
    BY <1>1, <1>3, <1>4, <1>5, <2>1, lineBreakStep
<1>6. CASE CharAt(p) = "end" /\ pos' = p /\ returnEnd(local)
           /\ UNCHANGED <<text, m_lineNumber, m_terminator, m_atLineStart, m_error, m_buffer8,
                          m_buffer16, value>>
  <2>1. BufferTypes' /\ FlagTypes'
    BY <1>6, InvMeans DEF BufferTypes, FlagTypes
  <2>2. "EOFTOK" \in Tokens
    BY DEF Tokens
  <2>3. /\ LexerInv' /\ Moves /\ pc' = "idle" /\ token' = "EOFTOK"
        /\ local'.from = local.from /\ local'.startOffset = local.startOffset
        /\ calls' = calls + 1
    BY <1>1, <1>3, <1>4, <1>6, <2>1, <2>2, ReturnStep
  <2> QED
    BY <1>1, <1>6, <2>3 DEF returnEnd
<1> QED
  BY <1>2, <1>5, <1>6

LEMMA unterminatedCommentStep ==
    ASSUME LexerInv, unterminatedComment
    PROVE  /\ LexerInv' /\ Moves /\ text' = text /\ pos' = pos /\ pc' = "idle"
           /\ local'.from = local.from /\ local'.startOffset = local.startOffset
           /\ calls' = calls + 1
<1>1. /\ text' = text /\ pos' = pos /\ m_lineNumber' = m_lineNumber /\ returnError(local)
      /\ pc = "inComment"
  BY DEF unterminatedComment
<1>2. BufferTypes' /\ FlagTypes'
  BY <1>1, InvMeans DEF unterminatedComment, returnError, BufferTypes, FlagTypes
<1>3. /\ local \in Locals /\ local.from <= local.startOffset /\ local.startOffset <= pos
  BY <1>1, InvMeans DEF Offsets
<1>4. pos \in pos .. Len(text) /\ Plain(pos, pos) /\ "ERRORTOK" \in Tokens
  BY InvMeans, PlainNothing DEF Tokens
<1> QED
  BY <1>1, <1>2, <1>3, <1>4, ReturnStep

LEMMA lexMultilineCommentStep ==
    ASSUME LexerInv, lexMultilineComment
    PROVE  /\ LexerInv' /\ Moves /\ text' = text /\ pos' > pos /\ pc' \in {"start", "inComment"}
           /\ local' = local /\ pc = "inComment"
           /\ token' = token /\ m_lastToken' = m_lastToken /\ calls' = calls
<1>1. /\ pc = "inComment" /\ text' = text /\ BufferTypes' /\ FlagTypes'
  BY InvMeans DEF lexMultilineComment, BufferTypes, FlagTypes
<1>2. /\ local \in Locals /\ local.from <= local.startOffset /\ local.startOffset <= pos
      /\ local.startOffset \in Nat /\ local.from \in Nat /\ pos \in Nat
  BY <1>1, InvMeans, LocalFields DEF Offsets
<1>3. "start" \in Places /\ "inComment" \in Places
  BY DEF Places
<1>4. CASE m_current = "*" /\ peek(1) = "/" /\ pos' = pos + 2 /\ GoOn("start", local)
           /\ UNCHANGED m_lineNumber
  <2>1. CharAt(pos) = "*" /\ CharAt(pos + 1) = "/"
    BY <1>4 DEF m_current, peek
  <2>2. pos + 1 \in 0 .. Len(text) /\ Plain(pos, pos + 1)
    BY <1>2, <2>1, InvMeans, Classes, PlainOver
  <2>3. (pos + 1) + 1 \in 0 .. Len(text) /\ Plain(pos + 1, (pos + 1) + 1)
    BY <1>2, <2>1, InvMeans, Classes, PlainOver
  <2>4. (pos + 1) + 1 = pos + 2
    BY <1>2
  <2>5. Plain(pos, pos + 2) /\ pos + 2 \in pos .. Len(text)
    BY <1>2, <2>2, <2>3, <2>4, PlainJoin
  <2>6. local.from <= pos' /\ local.startOffset <= pos' /\ pos' > pos
    BY <1>2, <1>4
  <2> QED
    BY <1>1, <1>2, <1>3, <1>4, <2>5, <2>6, GoOnStep
<1>5. CASE m_current \in LineTerminators /\ pos' = AfterLineTerminator(pos)
           /\ m_lineNumber' = m_lineNumber + 1 /\ GoOn("inComment", local)
  <2>1. CharAt(pos) \in LineTerminators /\ pos \in pos .. Len(text) /\ Plain(pos, pos)
    BY <1>2, <1>5, InvMeans, PlainNothing DEF m_current
  <2>2. pos' \in pos + 1 .. Len(text)
    BY <1>2, <1>5, <2>1, InvMeans, AfterLineTerminatorBounds
  <2>3. local.startOffset <= pos'
    BY <1>2, <2>2
  <2> QED
    BY <1>1, <1>2, <1>3, <1>5, <2>1, <2>3, GoOnOverBreak
<1>6. CASE m_current \notin LineTerminators \cup {"end"} /\ pos' = pos + 1
           /\ GoOn("inComment", local) /\ UNCHANGED m_lineNumber
  <2>1. pos + 1 \in pos .. Len(text) /\ Plain(pos, pos + 1)
    BY <1>2, <1>6, InvMeans, PlainOver DEF m_current
  <2>2. local.from <= pos' /\ local.startOffset <= pos' /\ pos' > pos
    BY <1>2, <1>6
  <2> QED
    BY <1>1, <1>2, <1>3, <1>6, <2>1, <2>2, GoOnStep
<1> QED
  BY <1>4, <1>5, <1>6 DEF lexMultilineComment

LEMMA AutomaticIsAToken ==
    ASSUME NEW t \in Tokens
    PROVE  Automatic(t) \in Tokens
BY DEF Automatic, Tokens, UnaryOps

LEMMA lexOperatorStep ==
    ASSUME LexerInv, lexOperator
    PROVE  /\ LexerInv' /\ Moves /\ text' = text /\ pos' > TokenStart /\ pc' = "idle"
           /\ Plain(pos, pos')
           /\ local'.from = local.from /\ local'.startOffset = TokenStart
           /\ \E op \in Operators : token' = Automatic(op[2])
           /\ calls' = calls + 1 /\ m_lastToken' = token'
<1>1. PICK op \in Operators : /\ StartsWith(TokenStart, op[1])
                              /\ pos' = TokenStart + Len(op[1])
                              /\ returnToken(Automatic(op[2]), Started)
  BY DEF lexOperator
<1>2. /\ TokenStart \in pos .. Len(text) /\ Plain(pos, TokenStart) /\ Started \in Locals
      /\ Started.from = local.from /\ Started.startOffset = TokenStart /\ TokenStart \in Nat
  BY TokenStartBounds
<1>3. op[1] \in Seq(Marks) /\ Len(op[1]) \in 1 .. 4
  BY Spellings DEF IsSpelling
<1>4. Plain(TokenStart, pos') /\ pos' \in TokenStart .. Len(text)
  BY <1>1, <1>2, <1>3, InvMeans, MarksArePlain
<1>5. pos' \in pos .. Len(text) /\ Plain(pos, pos') /\ pos' > TokenStart
  <2>1. pos \in Nat /\ pos' \in Nat /\ pos <= TokenStart /\ TokenStart <= pos'
        /\ pos' <= Len(text)
    BY <1>2, <1>4, InvMeans
  <2>2. Plain(pos, pos')
    BY <1>2, <1>4, <2>1, PlainJoin
  <2>3. pos' > TokenStart
    <3>1. pos' = TokenStart + Len(op[1])
      BY <1>1
    <3>2. TokenStart \in Nat
      BY <1>2
    <3>3. Len(op[1]) \in Nat /\ Len(op[1]) >= 1
      BY <1>3
    <3> QED
      BY <3>1, <3>2, <3>3
  <2> QED
    BY <1>2, <2>1, <2>2, <2>3, InvMeans
<1>6. /\ text' = text /\ m_lineNumber' = m_lineNumber /\ BufferTypes' /\ FlagTypes'
  BY InvMeans DEF lexOperator, BufferTypes, FlagTypes
<1>7. Automatic(op[2]) \in Tokens
  BY OperatorsAreTokens, AutomaticIsAToken
<1>8. Started.from <= Started.startOffset /\ Started.startOffset <= pos'
  BY <1>2, <1>4, InvMeans, LocalFields DEF Offsets
<1>9. /\ LexerInv' /\ Moves /\ pc' = "idle" /\ token' = Automatic(op[2])
      /\ local'.from = Started.from /\ local'.startOffset = Started.startOffset
      /\ calls' = calls + 1
  BY <1>1, <1>2, <1>5, <1>6, <1>7, <1>8, ReturnStep
<1> QED
  BY <1>1, <1>2, <1>5, <1>6, <1>9 DEF returnToken

LEMMA lexNumberStep ==
    ASSUME LexerInv, lexNumber
    PROVE  /\ LexerInv' /\ Moves /\ text' = text /\ pos' > TokenStart /\ pc' = "idle"
           /\ Plain(pos, pos')
           /\ local'.from = local.from /\ local'.startOffset = TokenStart
           /\ \/ token' = "NUMBER" /\ m_lastToken' = "NUMBER" /\ m_buffer8' = <<>>
                 /\ m_error' = m_error
              \/ token' = "ERRORTOK" /\ m_error' = TRUE
           /\ calls' = calls + 1
<1> DEFINE r == parseNumber(TokenStart)
<1>1. /\ TokenStart \in pos .. Len(text) /\ Plain(pos, TokenStart) /\ Started \in Locals
      /\ Started.from = local.from /\ Started.startOffset = TokenStart /\ TokenStart \in Nat
  BY TokenStartBounds
<1>2. ReadsFrom(TokenStart, r) /\ r.pos > TokenStart
  BY <1>1, InvMeans, parseNumberReads DEF lexNumber, First
<1>3. /\ text' = text /\ m_lineNumber' = m_lineNumber /\ m_terminator' = m_terminator
      /\ m_buffer16' = m_buffer16 /\ pos' = r.pos
      /\ IF r.value.chars = <<"error">> \/ CharAt(r.pos) \in IdentStart
         THEN /\ returnError(Started) /\ m_buffer8' = r.buffer8
              /\ UNCHANGED <<m_atLineStart, value>>
         ELSE /\ returnToken("NUMBER", Started) /\ m_buffer8' = <<>> /\ value' = r.value
              /\ m_atLineStart' = FALSE /\ UNCHANGED m_error
  BY DEF lexNumber
<1> HIDE DEF r
<1>4. /\ r.pos \in TokenStart .. Len(text) /\ Plain(TokenStart, r.pos)
      /\ r.buffer8 \in Seq(Characters) /\ r.value \in ReadValues
  BY <1>2, ReadingsAreReads DEF ReadsFrom
<1>5. pos' \in pos .. Len(text) /\ Plain(pos, pos') /\ pos' > TokenStart
  <2>1. pos \in Nat /\ r.pos \in Nat
    BY <1>1, <1>4, InvMeans
  <2> QED
    BY <1>1, <1>2, <1>3, <1>4, <2>1, InvMeans, PlainJoin
<1>6. Started.from <= Started.startOffset /\ Started.startOffset <= pos'
  BY <1>1, <1>5, InvMeans, LocalFields DEF Offsets
<1>7. "NUMBER" \in Tokens /\ "ERRORTOK" \in Tokens
  BY DEF Tokens
<1>8. CASE r.value.chars = <<"error">> \/ CharAt(r.pos) \in IdentStart
  <2>1. returnError(Started) /\ m_buffer8' = r.buffer8 /\ UNCHANGED <<m_atLineStart, value>>
    BY <1>3, <1>8
  <2>2. BufferTypes'
    BY <1>3, <1>4, <2>1, InvMeans DEF BufferTypes
  <2> FlagTypes'
    <3>1. m_terminator' = m_terminator /\ m_atLineStart' = m_atLineStart /\ m_error' = TRUE
      BY <1>3, <2>1 DEF returnError
    <3> QED
      BY <3>1, InvMeans DEF FlagTypes
  <2>3. /\ LexerInv' /\ Moves /\ pc' = "idle" /\ token' = "ERRORTOK"
        /\ local'.from = Started.from /\ local'.startOffset = Started.startOffset
        /\ calls' = calls + 1
    BY <1>1, <1>3, <1>5, <1>6, <1>7, <2>1, <2>2, ReturnStep
  <2> QED
    BY <1>1, <1>3, <1>5, <2>1, <2>3 DEF returnError
<1>9. CASE ~(r.value.chars = <<"error">> \/ CharAt(r.pos) \in IdentStart)
  <2>1. /\ returnToken("NUMBER", Started) /\ m_buffer8' = <<>> /\ value' = r.value
        /\ m_atLineStart' = FALSE /\ UNCHANGED m_error
    BY <1>3, <1>9
  <2>2. value' \in Values
    BY <1>4, <1>9, <2>1 DEF Values, ReadValues
  <2>3. BufferTypes'
    <3>1. m_buffer16' = m_buffer16 /\ m_buffer8' = <<>>
      BY <1>3, <2>1
    <3> QED
      BY <2>2, <3>1, InvMeans DEF BufferTypes
  <2> FlagTypes'
    <3>1. m_terminator' = m_terminator /\ m_atLineStart' = FALSE /\ m_error' = m_error
      BY <1>3, <2>1
    <3> QED
      BY <3>1, InvMeans DEF FlagTypes
  <2>4. /\ LexerInv' /\ Moves /\ pc' = "idle" /\ token' = "NUMBER"
        /\ local'.from = Started.from /\ local'.startOffset = Started.startOffset
        /\ calls' = calls + 1
    BY <1>1, <1>3, <1>5, <1>6, <1>7, <2>1, <2>3, ReturnStep
  <2> QED
    BY <1>1, <1>3, <1>5, <2>1, <2>4 DEF returnToken
<1> QED
  BY <1>8, <1>9

LEMMA lexIdentifierStep ==
    ASSUME LexerInv, lexIdentifier
    PROVE  /\ LexerInv' /\ Moves /\ text' = text /\ pos' = TokenStart /\ pc' = "inIdentifier"
           /\ Plain(pos, pos')
           /\ local'.from = local.from /\ local'.startOffset = TokenStart
           /\ local'.before = local.before /\ local'.reserved = local.reserved
           /\ token' = token /\ m_lastToken' = m_lastToken /\ calls' = calls
<1> DEFINE l == [Started EXCEPT !.chunk = TokenStart]
<1>1. /\ TokenStart \in pos .. Len(text) /\ Plain(pos, TokenStart) /\ Started \in Locals
      /\ Started.from = local.from /\ Started.startOffset = TokenStart /\ TokenStart \in Nat
      /\ Started.before = local.before /\ Started.reserved = local.reserved
  BY TokenStartBounds
<1>2. /\ l \in Locals /\ l.from = local.from /\ l.startOffset = TokenStart /\ l.chunk = TokenStart
      /\ l.before = local.before /\ l.reserved = local.reserved
  BY <1>1 DEF Locals
<1>3. /\ text' = text /\ pos' = TokenStart /\ m_lineNumber' = m_lineNumber
      /\ BufferTypes' /\ FlagTypes' /\ GoOn("inIdentifier", l)
  BY InvMeans DEF lexIdentifier, BufferTypes, FlagTypes
<1>4. "inIdentifier" \in Places
  BY DEF Places
<1> HIDE DEF l
<1>5. /\ l.from <= l.startOffset /\ l.startOffset <= pos' /\ l.from <= pos' /\ l.chunk <= pos'
  BY <1>1, <1>2, <1>3, InvMeans, LocalFields DEF Offsets
<1>6. /\ LexerInv' /\ Moves /\ pc' = "inIdentifier" /\ local' = l
      /\ token' = token /\ m_lastToken' = m_lastToken /\ calls' = calls
  BY <1>1, <1>2, <1>3, <1>4, <1>5, GoOnStep
<1> QED
  BY <1>1, <1>2, <1>3, <1>6

LEMMA CopiedIsText ==
    ASSUME LexerInv, pc \in {"inIdentifier", "inString"}, NEW p \in pos .. Len(text)
    PROVE  Copied(p) \in Seq(UChar) /\ Between(local.chunk, p) \in Seq(UChar)
<1>1. local.chunk \in 0 .. Len(text) /\ p \in local.chunk .. Len(text)
  BY InvMeans, LocalFields DEF Offsets
<1>2. Between(local.chunk, p) \in Seq(UChar) /\ m_buffer16 \in Seq(UChar)
  BY <1>1, InvMeans, BetweenText DEF BufferTypes
<1> QED
  BY <1>2 DEF Copied

LEMMA KeywordIsAToken ==
    ASSUME NEW name
    PROVE  Keyword(name) \in Keywords \cup {"IDENT"} /\ Keyword(name) \in Tokens
BY DEF Keyword, Tokens, Keywords

LEMMA parseIdentifierStep ==
    ASSUME LexerInv, parseIdentifier
    PROVE  /\ LexerInv' /\ Moves /\ text' = text /\ pos' >= pos /\ Plain(pos, pos')
           /\ m_lineNumber' = m_lineNumber
           /\ local'.from = local.from /\ local'.startOffset = local.startOffset
           /\ \/ /\ pc' = "inIdentifier" /\ token' = token /\ m_lastToken' = m_lastToken
                 /\ pos' > pos /\ m_error' = m_error
                 /\ calls' = calls /\ local'.before = local.before
                 /\ local'.reserved = local.reserved
              \/ /\ pc' = "idle" /\ calls' = calls + 1 /\ m_lastToken' = token'
                 /\ \/ token' = "ERRORTOK" /\ pos' > pos
                    \/ /\ token' \in Keywords \cup {"IDENT"} /\ m_buffer16' = <<>>
                       /\ ~local.reserved => token' = "IDENT"
                       /\ pos' = SkipWhile(pos, IdentPart)
                       /\ CharAt(SkipWhile(pos, IdentPart)) # "\\"
<1> DEFINE p == SkipWhile(pos, IdentPart)
           character == getUnicodeCharacter(p + 2)
           escape == CharAt(p) = "\\"
           legal == /\ CharAt(p + 1) = "u" /\ character # "none"
                    /\ character \in (IF Copied(p) = <<>> THEN EscapedIdentStart ELSE EscapedIdentPart)
           name == IF local.bufferRequired THEN Copied(p) ELSE Between(local.chunk, p)
           t == IF ~local.bufferRequired /\ local.reserved THEN Keyword(name) ELSE "IDENT"
<1>1. /\ pc = "inIdentifier" /\ text' = text /\ m_lineNumber' = m_lineNumber
      /\ m_terminator' = m_terminator /\ m_error' = m_error /\ m_buffer8' = m_buffer8
      /\ \/ /\ escape /\ legal /\ pos' = p + 6 /\ m_buffer16' = Append(Copied(p), character)
            /\ GoOn("inIdentifier", identifierEscape(local, p + 6))
            /\ UNCHANGED <<m_atLineStart, value>>
         \/ /\ escape /\ ~legal
            /\ pos' = IF CharAt(p + 1) # "u" THEN p + 1
                      ELSE IF character = "none" THEN p + 2 ELSE p + 6
            /\ m_buffer16' = Copied(p) /\ returnToken("ERRORTOK", local)
            /\ m_atLineStart' = FALSE /\ UNCHANGED value
         \/ /\ ~escape /\ pos' = p /\ m_buffer16' = <<>>
            /\ value' = [radix |-> 0, chars |-> name]
            /\ returnToken(t, local) /\ m_atLineStart' = FALSE
  BY DEF parseIdentifier
<1>2. /\ local \in Locals /\ local.from <= local.startOffset /\ local.startOffset <= pos
      /\ local.startOffset \in Nat /\ local.from \in Nat /\ pos \in Nat
      /\ text \in Seq(Characters) /\ Len(text) \in Nat
  BY <1>1, InvMeans, LocalFields DEF Offsets
<1>3. p \in pos .. Len(text) /\ Plain(pos, p) /\ p \in Nat /\ p >= pos
  BY <1>2, InvMeans, PlainSkip, NoClassHasABreak
<1>4. Copied(p) \in Seq(UChar) /\ name \in Seq(UChar)
  BY <1>1, <1>3, CopiedIsText
<1>5. /\ t \in Keywords \cup {"IDENT"} /\ t \in Tokens
      /\ ~local.reserved => t = "IDENT"
  BY KeywordIsAToken DEF Tokens
<1>6. "inIdentifier" \in Places /\ "ERRORTOK" \in Tokens
  BY DEF Places, Tokens
<1>7. escape => p + 1 \in 0 .. Len(text) /\ Plain(p, p + 1)
  BY <1>2, <1>3, Classes, PlainOver
<1>8. escape /\ CharAt(p + 1) = "u" => p + 2 \in 0 .. Len(text) /\ Plain(p, p + 2)
  <2>1. SUFFICES ASSUME escape, CharAt(p + 1) = "u"
                 PROVE  p + 2 \in 0 .. Len(text) /\ Plain(p, p + 2)
    OBVIOUS
  <2>2. p + 1 \in Nat /\ p + 1 \in 0 .. Len(text) /\ Plain(p, p + 1)
    BY <1>3, <1>7, <2>1
  <2>3. (p + 1) + 1 \in 0 .. Len(text) /\ Plain(p + 1, (p + 1) + 1)
    BY <1>2, <2>1, <2>2, Classes, PlainOver
  <2>4. (p + 1) + 1 = p + 2
    BY <1>3
  <2> QED
    BY <1>3, <2>2, <2>3, <2>4, PlainJoin
<1>9. /\ escape /\ CharAt(p + 1) = "u" /\ character # "none" =>
         /\ p + 6 \in 0 .. Len(text) /\ Plain(p, p + 6) /\ character \in UChar
  <2>1. SUFFICES ASSUME escape, CharAt(p + 1) = "u", character # "none"
                 PROVE  p + 6 \in 0 .. Len(text) /\ Plain(p, p + 6) /\ character \in UChar
    OBVIOUS
  <2>2. p + 2 \in Nat /\ Plain(p, p + 2)
    BY <1>3, <1>8, <2>1
  <2>3. /\ (p + 2) + 4 \in 0 .. Len(text) /\ Plain(p + 2, (p + 2) + 4)
        /\ character \in UChar
    BY <1>2, <2>1, <2>2, getUnicodeCharacterReads
  <2>4. (p + 2) + 4 = p + 6
    BY <1>3
  <2> QED
    BY <1>3, <2>2, <2>3, <2>4, PlainJoin
<1>10. legal => character # "none"
  OBVIOUS
<1>11. FlagTypes'
  <2>1. m_atLineStart' \in {m_atLineStart, FALSE} /\ m_terminator' = m_terminator /\ m_error' = m_error
    BY <1>1
  <2> QED
    BY <2>1, InvMeans DEF FlagTypes
<1>12. m_buffer8' \in Seq(Characters) /\ value \in Values
  BY <1>1, InvMeans DEF BufferTypes
<1> DEFINE q == p + 6
<1> HIDE DEF p, character, escape, legal, name, t, q
<1>13. CASE /\ escape /\ legal /\ pos' = p + 6 /\ m_buffer16' = Append(Copied(p), character)
            /\ GoOn("inIdentifier", identifierEscape(local, p + 6))
            /\ UNCHANGED <<m_atLineStart, value>>
  <2>1. p + 6 \in 0 .. Len(text) /\ Plain(p, p + 6) /\ character \in UChar
    BY <1>9, <1>10, <1>13 DEF legal
  <2>2. pos' \in pos .. Len(text) /\ Plain(pos, pos') /\ pos' \in Nat
    BY <1>2, <1>3, <1>13, <2>1, PlainJoin
  <2>3. BufferTypes'
    BY <1>4, <1>12, <1>13, <2>1 DEF BufferTypes
  <2> DEFINE l == identifierEscape(local, p + 6)
  <2>4. /\ l \in Locals /\ l.from = local.from /\ l.startOffset = local.startOffset
        /\ l.chunk = pos' /\ l.before = local.before /\ l.reserved = local.reserved
    BY <1>2, <1>13, <2>2 DEF identifierEscape, Locals
  <2> HIDE DEF l
  <2>5. GoOn("inIdentifier", l)
    BY <1>13 DEF l
  <2>6. l.from <= pos' /\ l.startOffset <= pos' /\ l.chunk <= pos' /\ l.from <= l.startOffset
    BY <1>2, <2>2, <2>4
  <2>7. /\ LexerInv' /\ Moves /\ pc' = "inIdentifier" /\ local' = l
        /\ token' = token /\ m_lastToken' = m_lastToken /\ calls' = calls
    BY <1>1, <1>6, <1>11, <2>2, <2>3, <2>4, <2>5, <2>6, GoOnStep
  <2>8. pos' > pos
    BY <1>2, <1>3, <1>13
  <2> QED
    BY <1>1, <1>2, <2>2, <2>4, <2>7, <2>8
<1>14. CASE /\ escape /\ ~legal
            /\ pos' = IF CharAt(p + 1) # "u" THEN p + 1
                      ELSE IF character = "none" THEN p + 2 ELSE p + 6
            /\ m_buffer16' = Copied(p) /\ returnToken("ERRORTOK", local)
            /\ m_atLineStart' = FALSE /\ UNCHANGED value
  <2>1. pos' \in 0 .. Len(text) /\ Plain(p, pos') /\ pos' \in {p + 1, p + 2, p + 6}
    BY <1>7, <1>8, <1>9, <1>14
  <2>2. pos' \in pos .. Len(text) /\ Plain(pos, pos') /\ pos' \in Nat /\ pos' > pos
    <3>1. p <= pos' /\ pos' > pos /\ pos' \in Nat
      BY <1>2, <1>3, <2>1
    <3> QED
      BY <1>2, <1>3, <2>1, <3>1, PlainJoin
  <2>3. BufferTypes'
    BY <1>4, <1>12, <1>14 DEF BufferTypes
  <2>4. local.startOffset <= pos'
    BY <1>2, <2>2
  <2>5. /\ LexerInv' /\ Moves /\ pc' = "idle" /\ token' = "ERRORTOK"
        /\ local'.from = local.from /\ local'.startOffset = local.startOffset
        /\ calls' = calls + 1
    BY <1>1, <1>2, <1>6, <1>11, <1>14, <2>2, <2>3, <2>4, ReturnStep
  <2> QED
    BY <1>1, <1>14, <2>2, <2>5 DEF returnToken
<1>15. CASE /\ ~escape /\ pos' = p /\ m_buffer16' = <<>>
            /\ value' = [radix |-> 0, chars |-> name]
            /\ returnToken(t, local) /\ m_atLineStart' = FALSE
  <2>1. BufferTypes'
    BY <1>4, <1>12, <1>15 DEF BufferTypes, Values
  <2>2. local.startOffset <= pos' /\ t \in Tokens
    BY <1>2, <1>3, <1>5, <1>15
  <2>3. pos' \in pos .. Len(text) /\ Plain(pos, pos')
    BY <1>3, <1>15
  <2>4. /\ LexerInv' /\ Moves /\ pc' = "idle" /\ token' = t
        /\ local'.from = local.from /\ local'.startOffset = local.startOffset
        /\ calls' = calls + 1
    BY <1>1, <1>2, <1>11, <1>15, <2>1, <2>2, <2>3, ReturnStep
  <2>5. pos' = SkipWhile(pos, IdentPart) /\ CharAt(SkipWhile(pos, IdentPart)) # "\\"
    BY <1>15 DEF p, escape
  <2> QED
    BY <1>1, <1>3, <1>5, <1>15, <2>4, <2>5 DEF returnToken
<1> QED
  BY <1>1, <1>13, <1>14, <1>15

LEMMA lexStringStep ==
    ASSUME LexerInv, lexString
    PROVE  /\ LexerInv' /\ Moves /\ text' = text /\ pos' = TokenStart + 1 /\ pc' = "inString"
           /\ Plain(pos, pos')
           /\ local'.from = local.from /\ local'.startOffset = TokenStart
           /\ local'.before = local.before /\ local'.reserved = local.reserved
           /\ token' = token /\ m_lastToken' = m_lastToken /\ calls' = calls
<1> DEFINE l == [Started EXCEPT !.quote = First, !.chunk = TokenStart + 1]
<1>1. /\ TokenStart \in pos .. Len(text) /\ Plain(pos, TokenStart) /\ Started \in Locals
      /\ Started.from = local.from /\ Started.startOffset = TokenStart /\ TokenStart \in Nat
      /\ Started.before = local.before /\ Started.reserved = local.reserved
  BY TokenStartBounds
<1>2. First \in Quotes
  BY DEF lexString
<1>3. /\ l \in Locals /\ l.from = local.from /\ l.startOffset = TokenStart
      /\ l.chunk = TokenStart + 1
      /\ l.before = local.before /\ l.reserved = local.reserved
  <2>1. First \in Quotes \cup {"none"} /\ TokenStart + 1 \in Nat
    BY <1>1, <1>2
  <2> DEFINE r == Started  f == First  k == TokenStart + 1
  <2>2. /\ r \in Locals /\ f \in Quotes \cup {"none"} /\ k \in Nat
        /\ l = [r EXCEPT !.quote = f, !.chunk = k]
    BY <1>1, <2>1
  <2> HIDE DEF r, f, k, l
  <2>3. /\ l \in Locals /\ l.from = r.from /\ l.startOffset = r.startOffset
        /\ l.chunk = k /\ l.before = r.before /\ l.reserved = r.reserved
    BY <2>2 DEF Locals
  <2> QED
    BY <1>1, <2>3 DEF r, k
<1>4. /\ text' = text /\ pos' = TokenStart + 1 /\ m_lineNumber' = m_lineNumber
      /\ BufferTypes' /\ FlagTypes' /\ GoOn("inString", l)
  BY InvMeans DEF lexString, BufferTypes, FlagTypes
<1>5. TokenStart + 1 \in 0 .. Len(text) /\ Plain(TokenStart, TokenStart + 1)
  <2>1. CharAt(TokenStart) \notin LineTerminators \cup {"end"}
    BY <1>2, Classes DEF First
  <2> QED
    BY <1>1, <2>1, InvMeans, PlainOver
<1>6. pos' \in pos .. Len(text) /\ Plain(pos, pos')
  <2>1. pos \in Nat /\ pos <= TokenStart /\ TokenStart <= TokenStart + 1
        /\ TokenStart + 1 \in Nat /\ TokenStart + 1 \in pos .. Len(text)
    BY <1>1, <1>5, InvMeans
  <2> QED
    BY <1>1, <1>4, <1>5, <2>1, PlainJoin
<1>7. "inString" \in Places
  BY DEF Places
<1> HIDE DEF l
<1>8. l.from <= l.startOffset /\ l.startOffset <= pos' /\ l.from <= pos' /\ l.chunk <= pos'
  BY <1>1, <1>3, <1>4, InvMeans, LocalFields DEF Offsets
<1>9. /\ LexerInv' /\ Moves /\ pc' = "inString" /\ local' = l
      /\ token' = token /\ m_lastToken' = m_lastToken /\ calls' = calls
  BY <1>3, <1>4, <1>6, <1>7, <1>8, GoOnStep
<1> QED
  BY <1>3, <1>4, <1>6, <1>9

\* A line continuation is an escape that ends after the line break.
LEMMA LineContinuation ==
    ASSUME NEW p \in Nat, CharAt(p) \in LineTerminators
    PROVE  StringEscape(p) = Escape(AfterLineTerminator(p), <<>>)
<1> DEFINE c == CharAt(p)
           hex == CharAt(p + 1) \in HexDigits /\ CharAt(p + 2) \in HexDigits
           character == getUnicodeCharacter(p + 1)
           octal(k) == CharAt(p + k) \in OctalDigits
           three == c \in {"0", "3"} /\ octal(2)
<1>1. c # "x" /\ c # "u" /\ c \in LineTerminators
  BY Classes
<1>2. ~octal(0)
  <2>1. c = CharAt(p + 0)
    OBVIOUS
  <2> QED
    BY <1>1, <2>1, NoClassHasABreak
<1>3. StringEscape(p) =
        CASE c \in LineTerminators -> Escape(AfterLineTerminator(p), <<>>)
          [] c = "x" /\ hex -> Escape(p + 3, <<Char(convertHex(CharAt(p + 1), CharAt(p + 2)))>>)
          [] c = "u" /\ character # "none" -> Escape(p + 5, <<character>>)
          [] octal(0) /\ ~octal(1) -> OctalEscape(p, 1)
          [] octal(0) /\ octal(1) -> OctalEscape(p, IF three THEN 3 ELSE 2)
          [] OTHER -> Escape(p + 1, <<singleEscape(c)>>)
  BY Zenon DEF StringEscape
<1> HIDE DEF c, hex, character, octal, three
<1> QED
  BY <1>1, <1>2, <1>3

LEMMA parseStringStep ==
    ASSUME LexerInv, parseString
    PROVE  /\ LexerInv' /\ Moves /\ text' = text /\ pos' >= pos
           /\ local'.from = local.from /\ local'.startOffset = local.startOffset
           /\ \/ /\ pc' = "inString" /\ token' = token /\ m_lastToken' = m_lastToken
                 /\ calls' = calls /\ local'.before = local.before
                 /\ local'.reserved = local.reserved /\ m_error' = m_error
              \/ /\ pc' = "idle" /\ calls' = calls + 1
                 /\ \/ token' = "ERRORTOK" /\ m_error' = TRUE
                    \/ /\ token' = "STRING" /\ m_lastToken' = "STRING" /\ m_buffer16' = <<>>
                       /\ m_error' = m_error
<1> DEFINE p == SkipWhile(pos, Characters \ ({local.quote, "\\"} \cup LineTerminators))
           e == StringEscape(p + 1)
<1>1. /\ pc = "inString" /\ text' = text /\ m_terminator' = m_terminator
      /\ m_buffer8' = m_buffer8
      /\ \/ /\ CharAt(p) = local.quote /\ pos' = p + 1 /\ m_buffer16' = <<>>
            /\ value' = [radix |-> 0, chars |-> Copied(p)]
            /\ returnToken("STRING", local) /\ m_atLineStart' = FALSE
            /\ UNCHANGED <<m_lineNumber, m_error>>
         \/ /\ CharAt(p) \in LineTerminators \cup {"end"} /\ pos' = p /\ returnError(local)
            /\ UNCHANGED <<m_lineNumber, m_atLineStart, m_buffer16, value>>
         \/ /\ CharAt(p) = "\\" /\ BadEscape(p + 1, local.quote)
            /\ pos' = (IF CharAt(p + 1) = "end" THEN p + 1 ELSE p + 2)
            /\ m_buffer16' = Copied(p) /\ returnError(local)
            /\ UNCHANGED <<m_lineNumber, m_atLineStart, value>>
         \/ /\ CharAt(p) = "\\" /\ ~BadEscape(p + 1, local.quote) /\ pos' = e.pos
            /\ m_buffer16' = Copied(p) \o e.chars
            /\ m_lineNumber' = (IF CharAt(p + 1) \in LineTerminators
                                THEN m_lineNumber + 1 ELSE m_lineNumber)
            /\ GoOn("inString", [local EXCEPT !.chunk = e.pos])
            /\ UNCHANGED <<m_atLineStart, m_error, value>>
  BY DEF parseString
<1>2. /\ local \in Locals /\ local.from <= local.startOffset /\ local.startOffset <= pos
      /\ local.startOffset \in Nat /\ local.from \in Nat /\ pos \in Nat
      /\ text \in Seq(Characters) /\ Len(text) \in Nat /\ local.quote \in Quotes \cup {"none"}
  BY <1>1, InvMeans, LocalFields DEF Offsets
<1>3. p \in pos .. Len(text) /\ Plain(pos, p) /\ p \in Nat /\ p >= pos
  <2>1. (Characters \ ({local.quote, "\\"} \cup LineTerminators))
          \cap (LineTerminators \cup {"end"}) = {}
    BY NoEndInCharacters
  <2>2. p \in pos .. Len(text) /\ Plain(pos, p)
    <3> DEFINE C == Characters \ ({local.quote, "\\"} \cup LineTerminators)
    <3>1. C \cap (LineTerminators \cup {"end"}) = {}
      BY <2>1
    <3> HIDE DEF C
    <3>2. SkipWhile(pos, C) \in pos .. Len(text) /\ Plain(pos, SkipWhile(pos, C))
      BY <3>1, InvMeans, PlainSkip
    <3> QED
      BY <3>2 DEF C
  <2> QED
    BY <1>2, <2>2
<1>4. Copied(p) \in Seq(UChar)
  BY <1>1, <1>3, CopiedIsText
<1>5. "inString" \in Places /\ "ERRORTOK" \in Tokens /\ "STRING" \in Tokens
  BY DEF Places, Tokens
<1>6. FlagTypes'
  <2>1. m_atLineStart' \in {m_atLineStart, FALSE} /\ m_terminator' = m_terminator
        /\ m_error' \in {m_error, TRUE}
    BY <1>1 DEF returnError
  <2> QED
    BY <2>1, InvMeans DEF FlagTypes
<1>7. m_buffer8' \in Seq(Characters) /\ value \in Values /\ m_buffer16 \in Seq(UChar)
  BY <1>1, InvMeans DEF BufferTypes
<1> HIDE DEF p, e
<1>8. CASE /\ CharAt(p) = local.quote /\ pos' = p + 1 /\ m_buffer16' = <<>>
           /\ value' = [radix |-> 0, chars |-> Copied(p)]
           /\ returnToken("STRING", local) /\ m_atLineStart' = FALSE
           /\ UNCHANGED <<m_lineNumber, m_error>>
  <2>1. CharAt(p) \notin LineTerminators \cup {"end"}
    <3>1. CharAt(p) # "none" \/ CharAt(p) \notin LineTerminators \cup {"end"}
      BY Classes DEF LineTerminators
    <3> QED
      BY <1>2, <1>8, <3>1, Classes
  <2>2. pos' \in pos .. Len(text) /\ Plain(pos, pos') /\ local.startOffset <= pos' /\ pos' >= pos
    <3>1. p + 1 \in 0 .. Len(text) /\ Plain(p, p + 1)
      BY <1>2, <1>3, <2>1, PlainOver
    <3> QED
      BY <1>2, <1>3, <1>8, <3>1, PlainJoin
  <2>3. BufferTypes'
    BY <1>4, <1>7, <1>8 DEF BufferTypes, Values
  <2>4. /\ LexerInv' /\ Moves /\ pc' = "idle" /\ token' = "STRING"
        /\ local'.from = local.from /\ local'.startOffset = local.startOffset
        /\ calls' = calls + 1
    BY <1>1, <1>2, <1>5, <1>6, <1>8, <2>2, <2>3, ReturnStep
  <2> QED
    BY <1>1, <1>8, <2>2, <2>4 DEF returnToken
<1>9. CASE /\ CharAt(p) \in LineTerminators \cup {"end"} /\ pos' = p /\ returnError(local)
           /\ UNCHANGED <<m_lineNumber, m_atLineStart, m_buffer16, value>>
  <2>1. BufferTypes'
    BY <1>7, <1>9 DEF BufferTypes
  <2>2. local.startOffset <= pos' /\ pos' \in pos .. Len(text) /\ Plain(pos, pos') /\ pos' >= pos
    BY <1>2, <1>3, <1>9
  <2>3. /\ LexerInv' /\ Moves /\ pc' = "idle" /\ token' = "ERRORTOK"
        /\ local'.from = local.from /\ local'.startOffset = local.startOffset
        /\ calls' = calls + 1
    BY <1>1, <1>2, <1>5, <1>6, <1>9, <2>1, <2>2, ReturnStep
  <2> QED
    BY <1>1, <1>9, <2>2, <2>3 DEF returnError
<1>10. CASE /\ CharAt(p) = "\\" /\ BadEscape(p + 1, local.quote)
            /\ pos' = (IF CharAt(p + 1) = "end" THEN p + 1 ELSE p + 2)
            /\ m_buffer16' = Copied(p) /\ returnError(local)
            /\ UNCHANGED <<m_lineNumber, m_atLineStart, value>>
  <2>1. p + 1 \in 0 .. Len(text) /\ Plain(p, p + 1) /\ p + 1 \in Nat
    BY <1>2, <1>3, <1>10, Classes, PlainOver
  <2>2. CharAt(p + 1) # "end" =>
          /\ (p + 1) + 1 \in 0 .. Len(text) /\ Plain(p + 1, (p + 1) + 1)
          /\ p + 2 = (p + 1) + 1
    <3>1. CharAt(p + 1) # "end" => CharAt(p + 1) = "u"
      BY <1>10 DEF BadEscape
    <3>2. p + 2 = (p + 1) + 1
      BY <1>3
    <3> QED
      BY <1>2, <2>1, <3>1, <3>2, Classes, PlainOver
  <2>3. Plain(p, pos') /\ pos' \in 0 .. Len(text) /\ pos' \in {p + 1, p + 2}
    BY <1>3, <1>10, <2>1, <2>2, PlainJoin
  <2>4. pos' \in pos .. Len(text) /\ Plain(pos, pos') /\ local.startOffset <= pos' /\ pos' >= pos
    BY <1>2, <1>3, <2>3, PlainJoin
  <2>5. BufferTypes'
    BY <1>4, <1>7, <1>10 DEF BufferTypes
  <2>6. m_lineNumber' = m_lineNumber /\ returnError(local)
    BY <1>10
  <2>7. /\ LexerInv' /\ Moves /\ pc' = "idle" /\ token' = "ERRORTOK"
        /\ local'.from = local.from /\ local'.startOffset = local.startOffset
        /\ calls' = calls + 1
    BY <1>1, <1>2, <1>5, <1>6, <2>4, <2>5, <2>6, ReturnStep
  <2> QED
    BY <1>1, <2>4, <2>6, <2>7 DEF returnError
<1>11. CASE /\ CharAt(p) = "\\" /\ ~BadEscape(p + 1, local.quote) /\ pos' = e.pos
            /\ m_buffer16' = Copied(p) \o e.chars
            /\ m_lineNumber' = (IF CharAt(p + 1) \in LineTerminators
                                THEN m_lineNumber + 1 ELSE m_lineNumber)
            /\ GoOn("inString", [local EXCEPT !.chunk = e.pos])
            /\ UNCHANGED <<m_atLineStart, m_error, value>>
  <2>1. p + 1 \in 0 .. Len(text) /\ Plain(p, p + 1) /\ p + 1 \in Nat
    BY <1>2, <1>3, <1>11, Classes, PlainOver
  <2>2. CharAt(p + 1) # "end"
    BY <1>11 DEF BadEscape
  <2>3. Plain(pos, p + 1) /\ p + 1 \in pos .. Len(text)
    BY <1>2, <1>3, <2>1, PlainJoin
  <2> DEFINE l == [local EXCEPT !.chunk = e.pos]
  <2>4. GoOn("inString", l)
    BY <1>11
  <2>5. CASE CharAt(p + 1) \in LineTerminators
    <3>1. e.pos = AfterLineTerminator(p + 1) /\ e.chars = <<>>
      BY <2>1, <2>5, LineContinuation DEF e, Escape
    <3>2. pos' \in (p + 1) + 1 .. Len(text)
      BY <1>2, <1>11, <2>1, <2>5, <3>1, AfterLineTerminatorBounds
    <3>3. BufferTypes'
      BY <1>4, <1>7, <1>11, <3>1 DEF BufferTypes
    <3>4. /\ l \in Locals /\ l.from = local.from /\ l.startOffset = local.startOffset
          /\ l.chunk = pos' /\ l.before = local.before /\ l.reserved = local.reserved
      <4>1. e.pos \in Nat /\ pos' = e.pos
        BY <1>2, <1>11, <2>1, <3>2
      <4> QED
        BY <1>2, <4>1 DEF Locals
    <3>5. l.startOffset <= pos' /\ l.chunk <= pos' /\ l.from <= l.startOffset /\ pos' >= pos
      BY <1>2, <1>3, <3>2, <3>4
    <3>6. pos' = AfterLineTerminator(p + 1) /\ m_lineNumber' = m_lineNumber + 1
      BY <1>11, <2>5, <3>1
    <3> HIDE DEF l
    <3>7. /\ LexerInv' /\ Moves /\ pc' = "inString" /\ local' = l
          /\ token' = token /\ m_lastToken' = m_lastToken /\ calls' = calls
      BY <1>1, <1>5, <1>6, <2>3, <2>4, <2>5, <3>3, <3>4, <3>5, <3>6, GoOnOverBreak
    <3> QED
      BY <1>1, <1>11, <3>4, <3>5, <3>7
  <2>6. CASE CharAt(p + 1) \notin LineTerminators
    <3>1. Escapes(p + 1, e) /\ Plain(p + 1, e.pos)
      BY <1>2, <2>1, <2>2, <2>6, StringEscapeReads DEF e
    <3>2. e.pos \in (p + 1) + 1 .. Len(text) /\ e.chars \in Seq(UChar)
      BY <3>1 DEF Escapes
    <3>3. pos' \in pos .. Len(text) /\ Plain(pos, pos') /\ pos' >= pos /\ pos' \in Nat
      BY <1>2, <1>3, <1>11, <2>1, <2>3, <3>1, <3>2, PlainJoin
    <3>4. BufferTypes'
      <4>1. Copied(p) \o e.chars \in Seq(UChar)
        BY <1>4, <3>2
      <4> QED
        BY <1>7, <1>11, <4>1 DEF BufferTypes
    <3>5. /\ l \in Locals /\ l.from = local.from /\ l.startOffset = local.startOffset
          /\ l.chunk = pos' /\ l.before = local.before /\ l.reserved = local.reserved
      BY <1>2, <1>11, <3>3 DEF Locals
    <3>6. l.startOffset <= pos' /\ l.chunk <= pos' /\ l.from <= l.startOffset /\ l.from <= pos'
      BY <1>2, <3>3, <3>5
    <3>7. m_lineNumber' = m_lineNumber
      BY <1>11, <2>6
    <3> HIDE DEF l
    <3>8. /\ LexerInv' /\ Moves /\ pc' = "inString" /\ local' = l
          /\ token' = token /\ m_lastToken' = m_lastToken /\ calls' = calls
      BY <1>1, <1>5, <1>6, <2>4, <3>3, <3>4, <3>5, <3>6, <3>7, GoOnStep
    <3> QED
      BY <1>1, <1>11, <3>3, <3>5, <3>8
  <2> QED
    BY <2>5, <2>6
<1> QED
  BY <1>1, <1>8, <1>9, <1>10, <1>11

-----------------------------------------------------------------------------
(* Patterns.                                                               *)

LEMMA scanRegExpStep ==
    ASSUME LexerInv, scanRegExp
    PROVE  /\ LexerInv' /\ Moves /\ text' = text /\ pos' = pos /\ pc' = "inRegExp"
           /\ local' = local /\ pc = "idle"
           /\ token' = token /\ m_lastToken' = m_lastToken /\ calls' = calls
<1>1. /\ pc = "idle" /\ text' = text /\ pos' = pos /\ m_lineNumber' = m_lineNumber
      /\ GoOn("inRegExp", local) /\ FlagTypes'
      /\ m_buffer16' \in {<<"=">>, <<>>} /\ m_buffer8' = m_buffer8 /\ value' = value
  BY InvMeans DEF scanRegExp, FlagTypes
<1>2. <<"=">> \in Seq(UChar)
  <2>1. "=" \in Characters
    <3>1. <<<<"=">>, "EQUAL">> \in Operators
      BY Zenon DEF Operators
    <3>2. "=" \in ToSet(<<"=">>)
      BY DEF ToSet
    <3>3. ToSet(<<"=">>) \in {ToSet(op[1]) : op \in Operators}
      <4>1. <<<<"=">>, "EQUAL">>[1] = <<"=">>
        OBVIOUS
      <4> QED
        BY <3>1, <4>1, Zenon
    <3> QED
      BY <3>2, <3>3, Zenon DEF Characters
  <2>2. "=" \in UChar
    BY <2>1, CharactersAreUChars
  <2> QED
    BY <2>2
<1>3. BufferTypes'
  <2>1. <<>> \in Seq(UChar)
    OBVIOUS
  <2>2. m_buffer16' \in Seq(UChar)
    BY <1>1, <1>2, <2>1, Zenon
  <2> QED
    BY <1>1, <2>2, InvMeans DEF BufferTypes
<1>4. "inRegExp" \in Places
  BY DEF Places
<1>5. pos' \in pos .. Len(text) /\ Plain(pos, pos')
  BY <1>1, InvMeans, PlainNothing
<1>6. local.from <= local.startOffset /\ local.startOffset <= pos' /\ local.from <= pos'
  BY <1>1, InvMeans DEF Offsets
<1>7. /\ LexerInv' /\ Moves /\ pc' = "inRegExp" /\ local' = local
      /\ token' = token /\ m_lastToken' = m_lastToken /\ calls' = calls
  BY <1>1, <1>3, <1>4, <1>5, <1>6, InvMeans, GoOnStep
<1> QED
  BY <1>1, <1>7

LEMMA readRegExpStep ==
    ASSUME LexerInv, readRegExp
    PROVE  /\ LexerInv' /\ Moves /\ text' = text /\ pos' >= pos /\ Plain(pos, pos')
           /\ pc = "inRegExp" /\ pc' \in {"inRegExp", "scanned"}
           /\ pc' = "scanned" => m_buffer16' = <<>>
           /\ local'.from = local.from /\ local'.startOffset = local.startOffset
           /\ token' = token /\ m_lastToken' = m_lastToken /\ calls' = calls
<1> DEFINE reset == [local EXCEPT !.lastWasEscape = FALSE, !.inBrackets = FALSE]
           note == IF local.lastWasEscape THEN [local EXCEPT !.lastWasEscape = FALSE]
                   ELSE [local EXCEPT !.lastWasEscape = m_current = "\\",
                                      !.inBrackets = m_current = "[" \/ (@ /\ m_current # "]")]
<1>1. /\ pc = "inRegExp" /\ text' = text /\ m_lineNumber' = m_lineNumber
      /\ m_buffer8' = m_buffer8 /\ FlagTypes'
      /\ \/ /\ pos' = pos /\ value' = value /\ m_buffer16' = <<>> /\ GoOn("scanned", reset)
         \/ /\ m_current = "/" /\ pos' = SkipWhile(pos + 1, IdentPart) /\ m_buffer16' = <<>>
            /\ value' = [radix |-> 0, chars |-> m_buffer16] /\ GoOn("scanned", local)
         \/ /\ m_current \notin LineTerminators \cup {"end"} /\ pos' = pos + 1 /\ value' = value
            /\ m_buffer16' = Append(m_buffer16, m_current) /\ GoOn("inRegExp", note)
  BY InvMeans DEF readRegExp, FlagTypes
<1>2. /\ local \in Locals /\ local.from <= local.startOffset /\ local.startOffset <= pos
      /\ local.startOffset \in Nat /\ local.from \in Nat /\ pos \in Nat /\ Len(text) \in Nat
      /\ text \in Seq(Characters) /\ m_buffer16 \in Seq(UChar) /\ value \in Values
      /\ m_buffer8 \in Seq(Characters)
  BY <1>1, InvMeans, LocalFields DEF Offsets, BufferTypes
<1>3. ASSUME NEW l \in Locals, NEW b \in BOOLEAN, NEW e \in BOOLEAN
      PROVE  /\ [l EXCEPT !.lastWasEscape = e, !.inBrackets = b] \in Locals
             /\ [l EXCEPT !.lastWasEscape = e] \in Locals
             /\ [l EXCEPT !.lastWasEscape = e, !.inBrackets = b].from = l.from
             /\ [l EXCEPT !.lastWasEscape = e, !.inBrackets = b].startOffset = l.startOffset
             /\ [l EXCEPT !.lastWasEscape = e].from = l.from
             /\ [l EXCEPT !.lastWasEscape = e].startOffset = l.startOffset
  BY <1>3 DEF Locals
<1>4. reset \in Locals /\ reset.from = local.from /\ reset.startOffset = local.startOffset
  BY <1>2, <1>3
<1>5. note \in Locals /\ note.from = local.from /\ note.startOffset = local.startOffset
  <2> DEFINE e == m_current = "\\"
             b == m_current = "[" \/ (local.inBrackets /\ m_current # "]")
  <2>1. e \in BOOLEAN /\ b \in BOOLEAN
    OBVIOUS
  <2>2. note = IF local.lastWasEscape THEN [local EXCEPT !.lastWasEscape = FALSE]
               ELSE [local EXCEPT !.lastWasEscape = e, !.inBrackets = b]
    BY Zenon
  <2> HIDE DEF e, b, note
  <2> QED
    BY <1>2, <1>3, <2>1, <2>2
<1>6. "scanned" \in Places /\ "inRegExp" \in Places
  BY DEF Places
<1> HIDE DEF reset, note
<1>7. ASSUME NEW l \in Locals, l.from = local.from, l.startOffset = local.startOffset,
             NEW place \in {"inRegExp", "scanned"}, GoOn(place, l), BufferTypes',
             pos' \in pos .. Len(text), Plain(pos, pos')
      PROVE  /\ LexerInv' /\ Moves /\ text' = text /\ pos' >= pos /\ pc' = place
             /\ local'.from = local.from /\ local'.startOffset = local.startOffset
             /\ token' = token /\ m_lastToken' = m_lastToken /\ calls' = calls
  <2>1. l.from <= pos' /\ l.startOffset <= pos' /\ l.from <= l.startOffset /\ pos' >= pos
    BY <1>2, <1>7
  <2>2. /\ LexerInv' /\ Moves /\ pc' = place /\ local' = l
        /\ token' = token /\ m_lastToken' = m_lastToken /\ calls' = calls
    BY <1>1, <1>6, <1>7, <2>1, GoOnStep
  <2> QED
    BY <1>1, <1>7, <2>1, <2>2
<1>8. CASE pos' = pos /\ value' = value /\ m_buffer16' = <<>> /\ GoOn("scanned", reset)
  <2>1. BufferTypes'
    BY <1>1, <1>2, <1>8 DEF BufferTypes
  <2>2. pos' \in pos .. Len(text) /\ Plain(pos, pos')
    BY <1>8, InvMeans, PlainNothing
  <2> QED
    BY <1>1, <1>4, <1>7, <1>8, <2>1, <2>2
<1>9. CASE /\ m_current = "/" /\ pos' = SkipWhile(pos + 1, IdentPart) /\ m_buffer16' = <<>>
           /\ value' = [radix |-> 0, chars |-> m_buffer16] /\ GoOn("scanned", local)
  <2>1. pos + 1 \in 0 .. Len(text) /\ Plain(pos, pos + 1)
    BY <1>2, <1>9, Classes, PlainOver DEF m_current
  <2>2. pos' \in pos + 1 .. Len(text) /\ Plain(pos + 1, pos')
    BY <1>2, <1>9, <2>1, PlainSkip, NoClassHasABreak
  <2>3. pos' \in pos .. Len(text) /\ Plain(pos, pos')
    BY <1>2, <2>1, <2>2, PlainJoin
  <2>4. BufferTypes'
    BY <1>1, <1>2, <1>9 DEF BufferTypes, Values
  <2> QED
    BY <1>1, <1>2, <1>7, <1>9, <2>3, <2>4
<1>10. CASE /\ m_current \notin LineTerminators \cup {"end"} /\ pos' = pos + 1 /\ value' = value
            /\ m_buffer16' = Append(m_buffer16, m_current) /\ GoOn("inRegExp", note)
  <2>1. pos + 1 \in 0 .. Len(text) /\ Plain(pos, pos + 1)
    BY <1>2, <1>10, PlainOver DEF m_current
  <2>2. m_current \in UChar
    <3>1. CharAt(pos) \in Characters
      BY <1>2, <1>10, TextCharacters DEF m_current
    <3> QED
      BY <3>1, CharactersAreUChars DEF m_current
  <2>3. BufferTypes'
    BY <1>1, <1>2, <1>10, <2>2 DEF BufferTypes
  <2>4. pos' \in pos .. Len(text) /\ Plain(pos, pos')
    BY <1>2, <1>10, <2>1
  <2> QED
    BY <1>1, <1>5, <1>7, <1>10, <2>3, <2>4
<1> QED
  BY <1>1, <1>8, <1>9, <1>10

-----------------------------------------------------------------------------
(* Types and offsets.                                                      *)

LEMMA LexerInvInit == Init => LexerInv /\ pos = 0 /\ m_lineNumber = 1
<1> SUFFICES ASSUME Init PROVE LexerInv
  BY DEF Init
<1>2. text \in Texts /\ text \in Seq(Characters) /\ Len(text) \in Nat
  BY LexerTextsAssumption DEF Init
<1>3. NoLocals \in Locals /\ NoLocals.from = 0 /\ NoLocals.startOffset = 0
  BY DEF NoLocals, Locals
<1>4. NoValue \in Values
  BY NoValueIsRead
<1>5. ControlTypes
  BY <1>3 DEF Init, ControlTypes, Places
<1>6. BufferTypes /\ FlagTypes /\ PlaceTypes
  <2>1. BufferTypes
    BY <1>4 DEF Init, BufferTypes
  <2>2. FlagTypes
    BY DEF Init, FlagTypes
  <2>3. PlaceTypes
    BY <1>2 DEF Init, PlaceTypes
  <2> QED
    BY <2>1, <2>2, <2>3
<1>7. Offsets
  BY <1>3 DEF Init, Offsets
<1> QED
  BY <1>2, <1>5, <1>6, <1>7, TypeParts DEF LexerInv

\* Every action keeps the types and the offsets, and moves as said above.
LEMMA LexerInvStep ==
    ASSUME LexerInv, Next
    PROVE  LexerInv' /\ Moves /\ text' = text
<1>1. CASE lex
  BY <1>1, lexStep
<1>2. CASE scanRegExp
  BY <1>2, scanRegExpStep
<1>3. CASE lexEnd \/ lexInvalid
  BY <1>3, lexEndStep
<1>4. CASE lexLineTerminator
  BY <1>4, lexLineTerminatorStep
<1>5. CASE lexComment
  BY <1>5, lexCommentStep
<1>6. CASE lexOperator
  BY <1>6, lexOperatorStep
<1>7. CASE lexNumber
  BY <1>7, lexNumberStep
<1>8. CASE lexIdentifier
  BY <1>8, lexIdentifierStep
<1>9. CASE lexString
  BY <1>9, lexStringStep
<1>10. CASE lexLineComment
  BY <1>10, lexLineCommentStep
<1>11. CASE lexMultilineComment
  BY <1>11, lexMultilineCommentStep
<1>12. CASE unterminatedComment
  BY <1>12, unterminatedCommentStep
<1>13. CASE parseIdentifier
  BY <1>13, parseIdentifierStep
<1>14. CASE parseString
  BY <1>14, parseStringStep
<1>15. CASE readRegExp
  BY <1>15, readRegExpStep
<1> QED
  BY <1>1, <1>2, <1>3, <1>4, <1>5, <1>6, <1>7, <1>8, <1>9, <1>10, <1>11, <1>12, <1>13, <1>14,
     <1>15 DEF Next, Step

LEMMA LexerInvStutter ==
    ASSUME LexerInv, UNCHANGED vars
    PROVE  LexerInv'
<1>1. text' = text /\ pos' = pos /\ m_lineNumber' = m_lineNumber /\ pc' = pc /\ local' = local
  BY DEF vars
<1>2. ControlTypes' /\ BufferTypes' /\ FlagTypes'
  BY InvMeans DEF vars, ControlTypes, BufferTypes, FlagTypes
<1>3. Offsets'
  BY <1>1, InvMeans DEF Offsets
<1> QED
  BY <1>1, <1>2, <1>3, MovesNowhere, StepOf

LEMMA LexerInvAlways == Spec => []LexerInv
<1>1. Init => LexerInv
  BY LexerInvInit
<1>2. LexerInv /\ [Next]_vars => LexerInv'
  BY LexerInvStep, LexerInvStutter
<1> QED
  BY <1>1, <1>2, PTL DEF Spec

\* No position leaves the text whatever is in it: no reader of an escape, a
\* number or a comment looks more than the end past the last character, the
\* buffers hold characters only, and no escape stands for one wider than 16 bits.
THEOREM LexerTypes == Spec => []TypeOK
<1>1. LexerInv => TypeOK
  BY DEF LexerInv
<1> QED
  BY <1>1, LexerInvAlways, PTL

-----------------------------------------------------------------------------
(* Line breaks.                                                            *)

\* The second half, perhaps, of a line break of two characters.
Joins(p) == p > 0 /\ {CharAt(p - 1), CharAt(p)} = {"nl", "cr"}

\* Where the line breaks that end at p begin to alternate.
Opens(q, p) == q \in 0 .. p /\ ~Joins(q) /\ \A i \in q + 1 .. p : Joins(i)

\* BeginsBreak without recursion: every other character of an alternation.
Begins(p) == CharAt(p) \in LineTerminators /\ \E q \in Nat : Opens(q, p) /\ (p - q) % 2 = 0

LEMMA AlternationsOpen ==
    ASSUME NEW p \in Nat
    PROVE  \E q \in Nat : Opens(q, p) /\ \A r \in Nat : Opens(r, p) => r = q
<1> DEFINE T == {d \in 0 .. p : ~Joins(p - d)}
<1>1. p \in T
  BY DEF Joins
<1>2. PICK d \in T : \A j \in T : d <= j
  <2>1. T \in SUBSET Nat
    OBVIOUS
  <2> QED
    BY <1>1, <2>1, LeastElement
<1>3. p - d \in 0 .. p /\ ~Joins(p - d)
  BY <1>2
<1>4. ASSUME NEW i \in (p - d) + 1 .. p PROVE Joins(i)
  <2>1. i \in 0 .. p /\ p - i \in 0 .. p /\ p - i < d /\ p - (p - i) = i
    BY <1>2
  <2>2. p - i \notin T
    BY <1>2, <2>1
  <2> QED
    BY <2>1, <2>2
<1>5. Opens(p - d, p)
  BY <1>3, <1>4 DEF Opens
<1>6. ASSUME NEW r \in Nat, Opens(r, p) PROVE r = p - d
  <2>1. r \in 0 .. p /\ ~Joins(r) /\ \A i \in r + 1 .. p : Joins(i)
    BY <1>6 DEF Opens
  <2>2. ~(r < p - d)
    <3>1. r < p - d => p - d \in r + 1 .. p
      BY <1>3, <2>1
    <3> QED
      BY <1>3, <2>1, <3>1
  <2>3. ~(p - d < r)
    <3>1. p - d < r => r \in (p - d) + 1 .. p
      BY <1>3, <2>1
    <3> QED
      BY <1>4, <2>1, <3>1
  <2> QED
    BY <1>3, <2>1, <2>2, <2>3
<1> QED
  BY <1>3, <1>5, <1>6

LEMMA Parity ==
    ASSUME NEW p \in Nat, NEW q \in 0 .. p - 1
    PROVE  (p - q) % 2 = 0 <=> ~(((p - 1) - q) % 2 = 0)
OBVIOUS

\* A line break begins where it is not the second half of one that has begun.
LEMMA BeginsRule ==
    ASSUME NEW p \in Nat
    PROVE  Begins(p) <=> CharAt(p) \in LineTerminators /\ ~(Joins(p) /\ Begins(p - 1))
<1>1. CASE ~Joins(p)
  <2>1. Opens(p, p)
    BY <1>1 DEF Opens
  <2>2. (p - p) % 2 = 0
    OBVIOUS
  <2> QED
    BY <1>1, <2>1, <2>2 DEF Begins
<1>2. CASE Joins(p)
  <2>1. p > 0 /\ p - 1 \in Nat /\ CharAt(p - 1) \in LineTerminators /\ CharAt(p) \in LineTerminators
    <3>1. p > 0 /\ CharAt(p - 1) \in {"nl", "cr"} /\ CharAt(p) \in {"nl", "cr"}
      BY <1>2 DEF Joins
    <3> QED
      BY <3>1, Classes
  <2>2. PICK q \in Nat : Opens(q, p - 1) /\ \A r \in Nat : Opens(r, p - 1) => r = q
    BY <2>1, AlternationsOpen
  <2>3. q \in 0 .. p - 1
    BY <2>2 DEF Opens
  <2>4. ASSUME NEW r \in Nat PROVE Opens(r, p) <=> Opens(r, p - 1)
    <3>1. ASSUME Opens(r, p) PROVE Opens(r, p - 1)
      <4>1. r \in 0 .. p /\ ~Joins(r) /\ \A i \in r + 1 .. p : Joins(i)
        BY <3>1 DEF Opens
      <4>2. r # p
        BY <1>2, <4>1
      <4>3. r \in 0 .. p - 1 /\ \A i \in r + 1 .. p - 1 : Joins(i)
        BY <4>1, <4>2
      <4> QED
        BY <4>1, <4>3 DEF Opens
    <3>2. ASSUME Opens(r, p - 1) PROVE Opens(r, p)
      <4>1. r \in 0 .. p - 1 /\ ~Joins(r) /\ \A i \in r + 1 .. p - 1 : Joins(i)
        BY <3>2 DEF Opens
      <4>2. ASSUME NEW i \in r + 1 .. p PROVE Joins(i)
        <5>1. i = p \/ i \in r + 1 .. p - 1
          OBVIOUS
        <5> QED
          BY <1>2, <4>1, <5>1
      <4>3. r \in 0 .. p
        BY <4>1
      <4> QED
        BY <4>1, <4>2, <4>3 DEF Opens
    <3> QED
      BY <3>1, <3>2
  <2>5. Begins(p) <=> (p - q) % 2 = 0
    BY <2>1, <2>2, <2>4 DEF Begins
  <2>6. Begins(p - 1) <=> ((p - 1) - q) % 2 = 0
    BY <2>1, <2>2 DEF Begins
  <2> QED
    BY <1>2, <2>1, <2>3, <2>5, <2>6, Parity
<1> QED
  BY <1>1, <1>2

\* The recursive definition of the model has this closed form.
LEMMA BreaksBegin == \A p \in Nat : BeginsBreak[p] <=> Begins(p)
<1> DEFINE Body(f, p) ==
             /\ CharAt(p) \in LineTerminators
             /\ ~(p > 0 /\ {CharAt(p - 1), CharAt(p)} = {"nl", "cr"} /\ f[p - 1])
           F == [p \in Nat |-> Begins(p)]
<1>1. ASSUME NEW p \in Nat PROVE Begins(p) = Body(F, p)
  <2>1. CASE p = 0
    <3>1. ~Joins(p) /\ ~(p > 0)
      BY <2>1 DEF Joins
    <3>2. Begins(p) <=> CharAt(p) \in LineTerminators
      BY <3>1, BeginsRule
    <3> QED
      BY <3>1, <3>2 DEF Begins
  <2>2. CASE p # 0
    <3>1. p > 0 /\ p - 1 \in Nat
      BY <2>2
    <3>2. F[p - 1] = Begins(p - 1)
      BY <3>1
    <3>3. Begins(p) <=> CharAt(p) \in LineTerminators /\ ~(Joins(p) /\ F[p - 1])
      BY <3>2, BeginsRule
    <3> QED
      BY <3>1, <3>3 DEF Begins, Joins
  <2> QED
    BY <2>1, <2>2
<1>2. F = [p \in Nat |-> Body(F, p)]
  BY <1>1
<1>3. BeginsBreak = [p \in Nat |-> Body(BeginsBreak, p)]
  <2>1. \E f : f = [p \in Nat |-> Body(f, p)]
    BY <1>2
  <2> QED
    BY <2>1 DEF BeginsBreak
<1>4. ASSUME NEW p \in Nat PROVE BeginsBreak[p] = Body(BeginsBreak, p)
  BY <1>3
<1> DEFINE T == {p \in Nat : ~(BeginsBreak[p] <=> F[p])}
<1>5. ASSUME T # {} PROVE FALSE
  <2>1. PICK p \in T : \A j \in T : p <= j
    <3>1. T \in SUBSET Nat
      OBVIOUS
    <3> QED
      BY <1>5, <3>1, LeastElement
  <2>2. p > 0 => p - 1 \in Nat /\ (BeginsBreak[p - 1] <=> F[p - 1])
    BY <2>1
  <2>3. Body(BeginsBreak, p) <=> Body(F, p)
    BY <2>2
  <2>4. F[p] = Body(F, p) /\ BeginsBreak[p] = Body(BeginsBreak, p)
    BY <1>1, <1>4, <2>1
  <2> QED
    BY <2>1, <2>3, <2>4
<1>6. \A p \in Nat : F[p] = Begins(p)
  OBVIOUS
<1> QED
  BY <1>5, <1>6

\* Every line break behind the lexer has been counted, and the lexer does not
\* stand between the two characters of one.
Counted ==
    /\ m_lineNumber = 1 + Cardinality({p \in 0 .. pos - 1 : Begins(p)})
    /\ ~(Joins(pos) /\ Begins(pos - 1))

LEMMA BeginsStays ==
    ASSUME text' = text
    PROVE  /\ \A p : CharAt(p)' = CharAt(p) /\ Joins(p)' = Joins(p)
           /\ \A p \in Nat : Begins(p)' <=> Begins(p)
<1>1. \A p : CharAt(p)' = CharAt(p)
  BY DEF CharAt
<1>2. \A p : Joins(p)' = Joins(p)
  BY <1>1 DEF Joins
<1>3. \A q, p : Opens(q, p)' <=> Opens(q, p)
  BY <1>2 DEF Opens
<1> QED
  BY <1>1, <1>2, <1>3 DEF Begins

\* No line break begins among characters that are none, nor after them.
LEMMA PlainBeginsNothing ==
    ASSUME NEW p \in Nat, NEW q \in Nat, p <= q, Plain(p, q)
    PROVE  /\ \A i \in p .. q - 1 : ~Begins(i)
           /\ q > p => ~Joins(q)
           /\ {i \in 0 .. q - 1 : Begins(i)} = {i \in 0 .. p - 1 : Begins(i)}
<1>1. \A i \in p .. q - 1 : ~Begins(i)
  BY DEF Plain, Begins
<1>2. q > p => ~Joins(q)
  <2>1. SUFFICES ASSUME q > p PROVE ~Joins(q)
    OBVIOUS
  <2>2. CharAt(q - 1) \notin LineTerminators
    BY <2>1 DEF Plain
  <2>3. CharAt(q - 1) \notin {"nl", "cr"}
    BY <2>2, Classes
  <2> QED
    BY <2>3 DEF Joins
<1>3. ASSUME NEW i \in Nat PROVE i \in 0 .. q - 1 /\ Begins(i) <=> i \in 0 .. p - 1 /\ Begins(i)
  BY <1>1
<1> QED
  BY <1>1, <1>2, <1>3

\* A step over no break counts none, a step over one counts it.
LEMMA CountedStep ==
    ASSUME LexerInv, Counted, Moves, text' = text
    PROVE  Counted'
<1>1. /\ pos \in Nat /\ pos' \in Nat /\ pos' \in pos .. Len(text) /\ pos <= pos'
      /\ text \in Seq(Characters)
  BY InvMeans DEF Moves
<1> DEFINE B(n) == {p \in 0 .. n - 1 : Begins(p)}
<1>2. Counted' <=> /\ m_lineNumber' = 1 + Cardinality(B(pos'))
                   /\ ~(Joins(pos') /\ Begins(pos' - 1))
  <2>1. {p \in 0 .. pos - 1 : Begins(p)}' = B(pos')
    <3>1. {p \in 0 .. pos - 1 : Begins(p)}' = {p \in 0 .. pos' - 1 : Begins(p)'}
      OBVIOUS
    <3>2. \A p \in 0 .. pos' - 1 : Begins(p)' <=> Begins(p)
      BY <1>1, BeginsStays
    <3> QED
      BY <3>1, <3>2
  <2>2. (Joins(pos) /\ Begins(pos - 1))' <=> Joins(pos') /\ Begins(pos' - 1)
    <3>1. \A p, q : CharAt(p)' = CharAt(p) /\ Joins(p)' = Joins(p) /\ (Opens(q, p)' <=> Opens(q, p))
      BY BeginsStays DEF Opens
    <3>2. \A p : Begins(p)' <=> Begins(p)
      BY <3>1 DEF Begins
    <3> QED
      BY <3>1, <3>2
  <2> QED
    BY <2>1, <2>2 DEF Counted
<1>3. m_lineNumber = 1 + Cardinality(B(pos)) /\ ~(Joins(pos) /\ Begins(pos - 1))
  BY DEF Counted
<1>4. CASE Plain(pos, pos') /\ m_lineNumber' = m_lineNumber
  <2>1. B(pos') = B(pos) /\ (pos' > pos => ~Joins(pos'))
    BY <1>1, <1>4, PlainBeginsNothing
  <2>2. pos' = pos \/ pos' > pos
    BY <1>1
  <2> QED
    BY <1>2, <1>3, <1>4, <2>1, <2>2
<1>5. CASE \E p \in pos .. Len(text) :
             /\ CharAt(p) \in LineTerminators /\ Plain(pos, p)
             /\ pos' = AfterLineTerminator(p) /\ m_lineNumber' = m_lineNumber + 1
  <2>1. PICK p \in pos .. Len(text) :
             /\ CharAt(p) \in LineTerminators /\ Plain(pos, p)
             /\ pos' = AfterLineTerminator(p) /\ m_lineNumber' = m_lineNumber + 1
    BY <1>5
  <2>2. p \in Nat /\ pos <= p
    BY <1>1, <2>1
  <2>3. B(p) = B(pos) /\ (p > pos => ~Joins(p))
    BY <1>1, <2>1, <2>2, PlainBeginsNothing
  <2>4. ~(Joins(p) /\ Begins(p - 1))
    <3>1. p = pos \/ p > pos
      BY <1>1, <2>2
    <3> QED
      BY <1>3, <2>3, <3>1
  <2>5. Begins(p)
    BY <2>1, <2>2, <2>4, BeginsRule
  <2>6. (p + 1) - 1 = p /\ p + 1 > 0 /\ p + 1 \in Nat /\ p + 2 \in Nat /\ (p + 2) - 1 = p + 1
    BY <2>2
  <2>7. B(pos') = B(p) \cup {p} /\ ~(Joins(pos') /\ Begins(pos' - 1))
    <3>1. CASE {CharAt(p), CharAt(p + 1)} = {"nl", "cr"}
      <4>1. pos' = p + 2
        BY <2>1, <3>1 DEF AfterLineTerminator
      <4>2. Joins(p + 1)
        BY <2>6, <3>1 DEF Joins
      <4>3. ~Begins(p + 1)
        BY <2>5, <2>6, <4>2, BeginsRule
      <4>4. ASSUME NEW i \in Nat PROVE i \in B(p + 2) <=> i \in B(p) \cup {p}
        <5>1. i \in 0 .. (p + 2) - 1 <=> i \in 0 .. p - 1 \/ i = p \/ i = p + 1
          BY <2>2
        <5> QED
          BY <2>2, <2>5, <4>3, <5>1
      <4>5. B(p + 2) = B(p) \cup {p}
        BY <2>2, <4>4
      <4> HIDE DEF B
      <4> QED
        BY <2>6, <4>1, <4>3, <4>5
    <3>2. CASE {CharAt(p), CharAt(p + 1)} # {"nl", "cr"}
      <4>1. pos' = p + 1
        BY <2>1, <3>2 DEF AfterLineTerminator
      <4>2. ~Joins(p + 1)
        BY <2>6, <3>2 DEF Joins
      <4>3. ASSUME NEW i \in Nat PROVE i \in B(p + 1) <=> i \in B(p) \cup {p}
        <5>1. i \in 0 .. (p + 1) - 1 <=> i \in 0 .. p - 1 \/ i = p
          BY <2>2
        <5> QED
          BY <2>2, <2>5, <5>1
      <4>4. B(p + 1) = B(p) \cup {p}
        BY <2>2, <4>3
      <4> HIDE DEF B
      <4> QED
        BY <4>1, <4>2, <4>4
    <3> QED
      BY <3>1, <3>2
  <2>8. IsFiniteSet(B(p)) /\ p \notin B(p) /\ Cardinality(B(p)) \in Nat
    <3>1. IsFiniteSet(0 .. p - 1)
      BY <2>2, FS_Interval
    <3>2. B(p) \in SUBSET (0 .. p - 1)
      OBVIOUS
    <3>3. IsFiniteSet(B(p))
      BY <3>1, <3>2, FS_Subset, Zenon
    <3>4. p \notin B(p)
      BY <2>2
    <3> HIDE DEF B
    <3> QED
      BY <3>3, <3>4, FS_CardinalityType
  <2> HIDE DEF B
  <2>9. Cardinality(B(pos')) = Cardinality(B(p)) + 1
    BY <2>7, <2>8, FS_AddElement
  <2>10. m_lineNumber' = m_lineNumber + 1
    BY <2>1
  <2> QED
    BY <1>2, <1>3, <2>3, <2>7, <2>8, <2>9, <2>10
<1> QED
  BY <1>4, <1>5 DEF Moves

LEMMA CountedInit == Init => Counted
<1> SUFFICES ASSUME Init PROVE Counted
  OBVIOUS
<1>1. pos = 0 /\ m_lineNumber = 1
  BY DEF Init
<1>2. {p \in 0 .. pos - 1 : Begins(p)} = {}
  BY <1>1
<1>3. Cardinality({p \in 0 .. pos - 1 : Begins(p)}) = 0
  BY <1>2, FS_EmptySet
<1>4. ~Joins(pos)
  BY <1>1 DEF Joins
<1> QED
  BY <1>1, <1>3, <1>4 DEF Counted

\* The line the parser reports is the line the lexer stands in: every step of
\* lex and scanRegExp goes over no line break, or over exactly one and counts
\* it, and shiftLineTerminator never stops between CR and LF.
THEOREM EveryLineIsCounted == Spec => []LinesAreCounted
<1>1. Init => LexerInv /\ Counted
  BY LexerInvInit, CountedInit
<1>2. LexerInv /\ Counted /\ [Next]_vars => (LexerInv /\ Counted)'
  <2>1. ASSUME LexerInv, Counted, Next PROVE LexerInv' /\ Counted'
    BY <2>1, LexerInvStep, CountedStep
  <2>2. ASSUME LexerInv, Counted, UNCHANGED vars PROVE LexerInv' /\ Counted'
    <3>1. LexerInv'
      BY <2>2, LexerInvStutter
    <3>2. text' = text /\ pos' = pos /\ m_lineNumber' = m_lineNumber
      BY <2>2 DEF vars
    <3>3. Moves
      BY <2>2, <3>2, MovesNowhere
    <3> QED
      BY <2>2, <3>1, <3>2, <3>3, CountedStep
  <2> QED
    BY <2>1, <2>2
<1>3. LexerInv /\ Counted => LinesAreCounted
  <2> SUFFICES ASSUME LexerInv, Counted PROVE LinesAreCounted
    OBVIOUS
  <2>1. pos \in Nat
    BY InvMeans
  <2>2. {p \in 0 .. pos - 1 : BeginsBreak[p]} = {p \in 0 .. pos - 1 : Begins(p)}
    BY <2>1, BreaksBegin
  <2> QED
    BY <2>2 DEF Counted, LinesAreCounted
<1> QED
  BY <1>1, <1>2, <1>3, PTL DEF Spec

-----------------------------------------------------------------------------
(* Line breaks between tokens.                                             *)

BreakIn(p, q) == \E i \in p .. q - 1 : CharAt(i) \in LineTerminators
CommentIn(p, q) == \E i \in p .. q - 1 : StartsComment(i)

\* The places of a call of lex.
Calling == {"start", "inSingleLineComment", "inComment", "inString", "inIdentifier"}

\* From the beginning of the call up to q, only a comment hides a line break.
Told(q) == BreakIn(local.from, q) /\ ~m_terminator => CommentIn(local.from, q)

Terminates ==
    /\ pc \in Calling \/ (pc = "idle" /\ calls > 0) =>
         /\ m_terminator => BreakIn(local.from, pos)
         /\ IF pc = "start" THEN Told(pos) ELSE Told(local.startOffset)
    /\ pc = "inComment" => StartsComment(local.startOffset) /\ local.startOffset < pos

LEMMA InStays ==
    ASSUME text' = text
    PROVE  /\ \A p, q : BreakIn(p, q)' <=> BreakIn(p, q)
           /\ \A p, q : CommentIn(p, q)' <=> CommentIn(p, q)
           /\ \A p : StartsComment(p)' <=> StartsComment(p)
<1>1. \A p : CharAt(p)' = CharAt(p)
  BY DEF CharAt
<1>2. \A p : StartsComment(p)' <=> StartsComment(p)
  BY DEF StartsComment, StartsWith, Between
<1> QED
  BY <1>1, <1>2 DEF BreakIn, CommentIn

LEMMA InGrows ==
    ASSUME NEW p \in Nat, NEW q \in Nat, NEW r \in Nat, q <= r
    PROVE  /\ BreakIn(p, q) => BreakIn(p, r)
           /\ CommentIn(p, q) => CommentIn(p, r)
           /\ Plain(q, r) /\ BreakIn(p, r) => BreakIn(p, q)
           /\ ~BreakIn(p, p)
<1>1. \A i : i \in p .. q - 1 => i \in p .. r - 1
  OBVIOUS
<1>2. \A i : i \in p .. r - 1 => i \in p .. q - 1 \/ i \in q .. r - 1
  OBVIOUS
<1>3. p .. p - 1 = {}
  OBVIOUS
<1> QED
  BY <1>1, <1>2, <1>3 DEF BreakIn, CommentIn, Plain

\* The offsets of a call, and what they are after a step of it.
LEMMA CallOffsets ==
    ASSUME LexerInv
    PROVE  /\ local.from \in Nat /\ local.startOffset \in Nat /\ pos \in Nat
           /\ local.from <= pos /\ local.startOffset <= pos
           /\ pc # "start" => local.from <= local.startOffset
BY InvMeans, LocalFields DEF Offsets

\* A step of a call after its token has begun.
LEMMA TerminatesInside ==
    ASSUME LexerInv, LexerInv', Terminates, text' = text, pc \in Calling \ {"start"}, pc' # "start",
           local'.from = local.from, local'.startOffset = local.startOffset,
           pos' >= pos, m_terminator' = m_terminator, pc' = "inComment" => pc = "inComment"
    PROVE  Terminates'
<1>1. /\ local.from \in Nat /\ local.startOffset \in Nat /\ pos \in Nat /\ pos' \in Nat
  BY CallOffsets, LexerInv', InvMeans DEF LexerInv, TypeOK
<1>2. BreakIn(local.from, pos) => BreakIn(local.from, pos')
  BY <1>1, InGrows
<1>3. /\ m_terminator => BreakIn(local.from, pos)
      /\ BreakIn(local.from, local.startOffset) /\ ~m_terminator
           => CommentIn(local.from, local.startOffset)
      /\ pc = "inComment" => StartsComment(local.startOffset) /\ local.startOffset < pos
  BY DEF Terminates, Told
<1>4. local.startOffset < pos => local.startOffset < pos'
  BY <1>1
<1>5. /\ \A p, q : BreakIn(p, q)' <=> BreakIn(p, q)
      /\ \A p, q : CommentIn(p, q)' <=> CommentIn(p, q)
      /\ \A p : StartsComment(p)' <=> StartsComment(p)
  BY InStays
<1> QED
  BY <1>2, <1>3, <1>4, <1>5 DEF Terminates, Told

\* A step from the white space before a token into it, or past it.
LEMMA TerminatesToken ==
    ASSUME LexerInv, LexerInv', Terminates, text' = text, pc = "start", pc' # "start",
           local'.from = local.from, local'.startOffset = TokenStart,
           pos' >= TokenStart, m_terminator' = m_terminator,
           pc' = "inComment" => StartsComment(TokenStart) /\ pos' > TokenStart
    PROVE  Terminates'
<1>1. /\ local.from \in Nat /\ pos \in Nat /\ pos' \in Nat
      /\ TokenStart \in Nat /\ pos <= TokenStart /\ pos <= pos' /\ Plain(pos, TokenStart)
  <2>1. TokenStart \in pos .. Len(text) /\ Plain(pos, TokenStart) /\ pos' \in Nat
    BY TokenStartBounds, LexerInv', InvMeans DEF LexerInv, TypeOK
  <2> QED
    BY <2>1, CallOffsets, TokenStartBounds
<1> DEFINE t == TokenStart
<1> HIDE DEF t
<1>2. /\ BreakIn(local.from, pos) => BreakIn(local.from, pos')
      /\ BreakIn(local.from, t) => BreakIn(local.from, pos)
      /\ CommentIn(local.from, pos) => CommentIn(local.from, t)
  BY <1>1, InGrows DEF t
<1>3. /\ m_terminator => BreakIn(local.from, pos)
      /\ BreakIn(local.from, pos) /\ ~m_terminator => CommentIn(local.from, pos)
  BY DEF Terminates, Told, Calling
<1>4. /\ \A p, q : BreakIn(p, q)' <=> BreakIn(p, q)
      /\ \A p, q : CommentIn(p, q)' <=> CommentIn(p, q)
      /\ \A p : StartsComment(p)' <=> StartsComment(p)
  BY InStays
<1>5. local'.startOffset = t /\ (pc' = "inComment" => StartsComment(t) /\ pos' > t)
  BY DEF t
<1>6. t < pos' <=> pos' > t
  OBVIOUS
<1> QED
  BY <1>2, <1>3, <1>4, <1>5, <1>6 DEF Terminates, Told

\* A line break the parser is told of.
LEMMA TerminatesBreak ==
    ASSUME LexerInv, text' = text, pc' \in {"start", "idle"}, local'.from = local.from,
           NEW p \in pos .. pos' - 1, CharAt(p) \in LineTerminators, m_terminator' = TRUE
    PROVE  Terminates'
<1>1. local.from \in Nat /\ local.from <= pos /\ pos \in Nat
  BY CallOffsets
<1>2. p \in local.from .. pos' - 1
  BY <1>1
<1>3. BreakIn(local.from, pos')
  BY <1>2 DEF BreakIn
<1>4. \A q, r : BreakIn(q, r)' <=> BreakIn(q, r)
  BY InStays
<1> QED
  BY <1>3, <1>4 DEF Terminates, Told

\* The end of a comment.
LEMMA TerminatesComment ==
    ASSUME LexerInv, LexerInv', Terminates, text' = text, pc = "inComment",
           pc' \in {"start", "inComment"}, local' = local,
           pos' > pos, m_terminator' = m_terminator
    PROVE  Terminates'
<1>1. /\ local.from \in Nat /\ local.startOffset \in Nat /\ pos \in Nat /\ pos' \in Nat
      /\ local.from <= local.startOffset
  BY CallOffsets, LexerInv', InvMeans DEF LexerInv, TypeOK
<1>2. CASE pc' = "inComment"
  BY <1>1, <1>2, TerminatesInside DEF Calling
<1>3. CASE pc' = "start"
  <2>1. m_terminator => BreakIn(local.from, pos)
    BY DEF Terminates, Calling
  <2>2. BreakIn(local.from, pos) => BreakIn(local.from, pos')
    BY <1>1, InGrows
  <2>3. CommentIn(local.from, pos')
    <3>1. StartsComment(local.startOffset) /\ local.startOffset < pos
      BY DEF Terminates
    <3>2. local.startOffset \in local.from .. pos' - 1
      BY <1>1, <3>1
    <3> QED
      BY <3>1, <3>2 DEF CommentIn
  <2>4. /\ \A p, q : BreakIn(p, q)' <=> BreakIn(p, q)
        /\ \A p, q : CommentIn(p, q)' <=> CommentIn(p, q)
    BY InStays
  <2> QED
    BY <1>3, <2>1, <2>2, <2>3, <2>4 DEF Terminates, Told
<1> QED
  BY <1>2, <1>3

\* Every action keeps what m_terminator says of the text before a token.
LEMMA TerminatesStep ==
    ASSUME LexerInv, Terminates, Next
    PROVE  Terminates'
<1>1. LexerInv' /\ text' = text
  BY LexerInvStep
<1>2. pos \in Nat /\ TokenStart \in Nat /\ pos <= TokenStart
  BY InvMeans, TokenStartBounds
<1>3. CASE lex
  <2>1. /\ pc' = "start" /\ pos' = pos /\ m_terminator' = FALSE
    BY <1>3 DEF lex, GoOn
  <2>2. local'.from = pos
    <3>1. PICK reserved \in BOOLEAN :
            local' = [local EXCEPT !.reserved = reserved, !.before = m_terminator, !.from = pos]
      BY <1>3 DEF lex, GoOn
    <3> QED
      BY <3>1, InvMeans DEF Locals
  <2>3. ~BreakIn(pos, pos)
    BY <1>2, InGrows
  <2>4. \A p, q : BreakIn(p, q)' <=> BreakIn(p, q)
    BY <1>1, InStays
  <2> QED
    BY <2>1, <2>2, <2>3, <2>4 DEF Terminates, Told
<1>4. CASE scanRegExp
  BY <1>4, scanRegExpStep DEF Terminates, Calling
<1>5. CASE readRegExp
  BY <1>5, readRegExpStep DEF Terminates, Calling
<1>6. CASE pc = "start" /\ (lexEnd \/ lexInvalid)
  <2>1. m_terminator' = m_terminator
    BY <1>6 DEF lexEnd, lexInvalid
  <2> QED
    BY <1>1, <1>2, <1>6, <2>1, lexEndStep, TerminatesToken
<1>7. CASE pc = "start" /\ lexLineTerminator
  <2>1. m_terminator' = TRUE /\ CharAt(TokenStart) \in LineTerminators
    BY <1>7 DEF lexLineTerminator, lineBreakAt, First
  <2>2. pos' > TokenStart /\ local'.from = local.from /\ pc' \in {"start", "idle"}
    BY <1>7, lexLineTerminatorStep
  <2>3. pos' \in Nat
    BY <1>1, InvMeans DEF LexerInv, TypeOK
  <2>4. TokenStart \in pos .. pos' - 1
    <3>1. ASSUME NEW t \in Nat, NEW p \in Nat, NEW q \in Nat, p <= t, q > t
          PROVE  t \in p .. q - 1
      BY <3>1
    <3> QED
      BY <1>2, <2>2, <2>3, <3>1
  <2> QED
    BY <1>1, <2>1, <2>2, <2>4, TerminatesBreak
<1>8. CASE pc = "start" /\ lexComment
  <2>1. m_terminator' = m_terminator
    BY <1>8 DEF lexComment
  <2>2. /\ local' = Started /\ pos' = TokenStart + 2
        /\ \/ pc' = "inSingleLineComment"
           \/ pc' = "inComment" /\ StartsComment(TokenStart)
    BY <1>8, lexCommentStep
  <2>3. local'.from = local.from /\ local'.startOffset = TokenStart
    BY <2>2, TokenStartBounds
  <2>4. pos' > TokenStart /\ pos' >= TokenStart
    BY <1>2, <2>2
  <2> QED
    BY <1>1, <1>8, <2>1, <2>2, <2>3, <2>4, TerminatesToken
<1>9. CASE pc = "start" /\ lexOperator
  <2>1. m_terminator' = m_terminator
    BY <1>9 DEF lexOperator
  <2>2. pos' >= TokenStart /\ pc' = "idle" /\ local'.from = local.from /\ local'.startOffset = TokenStart
    <3>1. /\ pos' > TokenStart /\ pc' = "idle" /\ local'.from = local.from
          /\ local'.startOffset = TokenStart
      BY <1>9, lexOperatorStep
    <3>2. pos' \in Nat
      BY <1>1, InvMeans DEF LexerInv, TypeOK
    <3>3. \A t, q \in Nat : q > t => q >= t
      OBVIOUS
    <3> QED
      BY <1>2, <3>1, <3>2, <3>3
  <2> QED
    BY <1>1, <1>9, <2>1, <2>2, TerminatesToken
<1>10. CASE pc = "start" /\ lexNumber
  <2>1. m_terminator' = m_terminator
    BY <1>10 DEF lexNumber
  <2>2. pos' >= TokenStart /\ pc' = "idle" /\ local'.from = local.from /\ local'.startOffset = TokenStart
    <3>1. /\ pos' > TokenStart /\ pc' = "idle" /\ local'.from = local.from
          /\ local'.startOffset = TokenStart
      BY <1>10, lexNumberStep
    <3>2. pos' \in Nat
      BY <1>1, InvMeans DEF LexerInv, TypeOK
    <3>3. \A t, q \in Nat : q > t => q >= t
      OBVIOUS
    <3> QED
      BY <1>2, <3>1, <3>2, <3>3
  <2> QED
    BY <1>1, <1>10, <2>1, <2>2, TerminatesToken
<1>11. CASE pc = "start" /\ lexIdentifier
  <2>1. m_terminator' = m_terminator
    BY <1>11 DEF lexIdentifier
  <2>2. /\ pos' = TokenStart /\ pc' = "inIdentifier" /\ local'.from = local.from
        /\ local'.startOffset = TokenStart
    BY <1>11, lexIdentifierStep
  <2> QED
    BY <1>1, <1>2, <1>11, <2>1, <2>2, TerminatesToken
<1>12. CASE pc = "start" /\ lexString
  <2>1. m_terminator' = m_terminator
    BY <1>12 DEF lexString
  <2>2. /\ pos' = TokenStart + 1 /\ pc' = "inString" /\ local'.from = local.from
        /\ local'.startOffset = TokenStart
    BY <1>12, lexStringStep
  <2>3. pos' >= TokenStart
    BY <1>2, <2>2
  <2> QED
    BY <1>1, <1>12, <2>1, <2>2, <2>3, TerminatesToken
<1>13. CASE lexLineComment
  <2>1. pc = "inSingleLineComment"
    BY <1>13 DEF lexLineComment
  <2>2. CASE /\ pc' = "idle" /\ pos' = Len(text) /\ local'.startOffset = local.startOffset
             /\ m_terminator' = m_terminator /\ local'.from = local.from
    BY <1>1, <2>1, <2>2, InvMeans, TerminatesInside DEF Calling
  <2>3. CASE /\ \E p \in pos .. Len(text) : lineBreakAt(p, local)
                                            /\ CharAt(p) \in LineTerminators /\ pos' > p
             /\ local'.from = local.from /\ pc' \in {"start", "idle"}
    <3>1. PICK p \in pos .. Len(text) :
             lineBreakAt(p, local) /\ CharAt(p) \in LineTerminators /\ pos' > p
      BY <2>3
    <3>2. pos' \in Nat
      BY <1>1, InvMeans DEF LexerInv, TypeOK
    <3>3. p \in pos .. pos' - 1 /\ m_terminator' = TRUE
      BY <1>2, <3>1, <3>2 DEF lineBreakAt
    <3> QED
      BY <1>1, <2>3, <3>1, <3>3, TerminatesBreak
  <2> QED
    BY <1>13, <2>2, <2>3, lexLineCommentStep
<1>14. CASE lexMultilineComment
  <2>1. m_terminator' = m_terminator
    BY <1>14 DEF lexMultilineComment
  <2> QED
    BY <1>1, <1>14, <2>1, lexMultilineCommentStep, TerminatesComment
<1>15. CASE unterminatedComment
  <2>1. m_terminator' = m_terminator /\ pc = "inComment"
    BY <1>15 DEF unterminatedComment
  <2> QED
    BY <1>1, <1>2, <1>15, <2>1, unterminatedCommentStep, TerminatesInside DEF Calling
<1>16. CASE parseIdentifier
  <2>1. m_terminator' = m_terminator /\ pc = "inIdentifier"
    BY <1>16 DEF parseIdentifier
  <2>2. /\ local'.from = local.from /\ local'.startOffset = local.startOffset
        /\ pos' >= pos /\ pc' \in {"inIdentifier", "idle"}
    BY <1>16, parseIdentifierStep
  <2> QED
    BY <1>1, <2>1, <2>2, TerminatesInside DEF Calling
<1>17. CASE parseString
  <2>1. m_terminator' = m_terminator /\ pc = "inString"
    BY <1>17 DEF parseString
  <2>2. /\ local'.from = local.from /\ local'.startOffset = local.startOffset
        /\ pos' >= pos /\ pc' \in {"inString", "idle"}
    BY <1>17, parseStringStep
  <2> QED
    BY <1>1, <2>1, <2>2, TerminatesInside DEF Calling
<1> QED
  BY <1>3, <1>4, <1>5, <1>6, <1>7, <1>8, <1>9, <1>10, <1>11, <1>12, <1>13, <1>14, <1>15, <1>16,
     <1>17 DEF Next, Step

\* The parser inserts semicolons where m_terminator is set.  It is set only if
\* there is a line break before the token that was returned, and if there is
\* one and it is not set, a comment between the tokens holds it.
THEOREM TerminatorsAreLineBreaks == Spec => []TerminatorMeansLineBreak
<1>1. Init => LexerInv /\ Terminates
  <2>1. Init => Terminates
    BY DEF Init, Terminates, Calling
  <2> QED
    BY <2>1, LexerInvInit
<1>2. LexerInv /\ Terminates /\ [Next]_vars => (LexerInv /\ Terminates)'
  <2>1. ASSUME LexerInv, Terminates, Next PROVE LexerInv' /\ Terminates'
    BY <2>1, LexerInvStep, TerminatesStep
  <2>2. ASSUME LexerInv, Terminates, UNCHANGED vars PROVE LexerInv' /\ Terminates'
    <3>1. LexerInv'
      BY <2>2, LexerInvStutter
    <3>2. /\ text' = text /\ pos' = pos /\ pc' = pc /\ calls' = calls /\ local' = local
          /\ m_terminator' = m_terminator
      BY <2>2 DEF vars
    <3>3. /\ \A p, q : BreakIn(p, q)' <=> BreakIn(p, q)
          /\ \A p, q : CommentIn(p, q)' <=> CommentIn(p, q)
          /\ \A p : StartsComment(p)' <=> StartsComment(p)
      BY <3>2, InStays
    <3> QED
      BY <2>2, <3>1, <3>2, <3>3 DEF Terminates, Told
  <2> QED
    BY <2>1, <2>2
<1>3. LexerInv /\ Terminates => TerminatorMeansLineBreak
  BY DEF Terminates, Told, BreakIn, CommentIn, TerminatorMeansLineBreak
<1> QED
  BY <1>1, <1>2, <1>3, PTL DEF Spec

-----------------------------------------------------------------------------
(* The refinement of module TokenSource.                                   *)

\* A call, and a pattern, find nothing left over and leave nothing behind; only
\* an error token does.
Clean ==
    /\ pc # "idle" => ~m_error /\ m_buffer8 = <<>>
    /\ pc \in {"start", "inSingleLineComment", "inComment", "scanned"} => m_buffer16 = <<>>
    /\ pc = "idle" /\ token # "ERRORTOK" => Ready
    /\ pc = "idle" /\ ~m_error => m_buffer8 = <<>>

\* m_lastToken is the token the parser has, and a line break after a
\* restricted one ends the call.
LastIsToken ==
    /\ token # "EOFTOK" /\ ~m_error => m_lastToken = token
    /\ pc \in Calling /\ m_terminator => ~lastTokenWasRestrKeyword

\* Every token but the end has a character of its own, and after the end there
\* is none.
Consumes ==
    /\ token = "EOFTOK" => pos = Len(text) /\ pc \in {"idle", "start"}
    /\ token # "EOFTOK" =>
         /\ pc \in Waiting \cup {"inRegExp"} /\ ~m_error => calls <= pos
         /\ pc \in Calling => calls <= local.from
         /\ pc \in {"inSingleLineComment", "inComment", "inString"} => local.from < pos
         /\ pc = "inIdentifier" => local.from < pos \/ CharAt(pos) \in IdentStart \cup {"\\"}

SourceInv == LexerInv /\ Clean /\ LastIsToken /\ Consumes

\* The keywords of the two modules are the same.
LEMMA SourceNames ==
    /\ Source!Keywords = Keywords
    /\ Source!Restricted = {"CONTINUE", "BREAK", "RETURN", "THROW"}
BY Zenon DEF Source!Keywords, Keywords, Source!Restricted

\* What the lexer makes of a token, for the source it implements.
LEMMA LexedToken ==
    ASSUME NEW last, NEW t, NEW newline \in BOOLEAN, NEW reserved \in BOOLEAN,
           ~(newline /\ last \in Source!Restricted), t \notin {"PLUSPLUS", "MINUSMINUS"},
           reserved \/ t \notin Keywords
    PROVE  Source!Lexed(last, t, newline, reserved) = t
<1>1. reserved \/ t \notin Source!Keywords
  BY SourceNames
<1> QED
  BY <1>1 DEF Source!Lexed

LEMMA LexedOperator ==
    ASSUME NEW last, NEW t, m_terminator \in BOOLEAN, NEW reserved \in BOOLEAN,
           ~(m_terminator /\ last \in Source!Restricted), t \notin Keywords
    PROVE  Source!Lexed(last, t, m_terminator, reserved) = Automatic(t)
<1>1. t \notin Source!Keywords
  BY SourceNames
<1> QED
  BY <1>1 DEF Source!Lexed, Automatic

LEMMA LexedSemicolon ==
    ASSUME NEW last \in Source!Restricted, NEW t, NEW reserved
    PROVE  Source!Lexed(last, t, TRUE, reserved) = "SEMICOLON"
BY DEF Source!Lexed

LEMMA OperatorsAreNoKeywords == ASSUME NEW op \in Operators PROVE op[2] \notin Keywords
BY DEF Operators, Keywords

\* A step inside a call.
Stays ==
    /\ pc \in Calling /\ pc' \in Calling
    /\ UNCHANGED <<token, m_lastToken, calls, m_error, m_buffer8>>
    /\ local'.from = local.from /\ local'.before = local.before
    /\ local'.reserved = local.reserved
    /\ m_terminator' => m_terminator \/ ~lastTokenWasRestrKeyword
    /\ pc' \in {"start", "inSingleLineComment", "inComment"} => m_buffer16' = <<>>
    /\ token # "EOFTOK"
    /\ pc' \in {"inSingleLineComment", "inComment", "inString"} => local.from < pos'
    /\ pc' = "inIdentifier" => local.from < pos' \/ CharAt(pos') \in IdentStart \cup {"\\"}

\* The tokens a text of this length may have after the calls so far.
After == IF calls < Len(text) THEN AnyToken \cup {"EOFTOK"} ELSE {"EOFTOK"}

\* The last step of a call.
Returns ==
    /\ pc \in Calling /\ pc' = "idle" /\ calls' = calls + 1
    /\ \E t \in After : /\ token = "EOFTOK" => t = "EOFTOK"
                        /\ token' = Source!Lexed(token, t, m_terminator', local.reserved)
    /\ token' # "ERRORTOK" => ~m_error' /\ m_buffer16' = <<>>
    /\ ~m_error' => m_buffer8' = <<>>
    /\ ~m_error' /\ token' # "EOFTOK" => m_lastToken' = token' /\ calls' <= pos'
    /\ token' = "EOFTOK" => pos' = Len(text)

\* What the lexer has when a call goes on.
LEMMA InACall ==
    ASSUME SourceInv, pc \in Calling
    PROVE  /\ ~m_error /\ m_buffer8 = <<>>
           /\ pc \in {"start", "inSingleLineComment", "inComment"} => m_buffer16 = <<>>
           /\ m_terminator \in BOOLEAN /\ local.reserved \in BOOLEAN /\ calls \in Nat
           /\ ~(m_terminator /\ token \in Source!Restricted)
           /\ token # "EOFTOK" => token = m_lastToken /\ calls <= local.from
           /\ lastTokenWasRestrKeyword /\ token # "EOFTOK" => token \in Source!Restricted
<1>1. ~m_error /\ m_buffer8 = <<>> /\ (pc \in {"start", "inSingleLineComment", "inComment"}
                                        => m_buffer16 = <<>>)
  BY DEF SourceInv, Clean, Calling
<1>2. m_terminator \in BOOLEAN /\ local.reserved \in BOOLEAN /\ calls \in Nat
  BY InvMeans, LocalFields DEF SourceInv, FlagTypes, ControlTypes
<1>3. token # "EOFTOK" => token = m_lastToken /\ calls <= local.from
  BY <1>1 DEF SourceInv, LastIsToken, Consumes
<1>4. m_terminator => m_lastToken \notin Source!Restricted
  BY SourceNames DEF SourceInv, LastIsToken, lastTokenWasRestrKeyword
<1>5. "EOFTOK" \notin Source!Restricted
  BY SourceNames
<1> QED
  BY <1>1, <1>2, <1>3, <1>4, <1>5, SourceNames DEF lastTokenWasRestrKeyword

\* After the end of the text there is nothing but the end.
LEMMA NotAtEnd ==
    ASSUME SourceInv, pc \in Calling, pc = "start" => First # "end"
    PROVE  token # "EOFTOK"
<1>1. SUFFICES ASSUME token = "EOFTOK" PROVE FALSE
  OBVIOUS
<1>2. pos = Len(text) /\ pc = "start"
  BY <1>1 DEF SourceInv, Consumes, Calling
<1>3. TokenStart \in Nat /\ TokenStart >= Len(text) /\ text \in Seq(Characters)
  BY <1>2, InvMeans, TokenStartBounds DEF SourceInv
<1>4. First = "end"
  BY <1>3, TextCharacters DEF First
<1> QED
  BY <1>2, <1>4

\* A token begins where the text has a character.
LEMMA TokenIsInText ==
    ASSUME SourceInv, pc = "start", First # "end"
    PROVE  /\ TokenStart \in Nat /\ local.from \in Nat /\ local.from <= TokenStart
           /\ TokenStart < Len(text) /\ local.from < Len(text)
<1>1. /\ TokenStart \in Nat /\ local.from \in Nat /\ pos \in Nat /\ local.from <= pos
      /\ pos <= TokenStart /\ text \in Seq(Characters) /\ Len(text) \in Nat
  BY InvMeans, TokenStartBounds, CallOffsets DEF SourceInv
<1>2. CharAt(TokenStart) # "end"
  BY DEF First
<1>3. TokenStart < Len(text)
  BY <1>1, <1>2, TextCharacters
<1> QED
  BY <1>1, <1>3

\* A token that is not the end.
LEMMA ReturnsToken ==
    ASSUME SourceInv, LexerInv', text' = text, pc \in Calling, token # "EOFTOK",
           pc' = "idle", calls' = calls + 1,
           NEW t \in AnyToken,
           token' = Source!Lexed(token, t, m_terminator', local.reserved), token' # "EOFTOK",
           local.from < Len(text),
           ~m_error' => local.from < pos' /\ m_buffer8' = <<>> /\ m_lastToken' = token',
           token' # "ERRORTOK" => ~m_error' /\ m_buffer16' = <<>>
    PROVE  Returns
<1>1. calls \in Nat /\ local.from \in Nat /\ calls <= local.from /\ Len(text) \in Nat
  BY InACall, CallOffsets, InvMeans DEF SourceInv
<1>2. t \in After
  BY <1>1 DEF After
<1>3. pos' \in Nat
  BY InvMeans DEF LexerInv, TypeOK, SourceInv
<1>4. local.from < pos' => calls' <= pos'
  BY <1>1, <1>3
<1> QED
  BY <1>2, <1>4 DEF Returns

\* The end of the text.
LEMMA ReturnsEnd ==
    ASSUME SourceInv, pc \in {"start", "inSingleLineComment"}, pc' = "idle", calls' = calls + 1,
           token' = "EOFTOK", pos' = Len(text), m_terminator' = m_terminator,
           UNCHANGED <<m_error, m_buffer8, m_buffer16>>
    PROVE  Returns
<1>1. pc \in Calling
  BY DEF Calling
<1>2. /\ ~m_error /\ m_buffer8 = <<>> /\ m_buffer16 = <<>>
      /\ m_terminator \in BOOLEAN /\ local.reserved \in BOOLEAN
      /\ ~(m_terminator /\ token \in Source!Restricted)
  BY <1>1, InACall
<1>3. "EOFTOK" \notin Keywords
  BY DEF Keywords
<1>4. token' = Source!Lexed(token, "EOFTOK", m_terminator', local.reserved)
  BY <1>2, <1>3, LexedToken
<1>5. "EOFTOK" \in After
  BY DEF After
<1> QED
  BY <1>1, <1>2, <1>4, <1>5 DEF Returns

LEMMA lexEndReturns ==
    ASSUME SourceInv, pc = "start", lexEnd \/ lexInvalid
    PROVE  Returns
<1>1. pc' = "idle" /\ pos' = TokenStart /\ calls' = calls + 1 /\ LexerInv' /\ text' = text
  BY lexEndStep DEF SourceInv
<1>2. CASE lexEnd
  <2>1. /\ First = "end" /\ token' = "EOFTOK" /\ m_terminator' = m_terminator
        /\ UNCHANGED <<m_error, m_buffer8, m_buffer16>>
    BY <1>2 DEF lexEnd, returnEnd
  <2>2. TokenStart = Len(text)
    <3>1. /\ TokenStart \in Nat /\ TokenStart \in pos .. Len(text) /\ text \in Seq(Characters)
          /\ pos \in Nat /\ Len(text) \in Nat
      BY InvMeans, TokenStartBounds DEF SourceInv
    <3>2. TokenStart >= Len(text)
      BY <2>1, <3>1, TextCharacters DEF First
    <3> QED
      BY <3>1, <3>2
  <2> QED
    BY <1>1, <2>1, <2>2, ReturnsEnd
<1>3. CASE lexInvalid
  <2>1. /\ First = "#" /\ token' = "ERRORTOK" /\ m_terminator' = m_terminator /\ m_error' = TRUE
    BY <1>3 DEF lexInvalid, returnError
  <2>2. First # "end" /\ pc \in Calling
    BY <2>1 DEF Calling
  <2>3. token # "EOFTOK" /\ local.from < Len(text)
    BY <2>2, NotAtEnd, TokenIsInText
  <2>4. "ERRORTOK" \in AnyToken /\ "ERRORTOK" \notin Keywords
    BY DEF AnyToken, Tokens, Keywords
  <2>5. token' = Source!Lexed(token, "ERRORTOK", m_terminator', local.reserved)
    BY <2>1, <2>2, <2>4, InACall, LexedToken
  <2> QED
    BY <1>1, <2>1, <2>2, <2>3, <2>4, <2>5, ReturnsToken
<1> QED
  BY <1>2, <1>3

\* A line break ends the call after a restricted keyword, and only then.
LEMMA lineBreakReturns ==
    ASSUME SourceInv, LexerInv', text' = text, pc \in {"start", "inSingleLineComment"},
           token # "EOFTOK", NEW p \in Nat, NEW l, lineBreakAt(p, l), l.from = local.from,
           l.before = local.before, l.reserved = local.reserved,
           local.from < pos',
           IF lastTokenWasRestrKeyword
           THEN /\ pc' = "idle" /\ token' = "SEMICOLON" /\ m_lastToken' = "SEMICOLON"
                /\ calls' = calls + 1
           ELSE /\ pc' = "start" /\ token' = token /\ m_lastToken' = m_lastToken
                /\ local' = l /\ calls' = calls
    PROVE  Stays \/ Returns
<1>1. pc \in Calling /\ "start" \in Calling
  BY DEF Calling
<1>2. /\ m_terminator' = TRUE /\ UNCHANGED <<m_error, m_buffer8, m_buffer16>>
  BY DEF lineBreakAt
<1>3. /\ ~m_error /\ m_buffer8 = <<>> /\ m_buffer16 = <<>>
      /\ lastTokenWasRestrKeyword => token \in Source!Restricted
  BY <1>1, InACall
<1>4. CASE lastTokenWasRestrKeyword
  <2>1. pos' \in Nat /\ pos' <= Len(text) /\ local.from \in Nat /\ Len(text) \in Nat
    BY InvMeans, CallOffsets DEF LexerInv, TypeOK, SourceInv
  <2>2. local.from < Len(text)
    BY <2>1
  <2>3. "SEMICOLON" \in AnyToken
    BY DEF AnyToken, Tokens, Punctuation
  <2>4. token' = Source!Lexed(token, "SEMICOLON", m_terminator', local.reserved)
    BY <1>2, <1>3, <1>4, LexedSemicolon
  <2> QED
    BY <1>1, <1>2, <1>3, <1>4, <2>2, <2>3, <2>4, ReturnsToken
<1>5. CASE ~lastTokenWasRestrKeyword
  BY <1>1, <1>2, <1>3, <1>5 DEF Stays
<1> QED
  BY <1>4, <1>5

LEMMA lexLineTerminatorReturns ==
    ASSUME SourceInv, pc = "start", lexLineTerminator
    PROVE  Stays \/ Returns
<1>1. lineBreakAt(TokenStart, Started) /\ First \in LineTerminators
  BY DEF lexLineTerminator
<1>2. First # "end" /\ pc \in Calling
  BY <1>1, Classes DEF Calling
<1>3. token # "EOFTOK"
  BY <1>2, NotAtEnd
<1>4. /\ LexerInv' /\ text' = text /\ pos' > TokenStart
      /\ IF lastTokenWasRestrKeyword
         THEN /\ pc' = "idle" /\ token' = "SEMICOLON" /\ m_lastToken' = "SEMICOLON"
              /\ calls' = calls + 1
         ELSE /\ pc' = "start" /\ token' = token /\ m_lastToken' = m_lastToken
              /\ local' = Started /\ calls' = calls
  BY lexLineTerminatorStep DEF SourceInv
<1>5. /\ TokenStart \in Nat /\ Started.from = local.from
      /\ Started.before = local.before /\ Started.reserved = local.reserved
  BY TokenStartBounds DEF SourceInv
<1>6. local.from < pos'
  <2>1. local.from \in Nat /\ local.from <= TokenStart
    BY <1>2, TokenIsInText
  <2>2. pos' \in Nat
    BY <1>4, InvMeans DEF LexerInv, TypeOK
  <2>3. \A f, t, q \in Nat : f <= t /\ q > t => f < q
    OBVIOUS
  <2> QED
    BY <1>4, <1>5, <2>1, <2>2, <2>3
<1> QED
  BY <1>1, <1>3, <1>4, <1>5, <1>6, lineBreakReturns

LEMMA lexCommentStays ==
    ASSUME SourceInv, pc = "start", lexComment
    PROVE  Stays
<1>1. /\ local' = Started /\ pos' = TokenStart + 2
      /\ pc' \in {"inSingleLineComment", "inComment"}
      /\ token' = token /\ m_lastToken' = m_lastToken /\ calls' = calls
  BY lexCommentStep DEF SourceInv
<1>2. m_terminator' = m_terminator /\ UNCHANGED <<m_error, m_buffer8, m_buffer16>>
  BY DEF lexComment
<1>3. First # "end" /\ pc \in Calling
  <2>1. TokenStart \in Nat /\ text \in Seq(Characters)
    BY InvMeans, TokenStartBounds DEF SourceInv
  <2>2. Len(text) \in Nat /\ TokenStart + 2 \in TokenStart .. Len(text)
    BY <2>1, CommentStart DEF lexComment
  <2>3. TokenStart < Len(text)
    BY <2>1, <2>2
  <2> QED
    BY <2>1, <2>3, TextCharacters DEF First, Calling
<1>4. token # "EOFTOK"
  BY <1>3, NotAtEnd
<1>5. /\ Started.from = local.from /\ Started.before = local.before
      /\ Started.reserved = local.reserved
  BY TokenStartBounds DEF SourceInv
<1>6. local.from < pos'
  <2>1. \A f, t \in Nat : f <= t => f < t + 2
    OBVIOUS
  <2> QED
    BY <1>1, <1>3, <2>1, TokenIsInText
<1>7. m_buffer16 = <<>>
  BY <1>3, InACall
<1> QED
  BY <1>1, <1>2, <1>3, <1>4, <1>5, <1>6, <1>7 DEF Stays, Calling

LEMMA lexOperatorReturns ==
    ASSUME SourceInv, pc = "start", lexOperator
    PROVE  Returns
<1>1. PICK op \in Operators : StartsWith(TokenStart, op[1]) /\ token' = Automatic(op[2])
  BY DEF lexOperator, returnToken
<1>2. /\ m_terminator' = m_terminator /\ UNCHANGED <<m_error, m_buffer8, m_buffer16>>
  BY DEF lexOperator
<1>3. First # "end" /\ pc \in Calling
  <2>1. TokenStart \in Nat /\ text \in Seq(Characters) /\ Len(text) \in Nat
    BY InvMeans, TokenStartBounds DEF SourceInv
  <2>2. TokenStart + Len(op[1]) <= Len(text) /\ Len(op[1]) \in 1 .. 4
    BY <1>1, <2>1, Spellings, Started1 DEF IsSpelling
  <2>3. \A l \in 1 .. 4, t, n \in Nat : t + l <= n => t < n
    OBVIOUS
  <2>4. TokenStart < Len(text)
    BY <2>1, <2>2, <2>3
  <2> QED
    BY <2>1, <2>4, TextCharacters DEF First, Calling
<1>4. token # "EOFTOK" /\ local.from < Len(text) /\ local.from \in Nat /\ local.from <= TokenStart
      /\ TokenStart \in Nat
  BY <1>3, NotAtEnd, TokenIsInText
<1>5. /\ LexerInv' /\ text' = text /\ pos' > TokenStart /\ pc' = "idle" /\ calls' = calls + 1
      /\ m_lastToken' = token'
  BY lexOperatorStep DEF SourceInv
<1>6. local.from < pos'
  <2>1. pos' \in Nat
    BY <1>5, InvMeans DEF LexerInv, TypeOK
  <2>2. \A f, t, q \in Nat : f <= t /\ q > t => f < q
    OBVIOUS
  <2> QED
    BY <1>4, <1>5, <2>1, <2>2
<1>7. op[2] \in AnyToken /\ op[2] \notin {"EOFTOK", "ERRORTOK"} /\ op[2] \notin Keywords
  BY OperatorsAreTokens, OperatorsAreNoKeywords DEF AnyToken
<1>8. token' = Source!Lexed(token, op[2], m_terminator', local.reserved)
  BY <1>1, <1>2, <1>3, <1>7, InACall, LexedOperator
<1>9. token' \notin {"EOFTOK", "ERRORTOK"}
  BY <1>1, <1>7 DEF Automatic
<1>10. ~m_error /\ m_buffer8 = <<>> /\ m_buffer16 = <<>>
  BY <1>3, InACall
<1> QED
  BY <1>2, <1>3, <1>4, <1>5, <1>6, <1>7, <1>8, <1>9, <1>10, ReturnsToken

LEMMA lexNumberReturns ==
    ASSUME SourceInv, pc = "start", lexNumber
    PROVE  Returns
<1>1. /\ LexerInv' /\ text' = text /\ pos' > TokenStart /\ pc' = "idle" /\ calls' = calls + 1
      /\ \/ token' = "NUMBER" /\ m_lastToken' = "NUMBER" /\ m_buffer8' = <<>>
            /\ m_error' = m_error
         \/ token' = "ERRORTOK" /\ m_error' = TRUE
  BY lexNumberStep DEF SourceInv
<1>2. m_terminator' = m_terminator /\ m_buffer16' = m_buffer16
  BY DEF lexNumber
<1>3. First # "end" /\ pc \in Calling
  <2>1. First \in Digits \/ First = "."
    BY DEF lexNumber
  <2> QED
    BY <2>1, Classes DEF Calling
<1>4. token # "EOFTOK" /\ local.from < Len(text) /\ local.from \in Nat /\ local.from <= TokenStart
      /\ TokenStart \in Nat
  BY <1>3, NotAtEnd, TokenIsInText
<1>5. local.from < pos'
  <2>1. pos' \in Nat
    BY <1>1, InvMeans DEF LexerInv, TypeOK
  <2>2. \A f, t, q \in Nat : f <= t /\ q > t => f < q
    OBVIOUS
  <2> QED
    BY <1>1, <1>4, <2>1, <2>2
<1>6. token' \in {"NUMBER", "ERRORTOK"} /\ token' \in AnyToken /\ token' \notin Keywords
  <2>1. {"NUMBER", "ERRORTOK"} \cap Keywords = {} /\ {"NUMBER", "ERRORTOK"} \subseteq AnyToken
    BY DEF AnyToken, Tokens, Keywords
  <2> QED
    BY <1>1, <2>1
<1>7. token' = Source!Lexed(token, token', m_terminator', local.reserved)
  <2>1. token' \notin {"PLUSPLUS", "MINUSMINUS"}
    BY <1>6
  <2> QED
    BY <1>2, <1>3, <1>6, <2>1, InACall, LexedToken
<1>8. ~m_error /\ m_buffer16 = <<>> /\ token' # "EOFTOK"
  BY <1>3, <1>6, InACall
<1> QED
  BY <1>1, <1>2, <1>3, <1>4, <1>5, <1>6, <1>7, <1>8, ReturnsToken

LEMMA lexIdentifierStays ==
    ASSUME SourceInv, pc = "start", lexIdentifier
    PROVE  Stays
<1>1. /\ pos' = TokenStart /\ pc' = "inIdentifier" /\ text' = text
      /\ local'.from = local.from /\ local'.before = local.before
      /\ local'.reserved = local.reserved
      /\ token' = token /\ m_lastToken' = m_lastToken /\ calls' = calls
  BY lexIdentifierStep DEF SourceInv
<1>2. /\ m_terminator' = m_terminator /\ UNCHANGED <<m_error, m_buffer8>>
      /\ First \in IdentStart \cup {"\\"}
  BY DEF lexIdentifier
<1>3. First # "end" /\ pc \in Calling
  BY <1>2, Classes DEF Calling
<1>4. token # "EOFTOK"
  BY <1>3, NotAtEnd
<1>5. CharAt(pos') \in IdentStart \cup {"\\"}
  BY <1>1, <1>2 DEF First
<1> QED
  BY <1>1, <1>2, <1>3, <1>4, <1>5 DEF Stays, Calling

LEMMA lexStringStays ==
    ASSUME SourceInv, pc = "start", lexString
    PROVE  Stays
<1>1. /\ pos' = TokenStart + 1 /\ pc' = "inString"
      /\ local'.from = local.from /\ local'.before = local.before
      /\ local'.reserved = local.reserved
      /\ token' = token /\ m_lastToken' = m_lastToken /\ calls' = calls
  BY lexStringStep DEF SourceInv
<1>2. /\ m_terminator' = m_terminator /\ UNCHANGED <<m_error, m_buffer8>> /\ First \in Quotes
  BY DEF lexString
<1>3. First # "end" /\ pc \in Calling
  BY <1>2 DEF Calling, Quotes
<1>4. token # "EOFTOK"
  BY <1>3, NotAtEnd
<1>5. local.from < pos'
  <2>1. \A f, t \in Nat : f <= t => f < t + 1
    OBVIOUS
  <2> QED
    BY <1>1, <1>3, <2>1, TokenIsInText
<1> QED
  BY <1>1, <1>2, <1>3, <1>4, <1>5 DEF Stays, Calling

\* Inside a comment or a string the lexer is past the beginning of the call.
LEMMA InsideToken ==
    ASSUME SourceInv, pc \in Calling \ {"start"}
    PROVE  /\ token # "EOFTOK" /\ local.from \in Nat /\ pos \in Nat /\ Len(text) \in Nat
           /\ pos <= Len(text)
           /\ pc # "inIdentifier" => local.from < pos
           /\ pc = "inIdentifier" => local.from < pos \/ CharAt(pos) \in IdentStart \cup {"\\"}
<1>1. token # "EOFTOK"
  BY NotAtEnd
<1>2. local.from \in Nat /\ pos \in 0 .. Len(text) /\ Len(text) \in Nat
  BY InvMeans, CallOffsets DEF SourceInv
<1> QED
  BY <1>1, <1>2 DEF SourceInv, Consumes, Calling

LEMMA lexLineCommentReturns ==
    ASSUME SourceInv, lexLineComment
    PROVE  Stays \/ Returns
<1>1. pc = "inSingleLineComment" /\ pc \in Calling \ {"start"}
  BY DEF lexLineComment, Calling
<1>2. token # "EOFTOK" /\ local.from \in Nat /\ pos \in Nat /\ local.from < pos
  BY <1>1, InsideToken
<1>3. /\ LexerInv' /\ text' = text /\ local'.from = local.from
      /\ \/ /\ pc' = "idle" /\ token' = "EOFTOK" /\ pos' = Len(text)
            /\ calls' = calls + 1 /\ m_terminator' = m_terminator
            /\ UNCHANGED <<m_error, m_buffer8, m_buffer16>>
         \/ /\ \E p \in pos .. Len(text) : lineBreakAt(p, local)
                                           /\ CharAt(p) \in LineTerminators /\ pos' > p
            /\ IF lastTokenWasRestrKeyword
               THEN /\ pc' = "idle" /\ token' = "SEMICOLON" /\ m_lastToken' = "SEMICOLON"
                    /\ calls' = calls + 1
               ELSE /\ pc' = "start" /\ token' = token /\ m_lastToken' = m_lastToken
                    /\ local' = local /\ calls' = calls
  BY lexLineCommentStep DEF SourceInv
<1>4. CASE /\ pc' = "idle" /\ token' = "EOFTOK" /\ pos' = Len(text)
           /\ calls' = calls + 1 /\ m_terminator' = m_terminator
           /\ UNCHANGED <<m_error, m_buffer8, m_buffer16>>
  BY <1>1, <1>4, ReturnsEnd
<1>5. CASE /\ \E p \in pos .. Len(text) : lineBreakAt(p, local)
                                          /\ CharAt(p) \in LineTerminators /\ pos' > p
           /\ IF lastTokenWasRestrKeyword
              THEN /\ pc' = "idle" /\ token' = "SEMICOLON" /\ m_lastToken' = "SEMICOLON"
                   /\ calls' = calls + 1
              ELSE /\ pc' = "start" /\ token' = token /\ m_lastToken' = m_lastToken
                   /\ local' = local /\ calls' = calls
  <2>1. PICK p \in pos .. Len(text) : lineBreakAt(p, local) /\ pos' > p
    BY <1>5
  <2>2. pos' \in Nat
    BY <1>3, InvMeans DEF LexerInv, TypeOK
  <2>3. p \in Nat /\ local.from < pos'
    BY <1>2, <2>1, <2>2
  <2> QED
    BY <1>1, <1>2, <1>3, <1>5, <2>1, <2>3, lineBreakReturns
<1> QED
  BY <1>3, <1>4, <1>5

LEMMA lexMultilineCommentStays ==
    ASSUME SourceInv, lexMultilineComment
    PROVE  Stays
<1>1. /\ pos' > pos /\ pc' \in {"start", "inComment"} /\ local' = local /\ pc = "inComment"
      /\ token' = token /\ m_lastToken' = m_lastToken /\ calls' = calls /\ LexerInv'
  BY lexMultilineCommentStep DEF SourceInv
<1>2. m_terminator' = m_terminator /\ UNCHANGED <<m_error, m_buffer8, m_buffer16>>
  BY DEF lexMultilineComment
<1>3. pc \in Calling \ {"start"}
  BY <1>1 DEF Calling
<1>4. token # "EOFTOK" /\ local.from < pos'
  <2>1. pos' \in Nat
    BY <1>1, InvMeans DEF LexerInv, TypeOK
  <2> QED
    BY <1>1, <1>3, <2>1, InsideToken
<1>5. m_buffer16 = <<>>
  BY <1>1, <1>3, InACall
<1> QED
  BY <1>1, <1>2, <1>3, <1>4, <1>5 DEF Stays, Calling

\* An error in the middle of a token.
LEMMA ErrorReturns ==
    ASSUME SourceInv, LexerInv', text' = text, pc \in {"inComment", "inString"}, pc' = "idle",
           calls' = calls + 1, token' = "ERRORTOK", m_error' = TRUE, m_terminator' = m_terminator
    PROVE  Returns
<1>1. pc \in Calling \ {"start"} /\ pc # "inIdentifier"
  BY DEF Calling
<1>2. token # "EOFTOK" /\ local.from < Len(text)
  BY <1>1, InsideToken
<1>3. "ERRORTOK" \in AnyToken /\ "ERRORTOK" \notin Keywords
  BY DEF AnyToken, Tokens, Keywords
<1>4. token' = Source!Lexed(token, "ERRORTOK", m_terminator', local.reserved)
  BY <1>1, <1>3, InACall, LexedToken
<1> QED
  BY <1>1, <1>2, <1>3, <1>4, ReturnsToken

LEMMA unterminatedCommentReturns ==
    ASSUME SourceInv, unterminatedComment
    PROVE  Returns
<1>1. /\ LexerInv' /\ text' = text /\ pc' = "idle" /\ calls' = calls + 1
  BY unterminatedCommentStep DEF SourceInv
<1>2. /\ pc = "inComment" /\ token' = "ERRORTOK" /\ m_error' = TRUE /\ m_terminator' = m_terminator
  BY DEF unterminatedComment, returnError
<1> QED
  BY <1>1, <1>2, ErrorReturns

LEMMA parseStringReturns ==
    ASSUME SourceInv, parseString
    PROVE  Stays \/ Returns
<1>1. /\ LexerInv' /\ text' = text /\ pos' >= pos
      /\ local'.from = local.from
      /\ \/ /\ pc' = "inString" /\ token' = token /\ m_lastToken' = m_lastToken
            /\ calls' = calls /\ local'.before = local.before
            /\ local'.reserved = local.reserved /\ m_error' = m_error
         \/ /\ pc' = "idle" /\ calls' = calls + 1
            /\ \/ token' = "ERRORTOK" /\ m_error' = TRUE
               \/ /\ token' = "STRING" /\ m_lastToken' = "STRING" /\ m_buffer16' = <<>>
                  /\ m_error' = m_error
  BY parseStringStep DEF SourceInv
<1>2. pc = "inString" /\ m_terminator' = m_terminator /\ m_buffer8' = m_buffer8
  BY DEF parseString
<1>3. pc \in Calling \ {"start"} /\ pc # "inIdentifier"
  BY <1>2 DEF Calling
<1>4. /\ token # "EOFTOK" /\ local.from \in Nat /\ pos \in Nat /\ Len(text) \in Nat
      /\ pos <= Len(text) /\ local.from < pos
  BY <1>3, InsideToken
<1>5. local.from < pos' /\ local.from < Len(text)
  <2>1. pos' \in Nat
    BY <1>1, InvMeans DEF LexerInv, TypeOK
  <2> QED
    BY <1>1, <1>4, <2>1
<1>6. CASE /\ pc' = "inString" /\ token' = token /\ m_lastToken' = m_lastToken
           /\ calls' = calls /\ local'.before = local.before
           /\ local'.reserved = local.reserved /\ m_error' = m_error
  BY <1>1, <1>2, <1>3, <1>4, <1>5, <1>6 DEF Stays, Calling
<1>7. CASE pc' = "idle" /\ calls' = calls + 1 /\ token' = "ERRORTOK" /\ m_error' = TRUE
  BY <1>1, <1>2, <1>7, ErrorReturns
<1>8. CASE /\ pc' = "idle" /\ calls' = calls + 1 /\ token' = "STRING" /\ m_lastToken' = "STRING"
           /\ m_buffer16' = <<>> /\ m_error' = m_error
  <2>1. "STRING" \in AnyToken /\ "STRING" \notin Keywords
    BY DEF AnyToken, Tokens, Keywords
  <2>2. token' = Source!Lexed(token, "STRING", m_terminator', local.reserved)
    BY <1>2, <1>3, <1>8, <2>1, InACall, LexedToken
  <2>3. ~m_error /\ m_buffer8 = <<>>
    BY <1>3, InACall
  <2> QED
    BY <1>1, <1>2, <1>3, <1>4, <1>5, <1>8, <2>1, <2>2, <2>3, ReturnsToken
<1> QED
  BY <1>1, <1>6, <1>7, <1>8

LEMMA parseIdentifierReturns ==
    ASSUME SourceInv, parseIdentifier
    PROVE  Stays \/ Returns
<1>1. /\ LexerInv' /\ text' = text /\ pos' >= pos /\ local'.from = local.from
      /\ \/ /\ pc' = "inIdentifier" /\ token' = token /\ m_lastToken' = m_lastToken
            /\ pos' > pos /\ m_error' = m_error
            /\ calls' = calls /\ local'.before = local.before
            /\ local'.reserved = local.reserved
         \/ /\ pc' = "idle" /\ calls' = calls + 1 /\ m_lastToken' = token'
            /\ \/ token' = "ERRORTOK" /\ pos' > pos
               \/ /\ token' \in Keywords \cup {"IDENT"} /\ m_buffer16' = <<>>
                  /\ ~local.reserved => token' = "IDENT"
                  /\ pos' = SkipWhile(pos, IdentPart)
                  /\ CharAt(SkipWhile(pos, IdentPart)) # "\\"
  BY parseIdentifierStep DEF SourceInv
<1>2. /\ pc = "inIdentifier" /\ m_terminator' = m_terminator /\ m_buffer8' = m_buffer8
      /\ m_error' = m_error
  BY DEF parseIdentifier
<1>3. pc \in Calling \ {"start"}
  BY <1>2 DEF Calling
<1>4. /\ token # "EOFTOK" /\ local.from \in Nat /\ pos \in Nat /\ Len(text) \in Nat
      /\ pos <= Len(text) /\ local.from <= pos
      /\ local.from < pos \/ CharAt(pos) \in IdentStart \cup {"\\"}
      /\ pos' \in Nat /\ pos' <= Len(text)
  <2>1. pos' \in Nat /\ pos' <= Len(text)
    BY <1>1, InvMeans DEF LexerInv, TypeOK, SourceInv
  <2> QED
    BY <1>2, <1>3, <2>1, InsideToken, CallOffsets DEF SourceInv
<1>5. ~m_error /\ m_buffer8 = <<>>
  BY <1>3, InACall
<1>6. CASE /\ pc' = "inIdentifier" /\ token' = token /\ m_lastToken' = m_lastToken
           /\ pos' > pos /\ calls' = calls /\ local'.before = local.before
           /\ local'.reserved = local.reserved
  <2>1. local.from < pos'
    BY <1>4, <1>6
  <2> QED
    BY <1>1, <1>2, <1>3, <1>4, <1>6, <2>1 DEF Stays, Calling
<1>7. CASE /\ pc' = "idle" /\ calls' = calls + 1 /\ m_lastToken' = token'
           /\ token' = "ERRORTOK" /\ pos' > pos
  <2>1. "ERRORTOK" \in AnyToken /\ "ERRORTOK" \notin Keywords
    BY DEF AnyToken, Tokens, Keywords
  <2>2. token' = Source!Lexed(token, "ERRORTOK", m_terminator', local.reserved)
    BY <1>2, <1>3, <1>7, <2>1, InACall, LexedToken
  <2>3. local.from < pos' /\ local.from < Len(text)
    BY <1>4, <1>7
  <2> QED
    BY <1>1, <1>2, <1>3, <1>4, <1>5, <1>7, <2>1, <2>2, <2>3, ReturnsToken
<1>8. CASE /\ pc' = "idle" /\ calls' = calls + 1 /\ m_lastToken' = token'
           /\ token' \in Keywords \cup {"IDENT"} /\ m_buffer16' = <<>>
           /\ ~local.reserved => token' = "IDENT"
           /\ pos' = SkipWhile(pos, IdentPart)
           /\ CharAt(SkipWhile(pos, IdentPart)) # "\\"
  <2>1. token' \in AnyToken \ {"PLUSPLUS", "MINUSMINUS", "EOFTOK", "ERRORTOK"}
    <3>1. Keywords \cup {"IDENT"} \subseteq AnyToken \ {"PLUSPLUS", "MINUSMINUS", "EOFTOK", "ERRORTOK"}
      BY DEF AnyToken, Tokens, Keywords
    <3> QED
      BY <1>8, <3>1
  <2>2. local.reserved \/ token' \notin Keywords
    <3>1. "IDENT" \notin Keywords
      BY DEF Keywords
    <3> QED
      BY <1>8, <3>1
  <2>3. token' = Source!Lexed(token, token', m_terminator', local.reserved)
    BY <1>2, <1>3, <2>1, <2>2, InACall, LexedToken
  <2>4. local.from < pos'
    <3>1. CASE local.from < pos
      BY <1>1, <1>4, <3>1
    <3>2. CASE CharAt(pos) \in IdentStart \cup {"\\"}
      <4> DEFINE q == SkipWhile(pos, IdentPart)
      <4>1. q \in pos .. Len(text) /\ CharAt(q) \notin IdentPart
        BY <1>4, InvMeans, PlainSkip, NoClassHasABreak DEF SourceInv
      <4>2. q # pos
        BY <1>8, <3>2, <4>1, Classes
      <4> HIDE DEF q
      <4>3. pos' = q
        BY <1>8 DEF q
      <4> QED
        BY <1>4, <4>1, <4>2, <4>3
    <3> QED
      BY <1>4, <3>1, <3>2
  <2>5. local.from < Len(text)
    BY <1>4, <2>4
  <2> QED
    BY <1>1, <1>2, <1>3, <1>4, <1>5, <1>8, <2>1, <2>3, <2>4, <2>5, ReturnsToken
<1> QED
  BY <1>1, <1>6, <1>7, <1>8

\* Every step of the lexer begins a call, ends one, or is inside one.
LEMMA StepIsInACall ==
    ASSUME SourceInv, Next
    PROVE  lex \/ scanRegExp \/ readRegExp \/ Stays \/ Returns
BY lexEndReturns, lexLineTerminatorReturns, lexCommentStays, lexOperatorReturns, lexNumberReturns,
   lexIdentifierStays, lexStringStays, lexLineCommentReturns, lexMultilineCommentStays,
   unterminatedCommentReturns, parseStringReturns, parseIdentifierReturns DEF Next, Step

LEMMA lexKeeps ==
    ASSUME SourceInv, lex
    PROVE  /\ Clean' /\ LastIsToken' /\ Consumes'
           /\ Ready /\ pc' = "start" /\ local'.before = m_terminator
<1>1. /\ pc \in Waiting /\ Ready /\ pc' = "start"
      /\ token' = token /\ m_lastToken' = m_lastToken /\ calls' = calls
      /\ m_terminator' = FALSE
      /\ UNCHANGED <<text, pos, m_error, m_buffer8, m_buffer16>>
  BY DEF lex, GoOn
<1>2. local'.from = pos /\ local'.before = m_terminator
  <2>1. PICK reserved \in BOOLEAN :
          local' = [local EXCEPT !.reserved = reserved, !.before = m_terminator, !.from = pos]
    BY DEF lex, GoOn
  <2>2. local \in Locals
    BY InvMeans DEF SourceInv
  <2> QED
    BY <2>1, <2>2 DEF Locals
<1>3. Clean'
  BY <1>1 DEF Clean, Ready
<1>4. LastIsToken'
  BY <1>1 DEF SourceInv, LastIsToken, Ready
<1>5. Consumes'
  BY <1>1, <1>2 DEF SourceInv, Consumes, Ready, Calling
<1> QED
  BY <1>1, <1>2, <1>3, <1>4, <1>5

LEMMA scanRegExpKeeps ==
    ASSUME SourceInv, scanRegExp
    PROVE  Clean' /\ LastIsToken' /\ Consumes' /\ Ready /\ pc' = "inRegExp"
<1>1. /\ pc = "idle" /\ token \in {"DIVIDE", "DIVEQUAL"} /\ pc' = "inRegExp"
      /\ token' = token /\ m_lastToken' = m_lastToken /\ calls' = calls
      /\ UNCHANGED <<text, pos, m_terminator, m_error, m_buffer8>>
  BY DEF scanRegExp, GoOn
<1>2. Ready
  BY <1>1 DEF SourceInv, Clean
<1>3. Clean'
  BY <1>1, <1>2 DEF Clean, Ready
<1>4. LastIsToken'
  BY <1>1 DEF SourceInv, LastIsToken, Calling
<1>5. Consumes'
  BY <1>1, <1>2 DEF SourceInv, Consumes, Ready, Waiting, Calling
<1> QED
  BY <1>1, <1>2, <1>3, <1>4, <1>5

LEMMA readRegExpKeeps ==
    ASSUME SourceInv, readRegExp
    PROVE  /\ Clean' /\ LastIsToken' /\ Consumes'
           /\ pc = "inRegExp" /\ pc' \in {"inRegExp", "scanned"}
           /\ pc' = "scanned" => Ready'
<1>1. /\ pc = "inRegExp" /\ pc' \in {"inRegExp", "scanned"} /\ pos' >= pos
      /\ pc' = "scanned" => m_buffer16' = <<>>
      /\ token' = token /\ m_lastToken' = m_lastToken /\ calls' = calls /\ LexerInv'
  BY readRegExpStep DEF SourceInv
<1>2. UNCHANGED <<text, m_terminator, m_error, m_buffer8>>
  BY DEF readRegExp
<1>3. ~m_error /\ m_buffer8 = <<>>
  BY <1>1 DEF SourceInv, Clean
<1>4. Clean' /\ (pc' = "scanned" => Ready')
  BY <1>1, <1>2, <1>3 DEF Clean, Ready
<1>5. LastIsToken'
  BY <1>1, <1>2 DEF SourceInv, LastIsToken, Calling
<1>6. Consumes'
  <2>1. token # "EOFTOK" /\ calls <= pos
    BY <1>1, <1>3 DEF SourceInv, Consumes
  <2>2. calls \in Nat /\ pos \in Nat /\ pos' \in Nat
    BY <1>1, InvMeans DEF SourceInv, LexerInv, TypeOK
  <2>3. calls <= pos'
    BY <1>1, <2>1, <2>2
  <2> QED
    BY <1>1, <2>1, <2>3 DEF Consumes, Calling
<1> QED
  BY <1>1, <1>4, <1>5, <1>6

\* The two kinds of steps keep the invariant.
LEMMA StaysKeeps ==
    ASSUME SourceInv, text' = text, Stays
    PROVE  Clean' /\ LastIsToken' /\ Consumes'
<1>1. /\ pc \in Calling /\ pc' \in Calling
      /\ token' = token /\ m_lastToken' = m_lastToken /\ calls' = calls /\ m_error' = m_error
      /\ m_buffer8' = m_buffer8
  BY DEF Stays
<1>2. ~m_error /\ m_buffer8 = <<>> /\ (m_terminator => ~lastTokenWasRestrKeyword)
  BY <1>1, InACall DEF SourceInv, LastIsToken
<1>3. Clean'
  BY <1>1, <1>2 DEF Clean, Stays, Calling
<1>4. LastIsToken'
  BY <1>1, <1>2 DEF SourceInv, LastIsToken, lastTokenWasRestrKeyword, Stays
<1>5. Consumes'
  <2>1. token # "EOFTOK" /\ pc' \notin Waiting \cup {"inRegExp"} /\ local'.from = local.from
    BY <1>1 DEF Stays, Calling, Waiting
  <2>2. calls <= local.from
    BY <1>1, <2>1 DEF SourceInv, Consumes
  <2>3. CharAt(pos)' = CharAt(pos')
    BY DEF CharAt
  <2>4. pc' \in {"inSingleLineComment", "inComment", "inString"} => local'.from < pos'
    BY <2>1 DEF Stays
  <2>5. pc' = "inIdentifier" => local'.from < pos' \/ CharAt(pos)' \in IdentStart \cup {"\\"}
    BY <2>1, <2>3 DEF Stays
  <2> QED
    BY <1>1, <2>1, <2>2, <2>4, <2>5 DEF Consumes
<1> QED
  BY <1>3, <1>4, <1>5

LEMMA ReturnsKeeps ==
    ASSUME text' = text, Returns
    PROVE  Clean' /\ LastIsToken' /\ Consumes'
<1>1. Clean'
  BY DEF Clean, Ready, Returns
<1>2. LastIsToken'
  BY DEF LastIsToken, Returns, Calling
<1>3. Consumes'
  BY DEF Consumes, Returns, Calling
<1> QED
  BY <1>1, <1>2, <1>3

\* Every action keeps what the mapping needs.
LEMMA SourceInvStep ==
    ASSUME SourceInv, [Next]_vars
    PROVE  SourceInv'
<1>1. CASE Next
  <2>1. LexerInv' /\ text' = text
    BY <1>1, LexerInvStep DEF SourceInv
  <2> QED
    BY <1>1, <2>1, StepIsInACall, lexKeeps, scanRegExpKeeps, readRegExpKeeps, StaysKeeps,
       ReturnsKeeps DEF SourceInv
<1>2. CASE UNCHANGED vars
  <2>1. LexerInv'
    BY <1>2, LexerInvStutter DEF SourceInv
  <2>2. Clean' /\ LastIsToken'
    BY <1>2 DEF SourceInv, vars, Clean, LastIsToken, Ready, lastTokenWasRestrKeyword
  <2>3. Consumes'
    <3>1. CharAt(pos)' = CharAt(pos)
      BY <1>2 DEF vars, CharAt
    <3> QED
      BY <1>2, <3>1 DEF SourceInv, vars, Consumes
  <2> QED
    BY <2>1, <2>2, <2>3 DEF SourceInv
<1> QED
  BY <1>1, <1>2

LEMMA SourceInvInit == Init => SourceInv
<1> SUFFICES ASSUME Init PROVE SourceInv
  OBVIOUS
<1>1. LexerInv
  BY LexerInvInit
<1>2. Clean
  BY DEF Init, Clean, Ready
<1>3. LastIsToken
  BY DEF Init, LastIsToken, Calling
<1>4. Consumes
  BY DEF Init, Consumes, Calling
<1> QED
  BY <1>1, <1>2, <1>3, <1>4 DEF SourceInv

\* The mapped m_terminator and state of the lexer.
newline == IF pc \in Waiting \cup {"inRegExp"} THEN m_terminator ELSE local.before
left == IF pc \notin Waiting \/ Ready THEN "ok"
        ELSE CASE m_error -> "m_error"
               [] ~m_error /\ m_buffer8 # <<>> -> "m_buffer8"
               [] ~m_error /\ m_buffer8 = <<>> -> "m_buffer16"

LEMMA MappedVariables ==
    /\ Source!lexVars = <<Family(Len(text)), token, newline, left, calls>>
    /\ Source!lexVars' = <<Family(Len(text))', token', newline', left', calls'>>
BY DEF Source!lexVars, newline, left

LEMMA LeftOver ==
    /\ pc \notin Waiting => left = "ok"
    /\ Ready => left = "ok"
    /\ ~m_error /\ m_buffer8 = <<>> => left \in {"ok", "m_buffer16"}
    /\ m_error => left \in {"ok", "m_error"}
BY DEF left, Ready

\* Inside a call, and while a pattern is read, the source does nothing.
LEMMA SourceStutters ==
    ASSUME SourceInv, text' = text, lex \/ scanRegExp \/ readRegExp \/ Stays
    PROVE  Source!lexVars' = Source!lexVars
<1>1. Family(Len(text))' = Family(Len(text))
  BY DEF Family, AnyToken
<1>2. CASE lex
  <2>1. /\ Ready /\ pc' = "start" /\ local'.before = m_terminator /\ pc \in Waiting
        /\ token' = token /\ calls' = calls
    BY <1>2, lexKeeps DEF lex, GoOn
  <2>2. newline' = newline
    BY <2>1 DEF newline, Waiting
  <2>3. left' = left
    BY <2>1, LeftOver DEF left, Waiting
  <2> QED
    BY <1>1, <2>1, <2>2, <2>3, MappedVariables
<1>3. CASE scanRegExp
  <2>1. /\ Ready /\ pc' = "inRegExp" /\ pc = "idle" /\ m_terminator' = m_terminator
        /\ token' = token /\ calls' = calls
    BY <1>3, scanRegExpKeeps DEF scanRegExp, GoOn
  <2>2. newline' = newline
    BY <2>1 DEF newline, Waiting
  <2>3. left' = left
    BY <2>1, LeftOver DEF left, Waiting
  <2> QED
    BY <1>1, <2>1, <2>2, <2>3, MappedVariables
<1>4. CASE readRegExp
  <2>1. /\ pc = "inRegExp" /\ pc' \in {"inRegExp", "scanned"} /\ m_terminator' = m_terminator
        /\ pc' = "scanned" => Ready'
    BY <1>4, readRegExpKeeps DEF readRegExp
  <2>2. token' = token /\ calls' = calls
    BY <1>4, readRegExpStep DEF SourceInv
  <2>3. newline' = newline
    BY <2>1 DEF newline, Waiting
  <2>4. left' = left
    BY <2>1, LeftOver DEF left, Waiting, Ready
  <2> QED
    BY <1>1, <2>2, <2>3, <2>4, MappedVariables
<1>5. CASE Stays
  <2>1. /\ pc \in Calling /\ pc' \in Calling /\ local'.before = local.before
        /\ token' = token /\ calls' = calls
    BY <1>5 DEF Stays
  <2>2. newline' = newline
    BY <2>1 DEF newline, Waiting, Calling
  <2>3. left' = left
    BY <2>1 DEF left, Waiting, Calling
  <2> QED
    BY <1>1, <2>1, <2>2, <2>3, MappedVariables
<1> QED
  BY <1>2, <1>3, <1>4, <1>5

\* The end of a call is a call of the source.
LEMMA SourceLexes ==
    ASSUME SourceInv, SourceInv', text' = text, Returns
    PROVE  \E reserved \in BOOLEAN : Source!lex(reserved)
<1> DEFINE n == Len(text)
<1>1. /\ pc \in Calling /\ pc' = "idle" /\ calls' = calls + 1
      /\ token' # "ERRORTOK" => ~m_error' /\ m_buffer16' = <<>>
      /\ ~m_error' => m_buffer8' = <<>>
  BY DEF Returns
<1>2. local.reserved \in BOOLEAN /\ calls \in Nat /\ left = "ok"
  <2>1. pc \notin Waiting
    BY <1>1 DEF Calling, Waiting
  <2> QED
    BY <1>1, <2>1, InACall, LeftOver
<1>3. newline' = m_terminator' /\ m_terminator' \in BOOLEAN
  <2>1. m_terminator' \in BOOLEAN
    BY DEF SourceInv, LexerInv, TypeOK
  <2> QED
    BY <1>1, <2>1 DEF newline, Waiting
<1>4. left' \in Source!LexerAfter(token')
  <2>1. CASE token' = "ERRORTOK"
    <3>1. ~m_error' => left' \in {"ok", "m_buffer16"}
      BY <1>1 DEF left
    <3>2. m_error' => left' \in {"ok", "m_error"}
      BY DEF left
    <3> QED
      BY <2>1, <3>1, <3>2 DEF Source!LexerAfter
  <2>2. CASE token' # "ERRORTOK"
    <3>1. Ready'
      BY <1>1, <2>2 DEF Ready
    <3>2. left' = "ok"
      BY <3>1 DEF left
    <3> QED
      BY <2>2, <3>2 DEF Source!LexerAfter
  <2> QED
    BY <2>1, <2>2
<1>5. Source!TokensAfter(calls) = After
  <2>1. ~(calls < Len(<<>>))
    BY <1>2
  <2>2. /\ Family(n).opening = <<>> /\ Family(n).length = n /\ Family(n).alphabet = AnyToken
    BY DEF Family
  <2> QED
    BY <2>1, <2>2 DEF Source!TokensAfter, After
<1>6. PICK t \in After : /\ token = "EOFTOK" => t = "EOFTOK"
                         /\ token' = Source!Lexed(token, t, m_terminator', local.reserved)
  BY DEF Returns
<1>7. Family(n).breaks = BOOLEAN /\ Family(n)' = Family(n)
  BY DEF Family, AnyToken
<1>8. Source!lex(local.reserved)
  BY <1>1, <1>2, <1>3, <1>4, <1>5, <1>6, <1>7 DEF Source!lex, newline, left
<1> QED
  BY <1>2, <1>8

\* Every step of the lexer is a call of the source, or changes nothing it has.
LEMMA SourceStep ==
    ASSUME SourceInv, SourceInv', [Next]_vars
    PROVE  [\E reserved \in BOOLEAN : Source!lex(reserved)]_(Source!lexVars)
<1>1. CASE Next
  <2>1. text' = text
    BY <1>1, LexerInvStep DEF SourceInv
  <2> QED
    BY <1>1, <2>1, StepIsInACall, SourceStutters, SourceLexes
<1>2. CASE UNCHANGED vars
  <2>1. /\ text' = text /\ pc' = pc /\ m_error' = m_error /\ m_buffer8' = m_buffer8
        /\ m_buffer16' = m_buffer16 /\ m_terminator' = m_terminator /\ local' = local
        /\ token' = token /\ calls' = calls
    BY <1>2 DEF vars
  <2>2. Family(Len(text))' = Family(Len(text))
    BY <2>1 DEF Family, AnyToken
  <2>3. newline' = newline
    BY <2>1 DEF newline
  <2>4. left' = left
    BY <2>1, Zenon DEF left, Ready
  <2> QED
    BY <2>1, <2>2, <2>3, <2>4, MappedVariables
<1> QED
  BY <1>1, <1>2

LEMMA SourceInit == Init => Source!BeforeFirstToken
<1> SUFFICES ASSUME Init PROVE Source!BeforeFirstToken
  OBVIOUS
<1>1. Family(Len(text)) \in Families
  BY DEF Init, Families
<1>2. /\ token = "none" /\ calls = 0 /\ m_terminator \in BOOLEAN /\ pc = "idle" /\ Ready
  BY DEF Init, Ready
<1>3. newline \in BOOLEAN /\ left = "ok"
  BY <1>2, LeftOver DEF newline, Waiting
<1> QED
  BY <1>1, <1>2, <1>3 DEF Source!BeforeFirstToken, newline, left

\* The lexer is the token source the parser is checked with: what the parser
\* sees of a call of lex, whatever characters it reads, is a token that a text
\* of as many tokens as characters could have next.
THEOREM LexerImplementsSource == Spec => Implements
<1>1. Init => SourceInv /\ Source!BeforeFirstToken
  BY SourceInvInit, SourceInit
<1>2. SourceInv /\ [Next]_vars => SourceInv'
  BY SourceInvStep
<1>3. SourceInv /\ SourceInv' /\ [Next]_vars
        => [\E reserved \in BOOLEAN : Source!lex(reserved)]_(Source!lexVars)
  BY SourceStep
<1> QED
  BY <1>1, <1>2, <1>3, PTL DEF Spec, Implements, Source!TokenSpec

-----------------------------------------------------------------------------
(* The values of numbers.                                                  *)

\* What NumbersKeepTheirDigits asks of the value of the literal s.
KeepsDigits(v, s) ==
    /\ v.radix = Literal(s).radix
    /\ IF Literal(s).radix = 10 THEN v.chars = Literal(s).chars
       ELSE Significant(v.chars) = Significant(Literal(s).chars)

LEMMA TextsJoin ==
    ASSUME text \in Seq(Characters), NEW p \in 0 .. Len(text), NEW q \in p .. Len(text),
           NEW r \in q .. Len(text)
    PROVE  Between(p, q) \o Between(q, r) = Between(p, r)
<1>1. q \in 0 .. Len(text) /\ r \in p .. Len(text)
  OBVIOUS
<1>2. /\ Between(p, q) \in Seq(Characters) /\ Len(Between(p, q)) = q - p
      /\ \A i \in 1 .. q - p : Between(p, q)[i] = CharAt(p + i - 1)
  BY BetweenText
<1>3. /\ Between(q, r) \in Seq(Characters) /\ Len(Between(q, r)) = r - q
      /\ \A i \in 1 .. r - q : Between(q, r)[i] = CharAt(q + i - 1)
  BY <1>1, BetweenText
<1>4. /\ Between(p, r) \in Seq(Characters) /\ Len(Between(p, r)) = r - p
      /\ \A i \in 1 .. r - p : Between(p, r)[i] = CharAt(p + i - 1)
  BY <1>1, BetweenText
<1> DEFINE s == Between(p, q)
           t == Between(q, r)
           u == Between(p, r)
<1>5. /\ s \in Seq(Characters) /\ Len(s) = q - p /\ \A i \in 1 .. q - p : s[i] = CharAt(p + i - 1)
      /\ t \in Seq(Characters) /\ Len(t) = r - q /\ \A i \in 1 .. r - q : t[i] = CharAt(q + i - 1)
      /\ u \in Seq(Characters) /\ Len(u) = r - p /\ \A i \in 1 .. r - p : u[i] = CharAt(p + i - 1)
  BY <1>2, <1>3, <1>4
<1> HIDE DEF s, t, u
<1>6. /\ s \o t \in Seq(Characters) /\ Len(s \o t) = r - p
      /\ \A i \in 1 .. r - p : (s \o t)[i] = IF i <= q - p THEN s[i] ELSE t[i - (q - p)]
  <2>1. /\ s \o t \in Seq(Characters) /\ Len(s \o t) = Len(s) + Len(t)
        /\ \A i \in 1 .. Len(s) + Len(t) :
             (s \o t)[i] = IF i <= Len(s) THEN s[i] ELSE t[i - Len(s)]
    BY <1>5, ConcatProperties
  <2>2. Len(s) + Len(t) = r - p
    BY <1>5
  <2> QED
    BY <1>5, <2>1, <2>2
<1>7. ASSUME NEW i \in 1 .. r - p PROVE (s \o t)[i] = u[i]
  <2>1. CASE i <= q - p
    <3>1. i \in 1 .. q - p
      BY <2>1
    <3> QED
      BY <1>5, <1>6, <2>1, <3>1
  <2>2. CASE ~(i <= q - p)
    <3>1. (s \o t)[i] = t[i - (q - p)] /\ i - (q - p) \in 1 .. r - q
      <4>1. ~(i <= q - p) /\ i - (q - p) \in 1 .. r - q
        BY <2>2
      <4> QED
        BY <1>6, <4>1
    <3>2. q + (i - (q - p)) - 1 = p + i - 1
      OBVIOUS
    <3> QED
      BY <1>5, <3>1, <3>2
  <2> QED
    BY <2>1, <2>2
<1>8. s \o t = u
  BY <1>5, <1>6, <1>7, SeqEqual
<1> QED
  BY <1>8 DEF s, t, u

\* The empty text and texts of one character.
LEMMA ShortTexts ==
    ASSUME text \in Seq(Characters), NEW p \in Nat
    PROVE  /\ Between(p, p) = <<>>
           /\ p < Len(text) => Between(p, p + 1) = <<CharAt(p)>>
<1>1. Between(p, p) = <<>>
  BY DEF Between
<1>2. ASSUME p < Len(text) PROVE Between(p, p + 1) = <<CharAt(p)>>
  <2>1. p \in 0 .. Len(text) /\ p + 1 \in p .. Len(text) /\ (p + 1) - p = 1
    BY <1>2
  <2>2. /\ Between(p, p + 1) \in Seq(Characters) /\ Len(Between(p, p + 1)) = 1
        /\ \A i \in 1 .. 1 : Between(p, p + 1)[i] = CharAt(p + i - 1)
    BY <2>1, BetweenText
  <2>3. Between(p, p + 1)[1] = CharAt(p)
    BY <2>2
  <2> HIDE DEF Between
  <2> QED
    BY <2>2, <2>3
<1> QED
  BY <1>1, <1>2

\* A zero in front of the digits does not matter.
LEMMA ZerosAreInsignificant ==
    ASSUME NEW d \in Seq(Characters)
    PROVE  Significant(<<"0">> \o d) = Significant(d)
<1> DEFINE Z(s) == {i \in 0 .. Len(s) : \A j \in 1 .. i : s[j] = "0"}
           e == <<"0">> \o d
<1>1. /\ e \in Seq(Characters \cup {"0"}) /\ Len(e) = Len(d) + 1 /\ e[1] = "0"
      /\ \A i \in 1 .. Len(d) : e[i + 1] = d[i]
  OBVIOUS
<1>2. PICK m \in Z(d) : \A i \in Z(d) : m >= i
  <2> DEFINE T == {n \in Nat : \E i \in Z(d) : n = Len(d) - i}
  <2>1. 0 \in Z(d) /\ Len(d) \in T
    OBVIOUS
  <2>2. PICK n \in T : \A k \in T : n <= k
    <3>1. T \in SUBSET Nat
      OBVIOUS
    <3> QED
      BY <2>1, <3>1, LeastElement
  <2>3. PICK m \in Z(d) : n = Len(d) - m
    BY <2>2
  <2>4. ASSUME NEW i \in Z(d) PROVE m >= i
    <3>1. Len(d) - i \in Nat /\ i \in Nat
      OBVIOUS
    <3>2. Len(d) - i \in T
      BY <3>1
    <3>3. Len(d) - m <= Len(d) - i
      BY <2>2, <2>3, <3>2
    <3>4. m \in Nat /\ Len(d) \in Nat
      OBVIOUS
    <3> QED
      BY <3>1, <3>3, <3>4
  <2> QED
    BY <2>4
<1> HIDE DEF e
<1>3. Max(Z(d)) = m
  <2>1. \E x \in Z(d) : \A y \in Z(d) : x >= y
    BY <1>2
  <2>2. Max(Z(d)) \in Z(d) /\ \A y \in Z(d) : Max(Z(d)) >= y
    BY <2>1 DEF Max
  <2>3. Max(Z(d)) >= m /\ m >= Max(Z(d)) /\ m \in Nat /\ Max(Z(d)) \in Nat
    BY <1>2, <2>2
  <2> QED
    BY <2>3
<1>4. m + 1 \in Z(e)
  <2>1. ASSUME NEW j \in 1 .. m + 1 PROVE e[j] = "0"
    <3>1. CASE j = 1
      BY <1>1, <3>1
    <3>2. CASE j # 1
      <4>1. j - 1 \in 1 .. m /\ j - 1 \in 1 .. Len(d) /\ (j - 1) + 1 = j
        BY <3>2
      <4>2. d[j - 1] = "0"
        BY <4>1
      <4> QED
        BY <1>1, <4>1, <4>2
    <3> QED
      BY <3>1, <3>2
  <2> QED
    BY <1>1, <2>1
<1>5. ASSUME NEW i \in Z(e) PROVE m + 1 >= i
  <2>1. CASE i = 0
    BY <2>1
  <2>2. CASE i # 0
    <3>1. i - 1 \in 0 .. Len(d)
      BY <1>1, <2>2
    <3>2. ASSUME NEW j \in 1 .. i - 1 PROVE d[j] = "0"
      <4>1. j + 1 \in 1 .. i /\ j \in 1 .. Len(d)
        BY <3>1
      <4> QED
        BY <1>1, <4>1
    <3>3. i - 1 \in Z(d)
      BY <3>1, <3>2
    <3> QED
      BY <1>2, <3>3
  <2> QED
    BY <2>1, <2>2
<1>6. Max(Z(e)) = m + 1
  <2>1. \E x \in Z(e) : \A y \in Z(e) : x >= y
    BY <1>4, <1>5
  <2>2. Max(Z(e)) \in Z(e) /\ \A y \in Z(e) : Max(Z(e)) >= y
    BY <2>1 DEF Max
  <2>3. Max(Z(e)) >= m + 1 /\ m + 1 >= Max(Z(e)) /\ m + 1 \in Nat /\ Max(Z(e)) \in Nat
    BY <1>4, <1>5, <2>2
  <2> QED
    BY <2>3
<1>7. Significant(d) = SubSeq(d, 1 + m, Len(d))
  BY <1>3 DEF Significant
<1>8. Significant(e) = SubSeq(e, 1 + (m + 1), Len(e))
  BY <1>6 DEF Significant
<1>9. SubSeq(e, 1 + (m + 1), Len(e)) = SubSeq(d, 1 + m, Len(d))
  <2> DEFINE a == SubSeq(e, 1 + (m + 1), Len(e))
             b == SubSeq(d, 1 + m, Len(d))
  <2>0. m \in 0 .. Len(d)
    OBVIOUS
  <2>1. /\ a \in Seq(Characters \cup {"0"}) /\ Len(a) = Len(d) - m
        /\ \A i \in 1 .. Len(d) - m : a[i] = e[i + (m + 1)]
    BY <1>1, <2>0
  <2>2. /\ b \in Seq(Characters \cup {"0"}) /\ Len(b) = Len(d) - m
        /\ \A i \in 1 .. Len(d) - m : b[i] = d[i + m]
    BY <2>0
  <2>3. ASSUME NEW i \in 1 .. Len(d) - m PROVE e[i + (m + 1)] = d[i + m]
    <3>1. i + m \in 1 .. Len(d) /\ (i + m) + 1 = i + (m + 1)
      BY <2>0
    <3> QED
      BY <1>1, <3>1
  <2> HIDE DEF a, b
  <2>4. a = b
    BY <2>1, <2>2, <2>3, SeqEqual
  <2> QED
    BY <2>4 DEF a, b
<1> QED
  BY <1>7, <1>8, <1>9 DEF e

\* Where nothing of a number follows, the reading stops.
LEMMA FractionKeeps ==
    ASSUME text \in Seq(Characters), NEW p \in 0 .. Len(text), NEW r \in Readings,
           r.pos \in p .. Len(text), r.buffer8 = Between(p, r.pos)
    PROVE  /\ Fraction(r).pos \in p .. Len(text)
           /\ \/ Fraction(r).value.chars = <<"error">>
              \/ Fraction(r).value = [radix |-> 10, chars |-> Between(p, Fraction(r).pos)]
           /\ CharAt(r.pos) \notin {".", "e"} => Fraction(r).pos = r.pos
<1> DEFINE f == IF CharAt(r.pos) = "."
                THEN parseNumberAfterDecimalPoint([r EXCEPT !.pos = @ + 1]) ELSE r
           e == IF CharAt(f.pos) = "e" THEN parseNumberAfterExponentIndicator(f) ELSE f
           v == IF e.value.chars = <<"error">> THEN e.value
                ELSE [radix |-> 10, chars |-> e.buffer8]
<1>1. Fraction(r) = [e EXCEPT !.value = v]
  BY DEF Fraction
<1>2. r.pos \in Nat /\ r.pos \in 0 .. Len(text) /\ r = Read(r.pos, r.buffer8, r.value)
  <2>1. r = Read(r.pos, r.buffer8, r.value)
    BY ReadingsAreReads
  <2>2. Len(text) \in Nat /\ p \in Nat
    OBVIOUS
  <2>3. r.pos \in Nat /\ r.pos \in 0 .. Len(text)
    BY <2>2
  <2> QED
    BY <2>1, <2>3
<1>3. /\ f.pos \in r.pos .. Len(text) /\ f.buffer8 = Between(p, f.pos) /\ f \in Readings
      /\ CharAt(r.pos) # "." => f = r
  <2>1. CASE CharAt(r.pos) = "."
    <3>1. r.pos + 1 \in 0 .. Len(text) /\ r.pos < Len(text)
      BY <1>2, <2>1, PlainOver, Classes
    <3> DEFINE q == SkipWhile(r.pos + 1, Digits)
    <3>2. q \in r.pos + 1 .. Len(text)
      BY <3>1, PlainSkip, NoClassHasABreak
    <3>3. [r EXCEPT !.pos = @ + 1] = Read(r.pos + 1, r.buffer8, r.value)
      BY ReadingsAreReads
    <3>4. f = Read(q, r.buffer8 \o <<".">> \o Between(r.pos + 1, q), NoValue)
      BY <2>1, <3>3 DEF parseNumberAfterDecimalPoint, Read
    <3>5. r.buffer8 \o <<".">> = Between(p, r.pos + 1)
      <4>1. Between(r.pos, r.pos + 1) = <<".">>
        BY <1>2, <2>1, <3>1, ShortTexts
      <4>2. r.pos + 1 \in r.pos .. Len(text)
        BY <1>2, <3>1
      <4> QED
        BY <4>1, <4>2, TextsJoin
    <3>6. Between(p, r.pos + 1) \o Between(r.pos + 1, q) = Between(p, q)
      <4>1. r.pos + 1 \in p .. Len(text)
        BY <1>2, <3>1
      <4> QED
        BY <3>2, <4>1, TextsJoin
    <3>7. ReadsFrom(r.pos + 1, f)
      BY <2>1, <3>1, ReadingsAreReads, parseNumberAfterDecimalPointReads
    <3> HIDE DEF q, f
    <3>8. f.pos = q /\ f.buffer8 = Between(p, q)
      BY <3>4, <3>5, <3>6 DEF Read
    <3> QED
      BY <1>2, <2>1, <3>2, <3>7, <3>8 DEF ReadsFrom
  <2>2. CASE CharAt(r.pos) # "."
    BY <1>2, <2>2
  <2> QED
    BY <2>1, <2>2
<1> HIDE DEF f
<1>4. f.pos \in Nat /\ f.pos \in p .. Len(text) /\ f = Read(f.pos, f.buffer8, f.value)
  <2>1. f = Read(f.pos, f.buffer8, f.value)
    BY <1>3, ReadingsAreReads
  <2>2. f.pos \in Nat /\ f.pos \in p .. Len(text)
    BY <1>2, <1>3
  <2> QED
    BY <2>1, <2>2
<1>5. /\ e.pos \in f.pos .. Len(text) /\ e.buffer8 = Between(p, e.pos) /\ e \in Readings
      /\ CharAt(f.pos) # "e" => e = f
  <2>1. CASE CharAt(f.pos) = "e"
    <3>1. f.pos + 1 \in 0 .. Len(text) /\ f.pos < Len(text)
      BY <1>4, <2>1, PlainOver, Classes
    <3> DEFINE sign == IF CharAt(f.pos + 1) \in {"+", "-"} THEN 1 ELSE 0
               q == SkipWhile(f.pos + 1 + sign, Digits)
               w == IF q = f.pos + 1 + sign THEN [NoValue EXCEPT !.chars = <<"error">>]
                    ELSE NoValue
    <3>2. f.pos + 1 + sign \in 0 .. Len(text) /\ sign \in {0, 1}
      <4>1. CASE CharAt(f.pos + 1) \in {"+", "-"}
        <5>1. CharAt(f.pos + 1) # "end" /\ f.pos + 1 \in Nat
          BY <3>1, <4>1
        <5>2. (f.pos + 1) + 1 <= Len(text)
          BY <5>1, TextCharacters
        <5> QED
          BY <1>4, <4>1, <5>2
      <4>2. CASE CharAt(f.pos + 1) \notin {"+", "-"}
        BY <1>4, <3>1, <4>2
      <4> QED
        BY <4>1, <4>2
    <3>3. e = Read(q, f.buffer8 \o Between(f.pos, q), w)
      BY <2>1 DEF parseNumberAfterExponentIndicator
    <3> HIDE DEF sign
    <3>4. q \in f.pos + 1 + sign .. Len(text)
      BY <3>2, PlainSkip, NoClassHasABreak
    <3>5. f.buffer8 \o Between(f.pos, q) = Between(p, q)
      <4>1. q \in f.pos .. Len(text)
        BY <1>4, <3>2, <3>4
      <4> QED
        BY <1>3, <1>4, <4>1, TextsJoin
    <3>6. ReadsFrom(f.pos, e)
      <4>1. f.buffer8 \in Seq(Characters) /\ f.value \in ReadValues
        BY <1>3, ReadingsAreReads
      <4>2. ReadsFrom(f.pos,
                      parseNumberAfterExponentIndicator(Read(f.pos, f.buffer8, f.value)))
        BY <1>4, <2>1, <4>1, parseNumberAfterExponentIndicatorReads
      <4>3. ReadsFrom(f.pos, parseNumberAfterExponentIndicator(f))
        BY <1>4, <4>2
      <4> QED
        BY <2>1, <4>3
    <3> HIDE DEF q, w, e
    <3>7. e.pos = q /\ e.buffer8 = Between(p, q)
      BY <3>3, <3>5 DEF Read
    <3> QED
      BY <1>4, <2>1, <3>2, <3>4, <3>6, <3>7 DEF ReadsFrom
  <2>2. CASE CharAt(f.pos) # "e"
    BY <1>3, <1>4, <2>2
  <2> HIDE DEF e
  <2> QED
    BY <2>1, <2>2
<1> HIDE DEF e
<1>6. [e EXCEPT !.value = v] = Read(e.pos, e.buffer8, v)
  BY <1>5, ReadingsAreReads
<1>7. Fraction(r).pos = e.pos /\ Fraction(r).value = v
  BY <1>1, <1>6 DEF Read
<1>8. e.pos \in p .. Len(text)
  BY <1>4, <1>5
<1>9. v.chars = <<"error">> \/ v = [radix |-> 10, chars |-> Between(p, e.pos)]
  BY <1>5
<1>10. CharAt(r.pos) \notin {".", "e"} => e.pos = r.pos
  BY <1>3, <1>5
<1> HIDE DEF v
<1> QED
  BY <1>7, <1>8, <1>9, <1>10

\* A literal that is read through m_buffer8, and neither an octal nor a
\* hexadecimal number, has the value of its characters.
LEMMA DecimalKeeps ==
    ASSUME text \in Seq(Characters), NEW p \in 0 .. Len(text), NEW q \in p .. Len(text),
           ~(q - p > 2 /\ CharAt(p + 1) = "x"),
           ~(q - p > 1 /\ CharAt(p) = "0" /\ \A i \in p .. q - 1 : CharAt(i) \in OctalDigits)
    PROVE  KeepsDigits([radix |-> 10, chars |-> Between(p, q)], Between(p, q))
<1> DEFINE s == Between(p, q)
<1>1. s \in Seq(Characters) /\ Len(s) = q - p /\ \A i \in 1 .. q - p : s[i] = CharAt(p + i - 1)
  BY BetweenText
<1> HIDE DEF s
<1>2. ~(Len(s) > 2 /\ s[2] = "x")
  <2>1. ASSUME Len(s) > 2 PROVE s[2] = CharAt(p + 1)
    <3>1. 2 \in 1 .. q - p /\ p + 2 - 1 = p + 1
      BY <1>1, <2>1
    <3> QED
      BY <1>1, <3>1
  <2> QED
    BY <1>1, <2>1
<1>3. ~(Len(s) > 1 /\ s[1] = "0" /\ ToSet(s) \subseteq OctalDigits)
  <2>1. ASSUME Len(s) > 1, s[1] = "0", ToSet(s) \subseteq OctalDigits PROVE FALSE
    <3>1. 1 \in 1 .. q - p /\ p + 1 - 1 = p
      BY <1>1, <2>1
    <3>2. CharAt(p) = "0"
      BY <1>1, <2>1, <3>1
    <3>3. ASSUME NEW i \in p .. q - 1 PROVE CharAt(i) \in OctalDigits
      <4>1. i - p + 1 \in 1 .. q - p /\ p + (i - p + 1) - 1 = i
        OBVIOUS
      <4>2. s[i - p + 1] = CharAt(i)
        BY <1>1, <4>1
      <4>3. s[i - p + 1] \in ToSet(s)
        BY <1>1, <4>1 DEF ToSet
      <4> QED
        BY <2>1, <4>2, <4>3
    <3> QED
      BY <1>1, <2>1, <3>2, <3>3
  <2> QED
    BY <2>1
<1>4. Literal(s) = [radix |-> 10, chars |-> s]
  BY <1>2, <1>3 DEF Literal
<1> QED
  BY <1>4 DEF KeepsDigits, s

\* What is read in r is the number p .. r.pos, or not a number.
Keeps(p, r) ==
    r.value.chars # <<"error">> => r.pos > p /\ KeepsDigits(r.value, Between(p, r.pos))

\* A hexadecimal number is what follows the x.
LEMMA parseHexKeeps ==
    ASSUME text \in Seq(Characters), NEW p \in Nat, CharAt(p) = "0", CharAt(p + 1) = "x",
           CharAt(p + 2) \in HexDigits
    PROVE  Keeps(p, parseHex(p + 1))
<1> DEFINE q == SkipWhile(p + 2, HexDigits)
           digits == Between(p + 2, q)
           s == Between(p, q)
<1>1. p + 2 \in 0 .. Len(text) /\ p + 2 < Len(text) /\ p \in 0 .. Len(text)
  <2>1. CharAt(p + 2) \notin LineTerminators \cup {"end"} /\ p + 2 \in Nat
    BY NoClassHasABreak
  <2>2. p + 2 \in 0 .. Len(text) /\ p + 2 < Len(text)
    BY <2>1, PlainOver
  <2> QED
    BY <2>2
<1>2. q \in p + 2 .. Len(text) /\ CharAt(q) \notin HexDigits
  BY <1>1, PlainSkip, NoClassHasABreak
<1>3. q # p + 2
  BY <1>2
<1>4. digits \in Seq(Characters)
  BY <1>1, <1>2, BetweenText
<1>5. parseHex(p + 1) = IF FewDigits(16, Len(digits)) THEN Read(q, <<>>, Number(16, digits))
                        ELSE Read(q, digits, [radix |-> 16, chars |-> digits])
  <2>1. (p + 1) + 1 = p + 2
    OBVIOUS
  <2> QED
    BY <2>1 DEF parseHex
<1>6. /\ s \in Seq(Characters) /\ Len(s) = q - p /\ q - p > 2
      /\ \A i \in 1 .. q - p : s[i] = CharAt(p + i - 1)
  <2>1. q \in p .. Len(text) /\ q - p > 2
    BY <1>1, <1>2, <1>3
  <2> QED
    BY <1>1, <2>1, BetweenText
<1>7. s[2] = "x"
  <2>1. 2 \in 1 .. q - p /\ p + 2 - 1 = p + 1
    BY <1>1, <1>2, <1>6
  <2> QED
    BY <1>6, <2>1
<1>8. SubSeq(s, 3, Len(s)) = digits
  <2>1. /\ digits \in Seq(Characters) /\ Len(digits) = q - (p + 2)
        /\ \A i \in 1 .. q - (p + 2) : digits[i] = CharAt((p + 2) + i - 1)
    BY <1>1, <1>2, BetweenText
  <2> DEFINE t == SubSeq(s, 3, Len(s))
  <2> HIDE DEF s, digits
  <2>2. Len(s) \in Nat /\ Len(s) > 2
    BY <1>6
  <2>3. /\ t \in Seq(Characters) /\ Len(t) = Len(s) - 2
        /\ \A i \in 1 .. Len(s) - 2 : t[i] = s[i + 2]
    BY <1>6, <2>2
  <2>4. Len(t) = Len(digits) /\ Len(t) = q - (p + 2)
    BY <1>1, <1>2, <1>6, <2>1, <2>3
  <2>5. ASSUME NEW i \in 1 .. Len(t) PROVE t[i] = digits[i]
    <3>1. /\ i \in 1 .. q - (p + 2) /\ i + 2 \in 1 .. q - p /\ i \in 1 .. Len(s) - 2
          /\ p + (i + 2) - 1 = (p + 2) + i - 1
      BY <1>1, <1>2, <2>3, <2>4
    <3> QED
      BY <1>6, <2>1, <2>3, <3>1
  <2> HIDE DEF t
  <2>6. t = digits
    BY <2>1, <2>3, <2>4, <2>5, SeqEqual
  <2> QED
    BY <2>6 DEF t
<1> HIDE DEF s, digits, q
<1>9. Literal(s) = [radix |-> 16, chars |-> digits]
  BY <1>6, <1>7, <1>8 DEF Literal
<1>10. FewDigits(16, Len(digits)) => Number(16, digits) = [radix |-> 16, chars |-> digits]
  BY <1>4, FewDigitsFit
<1>11. parseHex(p + 1).pos = q /\ parseHex(p + 1).value = [radix |-> 16, chars |-> digits]
  BY <1>5, <1>10 DEF Read
<1>12. KeepsDigits([radix |-> 16, chars |-> digits], s)
  BY <1>9 DEF KeepsDigits
<1> QED
  BY <1>1, <1>2, <1>11, <1>12 DEF Keeps, s

\* An octal number is what follows the first zero.
LEMMA parseOctalKeeps ==
    ASSUME text \in Seq(Characters), NEW p \in Nat, CharAt(p) = "0",
           CharAt(p + 1) \in OctalDigits
    PROVE  LET q == SkipWhile(p + 1, OctalDigits) IN
           /\ q \in p + 2 .. Len(text)
           /\ IF CharAt(q) \in Digits
              THEN /\ parseOctal(p + 1) = Read(q, Between(p, q), NoValue)
                   /\ CharAt(q) \notin OctalDigits
              ELSE parseOctal(p + 1).value # NoValue /\ Keeps(p, parseOctal(p + 1))
<1> DEFINE q == SkipWhile(p + 1, OctalDigits)
           digits == Between(p + 1, q)
           s == Between(p, q)
           fast == CharAt(q) \notin Digits /\ FewDigits(8, Len(digits))
<1>1. /\ p + 1 \in 0 .. Len(text) /\ p + 1 < Len(text) /\ p \in 0 .. Len(text) /\ p < Len(text)
      /\ p + 1 \in p .. Len(text)
  <2>1. CharAt(p + 1) \notin LineTerminators \cup {"end"} /\ p + 1 \in Nat
    BY NoClassHasABreak
  <2>2. p + 1 \in 0 .. Len(text) /\ p + 1 < Len(text)
    BY <2>1, PlainOver
  <2> QED
    BY <2>2
<1>2. q \in p + 1 .. Len(text) /\ CharAt(q) \notin OctalDigits
      /\ \A i \in p + 1 .. q - 1 : CharAt(i) \in OctalDigits
  <2>1. "end" \notin OctalDigits
    BY NoClassHasABreak
  <2> QED
    BY <1>1, <2>1, Skipped
<1>3. q # p + 1 /\ q \in p + 2 .. Len(text)
  BY <1>2
<1>4. digits \in Seq(Characters)
  BY <1>1, <1>2, BetweenText
<1>5. parseOctal(p + 1) =
        IF fast THEN Read(q, <<"0">>, Number(8, digits))
        ELSE Read(q, <<"0">> \o digits, IF CharAt(q) \in Digits THEN NoValue
                                        ELSE [radix |-> 8, chars |-> <<"0">> \o digits])
  BY DEF parseOctal
<1>6. s = <<"0">> \o digits
  <2>1. Between(p, p + 1) = <<"0">>
    BY <1>1, ShortTexts
  <2> QED
    BY <1>1, <1>2, <2>1, TextsJoin
<1>7. /\ s \in Seq(Characters) /\ Len(s) = q - p /\ q - p > 1
      /\ \A i \in 1 .. q - p : s[i] = CharAt(p + i - 1)
  <2>1. q \in p .. Len(text) /\ q - p > 1
    BY <1>1, <1>3
  <2> QED
    BY <1>1, <2>1, BetweenText
<1> HIDE DEF q, s, digits
<1>8. ASSUME NEW i \in 1 .. Len(s) PROVE s[i] \in OctalDigits
  <2>1. s[i] = CharAt(p + i - 1)
    BY <1>7
  <2>2. CASE i = 1
    <3>1. p + i - 1 = p /\ "0" \in OctalDigits
      BY <2>2 DEF OctalDigits
    <3> QED
      BY <2>1, <3>1
  <2>3. CASE i # 1
    <3>1. p + i - 1 \in p + 1 .. q - 1
      BY <1>1, <1>2, <1>7, <2>3
    <3> QED
      BY <1>2, <2>1, <3>1
  <2> QED
    BY <2>2, <2>3
<1>9. s[1] = "0" /\ s[2] # "x" /\ Tail(s) = digits
  <2>1. 1 \in 1 .. q - p /\ 2 \in 1 .. q - p /\ p + 1 - 1 = p /\ p + 2 - 1 = p + 1
    BY <1>1, <1>3
  <2>2. "x" \notin OctalDigits
    BY DEF OctalDigits
  <2>3. Tail(s) = digits
    BY <1>4, <1>6
  <2> QED
    BY <1>7, <2>1, <2>2, <2>3
<1>10. ToSet(s) \subseteq OctalDigits
  BY <1>7, <1>8 DEF ToSet
<1>11. Literal(s) = [radix |-> 8, chars |-> digits]
  BY <1>7, <1>9, <1>10 DEF Literal
<1>12. Significant(<<"0">> \o digits) = Significant(digits)
  BY <1>4, ZerosAreInsignificant
<1> DEFINE zeroed == <<"0">> \o digits
<1> HIDE DEF zeroed
<1>13. ASSUME NEW v, v \in {digits, zeroed} PROVE KeepsDigits([radix |-> 8, chars |-> v], s)
  <2>1. Significant(v) = Significant(digits)
    BY <1>12, <1>13 DEF zeroed
  <2>2. Literal(s).radix = 8 /\ Literal(s).chars = digits
    BY <1>11
  <2> QED
    BY <2>1, <2>2 DEF KeepsDigits
<1>14. FewDigits(8, Len(digits)) => Number(8, digits) = [radix |-> 8, chars |-> digits]
  BY <1>4, FewDigitsFit
<1>15. CASE CharAt(q) \in Digits
  BY <1>2, <1>3, <1>5, <1>6, <1>15 DEF q, s
<1>16. CASE CharAt(q) \notin Digits
  <2>1. PICK v \in {digits, zeroed} :
          parseOctal(p + 1).value = [radix |-> 8, chars |-> v] /\ parseOctal(p + 1).pos = q
    <3>1. parseOctal(p + 1) =
            IF fast THEN Read(q, <<"0">>, Number(8, digits))
            ELSE Read(q, zeroed, IF CharAt(q) \in Digits THEN NoValue
                                 ELSE [radix |-> 8, chars |-> zeroed])
      BY <1>5 DEF zeroed
    <3>2. CASE fast
      BY <1>14, <3>1, <3>2 DEF Read
    <3>3. CASE ~fast
      BY <1>16, <3>1, <3>3 DEF Read
    <3> QED
      BY <3>2, <3>3
  <2>2. Keeps(p, parseOctal(p + 1))
    BY <1>3, <1>13, <2>1 DEF Keeps, s
  <2>3. parseOctal(p + 1).value # NoValue
    BY <2>1 DEF NoValue
  <2> QED
    BY <1>3, <1>16, <2>2, <2>3 DEF q
<1> QED
  BY <1>15, <1>16

\* The other numbers go through m_buffer8, or are few digits.
LEMMA DecimalReadsKeep ==
    ASSUME text \in Seq(Characters), NEW p \in 0 .. Len(text), NEW r \in Readings,
           r.pos \in p .. Len(text), r.buffer8 = Between(p, r.pos),
           r.value = NoValue,
           CharAt(p) = "0" => CharAt(p + 1) \notin OctalDigits
             \/ \E i \in p .. r.pos - 1 : CharAt(i) \notin OctalDigits,
           CharAt(p + 1) # "x" \/ (r.pos \in {p, p + 1} /\ CharAt(r.pos) \notin {".", "e"})
    PROVE  Keeps(p, Fraction(r)) \/ Fraction(r).pos = p
<1> DEFINE z == Fraction(r)
<1>1. /\ z.pos \in p .. Len(text) /\ z.pos \in r.pos .. Len(text)
      /\ z.value.chars = <<"error">> \/ z.value = [radix |-> 10, chars |-> Between(p, z.pos)]
      /\ CharAt(r.pos) \notin {".", "e"} => z.pos = r.pos
  <2>1. r.pos \in 0 .. Len(text)
    <3>1. Len(text) \in Nat /\ p \in Nat /\ p >= 0
      OBVIOUS
    <3> QED
      BY <3>1
  <2>2. z.pos \in r.pos .. Len(text)
    BY <2>1, FractionReads DEF ReadsFrom
  <2> QED
    BY <2>2, FractionKeeps
<1> HIDE DEF z
<1>2. p \in Nat /\ r.pos \in Nat /\ z.pos \in Nat
  <2>1. Len(text) \in Nat /\ p \in Nat
    OBVIOUS
  <2>2. r.pos \in Nat
    BY <2>1
  <2> QED
    BY <1>1, <2>1, <2>2
<1>3. ~(z.pos - p > 2 /\ CharAt(p + 1) = "x")
  BY <1>1, <1>2
<1>4. ~(z.pos - p > 1 /\ CharAt(p) = "0" /\ \A i \in p .. z.pos - 1 : CharAt(i) \in OctalDigits)
  <2>1. ASSUME z.pos - p > 1, CharAt(p) = "0", \A i \in p .. z.pos - 1 : CharAt(i) \in OctalDigits
        PROVE  FALSE
    <3>1. p + 1 \in p .. z.pos - 1
      BY <1>2, <2>1
    <3>2. \A i \in p .. r.pos - 1 : i \in p .. z.pos - 1
      BY <1>1, <1>2
    <3> QED
      BY <2>1, <3>1, <3>2
  <2> QED
    BY <2>1
<1>5. KeepsDigits([radix |-> 10, chars |-> Between(p, z.pos)], Between(p, z.pos))
  BY <1>1, <1>3, <1>4, DecimalKeeps
<1>6. z.pos = p \/ z.pos > p
  BY <1>1, <1>2
<1> QED
  BY <1>1, <1>5, <1>6 DEF Keeps, z

LEMMA FinishedKeeps ==
    ASSUME text \in Seq(Characters), NEW p \in 0 .. Len(text), NEW r \in Readings,
           r.pos \in p + 1 .. Len(text), r.buffer8 = Between(p, r.pos), r.value = NoValue,
           CharAt(p) = "0" => CharAt(p + 1) \notin OctalDigits
             \/ \E i \in p .. r.pos - 1 : CharAt(i) \notin OctalDigits,
           CharAt(p + 1) # "x" \/ (r.pos = p + 1 /\ CharAt(r.pos) \notin {".", "e"})
    PROVE  Keeps(p, Finished(r))
<1>1. r.pos \in p .. Len(text) /\ p \in Nat /\ r.pos \in Nat /\ r.pos > p
  <2>1. Len(text) \in Nat /\ p \in Nat
    OBVIOUS
  <2> QED
    BY <2>1
<1>2. Finished(r) = Fraction(r)
  BY DEF Finished
<1>3. Fraction(r).pos \in r.pos .. Len(text)
  <2>1. r.pos \in 0 .. Len(text)
    BY <1>1
  <2> QED
    BY <2>1, FractionReads DEF ReadsFrom
<1>4. Fraction(r).pos # p
  BY <1>1, <1>3
<1> QED
  BY <1>1, <1>2, <1>4, DecimalReadsKeep

\* A literal that does not begin with a zero.
LEMMA parseDecimalKeeps ==
    ASSUME text \in Seq(Characters), NEW p \in Nat, CharAt(p) \in Digits, CharAt(p) # "0"
    PROVE  Keeps(p, Finished(parseDecimal(p, <<>>)))
<1> DEFINE q == SkipWhile(p, Digits)
           digits == Between(p, q)
           fast == FewDigits(10, Len(digits)) /\ CharAt(q) \notin {".", "e"}
<1>1. p \in 0 .. Len(text) /\ p < Len(text)
  <2>1. CharAt(p) \notin LineTerminators \cup {"end"}
    BY NoClassHasABreak
  <2> QED
    BY <2>1, PlainOver
<1>2. q \in p .. Len(text) /\ CharAt(q) \notin Digits /\ \A i \in p .. q - 1 : CharAt(i) \in Digits
  <2>1. "end" \notin Digits
    BY NoClassHasABreak
  <2> QED
    BY <1>1, <2>1, Skipped
<1>3. q # p /\ q \in p + 1 .. Len(text)
  BY <1>2
<1>4. digits \in Seq(Characters)
  BY <1>1, <1>2, BetweenText
<1>5. parseDecimal(p, <<>>) = IF fast THEN Read(q, <<>>, Number(10, digits))
                              ELSE Read(q, <<>> \o digits, NoValue)
  BY DEF parseDecimal
<1>6. <<>> \o digits = digits
  BY <1>4
<1>7. CharAt(p + 1) # "x" \/ q = p + 1
  <2>1. ASSUME q # p + 1 PROVE CharAt(p + 1) \in Digits
    <3>1. p + 1 \in p .. q - 1
      BY <1>3, <2>1
    <3> QED
      BY <1>2, <3>1
  <2>2. "x" \notin Digits
    BY DEF Digits, OctalDigits
  <2> QED
    BY <2>1, <2>2
<1> HIDE DEF q, digits
<1>8. CASE fast
  <2>1. Number(10, digits) = [radix |-> 10, chars |-> digits]
    BY <1>4, <1>8, FewDigitsFit
  <2>2. parseDecimal(p, <<>>) = Read(q, <<>>, [radix |-> 10, chars |-> digits])
    BY <1>5, <1>8, <2>1
  <2>3. /\ Finished(parseDecimal(p, <<>>)).pos = q
        /\ Finished(parseDecimal(p, <<>>)).value = [radix |-> 10, chars |-> digits]
    BY <2>2 DEF Finished, Read, NoValue
  <2>4. ~(q - p > 2 /\ CharAt(p + 1) = "x")
    BY <1>7, <1>3
  <2>5. KeepsDigits([radix |-> 10, chars |-> Between(p, q)], Between(p, q))
    BY <1>1, <1>2, <2>4, DecimalKeeps
  <2> QED
    BY <1>3, <2>3, <2>5 DEF Keeps, digits
<1>9. CASE ~fast
  <2> DEFINE r == Read(q, digits, NoValue)
  <2>1. parseDecimal(p, <<>>) = r
    BY <1>5, <1>6, <1>9
  <2>2. r \in Readings
    BY <1>1, <1>3, <1>4, NoValueIsRead DEF Readings, Read
  <2>3. r.pos = q /\ r.buffer8 = Between(p, q) /\ r.value = NoValue
    BY DEF Read, digits
  <2>4. CharAt(p + 1) = "x" => q = p + 1 /\ CharAt(q) \notin {".", "e"}
    BY <1>7
  <2> HIDE DEF r
  <2>5. Keeps(p, Finished(r))
    BY <1>1, <1>3, <2>2, <2>3, <2>4, FinishedKeeps
  <2> QED
    BY <2>1, <2>5
<1> QED
  BY <1>8, <1>9

\* A literal that begins with a zero, after what parseOctal has left, if anything.
LEMMA ZeroKeeps ==
    ASSUME text \in Seq(Characters), NEW p \in 0 .. Len(text), CharAt(p) = "0",
           NEW k \in p + 1 .. Len(text),
           CharAt(p + 1) \notin OctalDigits \/ CharAt(k) \in Digits \ OctalDigits,
           CharAt(p + 1) # "x" \/ k = p + 1
    PROVE  Keeps(p, Finished(parseDecimal(k, Between(p, k))))
<1> DEFINE b == Between(p, k)
           q == SkipWhile(k, Digits)
           r == Read(q, Between(p, q), NoValue)
<1>1. p \in Nat /\ k \in Nat /\ k > p /\ k \in p .. Len(text) /\ k \in 0 .. Len(text)
  <2>1. Len(text) \in Nat /\ p \in Nat
    OBVIOUS
  <2> QED
    BY <2>1
<1>2. b \in Seq(Characters) /\ Len(b) = k - p
  BY <1>1, BetweenText
<1>3. b # <<>>
  <2> HIDE DEF b
  <2> QED
    BY <1>1, <1>2
<1>4. q \in k .. Len(text) /\ CharAt(q) \notin Digits
  <2>1. "end" \notin Digits
    BY NoClassHasABreak
  <2> QED
    BY <1>1, <2>1, Skipped
<1>5. b \o Between(k, q) = Between(p, q)
  BY <1>1, <1>4, TextsJoin
<1>6. parseDecimal(k, b) = r
  <2> HIDE DEF b
  <2> QED
    BY <1>3, <1>5 DEF parseDecimal
<1>7. q \in p + 1 .. Len(text) /\ q \in p .. Len(text) /\ q \in Nat
  BY <1>1, <1>4
<1>8. Between(p, q) \in Seq(Characters)
  BY <1>7, BetweenText
<1> HIDE DEF q
<1>9. r \in Readings /\ r.pos = q /\ r.buffer8 = Between(p, q) /\ r.value = NoValue
  <2>1. NoValue \in ReadValues
    BY NoValueIsRead
  <2> HIDE DEF NoValue
  <2> QED
    BY <1>7, <1>8, <2>1 DEF Readings, Read
<1> HIDE DEF r
<1>10. CharAt(p + 1) \notin OctalDigits \/ \E i \in p .. q - 1 : CharAt(i) \notin OctalDigits
  <2>1. CASE CharAt(k) \in Digits \ OctalDigits
    <3>1. k # q
      BY <1>4, <2>1
    <3>2. k \in p .. q - 1
      BY <1>1, <1>4, <3>1
    <3> QED
      BY <2>1, <3>2
  <2> QED
    BY <2>1
<1>11. CharAt(p + 1) # "x" \/ (q = p + 1 /\ CharAt(q) \notin {".", "e"})
  <2>1. ASSUME CharAt(p + 1) = "x" PROVE q = p + 1
    <3>1. k = p + 1
      BY <2>1
    <3>2. "x" \notin Digits
      BY DEF Digits, OctalDigits
    <3>3. "end" \notin Digits
      BY NoClassHasABreak
    <3>4. \A i \in k .. q - 1 : CharAt(i) \in Digits
      BY <1>1, <3>3, Skipped DEF q
    <3>5. q = k \/ k \in k .. q - 1
      BY <1>1, <1>4, <1>7
    <3> QED
      BY <2>1, <3>1, <3>2, <3>4, <3>5
  <2> QED
    BY <2>1
<1>12. Keeps(p, Finished(r))
  BY <1>7, <1>9, <1>10, <1>11, FinishedKeeps
<1> QED
  BY <1>6, <1>12

\* Whichever way a number takes through parseNumber.
LEMMA parseNumberKeeps ==
    ASSUME text \in Seq(Characters), NEW p \in Nat,
           CharAt(p) \in Digits \/ (CharAt(p) = "." /\ CharAt(p + 1) \in Digits)
    PROVE  Keeps(p, parseNumber(p))
<1>1. p \in 0 .. Len(text) /\ p < Len(text)
  <2>1. CharAt(p) \notin LineTerminators \cup {"end"}
    BY NoClassHasABreak, Classes
  <2> QED
    BY <2>1, PlainOver
<1>2. CASE CharAt(p) = "."
  <2> DEFINE r == Read(p, <<>>, NoValue)
  <2>1. parseNumber(p) = Fraction(r)
    BY <1>2 DEF parseNumber
  <2>2. r \in Readings /\ r.pos = p /\ r.buffer8 = <<>> /\ r.value = NoValue
    <3>1. NoValue \in ReadValues /\ <<>> \in Seq(Characters)
      BY NoValueIsRead
    <3> HIDE DEF NoValue
    <3> QED
      BY <3>1 DEF Readings, Read
  <2> HIDE DEF r
  <2>3. Between(p, p) = <<>> /\ p \in p .. Len(text)
    BY <1>1, ShortTexts
  <2>4. CharAt(p + 1) # "x" /\ CharAt(p) # "0"
    <3>1. "." \notin Digits /\ "x" \notin Digits
      BY DEF Digits, OctalDigits
    <3> QED
      BY <1>2, <3>1
  <2>5. Keeps(p, Fraction(r)) \/ Fraction(r).pos = p
    BY <1>1, <2>2, <2>3, <2>4, DecimalReadsKeep
  <2>6. Fraction(r).pos > p
    BY <1>1, <1>2, <2>2, FractionReads
  <2> QED
    BY <2>1, <2>5, <2>6
<1>3. CASE CharAt(p) \notin {".", "0"}
  <2>1. CharAt(p) \in Digits
    BY <1>3
  <2>2. parseNumber(p) = Finished(parseDecimal(p, <<>>))
    BY <1>3 DEF parseNumber
  <2> QED
    BY <1>3, <2>1, <2>2, parseDecimalKeeps
<1>4. CASE CharAt(p) = "0" /\ CharAt(p + 1) = "x" /\ CharAt(p + 2) \in HexDigits
  <2>1. parseNumber(p) = parseHex(p + 1)
    BY <1>4 DEF parseNumber
  <2> QED
    BY <1>4, <2>1, parseHexKeeps
<1>5. CASE CharAt(p) = "0" /\ ~(CharAt(p + 1) = "x" /\ CharAt(p + 2) \in HexDigits)
  <2> DEFINE octal == IF CharAt(p + 1) \in OctalDigits THEN parseOctal(p + 1)
                      ELSE Read(p + 1, <<"0">>, NoValue)
  <2>1. parseNumber(p) = IF octal.value # NoValue THEN octal
                         ELSE Finished(parseDecimal(octal.pos, octal.buffer8))
    BY <1>5 DEF parseNumber
  <2>2. CASE CharAt(p + 1) \in OctalDigits
    <3> DEFINE q == SkipWhile(p + 1, OctalDigits)
    <3>1. octal = parseOctal(p + 1)
      BY <2>2
    <3> HIDE DEF octal
    <3>2. /\ q \in p + 2 .. Len(text)
          /\ IF CharAt(q) \in Digits
             THEN parseOctal(p + 1) = Read(q, Between(p, q), NoValue)
                  /\ CharAt(q) \notin OctalDigits
             ELSE parseOctal(p + 1).value # NoValue /\ Keeps(p, parseOctal(p + 1))
      BY <1>5, <2>2, parseOctalKeeps
    <3> HIDE DEF q
    <3>3. CASE CharAt(q) \in Digits
      <4>1. /\ octal.value = NoValue /\ octal.pos = q /\ octal.buffer8 = Between(p, q)
            /\ CharAt(q) \in Digits \ OctalDigits
        BY <3>1, <3>2, <3>3 DEF Read
      <4>2. q \in p + 1 .. Len(text)
        BY <1>1, <3>2
      <4>3. CharAt(p + 1) # "x"
        BY <2>2 DEF OctalDigits
      <4>4. Keeps(p, Finished(parseDecimal(q, Between(p, q))))
        BY <1>1, <1>5, <4>1, <4>2, <4>3, ZeroKeeps
      <4> QED
        BY <2>1, <4>1, <4>4
    <3>4. CASE CharAt(q) \notin Digits
      BY <2>1, <3>1, <3>2, <3>4
    <3> QED
      BY <3>3, <3>4
  <2>3. CASE CharAt(p + 1) \notin OctalDigits
    <3>1. octal.value = NoValue /\ octal.pos = p + 1 /\ octal.buffer8 = <<"0">>
      BY <2>3 DEF Read
    <3> HIDE DEF octal
    <3>2. Between(p, p + 1) = <<"0">> /\ p + 1 \in p + 1 .. Len(text)
      BY <1>1, <1>5, ShortTexts
    <3>3. Keeps(p, Finished(parseDecimal(p + 1, Between(p, p + 1))))
      BY <1>1, <1>5, <2>3, <3>2, ZeroKeeps
    <3> QED
      BY <2>1, <3>1, <3>2, <3>3
  <2> QED
    BY <2>2, <2>3
<1> QED
  BY <1>2, <1>3, <1>4, <1>5

-----------------------------------------------------------------------------
(* The characters of names and strings.  Decoded is recursive: that it has *)
(* a value, and what it is where there is no escape, is shown by least     *)
(* counterexamples.                                                        *)

Decodable == UChar \cup {"none", "end"}

\* What the text from p on stands for, if f says it for the offsets behind p.
DecodedBy(f, last, isString, p) ==
    IF p >= last THEN <<>>
    ELSE IF CharAt(p) # "\\" THEN <<CharAt(p)>> \o f[p + 1]
    ELSE IF isString THEN StringEscape(p + 1).chars \o f[StringEscape(p + 1).pos]
    ELSE <<getUnicodeCharacter(p + 2)>> \o f[p + 6]

\* Where it goes on, and what comes before.
PieceAt(p, isString) ==
    IF CharAt(p) # "\\" THEN [pos |-> p + 1, chars |-> <<CharAt(p)>>]
    ELSE IF isString THEN StringEscape(p + 1)
    ELSE [pos |-> p + 6, chars |-> <<getUnicodeCharacter(p + 2)>>]

LEMMA Pieces ==
    ASSUME NEW f, NEW last, NEW isString, NEW p
    PROVE  DecodedBy(f, last, isString, p) =
             IF p >= last THEN <<>>
             ELSE PieceAt(p, isString).chars \o f[PieceAt(p, isString).pos]
BY Zenon DEF DecodedBy, PieceAt

LEMMA PiecesMoveOn ==
    ASSUME text \in Seq(Characters), NEW p \in Nat, p < Len(text), NEW isString \in BOOLEAN
    PROVE  /\ PieceAt(p, isString).pos \in Nat /\ PieceAt(p, isString).pos > p
           /\ PieceAt(p, isString).chars \in Seq(Decodable)
<1>1. CASE CharAt(p) # "\\"
  <2>1. CharAt(p) \in Decodable
    <3>1. CharAt(p) \in Characters
      BY TextCharacters
    <3> QED
      BY <3>1, CharactersAreUChars DEF Decodable
  <2>2. PieceAt(p, isString) = [pos |-> p + 1, chars |-> <<CharAt(p)>>]
    BY <1>1 DEF PieceAt
  <2> QED
    BY <2>1, <2>2
<1>2. CASE CharAt(p) = "\\" /\ ~isString
  <2>1. getUnicodeCharacter(p + 2) \in Decodable
    <3>1. getUnicodeCharacter(p + 2) # "none" => getUnicodeCharacter(p + 2) \in UChar
      BY getUnicodeCharacterReads
    <3> QED
      BY <3>1 DEF Decodable
  <2>2. PieceAt(p, isString) = [pos |-> p + 6, chars |-> <<getUnicodeCharacter(p + 2)>>]
    BY <1>2 DEF PieceAt
  <2> QED
    BY <2>1, <2>2
<1>3. CASE CharAt(p) = "\\" /\ isString
  <2>1. PieceAt(p, isString) = StringEscape(p + 1)
    BY <1>3 DEF PieceAt
  <2>2. UChar \subseteq Decodable
    BY DEF Decodable
  <2>3. CASE CharAt(p + 1) \notin LineTerminators \cup {"end"}
    <3>1. Escapes(p + 1, StringEscape(p + 1))
      BY <2>3, StringEscapeReads
    <3>2. /\ StringEscape(p + 1).pos \in Nat /\ StringEscape(p + 1).pos > p
          /\ StringEscape(p + 1).chars \in Seq(UChar)
      BY <3>1 DEF Escapes
    <3> QED
      BY <2>1, <2>2, <3>2, SeqIsMonotonic
  <2>4. CASE CharAt(p + 1) \in LineTerminators
    <3>1. StringEscape(p + 1) = Escape(AfterLineTerminator(p + 1), <<>>)
      BY <2>4, LineContinuation
    <3>2. AfterLineTerminator(p + 1) \in (p + 1) + 1 .. Len(text)
      BY <2>4, AfterLineTerminatorBounds
    <3>3. AfterLineTerminator(p + 1) \in Nat /\ AfterLineTerminator(p + 1) > p
      BY <3>2
    <3> DEFINE q == AfterLineTerminator(p + 1)
    <3> HIDE DEF q
    <3>4. Escape(q, <<>>).pos = q /\ Escape(q, <<>>).chars = <<>> /\ <<>> \in Seq(Decodable)
      BY DEF Escape
    <3> QED
      BY <2>1, <3>1, <3>3, <3>4 DEF q
  <2>5. CASE CharAt(p + 1) = "end"
    <3>1. CharAt(p + 1) \notin LineTerminators \cup OctalDigits \cup {"x", "u"}
      BY <2>5 DEF LineTerminators, OctalDigits
    <3>2. StringEscape(p + 1) = Escape((p + 1) + 1, <<singleEscape(CharAt(p + 1))>>)
      BY <3>1 DEF StringEscape
    <3>3. singleEscape(CharAt(p + 1)) = "end"
      BY <2>5 DEF singleEscape
    <3>4. StringEscape(p + 1) = Escape((p + 1) + 1, <<"end">>)
      BY <3>2, <3>3
    <3>5. PieceAt(p, isString).pos = (p + 1) + 1 /\ PieceAt(p, isString).chars = <<"end">>
      BY <2>1, <3>4 DEF Escape
    <3>6. "end" \in Decodable
      BY DEF Decodable
    <3>7. <<"end">> \in Seq(Decodable)
      BY <3>6
    <3> QED
      BY <3>5, <3>7
  <2> QED
    BY <2>3, <2>4, <2>5
<1> QED
  BY <1>1, <1>2, <1>3

\* The definition by recursion has a value.
LEMMA DecodedExists ==
    ASSUME text \in Seq(Characters), NEW last \in 0 .. Len(text), NEW isString \in BOOLEAN
    PROVE  \E f \in [Nat -> Seq(Decodable)] :
             f = [p \in Nat |-> DecodedBy(f, last, isString, p)]
<1> DEFINE Good(f, n) == \A p \in Nat : p >= n => f[p] = DecodedBy(f, last, isString, p)
           T == {n \in Nat : \E f \in [Nat -> Seq(Decodable)] : Good(f, n)}
<1>1. last \in Nat /\ Len(text) \in Nat /\ last <= Len(text)
  OBVIOUS
<1>2. ASSUME NEW f \in [Nat -> Seq(Decodable)], NEW n \in Nat, Good(f, n) PROVE n \in T
  BY <1>2
<1>3. ASSUME NEW n \in T PROVE n \in Nat /\ \E f \in [Nat -> Seq(Decodable)] : Good(f, n)
  OBVIOUS
<1> HIDE DEF T
<1>4. last \in T
  <2> DEFINE f == [p \in Nat |-> <<>>]
  <2>1. f \in [Nat -> Seq(Decodable)]
    OBVIOUS
  <2>2. ASSUME NEW p \in Nat, p >= last PROVE f[p] = DecodedBy(f, last, isString, p)
    BY <2>2 DEF DecodedBy
  <2>3. Good(f, last)
    BY <2>2
  <2> HIDE DEF f, Good
  <2> QED
    BY <1>1, <1>2, <2>1, <2>3
<1>5. PICK n \in T : \A j \in T : n <= j
  <2>1. T \in SUBSET Nat
    BY <1>3
  <2> QED
    BY <1>4, <2>1, LeastElement
<1>6. n \in Nat /\ n <= last
  BY <1>3, <1>4, <1>5
<1>7. PICK f \in [Nat -> Seq(Decodable)] :
        \A p \in Nat : p >= n => f[p] = DecodedBy(f, last, isString, p)
  BY <1>3
<1>8. ASSUME n # 0 PROVE FALSE
  <2> DEFINE k == n - 1
             piece == PieceAt(k, isString)
             new == piece.chars \o f[piece.pos]
             g == [f EXCEPT ![k] = new]
  <2> HIDE DEF Good
  <2>1. k \in Nat /\ k < n /\ k < last /\ k < Len(text) /\ \A p \in Nat : p > k => p >= n
    <3>1. k \in Nat /\ k = n - 1
      BY <1>6, <1>8
    <3> HIDE DEF k
    <3>2. k < n /\ k < last /\ k < Len(text)
      BY <1>1, <1>6, <3>1
    <3>3. \A p \in Nat : p > k => p >= n
      BY <1>6, <3>1
    <3> QED
      BY <3>1, <3>2, <3>3
  <2> HIDE DEF k
  <2>2. piece.pos \in Nat /\ piece.pos > k /\ piece.chars \in Seq(Decodable)
    BY <2>1, PiecesMoveOn
  <2> HIDE DEF piece
  <2>3. new \in Seq(Decodable)
    <3>1. f[piece.pos] \in Seq(Decodable)
      BY <2>2
    <3> QED
      BY <2>2, <3>1, ConcatProperties
  <2>4. new = piece.chars \o f[piece.pos]
    OBVIOUS
  <2> HIDE DEF new
  <2>5. g \in [Nat -> Seq(Decodable)] /\ g[k] = new /\ \A p \in Nat : p > k => g[p] = f[p]
    BY <2>1, <2>3
  <2> HIDE DEF g
  <2>6. ASSUME NEW p \in Nat, p >= k PROVE g[p] = DecodedBy(g, last, isString, p)
    <3>1. CASE p = k
      <4>1. g[piece.pos] = f[piece.pos]
        BY <2>2, <2>5
      <4>2. DecodedBy(g, last, isString, k) = piece.chars \o g[piece.pos]
        <5>1. ~(k >= last)
          BY <1>1, <2>1
        <5> QED
          BY <5>1, Pieces DEF piece
      <4> QED
        BY <2>4, <2>5, <3>1, <4>1, <4>2
    <3>2. CASE p > k
      <4>1. g[p] = f[p] /\ f[p] = DecodedBy(f, last, isString, p)
        BY <1>7, <2>1, <2>5, <3>2
      <4>2. CASE p >= last
        <5>1. DecodedBy(f, last, isString, p) = <<>> /\ DecodedBy(g, last, isString, p) = <<>>
          BY <4>2, Pieces
        <5> QED
          BY <4>1, <5>1
      <4>3. CASE ~(p >= last)
        <5> DEFINE q == PieceAt(p, isString).pos
        <5>1. p < Len(text)
          BY <1>1, <4>3
        <5>2. q \in Nat /\ q > p
          BY <5>1, PiecesMoveOn
        <5>3. DecodedBy(f, last, isString, p) = PieceAt(p, isString).chars \o f[q]
          BY <4>3, Pieces
        <5>4. DecodedBy(g, last, isString, p) = PieceAt(p, isString).chars \o g[q]
          BY <4>3, Pieces
        <5> HIDE DEF q
        <5>5. q > k
          BY <2>1, <3>2, <5>2
        <5>6. g[q] = f[q]
          BY <2>5, <5>2, <5>5
        <5> QED
          BY <4>1, <5>3, <5>4, <5>6
      <4> QED
        BY <4>2, <4>3
    <3>3. p = k \/ p > k
      BY <2>1, <2>6
    <3> QED
      BY <3>1, <3>2, <3>3
  <2>7. Good(g, k)
    BY <2>6 DEF Good
  <2>8. k \in T
    BY <1>2, <2>1, <2>5, <2>7
  <2>9. n <= k
    BY <1>5, <2>8
  <2> QED
    BY <1>6, <2>1, <2>9
<1>9. \A p \in Nat : f[p] = DecodedBy(f, last, isString, p)
  BY <1>7, <1>8
<1> HIDE DEF Good
<1>10. f = [p \in Nat |-> DecodedBy(f, last, isString, p)]
  BY <1>9
<1> QED
  BY <1>10

LEMMA DecodedRule ==
    ASSUME text \in Seq(Characters), NEW last \in 0 .. Len(text), NEW isString \in BOOLEAN,
           NEW p \in Nat
    PROVE  Decoded(last, isString)[p] =
             DecodedBy(Decoded(last, isString), last, isString, p)
<1> DEFINE d == Decoded(last, isString)
<1>1. d = CHOOSE f : f = [q \in Nat |-> DecodedBy(f, last, isString, q)]
  BY DEF Decoded, DecodedBy
<1>2. \E f : f = [q \in Nat |-> DecodedBy(f, last, isString, q)]
  BY DecodedExists
<1> HIDE DEF d
<1>3. d = [q \in Nat |-> DecodedBy(d, last, isString, q)]
  BY <1>1, <1>2
<1>4. d[p] = DecodedBy(d, last, isString, p)
  BY <1>3
<1> QED
  BY <1>4 DEF d

LEMMA DecodedType ==
    ASSUME text \in Seq(Characters), NEW last \in 0 .. Len(text), NEW isString \in BOOLEAN,
           NEW p \in Nat
    PROVE  Decoded(last, isString)[p] \in Seq(Decodable)
<1> DEFINE d == Decoded(last, isString)
           T == {q \in Nat : q <= last /\ d[last - q] \notin Seq(Decodable)}
<1>1. last \in Nat /\ Len(text) \in Nat /\ last <= Len(text)
  OBVIOUS
<1>2. ASSUME NEW q \in Nat
      PROVE  d[q] = IF q >= last THEN <<>>
                    ELSE PieceAt(q, isString).chars \o d[PieceAt(q, isString).pos]
  BY DecodedRule, Pieces
<1> HIDE DEF d
<1>3. ASSUME NEW q \in Nat, q >= last PROVE d[q] \in Seq(Decodable)
  <2>1. d[q] = <<>> /\ <<>> \in Seq(Decodable)
    BY <1>2, <1>3
  <2> QED
    BY <2>1
<1>4. ASSUME T # {} PROVE FALSE
  <2>1. PICK k \in T : \A j \in T : k <= j
    <3>1. T \in SUBSET Nat
      OBVIOUS
    <3> QED
      BY <1>4, <3>1, LeastElement
  <2> DEFINE q == last - k
             piece == PieceAt(q, isString)
  <2>2. q \in Nat /\ q <= last /\ d[q] \notin Seq(Decodable) /\ k \in Nat /\ k = last - q
    BY <1>1
  <2> HIDE DEF q
  <2>3. ~(q >= last)
    BY <1>3, <2>2
  <2>4. piece.pos \in Nat /\ piece.pos > q /\ piece.chars \in Seq(Decodable)
    <3>1. q < Len(text)
      BY <1>1, <2>2, <2>3
    <3> QED
      BY <2>2, <3>1, PiecesMoveOn
  <2>5. d[q] = piece.chars \o d[piece.pos]
    BY <1>2, <2>2, <2>3
  <2> HIDE DEF piece
  <2>6. d[piece.pos] \in Seq(Decodable)
    <3>1. CASE piece.pos >= last
      BY <1>3, <2>4, <3>1
    <3>2. CASE ~(piece.pos >= last)
      <4>1. last - piece.pos \in Nat /\ last - piece.pos < k /\ last - piece.pos <= last
            /\ last - (last - piece.pos) = piece.pos
        BY <1>1, <2>2, <2>4, <3>2
      <4>2. last - piece.pos \notin T
        BY <2>1, <2>2, <4>1
      <4> QED
        BY <4>1, <4>2
    <3> QED
      BY <3>1, <3>2
  <2> QED
    BY <2>2, <2>4, <2>5, <2>6, ConcatProperties
<1>5. CASE p <= last
  <2>1. last - p \in Nat /\ last - p <= last /\ last - (last - p) = p
    BY <1>1, <1>5
  <2>2. last - p \notin T
    BY <1>4
  <2>3. d[p] \in Seq(Decodable)
    BY <2>1, <2>2
  <2> QED
    BY <2>3 DEF d
<1>6. CASE ~(p <= last)
  <2>1. d[p] \in Seq(Decodable)
    BY <1>1, <1>3, <1>6
  <2> QED
    BY <2>1 DEF d
<1> QED
  BY <1>5, <1>6

\* Pieces joined one after the other.
LEMMA DecodableJoin ==
    ASSUME NEW a \in Seq(Decodable), NEW b \in Seq(Decodable), NEW c \in Seq(Decodable)
    PROVE  a \o (b \o c) = (a \o b) \o c
BY ConcatAssociative

\* Where there is no backslash, the text stands for itself.
LEMMA DecodedRun ==
    ASSUME text \in Seq(Characters), NEW last \in 0 .. Len(text), NEW isString \in BOOLEAN,
           NEW p \in 0 .. last, NEW q \in p .. last, \A i \in p .. q - 1 : CharAt(i) # "\\"
    PROVE  Decoded(last, isString)[p] = Between(p, q) \o Decoded(last, isString)[q]
<1> DEFINE d == Decoded(last, isString)
           T == {k \in Nat : k <= q - p /\ d[q - k] # Between(q - k, q) \o d[q]}
<1>1. /\ last \in Nat /\ Len(text) \in Nat /\ last <= Len(text) /\ p \in Nat /\ q \in Nat
      /\ p <= q /\ q <= last
  <2>1. Len(text) \in Nat
    OBVIOUS
  <2>2. last \in Nat
    BY <2>1
  <2> QED
    BY <2>1, <2>2
<1>2. ASSUME NEW i \in Nat, i < last, CharAt(i) # "\\" PROVE d[i] = <<CharAt(i)>> \o d[i + 1]
  <2>1. ~(i >= last)
    BY <1>1, <1>2
  <2> QED
    BY <1>2, <2>1, DecodedRule DEF DecodedBy
<1>3. \A i \in Nat : d[i] \in Seq(Decodable)
  BY DecodedType
<1> HIDE DEF d
<1>4. ASSUME NEW k \in T
      PROVE  k \in Nat /\ k <= q - p /\ d[q - k] # Between(q - k, q) \o d[q]
  OBVIOUS
<1>5. ASSUME NEW k \in Nat, k <= q - p, k \notin T
      PROVE  d[q - k] = Between(q - k, q) \o d[q]
  BY <1>5
<1>6. T \in SUBSET Nat
  OBVIOUS
<1> HIDE DEF T
<1>7. ASSUME T # {} PROVE FALSE
  <2>1. PICK k \in T : \A j \in T : k <= j
    BY <1>7, <1>6, LeastElement
  <2> DEFINE i == q - k
  <2>2. i \in Nat /\ i <= q /\ i >= p /\ k \in Nat /\ k = q - i /\ d[i] # Between(i, q) \o d[q]
    <3>1. k \in Nat /\ k <= q - p /\ d[i] # Between(i, q) \o d[q]
      BY <1>4
    <3>2. i \in Nat /\ i <= q /\ i >= p /\ k = q - i
      BY <1>1, <3>1
    <3> QED
      BY <3>1, <3>2
  <2> HIDE DEF i
  <2>3. i # q
    <3>1. Between(q, q) = <<>>
      BY <1>1, ShortTexts
    <3>2. <<>> \o d[q] = d[q]
      BY <1>1, <1>3, ConcatEmptySeq
    <3> QED
      BY <2>2, <3>1, <3>2
  <2>4. /\ i + 1 \in Nat /\ i < q /\ i < last /\ i < Len(text) /\ i + 1 <= q
        /\ k - 1 \in Nat /\ k - 1 <= q - p
        /\ q - (k - 1) = i + 1 /\ k - 1 < k
    BY <1>1, <2>2, <2>3
  <2>5. d[i + 1] = Between(i + 1, q) \o d[q]
    <3>1. k - 1 \notin T
      BY <2>1, <2>2, <2>4
    <3> QED
      BY <1>5, <2>4, <3>1
  <2>6. CharAt(i) # "\\"
    <3>1. i \in p .. q - 1
      BY <1>1, <2>2, <2>4
    <3> QED
      BY <3>1
  <2>7. d[i] = <<CharAt(i)>> \o (Between(i + 1, q) \o d[q])
    BY <1>2, <2>2, <2>4, <2>5, <2>6
  <2>8. Between(i, i + 1) = <<CharAt(i)>>
    BY <2>2, <2>4, ShortTexts
  <2>9. i \in 0 .. Len(text) /\ i + 1 \in i .. Len(text) /\ q \in i + 1 .. Len(text)
        /\ i + 1 \in 0 .. Len(text)
    BY <1>1, <2>2, <2>4
  <2>10. Between(i, i + 1) \o Between(i + 1, q) = Between(i, q)
    BY <2>9, TextsJoin
  <2>11. Between(i, i + 1) \in Seq(Decodable) /\ Between(i + 1, q) \in Seq(Decodable)
    <3>1. Between(i, i + 1) \in Seq(UChar) /\ Between(i + 1, q) \in Seq(UChar)
      BY <2>9, BetweenText
    <3>2. UChar \subseteq Decodable
      BY DEF Decodable
    <3> QED
      BY <3>1, <3>2, SeqIsMonotonic
  <2>12. Between(i, i + 1) \o (Between(i + 1, q) \o d[q])
           = (Between(i, i + 1) \o Between(i + 1, q)) \o d[q]
    <3>1. d[q] \in Seq(Decodable)
      BY <1>1, <1>3
    <3> QED
      BY <2>11, <3>1, DecodableJoin
  <2> QED
    BY <2>2, <2>7, <2>8, <2>10, <2>12
<1>8. q - p \in Nat /\ q - p <= q - p /\ q - (q - p) = p
  BY <1>1
<1>9. q - p \notin T
  BY <1>7
<1>10. d[p] = Between(p, q) \o d[q]
  BY <1>8, <1>9, <1>5
<1> QED
  BY <1>10 DEF d

\* What a text stands for does not change while it is read.
LEMMA DecodedStays ==
    ASSUME text' = text
    PROVE  /\ \A p, q : Between(p, q)' = Between(p, q)
           /\ \A last, isString : Decoded(last, isString)' = Decoded(last, isString)
<1>1. \A p, q : Between(p, q)' = Between(p, q)
  BY DEF Between
<1>2. ASSUME NEW last, NEW isString PROVE Decoded(last, isString)' = Decoded(last, isString)
  BY SMT DEF Decoded, StringEscape, getUnicodeCharacter, AfterLineTerminator, OctalEscape,
             CharAt, Escape
<1> QED
  BY <1>1, <1>2

-----------------------------------------------------------------------------
(* What a call has read of a name or a string.                             *)

LEMMA DecodedPiece ==
    ASSUME text \in Seq(Characters), NEW last \in 0 .. Len(text), NEW isString \in BOOLEAN,
           NEW p \in Nat, p < last
    PROVE  Decoded(last, isString)[p] =
             PieceAt(p, isString).chars \o Decoded(last, isString)[PieceAt(p, isString).pos]
<1>1. ~(p >= last)
  <2>1. last \in Nat
    OBVIOUS
  <2> QED
    BY <2>1
<1>2. Decoded(last, isString)[p] = DecodedBy(Decoded(last, isString), last, isString, p)
  BY DecodedRule
<1> DEFINE d == Decoded(last, isString)
<1>3. d[p] = DecodedBy(d, last, isString, p)
  BY <1>2
<1> HIDE DEF d
<1>4. d[p] = PieceAt(p, isString).chars \o d[PieceAt(p, isString).pos]
  BY <1>1, <1>3, Pieces
<1> QED
  BY <1>4 DEF d

\* However far the name or string that begins at first will go, m_buffer16 is
\* what it stands for up to here.
BufferIsDecoded(first, isString) ==
    \A last \in pos .. Len(text) :
        Decoded(last, isString)[first] = m_buffer16 \o Decoded(last, isString)[pos]

StringIsRead ==
    /\ local.chunk = pos /\ local.startOffset + 1 <= pos
    /\ BufferIsDecoded(local.startOffset + 1, TRUE)

\* Of a name without an escape nothing is in m_buffer16.
NameIsRead ==
    /\ local.chunk = pos /\ local.startOffset <= pos
    /\ BufferIsDecoded(local.startOffset, FALSE)
    /\ ~local.bufferRequired => m_buffer16 = <<>> /\ pos = local.startOffset

Reading == (pc = "inString" => StringIsRead) /\ (pc = "inIdentifier" => NameIsRead)

ValueInv == SourceInv /\ Reading /\ NamesAndStringsAreDecoded /\ NumbersKeepTheirDigits

\* A call that goes on to p, without a backslash in between.
LEMMA ReadingGoesOn ==
    ASSUME text \in Seq(Characters), NEW isString \in BOOLEAN, pos \in 0 .. Len(text),
           m_buffer16 \in Seq(UChar), local.chunk = pos, NEW first \in Nat,
           BufferIsDecoded(first, isString),
           NEW p \in pos .. Len(text), \A i \in pos .. p - 1 : CharAt(i) # "\\"
    PROVE  /\ Copied(p) \in Seq(Decodable)
           /\ \A last \in p .. Len(text) :
                Decoded(last, isString)[first] = Copied(p) \o Decoded(last, isString)[p]
           /\ Decoded(p, isString)[first] = Copied(p)
<1>1. pos \in Nat /\ p \in Nat /\ p <= Len(text) /\ pos <= p /\ Len(text) \in Nat
  <2>1. Len(text) \in Nat
    OBVIOUS
  <2> QED
    BY <2>1
<1>2. Copied(p) = m_buffer16 \o Between(pos, p)
  BY DEF Copied
<1>3. m_buffer16 \in Seq(Decodable) /\ Between(pos, p) \in Seq(Decodable)
  <2>1. Between(pos, p) \in Seq(UChar)
    BY BetweenText
  <2>2. UChar \subseteq Decodable
    BY DEF Decodable
  <2> QED
    BY <2>1, <2>2, SeqIsMonotonic
<1>4. Copied(p) \in Seq(Decodable)
  BY <1>2, <1>3, ConcatProperties
<1>5. ASSUME NEW last \in p .. Len(text)
      PROVE  Decoded(last, isString)[first] = Copied(p) \o Decoded(last, isString)[p]
  <2>1. last \in 0 .. Len(text) /\ pos \in 0 .. last /\ p \in pos .. last
        /\ last \in pos .. Len(text)
    BY <1>1
  <2>2. Decoded(last, isString)[pos] = Between(pos, p) \o Decoded(last, isString)[p]
    BY <2>1, DecodedRun
  <2>3. Decoded(last, isString)[first] = m_buffer16 \o Decoded(last, isString)[pos]
    BY <2>1 DEF BufferIsDecoded
  <2>4. Decoded(last, isString)[p] \in Seq(Decodable)
    BY <1>1, <2>1, DecodedType
  <2>5. m_buffer16 \o (Between(pos, p) \o Decoded(last, isString)[p])
          = (m_buffer16 \o Between(pos, p)) \o Decoded(last, isString)[p]
    BY <1>3, <2>4, DecodableJoin
  <2> QED
    BY <1>2, <2>2, <2>3, <2>5, Zenon
<1>6. Decoded(p, isString)[first] = Copied(p)
  <2>1. p \in p .. Len(text) /\ p \in 0 .. Len(text)
    BY <1>1
  <2>2. Decoded(p, isString)[p] = <<>>
    <3>1. p >= p
      BY <1>1
    <3> QED
      BY <1>1, <2>1, <3>1, DecodedRule DEF DecodedBy
  <2>3. Decoded(p, isString)[first] = Copied(p) \o <<>>
    BY <1>5, <2>1, <2>2
  <2> QED
    BY <1>4, <2>3, ConcatEmptySeq
<1> QED
  BY <1>4, <1>5, <1>6

\* An escape at p, and what it adds.
LEMMA ReadingEscapes ==
    ASSUME text \in Seq(Characters), NEW isString \in BOOLEAN, pos \in 0 .. Len(text),
           m_buffer16 \in Seq(UChar), local.chunk = pos, NEW first \in Nat,
           BufferIsDecoded(first, isString),
           NEW p \in pos .. Len(text), \A i \in pos .. p - 1 : CharAt(i) # "\\",
           CharAt(p) = "\\", text' = text, pos' \in 0 .. Len(text),
           pos' = PieceAt(p, isString).pos,
           m_buffer16' = Copied(p) \o PieceAt(p, isString).chars
    PROVE  BufferIsDecoded(first, isString)'
<1> DEFINE piece == PieceAt(p, isString)
<1>1. pos \in Nat /\ p \in Nat /\ p < Len(text) /\ pos <= p /\ Len(text) \in Nat
  <2>1. Len(text) \in Nat /\ pos \in Nat
    OBVIOUS
  <2>2. p \in Nat /\ pos <= p /\ p <= Len(text)
    BY <2>1
  <2>3. CharAt(p) # "end"
    OBVIOUS
  <2> QED
    BY <2>1, <2>2, <2>3, TextCharacters
<1>2. piece.pos \in Nat /\ piece.pos > p /\ piece.chars \in Seq(Decodable)
  BY <1>1, PiecesMoveOn
<1>3. /\ Copied(p) \in Seq(Decodable)
      /\ \A last \in p .. Len(text) :
           Decoded(last, isString)[first] = Copied(p) \o Decoded(last, isString)[p]
  BY ReadingGoesOn
<1>4. pos' = piece.pos /\ m_buffer16' = Copied(p) \o piece.chars
  OBVIOUS
<1> HIDE DEF piece
<1>5. ASSUME NEW last \in pos' .. Len(text)
      PROVE  Decoded(last, isString)[first] = m_buffer16' \o Decoded(last, isString)[pos']
  <2>1. last \in p .. Len(text) /\ last \in 0 .. Len(text) /\ p < last
    BY <1>1, <1>2, <1>4
  <2>2. Decoded(last, isString)[p] = piece.chars \o Decoded(last, isString)[piece.pos]
    BY <1>1, <2>1, DecodedPiece DEF piece
  <2>3. Decoded(last, isString)[piece.pos] \in Seq(Decodable)
    BY <1>2, <2>1, DecodedType
  <2>4. Decoded(last, isString)[first] = Copied(p) \o Decoded(last, isString)[p]
    BY <1>3, <2>1
  <2>5. Copied(p) \o (piece.chars \o Decoded(last, isString)[piece.pos])
          = (Copied(p) \o piece.chars) \o Decoded(last, isString)[piece.pos]
    BY <1>2, <1>3, <2>3, DecodableJoin
  <2> QED
    BY <1>4, <2>2, <2>4, <2>5, Zenon
<1>6. Len(text)' = Len(text)
  OBVIOUS
<1>7. \A last : Decoded(last, isString)' = Decoded(last, isString)
  BY DecodedStays
<1> QED
  BY <1>5, <1>6, <1>7 DEF BufferIsDecoded

-----------------------------------------------------------------------------
(* From step to step.                                                      *)

\* The tokens that come with a value.
Words == Keywords \cup {"IDENT", "STRING", "NUMBER"}

LEMMA OperatorsAreNoWords ==
    ASSUME NEW op \in Operators
    PROVE  Automatic(op[2]) \notin Words
<1>1. op[2] \notin {"IDENT", "STRING", "NUMBER"} /\ op[2] \notin Keywords
  BY OperatorsAreNoKeywords DEF Operators
<1>2. {"AUTOPLUSPLUS", "AUTOMINUSMINUS"} \cap Words = {}
  BY DEF Words, Keywords
<1>3. Automatic(op[2]) \in {op[2], "AUTOPLUSPLUS", "AUTOMINUSMINUS"}
  BY DEF Automatic
<1> QED
  BY <1>1, <1>2, <1>3 DEF Words

LEMMA TokensWithoutValue ==
    /\ "EOFTOK" \notin Words /\ "ERRORTOK" \notin Words /\ "SEMICOLON" \notin Words
    /\ Keywords \cup {"IDENT"} \subseteq Words /\ "STRING" \in Words /\ "NUMBER" \in Words
    /\ Keywords \cap {"IDENT", "STRING", "NUMBER"} = {}
BY DEF Words, Keywords

\* The other actions neither begin to read a name or a string nor return one,
\* or a number.
OtherStep ==
    /\ pc' \notin {"inString", "inIdentifier"}
    /\ pc' = "idle" => token' \notin Words

LEMMA OtherSteps ==
    ASSUME Next
    PROVE  \/ OtherStep
           \/ lexNumber \/ lexIdentifier \/ lexString \/ parseIdentifier \/ parseString
<1>1. CASE lex
  BY <1>1 DEF lex, GoOn, OtherStep
<1>2. CASE scanRegExp \/ readRegExp
  BY <1>2 DEF scanRegExp, readRegExp, GoOn, OtherStep
<1>3. CASE lexEnd
  BY <1>3, TokensWithoutValue DEF lexEnd, returnEnd, Leave, OtherStep
<1>4. CASE lexInvalid \/ unterminatedComment
  BY <1>4, TokensWithoutValue
     DEF lexInvalid, unterminatedComment, returnError, Leave, OtherStep
<1>5. ASSUME NEW p, NEW l, lineBreakAt(p, l) PROVE OtherStep
  <2>1. returnToken("SEMICOLON", l) \/ GoOn("start", l)
    BY <1>5 DEF lineBreakAt
  <2> QED
    BY <2>1, TokensWithoutValue DEF returnToken, Leave, GoOn, OtherStep
<1>6. CASE lexLineTerminator
  BY <1>5, <1>6 DEF lexLineTerminator
<1>7. CASE lexComment \/ lexMultilineComment
  BY <1>7 DEF lexComment, lexMultilineComment, GoOn, OtherStep
<1>8. CASE lexLineComment
  <2>1. (\E p : lineBreakAt(p, local)) \/ returnEnd(local)
    BY <1>8 DEF lexLineComment
  <2> QED
    BY <1>5, <2>1, TokensWithoutValue DEF returnEnd, Leave, OtherStep
<1>9. CASE lexOperator
  <2>1. \E op \in Operators : returnToken(Automatic(op[2]), Started)
    BY <1>9 DEF lexOperator
  <2> QED
    BY <2>1, OperatorsAreNoWords DEF returnToken, Leave, OtherStep
<1> QED
  BY <1>1, <1>2, <1>3, <1>4, <1>6, <1>7, <1>8, <1>9 DEF Next, Step

LEMMA OtherStepsReadNothing ==
    ASSUME OtherStep
    PROVE  Reading' /\ NamesAndStringsAreDecoded' /\ NumbersKeepTheirDigits'
<1>1. Reading'
  BY DEF Reading, OtherStep
<1>2. NamesAndStringsAreDecoded'
  BY TokensWithoutValue DEF NamesAndStringsAreDecoded, Returned, OtherStep
<1>3. NumbersKeepTheirDigits'
  BY TokensWithoutValue DEF NumbersKeepTheirDigits, Returned, OtherStep
<1> QED
  BY <1>1, <1>2, <1>3

\* A number is returned with its digits.
LEMMA lexNumberKeeps ==
    ASSUME SourceInv, lexNumber
    PROVE  Reading' /\ NamesAndStringsAreDecoded' /\ NumbersKeepTheirDigits'
<1> DEFINE r == parseNumber(TokenStart)
<1>1. /\ text' = text /\ pc' = "idle" /\ token' \in {"NUMBER", "ERRORTOK"}
      /\ local'.startOffset = TokenStart
  BY lexNumberStep DEF SourceInv
<1>2. Reading' /\ NamesAndStringsAreDecoded'
  <2>1. token' \notin Keywords \cup {"IDENT", "STRING"}
    BY <1>1, TokensWithoutValue
  <2> QED
    BY <1>1, <2>1 DEF Reading, NamesAndStringsAreDecoded, Returned
<1>3. CASE token' = "ERRORTOK"
  <2>1. NumbersKeepTheirDigits'
    BY <1>3 DEF NumbersKeepTheirDigits, Returned
  <2> QED
    BY <1>2, <2>1
<1>4. CASE token' = "NUMBER"
  <2>1. r.value.chars # <<"error">> /\ value' = r.value /\ pos' = r.pos
    BY <1>4 DEF lexNumber, returnError
  <2>2. TokenStart \in Nat /\ text \in Seq(Characters)
    BY TokenStartBounds, InvMeans DEF SourceInv
  <2>3. Keeps(TokenStart, r)
    BY <2>2, parseNumberKeeps DEF lexNumber, First
  <2> HIDE DEF r
  <2>4. KeepsDigits(r.value, Between(TokenStart, r.pos))
    BY <2>1, <2>3 DEF Keeps
  <2>5. Between(local.startOffset, pos)' = Between(TokenStart, r.pos)
    BY <1>1, <2>1, DecodedStays DEF Between
  <2>6. KeepsDigits(value, Between(local.startOffset, pos))'
    BY <2>1, <2>4, <2>5, Zenon DEF KeepsDigits
  <2>7. NumbersKeepTheirDigits'
    BY <2>6 DEF KeepsDigits, NumbersKeepTheirDigits
  <2> QED
    BY <1>2, <2>7
<1> QED
  BY <1>1, <1>3, <1>4

\* A call that begins to read one.
LEMMA ReadingBegins ==
    ASSUME text \in Seq(Characters), text' = text, NEW isString \in BOOLEAN,
           pos' \in 0 .. Len(text), m_buffer16' = <<>>
    PROVE  BufferIsDecoded(pos, isString)'
<1>1. ASSUME NEW last \in pos' .. Len(text)
      PROVE  Decoded(last, isString)[pos'] = m_buffer16' \o Decoded(last, isString)[pos']
  <2>1. last \in 0 .. Len(text) /\ pos' \in Nat
    OBVIOUS
  <2>2. Decoded(last, isString)[pos'] \in Seq(Decodable)
    BY <2>1, DecodedType
  <2> QED
    BY <2>2, ConcatEmptySeq
<1>2. Len(text)' = Len(text)
  OBVIOUS
<1>3. \A last : Decoded(last, isString)' = Decoded(last, isString)
  BY DecodedStays
<1> QED
  BY <1>1, <1>2, <1>3 DEF BufferIsDecoded

\* The string begins behind its quote.
LEMMA lexStringBegins ==
    ASSUME SourceInv, lexString
    PROVE  Reading' /\ NamesAndStringsAreDecoded' /\ NumbersKeepTheirDigits'
<1>1. /\ LexerInv' /\ text' = text /\ pos' = TokenStart + 1 /\ pc' = "inString"
      /\ local'.startOffset = TokenStart
  BY lexStringStep DEF SourceInv
<1>2. pos' \in 0 .. Len(text) /\ text \in Seq(Characters)
  BY <1>1, InvMeans DEF LexerInv, TypeOK, SourceInv
<1>3. m_buffer16' = <<>>
  BY DEF SourceInv, Clean, lexString
<1>4. local'.chunk = pos'
  <2>1. local' = [Started EXCEPT !.quote = First, !.chunk = TokenStart + 1] /\ Started \in Locals
    BY TokenStartBounds DEF lexString, GoOn, SourceInv
  <2> QED
    BY <1>1, <2>1 DEF Locals
<1>5. BufferIsDecoded(pos, TRUE)'
  BY <1>1, <1>2, <1>3, ReadingBegins
<1>6. local'.startOffset + 1 = pos' /\ pos' \in Nat
  BY <1>1, <1>2
<1>7. BufferIsDecoded(local.startOffset + 1, TRUE)'
  BY <1>5, <1>6 DEF BufferIsDecoded
<1>8. Reading'
  <2>1. local'.startOffset + 1 <= pos'
    BY <1>6
  <2>2. StringIsRead'
    BY <1>4, <1>7, <2>1, Zenon DEF StringIsRead
  <2> QED
    BY <1>1, <2>2 DEF Reading
<1> QED
  BY <1>1, <1>8 DEF NamesAndStringsAreDecoded, NumbersKeepTheirDigits, Returned

\* The name begins at its first character, which may be an escape.
LEMMA lexIdentifierBegins ==
    ASSUME SourceInv, lexIdentifier
    PROVE  Reading' /\ NamesAndStringsAreDecoded' /\ NumbersKeepTheirDigits'
<1>1. /\ LexerInv' /\ text' = text /\ pos' = TokenStart /\ pc' = "inIdentifier"
      /\ local'.startOffset = TokenStart
  BY lexIdentifierStep DEF SourceInv
<1>2. pos' \in 0 .. Len(text) /\ text \in Seq(Characters)
  BY <1>1, InvMeans DEF LexerInv, TypeOK, SourceInv
<1>3. m_buffer16' = <<>>
  BY DEF SourceInv, Clean, lexIdentifier
<1>4. local'.chunk = pos'
  <2>1. local' = [Started EXCEPT !.chunk = TokenStart] /\ Started \in Locals
    BY TokenStartBounds DEF lexIdentifier, GoOn, SourceInv
  <2> QED
    BY <1>1, <2>1 DEF Locals
<1>5. BufferIsDecoded(pos, FALSE)'
  BY <1>1, <1>2, <1>3, ReadingBegins
<1>6. local'.startOffset = pos' /\ pos' \in Nat
  BY <1>1, <1>2
<1>7. BufferIsDecoded(local.startOffset, FALSE)'
  BY <1>5, <1>6 DEF BufferIsDecoded
<1>8. Reading'
  <2>1. local'.startOffset <= pos'
    BY <1>6
  <2>2. NameIsRead'
    BY <1>3, <1>4, <1>6, <1>7, <2>1, Zenon DEF NameIsRead
  <2> QED
    BY <1>1, <2>2 DEF Reading
<1> QED
  BY <1>1, <1>8 DEF NamesAndStringsAreDecoded, NumbersKeepTheirDigits, Returned

\* A string is read up to its quote or behind an escape.
LEMMA parseStringKeeps ==
    ASSUME SourceInv, Reading, parseString
    PROVE  Reading' /\ NamesAndStringsAreDecoded' /\ NumbersKeepTheirDigits'
<1> DEFINE C == Characters \ ({local.quote, "\\"} \cup LineTerminators)
           p == SkipWhile(pos, C)
           e == StringEscape(p + 1)
           first == local.startOffset + 1
<1>1. /\ pc = "inString" /\ text' = text
      /\ \/ /\ CharAt(p) = local.quote /\ pos' = p + 1
            /\ value'.chars = Copied(p)
            /\ returnToken("STRING", local)
         \/ returnError(local)
         \/ /\ CharAt(p) = "\\" /\ pos' = e.pos /\ m_buffer16' = Copied(p) \o e.chars
            /\ GoOn("inString", [local EXCEPT !.chunk = e.pos])
  <2>1. /\ pc = "inString" /\ text' = text
        /\ \/ /\ CharAt(p) = local.quote /\ pos' = p + 1
              /\ value' = [radix |-> 0, chars |-> Copied(p)]
              /\ returnToken("STRING", local)
           \/ returnError(local)
           \/ /\ CharAt(p) = "\\" /\ pos' = e.pos /\ m_buffer16' = Copied(p) \o e.chars
              /\ GoOn("inString", [local EXCEPT !.chunk = e.pos])
    BY Zenon DEF parseString
  <2> HIDE DEF p, e
  <2> QED
    BY <2>1
<1>2. /\ local \in Locals /\ local.startOffset \in Nat /\ pos \in Nat /\ pos \in 0 .. Len(text)
      /\ text \in Seq(Characters) /\ Len(text) \in Nat /\ m_buffer16 \in Seq(UChar)
  BY InvMeans, LocalFields DEF SourceInv, BufferTypes
<1>3. p \in pos .. Len(text) /\ p \in Nat /\ p >= pos /\ \A i \in pos .. p - 1 : CharAt(i) # "\\"
  <2>1. "end" \notin C /\ "\\" \notin C
    BY NoEndInCharacters
  <2> HIDE DEF C
  <2>2. p \in pos .. Len(text) /\ \A i \in pos .. p - 1 : CharAt(i) \in C
    BY <1>2, <2>1, Skipped
  <2>3. \A i \in pos .. p - 1 : CharAt(i) # "\\"
    BY <2>1, <2>2
  <2> HIDE DEF p
  <2> QED
    BY <1>2, <2>2, <2>3
<1>4. /\ local.chunk = pos /\ first <= pos /\ first \in Nat
      /\ BufferIsDecoded(first, TRUE)
  <2>1. StringIsRead
    BY <1>1 DEF Reading
  <2>2. local.chunk = pos /\ first <= pos /\ BufferIsDecoded(first, TRUE)
    BY <2>1, Zenon DEF StringIsRead
  <2>3. first \in Nat
    BY <1>2
  <2> HIDE DEF first
  <2> QED
    BY <2>2, <2>3
<1>5. pos' \in 0 .. Len(text) /\ pos' >= pos /\ local'.startOffset = local.startOffset
      /\ pos' \in Nat
  <2>1. LexerInv' /\ pos' >= pos /\ local'.startOffset = local.startOffset
    BY parseStringStep DEF SourceInv
  <2>2. pos' \in 0 .. Len(text)
    BY <1>1, <2>1 DEF LexerInv, TypeOK
  <2> QED
    BY <1>2, <2>1, <2>2
<1> HIDE DEF C, p
<1>6. CASE returnError(local)
  <2>1. pc' = "idle" /\ token' = "ERRORTOK"
    BY <1>6 DEF returnError, Leave
  <2> QED
    BY <2>1, TokensWithoutValue, OtherStepsReadNothing DEF OtherStep
<1>7. CASE /\ CharAt(p) = local.quote /\ pos' = p + 1 /\ value'.chars = Copied(p)
           /\ returnToken("STRING", local)
  <2>1. pc' = "idle" /\ token' = "STRING"
    BY <1>7 DEF returnToken, Leave
  <2>2. Reading' /\ NumbersKeepTheirDigits'
    BY <2>1 DEF Reading, NumbersKeepTheirDigits, Returned
  <2>3. Decoded(p, TRUE)[first] = Copied(p)
    BY <1>2, <1>3, <1>4, ReadingGoesOn
  <2>4. pos' - 1 = p /\ local'.startOffset + 1 = first
    BY <1>3, <1>5, <1>7
  <2>5. Decoded(pos - 1, TRUE)' = Decoded(p, TRUE)
    BY <1>1, <2>4, DecodedStays
  <2>6. value'.chars = Decoded(pos - 1, TRUE)'[local'.startOffset + 1]
    BY <1>7, <2>3, <2>4, <2>5
  <2>7. token' \notin Keywords \cup {"IDENT"}
    BY <2>1, TokensWithoutValue
  <2>8. NamesAndStringsAreDecoded'
    BY <2>1, <2>6, <2>7 DEF NamesAndStringsAreDecoded, Returned
  <2> QED
    BY <2>2, <2>8
<1>8. CASE /\ CharAt(p) = "\\" /\ pos' = e.pos /\ m_buffer16' = Copied(p) \o e.chars
           /\ GoOn("inString", [local EXCEPT !.chunk = e.pos])
  <2>1. PieceAt(p, TRUE) = e
    BY <1>8 DEF PieceAt
  <2>2. BufferIsDecoded(first, TRUE)'
    <3>1. pos' = PieceAt(p, TRUE).pos /\ m_buffer16' = Copied(p) \o PieceAt(p, TRUE).chars
      BY <1>8, <2>1
    <3> HIDE DEF e
    <3>2. ASSUME NEW f \in Nat, f = first PROVE BufferIsDecoded(f, TRUE)'
      BY <1>1, <1>2, <1>3, <1>4, <1>5, <1>8, <3>1, <3>2, ReadingEscapes
    <3>3. local'.startOffset + 1 = first
      BY <1>5
    <3> QED
      BY <1>4, <3>2, <3>3 DEF BufferIsDecoded
  <2>3. pc' = "inString" /\ local'.chunk = pos'
    BY <1>2, <1>8 DEF GoOn, Locals
  <2>4. first' = first /\ first <= pos'
    BY <1>2, <1>4, <1>5
  <2>5. Reading'
    <3>1. StringIsRead'
      BY <2>2, <2>3, <2>4, Zenon DEF StringIsRead
    <3> QED
      BY <2>3, <3>1 DEF Reading
  <2> QED
    BY <2>3, <2>5 DEF NamesAndStringsAreDecoded, NumbersKeepTheirDigits, Returned
<1> QED
  BY <1>1, <1>6, <1>7, <1>8

\* What parseIdentifier does.
LEMMA parseIdentifierCases ==
    ASSUME SourceInv, parseIdentifier, NEW p, p = SkipWhile(pos, IdentPart)
    PROVE  /\ pc = "inIdentifier" /\ text' = text
           /\ \/ /\ CharAt(p) = "\\" /\ pos' = p + 6
                 /\ m_buffer16' = Append(Copied(p), getUnicodeCharacter(p + 2))
                 /\ GoOn("inIdentifier", identifierEscape(local, p + 6))
              \/ returnToken("ERRORTOK", local)
              \/ /\ CharAt(p) # "\\" /\ pos' = p
                 /\ value'.chars = IF local.bufferRequired THEN Copied(p)
                                   ELSE Between(local.chunk, p)
                 /\ \E name : returnToken(IF ~local.bufferRequired /\ local.reserved
                                          THEN Keyword(name) ELSE "IDENT", local)
<1> DEFINE character == getUnicodeCharacter(p + 2)
           name == IF local.bufferRequired THEN Copied(p) ELSE Between(local.chunk, p)
           t == IF ~local.bufferRequired /\ local.reserved THEN Keyword(name) ELSE "IDENT"
<1>1. /\ pc = "inIdentifier" /\ text' = text
      /\ \/ /\ CharAt(p) = "\\" /\ pos' = p + 6 /\ m_buffer16' = Append(Copied(p), character)
            /\ GoOn("inIdentifier", identifierEscape(local, p + 6))
         \/ returnToken("ERRORTOK", local)
         \/ /\ CharAt(p) # "\\" /\ pos' = p
            /\ value' = [radix |-> 0, chars |-> name]
            /\ returnToken(t, local)
  BY Zenon DEF parseIdentifier
<1>2. returnToken(t, local)
        => \E m : returnToken(IF ~local.bufferRequired /\ local.reserved
                              THEN Keyword(m) ELSE "IDENT", local)
  BY Zenon
<1> HIDE DEF character, t
<1> QED
  BY <1>1, <1>2 DEF character

\* A name is read up to its end or behind an escape.
LEMMA parseIdentifierKeeps ==
    ASSUME SourceInv, Reading, parseIdentifier
    PROVE  Reading' /\ NamesAndStringsAreDecoded' /\ NumbersKeepTheirDigits'
<1> DEFINE p == SkipWhile(pos, IdentPart)
           first == local.startOffset
           c == getUnicodeCharacter(p + 2)
<1>1. /\ pc = "inIdentifier" /\ text' = text
      /\ \/ /\ CharAt(p) = "\\" /\ pos' = p + 6
            /\ m_buffer16' = Append(Copied(p), c)
            /\ GoOn("inIdentifier", identifierEscape(local, p + 6))
         \/ returnToken("ERRORTOK", local)
         \/ /\ CharAt(p) # "\\" /\ pos' = p
            /\ value'.chars = IF local.bufferRequired THEN Copied(p) ELSE Between(local.chunk, p)
            /\ \E name : returnToken(IF ~local.bufferRequired /\ local.reserved
                                     THEN Keyword(name) ELSE "IDENT", local)
  BY parseIdentifierCases
<1>2. /\ local \in Locals /\ local.startOffset \in Nat /\ pos \in Nat /\ pos \in 0 .. Len(text)
      /\ text \in Seq(Characters) /\ Len(text) \in Nat /\ m_buffer16 \in Seq(UChar)
  BY InvMeans, LocalFields DEF SourceInv, BufferTypes
<1>3. p \in pos .. Len(text) /\ \A i \in pos .. p - 1 : CharAt(i) \in IdentPart
  BY <1>2, Classes, Skipped
<1> HIDE DEF p
<1>4. p \in Nat /\ p >= pos /\ \A i \in pos .. p - 1 : CharAt(i) # "\\"
  BY <1>2, <1>3, Classes
<1>5. /\ local.chunk = pos /\ first <= pos /\ first \in Nat
      /\ BufferIsDecoded(first, FALSE)
      /\ ~local.bufferRequired => m_buffer16 = <<>> /\ pos = first
  <2>1. NameIsRead
    BY <1>1 DEF Reading
  <2>2. local.chunk = pos /\ first <= pos /\ BufferIsDecoded(first, FALSE)
        /\ (~local.bufferRequired => m_buffer16 = <<>> /\ pos = first)
    BY <2>1, Zenon DEF NameIsRead
  <2>3. first \in Nat
    BY <1>2
  <2> HIDE DEF first
  <2> QED
    BY <2>2, <2>3
<1>6. pos' \in 0 .. Len(text) /\ pos' >= pos /\ local'.startOffset = local.startOffset
      /\ pos' \in Nat
  <2>1. LexerInv' /\ pos' >= pos /\ local'.startOffset = local.startOffset
    BY parseIdentifierStep DEF SourceInv
  <2>2. pos' \in 0 .. Len(text)
    BY <1>1, <2>1 DEF LexerInv, TypeOK
  <2> QED
    BY <1>2, <2>1, <2>2
<1>7. CASE returnToken("ERRORTOK", local)
  <2>1. pc' = "idle" /\ token' = "ERRORTOK"
    BY <1>7 DEF returnToken, Leave
  <2> QED
    BY <2>1, TokensWithoutValue, OtherStepsReadNothing DEF OtherStep
<1>8. CASE /\ CharAt(p) # "\\" /\ pos' = p
           /\ value'.chars = IF local.bufferRequired THEN Copied(p) ELSE Between(local.chunk, p)
           /\ \E name : returnToken(IF ~local.bufferRequired /\ local.reserved
                                    THEN Keyword(name) ELSE "IDENT", local)
  <2>1. /\ pc' = "idle" /\ token' \in Keywords \cup {"IDENT"}
        /\ token' \in Keywords => ~local.bufferRequired
    BY <1>8, KeywordIsAToken, TokensWithoutValue DEF returnToken, Leave
  <2>2. token' \notin {"STRING", "NUMBER"}
    BY <2>1, TokensWithoutValue
  <2>3. Reading' /\ NumbersKeepTheirDigits'
    BY <2>1, <2>2 DEF Reading, NumbersKeepTheirDigits, Returned
  <2>4. Decoded(p, FALSE)[first] = Copied(p)
    BY <1>2, <1>3, <1>4, <1>5, ReadingGoesOn
  <2>5. value'.chars = Copied(p)
    <3>1. CASE local.bufferRequired
      BY <1>8, <3>1
    <3>2. CASE ~local.bufferRequired
      <4>1. Between(pos, p) \in Seq(UChar)
        BY <1>2, <1>3, BetweenText
      <4>2. Copied(p) = <<>> \o Between(pos, p)
        BY <1>5, <3>2 DEF Copied
      <4>3. Copied(p) = Between(pos, p)
        BY <4>1, <4>2, ConcatEmptySeq
      <4> QED
        BY <1>5, <1>8, <3>2, <4>3
    <3> QED
      BY <3>1, <3>2
  <2>6. Decoded(pos, FALSE)' = Decoded(p, FALSE)
    BY <1>1, <1>8, DecodedStays
  <2>7. value'.chars = Decoded(pos, FALSE)'[local'.startOffset]
    BY <1>6, <2>4, <2>5, <2>6
  <2>8. token' \in Keywords => "\\" \notin ToSet(Between(local.startOffset, pos)')
    <3>1. SUFFICES ASSUME token' \in Keywords
                   PROVE  "\\" \notin ToSet(Between(local.startOffset, pos)')
      OBVIOUS
    <3>2. Between(local.startOffset, pos)' = Between(pos, p)
      BY <1>1, <1>5, <1>6, <1>8, <2>1, <3>1, DecodedStays
    <3>3. /\ Between(pos, p) \in Seq(UChar) /\ Len(Between(pos, p)) = p - pos
          /\ \A i \in 1 .. p - pos : Between(pos, p)[i] = CharAt(pos + i - 1)
      BY <1>2, <1>3, BetweenText
    <3>4. ASSUME NEW i \in 1 .. p - pos PROVE Between(pos, p)[i] # "\\"
      <4>1. pos + i - 1 \in pos .. p - 1
        BY <1>2, <1>4
      <4> QED
        BY <1>4, <3>3, <4>1
    <3>5. DOMAIN Between(pos, p) = 1 .. p - pos
      BY <3>3
    <3> QED
      BY <3>2, <3>4, <3>5 DEF ToSet
  <2>9. NamesAndStringsAreDecoded'
    BY <2>1, <2>2, <2>7, <2>8 DEF NamesAndStringsAreDecoded, Returned
  <2> QED
    BY <2>3, <2>9
<1>9. CASE /\ CharAt(p) = "\\" /\ pos' = p + 6 /\ m_buffer16' = Append(Copied(p), c)
           /\ GoOn("inIdentifier", identifierEscape(local, p + 6))
  <2>1. PieceAt(p, FALSE).pos = p + 6 /\ PieceAt(p, FALSE).chars = <<c>>
    BY <1>9 DEF PieceAt
  <2>2. BufferIsDecoded(first, FALSE)'
    <3>1. pos' = PieceAt(p, FALSE).pos /\ m_buffer16' = Copied(p) \o PieceAt(p, FALSE).chars
      <4>1. Copied(p) \in Seq(Decodable)
        BY <1>2, <1>3, <1>4, <1>5, ReadingGoesOn
      <4> HIDE DEF c
      <4>2. Append(Copied(p), c) = Copied(p) \o <<c>>
        BY <4>1
      <4> QED
        BY <1>9, <2>1, <4>2
    <3> HIDE DEF c
    <3>2. ASSUME NEW f \in Nat, f = first PROVE BufferIsDecoded(f, FALSE)'
      BY <1>1, <1>2, <1>3, <1>4, <1>5, <1>6, <1>9, <3>1, <3>2, ReadingEscapes
    <3>3. local'.startOffset = first
      BY <1>6
    <3> QED
      BY <1>5, <3>2, <3>3 DEF BufferIsDecoded
  <2>3. pc' = "inIdentifier" /\ local'.chunk = pos' /\ local'.bufferRequired
    <3>1. pc' = "inIdentifier" /\ local' = [local EXCEPT !.bufferRequired = TRUE, !.chunk = p + 6]
      BY <1>9 DEF GoOn, identifierEscape
    <3> QED
      BY <1>2, <1>9, <3>1 DEF Locals
  <2>4. first' = first /\ first' <= pos'
    BY <1>2, <1>5, <1>6
  <2>5. Reading'
    <3>1. NameIsRead'
      BY <2>2, <2>3, <2>4, Zenon DEF NameIsRead
    <3> QED
      BY <2>3, <3>1 DEF Reading
  <2> QED
    BY <2>3, <2>5 DEF NamesAndStringsAreDecoded, NumbersKeepTheirDigits, Returned
<1> QED
  BY <1>1, <1>7, <1>8, <1>9

\* Every action keeps what has been read.
LEMMA ValueInvStep ==
    ASSUME ValueInv, [Next]_vars
    PROVE  ValueInv'
<1>1. SourceInv'
  BY SourceInvStep DEF ValueInv
<1>2. CASE Next
  BY <1>1, <1>2, OtherSteps, OtherStepsReadNothing, lexNumberKeeps, lexIdentifierBegins,
     lexStringBegins, parseIdentifierKeeps, parseStringKeeps DEF ValueInv
<1>3. CASE UNCHANGED vars
  <2>1. /\ text' = text /\ pos' = pos /\ m_buffer16' = m_buffer16 /\ pc' = pc
        /\ local' = local /\ token' = token /\ value' = value
    BY <1>3 DEF vars
  <2>2. /\ Decoded(pos, FALSE)' = Decoded(pos, FALSE)
        /\ Decoded(pos - 1, TRUE)' = Decoded(pos - 1, TRUE)
        /\ Between(local.startOffset, pos)' = Between(local.startOffset, pos)
    <3>1. ASSUME NEW p, p = pos', NEW q, q = pos' - 1
          PROVE  /\ Decoded(pos, FALSE)' = Decoded(p, FALSE)
                 /\ Decoded(pos - 1, TRUE)' = Decoded(q, TRUE)
      BY <2>1, <3>1, DecodedStays
    <3>2. Between(local.startOffset, pos)' = Between(local.startOffset, pos)
      BY <2>1 DEF Between
    <3> QED
      BY <2>1, <3>1, <3>2
  <2>3. NamesAndStringsAreDecoded'
    BY <2>1, <2>2 DEF ValueInv, NamesAndStringsAreDecoded, Returned
  <2>4. NumbersKeepTheirDigits'
    BY <2>1, <2>2 DEF ValueInv, NumbersKeepTheirDigits, Returned
  <2>5. Reading'
    <3>1. \A first, isString : BufferIsDecoded(first, isString)' = BufferIsDecoded(first, isString)
      BY <2>1, DecodedStays DEF BufferIsDecoded
    <3> QED
      BY <2>1, <3>1 DEF ValueInv, Reading, StringIsRead, NameIsRead
  <2> QED
    BY <1>1, <2>3, <2>4, <2>5 DEF ValueInv
<1> QED
  BY <1>2, <1>3

LEMMA ValueInvAlways == Spec => []ValueInv
<1>1. Init => ValueInv
  <2> SUFFICES ASSUME Init PROVE ValueInv
    OBVIOUS
  <2>1. SourceInv
    BY SourceInvInit
  <2>2. pc = "idle" /\ token = "none" /\ "none" \notin Keywords
    BY DEF Init, Keywords
  <2>3. Reading /\ NamesAndStringsAreDecoded /\ NumbersKeepTheirDigits
    BY <2>2 DEF Reading, NamesAndStringsAreDecoded, NumbersKeepTheirDigits, Returned
  <2> QED
    BY <2>1, <2>3 DEF ValueInv
<1>2. ValueInv /\ [Next]_vars => ValueInv'
  BY ValueInvStep
<1> QED
  BY <1>1, <1>2, PTL DEF Spec

\* The value that comes with a number is that of the digits in the text,
\* whichever of parseHex, parseOctal, parseDecimal and the readers of a
\* fraction and an exponent have read them, on their fast paths or through
\* m_buffer8.
THEOREM NumbersAreRead == Spec => []NumbersKeepTheirDigits
<1>1. ValueInv => NumbersKeepTheirDigits
  BY DEF ValueInv
<1> QED
  BY <1>1, ValueInvAlways, PTL

\* parseIdentifier and parseString, which copy pieces of the text to m_buffer16
\* between the escapes, return the whole name or string and nothing else, and
\* no name with an escape in it is returned as a keyword.
THEOREM NamesAndStringsAreRead == Spec => []NamesAndStringsAreDecoded
<1>1. ValueInv => NamesAndStringsAreDecoded
  BY DEF ValueInv
<1> QED
  BY <1>1, ValueInvAlways, PTL

=============================================================================
