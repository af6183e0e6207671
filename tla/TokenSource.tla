----------------------------- MODULE TokenSource -----------------------------
(***************************************************************************)
(* What the parser knows of its lexer: Lexer::lex returns one token after  *)
(* the other.  It may return any token that a text of the chosen family    *)
(* can have next.  Module Lexer, which reads characters, implements this.  *)
(*                                                                         *)
(* tokenCount, m_tokenCount of the parser, is the number of calls made.    *)
(***************************************************************************)
EXTENDS JSTokens

CONSTANTS
    Texts       \* the families of source texts to parse, see TextFamily

VARIABLES
    text,       \* the family the source text belongs to
    tok,        \* m_token.m_type
    nl,         \* the lexer's m_terminator: a line break precedes tok
    lexer,      \* "m_error": it has failed; "m_buffer16": it holds a half-read name
    tokenCount  \* m_tokenCount

lexVars == <<text, tok, nl, lexer, tokenCount>>

\* The lexer itself makes the AUTO forms out of ++ and -- after a line break.
TextTokens == Tokens \ {"AUTOPLUSPLUS", "AUTOMINUSMINUS"}

\* All texts that begin with the opening, go on with tokens of the alphabet,
\* and have at most length tokens; breaks: may a line break precede a token.
TextFamily == [opening : Seq(TextTokens), alphabet : SUBSET TextTokens,
               length : Nat, breaks : (SUBSET BOOLEAN) \ {{}}]

ASSUME TextsAssumption == \A x \in Texts :
    /\ x.opening \in Seq(TextTokens) /\ x.alphabet \subseteq TextTokens
    /\ x.length \in Nat /\ x.breaks \subseteq BOOLEAN /\ x.breaks # {}

\* What may stand in the text after n tokens.
TokensAfter(n) ==
    IF n < Len(text.opening) THEN {text.opening[n + 1]}
    ELSE IF n < text.length THEN text.alphabet \cup {"EOFTOK"} ELSE {"EOFTOK"}

Restricted == {"CONTINUE", "BREAK", "RETURN", "THROW"}

\* lastTokenWasRestrKeyword, the AUTO operators, and IgnoreReservedWords.
Lexed(last, t, newline, reserved) ==
    IF newline /\ last \in Restricted THEN "SEMICOLON"
    ELSE CASE newline /\ t = "PLUSPLUS" -> "AUTOPLUSPLUS"
           [] newline /\ t = "MINUSMINUS" -> "AUTOMINUSMINUS"
           [] ~reserved /\ t \in Keywords -> "IDENT"
           [] OTHER -> t

\* What the lexer may be left in by a token: only an error token leaves a
\* mark, and a bad escape in a name may leave none.
LexerAfter(t) ==
    IF t = "ERRORTOK" THEN {"ok", "m_error", "m_buffer16"} ELSE {"ok"}

lex(reserved) ==
    /\ lexer = "ok"
    /\ tokenCount' = tokenCount + 1
    /\ nl' \in text.breaks
    /\ \E t \in TokensAfter(tokenCount) :
         /\ tok = "EOFTOK" => t = "EOFTOK"
         /\ tok' = Lexed(tok, t, nl', reserved)
         /\ lexer' \in LexerAfter(tok')
    /\ UNCHANGED text

-----------------------------------------------------------------------------
\* The lexer by itself.  Nothing sets m_terminator before the first call.
BeforeFirstToken ==
    /\ text \in Texts
    /\ tok = "none" /\ nl \in BOOLEAN /\ lexer = "ok" /\ tokenCount = 0

TokenSpec == BeforeFirstToken /\ [][\E reserved \in BOOLEAN : lex(reserved)]_lexVars
==============================================================================
