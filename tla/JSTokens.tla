------------------------------ MODULE JSTokens ------------------------------
(***************************************************************************)
(* The tokens the lexer and the parser share: enum JSTokenType of          *)
(* modules/reflect/parser/JSParser.h with the flags in its values.         *)
(***************************************************************************)
EXTENDS Integers, Sequences, FiniteSets

AssignmentOps == {"EQUAL", "PLUSEQUAL", "MINUSEQUAL", "MULTEQUAL", "DIVEQUAL",
    "LSHIFTEQUAL", "RSHIFTEQUAL", "URSHIFTEQUAL", "ANDEQUAL", "MODEQUAL",
    "XOREQUAL", "OREQUAL"}

UnaryOps == {"PLUSPLUS", "MINUSMINUS", "EXCLAMATION", "TILDE", "AUTOPLUSPLUS",
    "AUTOMINUSMINUS", "TYPEOF", "VOIDTOKEN", "DELETETOKEN", "PLUS", "MINUS"}

BinaryOpsByPrecedence == <<
    {"OR"}, {"AND"}, {"BITOR"}, {"BITXOR"}, {"BITAND"},
    {"EQEQ", "NE", "STREQ", "STRNEQ"},
    {"LT", "GT", "LE", "GE", "INSTANCEOF", "INTOKEN"},
    {"LSHIFT", "RSHIFT", "URSHIFT"}, {"PLUS", "MINUS"},
    {"TIMES", "DIVIDE", "MOD"}>>

Keywords == {"NULLTOKEN", "TRUETOKEN", "FALSETOKEN", "BREAK", "CASE", "DEFAULT",
    "FOR", "NEW", "VAR", "CONSTTOKEN", "CONTINUE", "FUNCTION", "RETURN", "IF",
    "THISTOKEN", "DO", "WHILE", "SWITCH", "WITH", "RESERVED", "THROW", "TRY",
    "CATCH", "FINALLY", "DEBUGGER", "ELSE", "TYPEOF", "VOIDTOKEN",
    "DELETETOKEN", "INSTANCEOF", "INTOKEN"}

Punctuation == {"OPENBRACE", "CLOSEBRACE", "OPENPAREN", "CLOSEPAREN",
    "OPENBRACKET", "CLOSEBRACKET", "COMMA", "QUESTION", "SEMICOLON", "COLON",
    "DOT"}

Tokens == AssignmentOps \cup UnaryOps \cup Keywords \cup Punctuation
            \cup (UNION {BinaryOpsByPrecedence[p] : p \in 1..10})
            \cup {"NUMBER", "IDENT", "STRING", "ERRORTOK", "EOFTOK"}

\* isBinaryOperator: 0, or the precedence.  IN has none while m_allowsIn is false.
isBinaryOperator(token, allowsIn) ==
    LET ps == {p \in 1..10 : token \in BinaryOpsByPrecedence[p]}
    IN  IF ps = {} \/ (token = "INTOKEN" /\ ~allowsIn) THEN 0
        ELSE CHOOSE p \in ps : TRUE
=============================================================================
