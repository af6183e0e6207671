----------------------------- MODULE MCJSParser -----------------------------
(* Families of source texts for JSParser.  Each keeps one group of parse   *)
(* functions busy, so that texts long enough for them stay few.            *)
EXTENDS JSParser

Family(opening, alphabet, length) ==
    [opening |-> opening, alphabet |-> alphabet, length |-> length, breaks |-> {FALSE}]

Expressions == Family(<<>>,
    {"IDENT", "EQUAL", "PLUS", "TIMES", "PLUSPLUS", "QUESTION", "COLON", "OPENPAREN",
     "CLOSEPAREN", "ERRORTOK"}, 5)

Literals == Family(<<"IDENT", "EQUAL">>,
    {"IDENT", "STRING", "COLON", "COMMA", "OPENBRACE", "CLOSEBRACE", "OPENBRACKET",
     "CLOSEBRACKET", "NEW", "DOT", "OPENPAREN", "CLOSEPAREN"}, 6)

Accessors == Family(<<"IDENT", "EQUAL", "OPENBRACE", "IDENT", "IDENT">>,
    {"OPENPAREN", "CLOSEPAREN", "OPENBRACE", "CLOSEBRACE", "COMMA"}, 10)

ForHeads == Family(<<"FOR", "OPENPAREN">>,
    {"VAR", "IDENT", "EQUAL", "INTOKEN", "SEMICOLON", "COMMA", "OPENBRACKET",
     "CLOSEBRACKET", "CLOSEPAREN"}, 8)

NestedFors == Family(<<"FOR", "OPENPAREN", "FUNCTION", "OPENPAREN", "CLOSEPAREN", "OPENBRACE">>,
    {"FOR", "OPENPAREN", "CLOSEPAREN", "CLOSEBRACE", "VAR", "IDENT", "INTOKEN", "PLUS",
     "ERRORTOK"}, 11)

IfChains == Family(<<"IF", "OPENPAREN", "IDENT", "CLOSEPAREN">>,
    {"IF", "ELSE", "OPENPAREN", "CLOSEPAREN", "SEMICOLON", "IDENT"}, 12)

Switches == Family(<<"SWITCH", "OPENPAREN", "IDENT", "CLOSEPAREN", "OPENBRACE">>,
    {"CASE", "DEFAULT", "COLON", "OPENBRACE", "CLOSEBRACE", "IDENT", "QUESTION",
     "ERRORTOK"}, 12)

Tries == Family(<<"TRY", "OPENBRACE">>,
    {"TRY", "CATCH", "FINALLY", "OPENPAREN", "CLOSEPAREN", "OPENBRACE", "CLOSEBRACE",
     "IDENT"}, 9)

\* An operand that fails where a conditional does not look.
Abandoned == Family(<<"IDENT", "PLUS", "IDENT", "TIMES", "OPENPAREN", "IDENT", "QUESTION",
                      "IDENT", "PLUS">>,
    {"COLON", "IDENT", "CLOSEPAREN"}, 12)

\* Statements that end at a line break, a brace or the end of the text.
EveryToken == [opening |-> <<>>, alphabet |-> TextTokens, length |-> 2, breaks |-> BOOLEAN]
Jumps == [opening |-> <<>>, breaks |-> BOOLEAN, length |-> 4,
          alphabet |-> {"RETURN", "BREAK", "IDENT", "COLON", "SEMICOLON", "CLOSEBRACE",
                        "MINUSMINUS"}]

AllTexts == {Expressions, Literals, Accessors, ForHeads, NestedFors, IfChains, Switches,
             Tries, Abandoned, EveryToken, Jumps}

Constants == {Family(<<"CONSTTOKEN">>, {"IDENT", "EQUAL", "SEMICOLON"}, 4)}
==============================================================================
