----------------------------- MODULE JSGrammar -----------------------------
(***************************************************************************)
(* The parse functions of modules/reflect/parser/JSParser.cpp as rules.    *)
(*                                                                         *)
(* A rule says what a function, or one decision inside it, does next when  *)
(* the current token m_token is in a given set: a sequence of symbols.     *)
(*   - the name of a token is consumeOrFail(token);                        *)
(*   - the name of a parse function is a call whose null result is checked *)
(*     with failIfFalse; with "?" the result is not checked; with "*" the  *)
(*     call is repeated until the result is null;                          *)
(*   - the left side of another rule is a decision (if, switch, while) of  *)
(*     the same function;                                                  *)
(*   - every other symbol is an operation of module JSParser.              *)
(* Which node a function builds is left out: a tree is null or it is not.  *)
(***************************************************************************)
EXTENDS JSTokens

-----------------------------------------------------------------------------
(* Rules: on(s, T, body) for tokens in T, always(s, body) for every token, *)
(* choose(s, T, body, other) for a test with an else branch.               *)

on(s, T, body) == [sym |-> s, la |-> T, body |-> body]
always(s, body) == {on(s, Tokens, body)}
choose(s, T, body, other) == {on(s, T, body), on(s, Tokens \ T, other)}

-----------------------------------------------------------------------------
(* Statements.                                                             *)

parseSourceElements_ignoresError ==
    always("parseSourceElements", <<"parseStatement*">>)

parseSourceElements ==
    always("parseSourceElements", <<"parseStatement*", "failIfError">>)

parseVarDeclaration ==
    always("parseVarDeclaration",
           <<"parseVarDeclarationList?", "failIfError", "autoSemiColon">>)

parseVarDeclarationList ==
    always("parseVarDeclarationList", <<"declarator">>)
    \cup always("declarator", <<"countDeclaration", "next", "IDENT",
                                "varInitializer", "moreDeclarators">>)
    \cup choose("varInitializer", {"EQUAL"},
                <<"next", "parseAssignmentExpression">>, <<>>)
    \cup choose("moreDeclarators", {"COMMA"}, <<"declarator">>, <<>>)

parseConstDeclaration ==
    always("parseConstDeclaration",
           <<"parseConstDeclarationList?", "failIfError", "autoSemiColon">>)

\* appendConstDecl is called with the null tail and never returns, so the
\* loop over further declarators is not reached.
parseConstDeclarationList ==
    always("parseConstDeclarationList",
           <<"next", "IDENT", "constInitializer", "appendConstDecl">>)
    \cup choose("constInitializer", {"EQUAL"},
                <<"next", "parseAssignmentExpression?">>, <<>>)

parseDoWhileStatement ==
    always("parseDoWhileStatement",
           <<"next", "parseStatement", "WHILE", "OPENPAREN", "parseExpression",
             "CLOSEPAREN", "semicolonOpt">>)
    \cup choose("semicolonOpt", {"SEMICOLON"}, <<"next">>, <<>>)

parseWhileStatement ==
    always("parseWhileStatement",
           <<"next", "OPENPAREN", "parseExpression", "CLOSEPAREN", "parseStatement">>)

forInit_failsFirst ==
    {on("forInit", {"VAR"}, <<"inOff", "parseVarDeclarationList?",
                              "failIfError", "inOn", "forVarRest">>),
     on("forInit", {"SEMICOLON"}, <<"standardForLoop">>),
     on("forInit", Tokens \ {"VAR", "SEMICOLON"},
        <<"inOff", "parseExpression", "inOn", "forRest">>)}

\* m_allowsIn is switched back on before the result of the call is looked at.
forInit ==
    {on("forInit", {"VAR"}, <<"inOff", "parseVarDeclarationList?", "inOn",
                              "failIfError", "forVarRest">>),
     on("forInit", {"SEMICOLON"}, <<"standardForLoop">>),
     on("forInit", Tokens \ {"VAR", "SEMICOLON"},
        <<"inOff", "parseExpression?", "inOn", "failIfNull", "forRest">>)}

parseForStatement ==
    always("parseForStatement", <<"next", "OPENPAREN", "saveLHS", "forInit">>)
    \cup forInit
    \cup always("forVarIn", <<"INTOKEN", "forInRest">>)
    \cup choose("forRest", {"SEMICOLON"}, <<"standardForLoop">>,
                <<"sameLHS", "INTOKEN", "forInRest">>)
    \cup always("forInRest", <<"parseExpression", "CLOSEPAREN", "parseStatement">>)
    \cup always("standardForLoop",
                <<"next", "forCondition", "SEMICOLON", "forIncrement",
                  "CLOSEPAREN", "parseStatement">>)
    \cup choose("forCondition", {"SEMICOLON"}, <<>>, <<"parseExpression">>)
    \cup choose("forIncrement", {"CLOSEPAREN"}, <<>>, <<"parseExpression">>)

parseBreakStatement == always("parseBreakStatement", <<"next", "semicolonOrLabel">>)

parseContinueStatement ==
    always("parseContinueStatement", <<"next", "semicolonOrLabel">>)

parseReturnStatement ==
    always("parseReturnStatement", <<"next", "semicolonOrExpression">>)

parseThrowStatement ==
    always("parseThrowStatement", <<"next", "parseExpression", "autoSemiColon">>)

parseWithStatement ==
    always("parseWithStatement",
           <<"next", "OPENPAREN", "parseExpression", "CLOSEPAREN", "parseStatement">>)

parseSwitchStatement ==
    always("parseSwitchStatement",
           <<"next", "OPENPAREN", "parseExpression", "CLOSEPAREN", "OPENBRACE",
             "parseSwitchClauses?", "failIfError",
             "parseSwitchDefaultClause?", "failIfError",
             "parseSwitchClauses?", "failIfError", "CLOSEBRACE">>)

parseSwitchClauses ==
    choose("parseSwitchClauses", {"CASE"}, <<"switchClause">>, <<"returnNull">>)
    \cup always("switchClause", <<"next", "parseExpression", "COLON",
                                  "parseSourceElements", "moreClauses">>)
    \cup choose("moreClauses", {"CASE"}, <<"switchClause">>, <<>>)

parseSwitchDefaultClause ==
    choose("parseSwitchDefaultClause", {"DEFAULT"},
           <<"next", "COLON", "parseSourceElements">>, <<"returnNull">>)

parseTryStatement ==
    always("parseTryStatement",
           <<"next", "block", "catchOpt", "finallyOpt", "failIfNoHandler">>)
    \cup choose("block", {"OPENBRACE"}, <<"parseBlockStatement">>, <<"fail">>)
    \cup choose("catchOpt", {"CATCH"},
                <<"next", "OPENPAREN", "IDENT", "CLOSEPAREN", "block",
                  "countHandler">>, <<>>)
    \cup choose("finallyOpt", {"FINALLY"}, <<"next", "block", "countHandler">>, <<>>)

parseDebuggerStatement ==
    always("parseDebuggerStatement", <<"next", "autoSemiColon">>)

parseBlockStatement ==
    always("parseBlockStatement", <<"next", "blockBody">>)
    \cup choose("blockBody", {"CLOSEBRACE"}, <<"next">>,
                <<"parseSourceElements", "CLOSEBRACE">>)

\* The functions parseStatement calls, and whose result it returns.
StatementFor == {
    <<"OPENBRACE", "parseBlockStatement">>, <<"VAR", "parseVarDeclaration">>,
    <<"CONSTTOKEN", "parseConstDeclaration">>,
    <<"FUNCTION", "parseFunctionDeclaration">>, <<"IF", "parseIfStatement">>,
    <<"DO", "parseDoWhileStatement">>, <<"WHILE", "parseWhileStatement">>,
    <<"FOR", "parseForStatement">>, <<"CONTINUE", "parseContinueStatement">>,
    <<"BREAK", "parseBreakStatement">>, <<"RETURN", "parseReturnStatement">>,
    <<"WITH", "parseWithStatement">>, <<"SWITCH", "parseSwitchStatement">>,
    <<"THROW", "parseThrowStatement">>, <<"TRY", "parseTryStatement">>,
    <<"DEBUGGER", "parseDebuggerStatement">>,
    <<"IDENT", "parseExpressionOrLabelStatement">>}

EndOfElements == {"EOFTOK", "CASE", "CLOSEBRACE", "DEFAULT"}

\* The cases parseStatement handles itself.
parseStatement ==
    choose("parseStatement", {"SEMICOLON"}, <<"next">>, <<"returnNull">>)

parseFormalParameters ==
    always("parseFormalParameters", <<"IDENT", "moreParameters">>)
    \cup choose("moreParameters", {"COMMA"},
                <<"next", "IDENT", "moreParameters">>, <<>>)

parseFunctionBody ==
    choose("parseFunctionBody", {"CLOSEBRACE"}, <<>>,
           <<"newBuilder", "parseSourceElements">>)

\* One function for each value of the template parameter.
parseFunctionInfo ==
    choose("parseFunctionInfo<FunctionNoRequirements>", {"IDENT"},
           <<"next", "functionRest">>, <<"functionRest">>)
    \cup choose("parseFunctionInfo<FunctionNeedsName>", {"IDENT"},
                <<"next", "functionRest">>, <<"returnNull">>)
    \cup always("functionRest",
                <<"OPENPAREN", "parametersOpt", "CLOSEPAREN", "OPENBRACE",
                  "parseFunctionBody", "CLOSEBRACE">>)
    \cup choose("parametersOpt", {"CLOSEPAREN"}, <<>>, <<"parseFormalParameters">>)

parseFunctionDeclaration ==
    always("parseFunctionDeclaration",
           <<"next", "parseFunctionInfo<FunctionNeedsName>">>)

parseExpressionOrLabelStatement ==
    always("parseExpressionOrLabelStatement",
           <<"saveTokenCount", "parseExpression", "semicolonOrColon">>)

parseExpressionStatement ==
    always("parseExpressionStatement", <<"parseExpression", "autoSemiColon">>)

moreElse_keepsLastIf ==
    choose("moreElse", {"ELSE"}, <<"next", "elseBranch">>, <<"foldElse">>)

\* while (match(ELSE)), and the last "else if" has no else.
moreElse ==
    choose("moreElse", {"ELSE"}, <<"next", "elseBranch">>, <<"foldLastIf", "foldElse">>)

parseIfStatement ==
    always("parseIfStatement",
           <<"next", "OPENPAREN", "parseExpression", "CLOSEPAREN",
             "parseStatement", "elseOpt">>)
    \cup choose("elseOpt", {"ELSE"}, <<"next", "elseBranch">>, <<>>)
    \cup choose("elseBranch", {"IF"},
                <<"next", "OPENPAREN", "parseExpression", "CLOSEPAREN",
                  "parseStatement", "pushElseIf", "moreElse">>,
                <<"parseStatement", "pushElse", "foldElse">>)
    \cup moreElse

-----------------------------------------------------------------------------
(* Expressions.                                                            *)

parseExpression ==
    always("parseExpression", <<"parseAssignmentExpression", "commaOpt">>)
    \cup choose("commaOpt", {"COMMA"},
                <<"next", "nonLHS", "parseAssignmentExpression", "moreCommas">>, <<>>)
    \cup choose("moreCommas", {"COMMA"},
                <<"next", "parseAssignmentExpression", "moreCommas">>, <<>>)

parseAssignmentExpression ==
    always("parseAssignmentExpression",
           <<"saveLHS", "parseConditionalExpression", "assignment", "endAssignment">>)

parseConditionalExpression ==
    always("parseConditionalExpression", <<"parseBinaryExpression", "conditionalOpt">>)
    \cup choose("conditionalOpt", {"QUESTION"},
                <<"nonLHS", "next", "parseAssignmentExpression?", "COLON",
                  "parseAssignmentExpression">>, <<>>)

parseBinaryExpression ==
    always("parseBinaryExpression", <<"operand">>)
    \cup always("operand", <<"parseUnaryExpression", "pushOperand", "binaryOperator">>)

\* A string names a constant property only.  Whether an identifier that is
\* followed by a name is "get" or "set" is decided by accessorType.
parseProperty ==
    {on("parseProperty", Keywords \cup {"IDENT"},
        <<"nextIgnoreReserved", "namedProperty">>),
     on("parseProperty", {"STRING"},
        <<"nextIgnoreReserved", "COLON", "parseAssignmentExpression">>),
     on("parseProperty", {"NUMBER"}, <<"next", "COLON", "parseAssignmentExpression">>),
     on("parseProperty", Tokens \ (Keywords \cup {"IDENT", "STRING", "NUMBER"}),
        <<"fail">>),
     on("namedProperty", {"COLON"}, <<"next", "parseAssignmentExpression">>),
     on("namedProperty", {"IDENT"},
        <<"accessorType", "parseFunctionInfo<FunctionNeedsName>",
          "createGetterOrSetterProperty">>),
     on("namedProperty", Tokens \ {"COLON", "IDENT"}, <<"fail">>)}

\* parseProperty never returns an accessor (createGetterOrSetterProperty ends
\* the process), so the restart with parseStrictObjectLiteral is not reached.
parseObjectLiteral ==
    always("parseObjectLiteral", <<"OPENBRACE", "objectBody">>)
    \cup choose("objectBody", {"CLOSEBRACE"}, <<"next">>,
                <<"parseProperty", "moreProperties", "CLOSEBRACE">>)
    \cup choose("moreProperties", {"COMMA"}, <<"next", "propertyOpt">>, <<>>)
    \cup choose("propertyOpt", {"CLOSEBRACE"}, <<>>,
                <<"parseProperty", "moreProperties">>)

elisions_stays == choose("elisions", {"COMMA"}, <<"elisions">>, <<>>)
elisions == choose("elisions", {"COMMA"}, <<"next", "elisions">>, <<>>)

parseArrayLiteral ==
    always("parseArrayLiteral", <<"OPENBRACKET", "elisions", "elementOpt">>)
    \cup elisions
    \cup choose("elementOpt", {"CLOSEBRACKET"}, <<"next">>,
                <<"parseAssignmentExpression", "moreElements">>)
    \cup choose("moreElements", {"COMMA"}, <<"next", "elisions", "elementOpt">>,
                <<"CLOSEBRACKET">>)

\* The literal functions parsePrimaryExpression calls, and whose result it returns.
LiteralFor == {<<"OPENBRACE", "parseObjectLiteral">>, <<"OPENBRACKET", "parseArrayLiteral">>}

Atoms == {"THISTOKEN", "IDENT", "STRING", "NUMBER", "NULLTOKEN", "TRUETOKEN", "FALSETOKEN"}

\* The cases parsePrimaryExpression handles itself.
parsePrimaryExpression ==
    {on("parsePrimaryExpression", {"OPENPAREN"},
        <<"next", "saveLHS", "parseExpression?", "restoreLHS", "CLOSEPAREN",
          "returnResult">>),
     on("parsePrimaryExpression", Atoms, <<"next">>),
     on("parsePrimaryExpression", {"DIVEQUAL", "DIVIDE"}, <<"scanRegExp", "next">>),
     on("parsePrimaryExpression",
        Tokens \ (Atoms \cup {"OPENPAREN", "DIVEQUAL", "DIVIDE"}), <<"fail">>)}

parseArguments ==
    always("parseArguments", <<"OPENPAREN", "argumentsBody">>)
    \cup choose("argumentsBody", {"CLOSEPAREN"}, <<"next">>,
                <<"parseAssignmentExpression", "moreArguments", "CLOSEPAREN">>)
    \cup choose("moreArguments", {"COMMA"},
                <<"next", "parseAssignmentExpression", "moreArguments">>, <<>>)

parseMemberExpression ==
    always("parseMemberExpression", <<"newOps", "memberBase", "memberOp">>)
    \cup choose("newOps", {"NEW"}, <<"next", "countNew", "newOps">>, <<>>)
    \cup choose("memberBase", {"FUNCTION"},
                <<"next", "parseFunctionInfo<FunctionNoRequirements>">>,
                <<"parsePrimaryExpression">>)
    \cup {on("memberOp", {"OPENBRACKET"},
             <<"next", "saveLHS", "parseExpression", "CLOSEBRACKET", "restoreLHS",
               "memberOp">>),
          on("memberOp", {"OPENPAREN"}, <<"callOrNew", "memberOp">>),
          on("memberOp", {"DOT"}, <<"nextIgnoreReserved", "IDENT", "memberOp">>),
          on("memberOp", Tokens \ {"OPENBRACKET", "OPENPAREN", "DOT"}, <<>>)}

postfixOpt_keepsLHS ==
    choose("postfixOpt", {"PLUSPLUS", "MINUSMINUS"}, <<"next">>, <<>>)

postfixOpt ==
    choose("postfixOpt", {"PLUSPLUS", "MINUSMINUS"}, <<"nonLHS", "next">>, <<>>)

parseUnaryExpression ==
    always("parseUnaryExpression",
           <<"unaryOps", "parseMemberExpression", "postfixOpt", "endUnary">>)
    \cup choose("unaryOps", UnaryOps, <<"nonLHS", "pushUnary", "next", "unaryOps">>, <<>>)
    \cup postfixOpt

-----------------------------------------------------------------------------
Rules ==
    UNION {parseSourceElements, parseVarDeclaration, parseVarDeclarationList,
           parseConstDeclaration, parseConstDeclarationList, parseDoWhileStatement,
           parseWhileStatement, parseForStatement, parseBreakStatement,
           parseContinueStatement, parseReturnStatement, parseThrowStatement,
           parseWithStatement, parseSwitchStatement, parseSwitchClauses,
           parseSwitchDefaultClause, parseTryStatement, parseDebuggerStatement,
           parseBlockStatement, parseStatement, parseFormalParameters,
           parseFunctionBody, parseFunctionInfo, parseFunctionDeclaration,
           parseExpressionOrLabelStatement, parseExpressionStatement,
           parseIfStatement, parseExpression, parseAssignmentExpression,
           parseConditionalExpression, parseBinaryExpression, parseProperty,
           parseObjectLiteral, parseArrayLiteral, parsePrimaryExpression,
           parseArguments, parseMemberExpression, parseUnaryExpression}

\* Calls whose result the caller does not check at once, and their callee.
Unchecked == [s \in {"parseVarDeclarationList?", "parseConstDeclarationList?",
                     "parseAssignmentExpression?", "parseExpression?",
                     "parseSwitchClauses?", "parseSwitchDefaultClause?"} |->
    CASE s = "parseVarDeclarationList?" -> "parseVarDeclarationList"
      [] s = "parseConstDeclarationList?" -> "parseConstDeclarationList"
      [] s = "parseAssignmentExpression?" -> "parseAssignmentExpression"
      [] s = "parseExpression?" -> "parseExpression"
      [] s = "parseSwitchClauses?" -> "parseSwitchClauses"
      [] s = "parseSwitchDefaultClause?" -> "parseSwitchDefaultClause"]

\* Functions that are called, with a checked result.
Checked == {"parseStatement", "parseSourceElements", "parseBlockStatement",
    "parseFormalParameters", "parseFunctionBody",
    "parseFunctionInfo<FunctionNoRequirements>",
    "parseFunctionInfo<FunctionNeedsName>", "parseExpression",
    "parseAssignmentExpression", "parseConditionalExpression",
    "parseBinaryExpression", "parseUnaryExpression", "parseMemberExpression",
    "parsePrimaryExpression", "parseProperty", "parseArguments"}

\* The function that runs when s is called with the given current token.
Callee(s, token) ==
    LET f == IF s \in DOMAIN Unchecked THEN Unchecked[s]
             ELSE IF s = "parseStatement*" THEN "parseStatement" ELSE s
        returned == CASE f = "parseStatement" -> StatementFor
                      [] f = "parsePrimaryExpression" -> LiteralFor
                      [] OTHER -> {}
    IN  IF \E p \in returned : p[1] = token
        THEN (CHOOSE p \in returned : p[1] = token)[2]
        ELSE IF f = "parseStatement" /\ token \notin EndOfElements \cup {"SEMICOLON"}
        THEN "parseExpressionStatement" ELSE f

\* The decisions: symbols that are expanded in place.
Decisions == {r.sym : r \in Rules}

Expansion == [s \in Decisions |-> [t \in Tokens |->
                 (CHOOSE r \in Rules : r.sym = s /\ t \in r.la).body]]

\* The code is deterministic: every function and decision has exactly one
\* rule for every token.
ASSUME OneRulePerToken ==
    \A s \in Decisions, t \in Tokens :
        Cardinality({r \in Rules : r.sym = s /\ t \in r.la}) = 1
=============================================================================
