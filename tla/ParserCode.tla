----------------------------- MODULE ParserCode -----------------------------
(***************************************************************************)
(* The control flow of the parse functions.  A frame of module JSParser    *)
(* holds the symbols its function has still to work off.  The rules are    *)
(* finitely many, so every function has finitely many such rests, Codes,   *)
(* however long the text is and however deep the calls are nested.         *)
(*                                                                         *)
(* The assumptions state what module ParserProofs needs to know of the     *)
(* rules.  They speak of the rules alone, with no constant and no variable *)
(* in them: by evaluating one, TLC decides it once and for all.            *)
(***************************************************************************)
EXTENDS JSParser

Functions == {"parseSourceElements"} \cup {Callee(s, t) : s \in Calls, t \in Tokens}

\* Where a function returns, or the process ends.
Ends == {"fail", "returnNull", "returnResult", "appendConstDecl",
         "createGetterOrSetterProperty"}

\* What a step of the function may put in the place of the symbol s.
Put(s) ==
    CASE s \in Ends -> {}
      [] s \in Decisions \ Calls -> {Expansion[s][t] : t \in Tokens}
      [] s \in DOMAIN Otherwise -> {<<>>, Otherwise[s]}
      [] s = "forVarRest" -> {<<"standardForLoop">>, <<"forVarIn">>}
      [] s = "callOrNew" -> {<<"parseArguments">>, <<"saveLHS", "parseArguments", "restoreLHS">>}
      [] s = "assignment" -> {<<>>, <<"next", "parseConditionalExpression", "assignment">>}
      [] s = "binaryOperator" -> {<<>>, <<"next", "operand">>}
      [] OTHER -> {<<>>}

\* What is left after a step, or after the return from a call.
After(todo) ==
    {symbols \o Tail(todo) : symbols \in Put(Head(todo))}
    \cup (IF Head(todo) \in Checked THEN {<<"fail">>} ELSE {})

\* A function has at most 12 symbols at a time and no rule leads to more than
\* 25 new rests in a row: CodesAreClosed.
Codes == [fn \in Functions |->
    LET within[k \in 0..25] ==
            IF k = 0 THEN {Expansion[fn][t] : t \in Tokens}
            ELSE LET codes == within[k - 1]
                 IN  codes \cup UNION {After(todo) : todo \in codes \ {<<>>}}
    IN  within[25]]

\* The symbol a function is at, and those that may come next.
Now(todo) == IF todo = <<>> THEN "" ELSE Head(todo)
Places(fn) == {Now(todo) : todo \in Codes[fn]}
Goes(fn, s, t) ==
    \E todo \in Codes[fn] \ {<<>>} : Now(todo) = s /\ \E rest \in After(todo) : Now(rest) = t

Starts(fn) == {Now(Expansion[fn][t]) : t \in Tokens}

-----------------------------------------------------------------------------
(* All functions.                                                           *)

ASSUME CodesAreClosed ==
    \A fn \in Functions :
        /\ fn \in Decisions
        /\ Codes[fn] \subseteq Seq(Symbols)
        /\ \A t \in Tokens : Expansion[fn][t] \in Codes[fn]
        /\ \A todo \in Codes[fn] \ {<<>>} : After(todo) \subseteq Codes[fn]

ASSUME SymbolsAreToldApart ==
    /\ Tokens \cap Operations = {}
    /\ (Tokens \cup Operations) \cap (Calls \cup Decisions) = {}
    /\ "" \notin Symbols

\* The functions whose counters and marks the invariants speak of, and the
\* operations that change them.
ASSUME OperationsAreOwned ==
    \A fn \in Functions, s \in Symbols : s \in Places(fn) =>
        /\ s \in {"inOff", "inOn"} => fn = "parseForStatement"
        /\ s \in {"pushElseIf", "pushElse", "foldLastIf", "foldElse"} => fn = "parseIfStatement"
        /\ s = "newBuilder" => fn = "parseFunctionBody"
        /\ s \in {"assignment", "endAssignment"} => fn = "parseAssignmentExpression"
        /\ s \in {"pushOperand", "binaryOperator"} => fn = "parseBinaryExpression"
        /\ s \in {"pushUnary", "endUnary"} => fn = "parseUnaryExpression"
        /\ s = "saveTokenCount" => fn = "parseExpressionOrLabelStatement"
        /\ s = "countHandler" => fn = "parseTryStatement"
        /\ s \in {"countNew", "callOrNew"} => fn = "parseMemberExpression"
        /\ s = "countDeclaration" => fn = "parseVarDeclarationList"
        /\ s = "parseVarDeclarationList?" => fn \in {"parseVarDeclaration", "parseForStatement"}

\* countDeclaration counts in the caller's frame: what calls there is.
ASSUME DeclarationsAreCounted ==
    \A s \in Calls, t \in Tokens :
        Callee(s, t) = "parseVarDeclarationList" => s = "parseVarDeclarationList?"

\* The functions that count what they have on a stack of the builder: there
\* is no return in the middle of one, and operands are read in one place.
ASSUME StacksAreLeftAtTheEnd ==
    /\ \A fn \in {"parseBinaryExpression", "parseUnaryExpression", "parseAssignmentExpression"} :
         {"returnNull", "returnResult"} \cap Places(fn) = {}
    /\ \A fn \in Functions : "parseUnaryExpression" \in Places(fn) => fn = "parseBinaryExpression"

-----------------------------------------------------------------------------
(* Single functions.                                                        *)

\* The loop over statements, and what it calls: a statement returns null
\* without a failure only at its very start, at the end of the elements.
Chained == Chain \cup {"parseMemberExpression"}

ASSUME StatementLoop ==
    /\ Starts("parseSourceElements") = {"parseStatement*"}
    /\ \A s, t \in Places("parseSourceElements") : Goes("parseSourceElements", s, t) =>
         /\ s = "parseStatement*" => t = "failIfError"
         /\ s = "failIfError" => t = ""
    /\ Places("parseSourceElements") = {"parseStatement*", "failIfError", ""}

ASSUME StatementsReturn ==
    /\ \A t \in Tokens : LET fn == Callee("parseStatement*", t) IN
         /\ fn \notin Chained \cup {"parseSourceElements"}
         /\ "returnResult" \notin Places(fn)
         /\ "returnNull" \in Places(fn) => fn = "parseStatement"
    /\ \A s \in Calls, t \in Tokens : Callee(s, t) = "parseStatement" => t # "ERRORTOK"
    /\ \A s, t \in Places("parseStatement") : Goes("parseStatement", s, t) => t # "returnNull"

HeadCalls == {"parseVarDeclarationList?", "parseExpression?"}

\* The functions between the head of a for loop and an operand in it.
HeadFunctions == {"parseVarDeclarationList", "parseExpression", "parseAssignmentExpression",
    "parseConditionalExpression", "parseBinaryExpression"}

ASSUME ForFlow ==
    LET fn == "parseForStatement" IN
    /\ \A todo \in Codes[fn] :
         InForHead([fn |-> fn, todo |-> todo]) <=> Now(todo) \in HeadCalls \cup {"inOn"}
    /\ \A s, t \in Places(fn) : Goes(fn, s, t) =>
         /\ s = "inOff" <=> t \in HeadCalls
         /\ s \in HeadCalls <=> t = "inOn"
    /\ Starts(fn) = {"next"}

ASSUME CallsInHeads ==
    /\ \A s \in HeadCalls, t \in Tokens : Callee(s, t) \in HeadFunctions
    /\ \A fn \in HeadFunctions : \A s \in Places(fn) \cap Calls, t \in Tokens :
         Callee(s, t) \in HeadFunctions \cup {"parseUnaryExpression"}

ASSUME IfFlow ==
    LET fn == "parseIfStatement" IN
    /\ \A s, t \in Places(fn) : Goes(fn, s, t) =>
         /\ t = "foldElse" <=> s \in {"pushElse", "foldLastIf"}
         /\ t = "moreElse" <=> s = "pushElseIf"
         /\ t = "foldLastIf" => s = "moreElse"
         /\ s = "foldElse" => t = ""
    /\ Starts(fn) = {"next"}

ASSUME BinaryFlow ==
    LET fn == "parseBinaryExpression" IN
    /\ \A s, t \in Places(fn) : Goes(fn, s, t) =>
         /\ t = "binaryOperator" <=> s = "pushOperand"
         /\ t = "" => s = "binaryOperator"
         /\ s = "binaryOperator" => t \in {"", "next"}
    /\ Starts(fn) = {"operand"}

ASSUME UnaryFlow ==
    LET fn == "parseUnaryExpression" IN
    /\ \A s, t \in Places(fn) : Goes(fn, s, t) => (t = "" <=> s = "endUnary")
    /\ Starts(fn) = {"unaryOps"}

ASSUME AssignmentFlow ==
    LET fn == "parseAssignmentExpression" IN
    /\ \A s, t \in Places(fn) : Goes(fn, s, t) => (t = "" <=> s = "endAssignment")
    /\ Starts(fn) = {"saveLHS"}

ASSUME BodyFlow ==
    LET fn == "parseFunctionBody" IN
    /\ \A s, t \in Places(fn) : Goes(fn, s, t) => t # "newBuilder"
    /\ Places(fn) = {"", "newBuilder", "parseSourceElements", "fail"}
    /\ Starts(fn) = {"", "newBuilder"}
    /\ \A s, t \in Places(fn) : Goes(fn, s, t) => (s = "newBuilder" <=> t = "parseSourceElements")
-----------------------------------------------------------------------------
(* m_nonLHSCount, by how a function uses it.                                *)

\* Symbols that take a token, and may take one.
Takes == Tokens \cup {"next", "nextIgnoreReserved"}
TookAfter(s, took) ==
    IF s \in Takes THEN {TRUE} ELSE IF s \in DOMAIN Otherwise THEN {took, TRUE} ELSE {took}

Ahead(s, todo) == \E i \in 1 .. Len(todo) : todo[i] = s

\* The function will compare the value it saved with m_nonLHSCount, ...
Compares(fn, todo) ==
    \/ fn = "parseAssignmentExpression" /\ Now(todo) # "saveLHS"
    \/ /\ fn = "parseForStatement"
       /\ Now(todo) \in HeadCalls \cup {"forInit", "inOff", "inOn", "failIfNull", "forRest", "sameLHS"}

\* ... or will put it back.
Restores(fn, todo) ==
    /\ fn \in {"parseMemberExpression", "parsePrimaryExpression"}
    /\ Ahead("restoreLHS", todo) /\ ~Ahead("saveLHS", todo)

\* The function must have taken a token to be here.
HasTaken(fn, todo) ==
    \/ /\ fn = "parseExpression" /\ Ahead("moreCommas", todo)
       /\ ~(Now(todo) = "next" /\ Ahead("nonLHS", todo))
    \/ /\ fn = "parseConditionalExpression"
       /\ Now(todo) \in {"parseAssignmentExpression?", "COLON", "parseAssignmentExpression"}

\* The function has counted its own operator: it returns no left-hand side.
HasCounted(fn, took, todo) ==
    \/ fn = "parseExpression" /\ took /\ Now(todo) # "nonLHS"
    \/ fn = "parseAssignmentExpression" /\ took /\ Now(todo) = ""
    \/ /\ fn \in {"parseConditionalExpression", "parseBinaryExpression", "parseUnaryExpression"}
       /\ took \/ Now(todo) \in {"next", "pushUnary"}

\* The tree at hand is what another function returned, unchanged.
HasTree(fn, took, todo) ==
    \/ fn = "parseExpression" /\ Now(todo) \in {"commaOpt", ""} /\ ~took
    \/ fn = "parseAssignmentExpression" /\ Now(todo) \in {"assignment", "endAssignment", ""}
    \/ fn = "parseConditionalExpression" /\ Now(todo) \in {"conditionalOpt", ""} /\ ~took
    \/ fn = "parseBinaryExpression" /\ Now(todo) \in {"pushOperand", "binaryOperator", ""}
    \/ fn = "parseUnaryExpression" /\ Now(todo) \in {"postfixOpt", "endUnary", ""} /\ ~took
    \/ /\ fn = "parseForStatement"
       /\ \/ Now(todo) = "inOn" /\ Ahead("failIfNull", todo)
          \/ Now(todo) \in {"failIfNull", "forRest", "sameLHS"}

\* A step from s to t adds one to m_nonLHSCount.
Raises(s, t) == s = "nonLHS" \/ (s = "binaryOperator" /\ t = "next")

ASSUME MarkFlow ==
    \A fn \in Functions : \A todo \in Codes[fn] \ {<<>>} : \A rest \in After(todo) :
        LET s == Now(todo) IN
        /\ Compares(fn, rest) => Compares(fn, todo) \/ s = "saveLHS"
        /\ Restores(fn, rest) => Restores(fn, todo) \/ s = "saveLHS"
        /\ s = "restoreLHS" => Restores(fn, todo)
        /\ HasTaken(fn, rest) => HasTaken(fn, todo) \/ s \in Takes

ASSUME CountFlow ==
    \A fn \in Functions : \A todo \in Codes[fn] \ {<<>>} : \A rest \in After(todo) :
        LET s == Now(todo) IN
        \A took \in BOOLEAN : (HasTaken(fn, todo) => took) => \A now \in TookAfter(s, took) :
          /\ HasCounted(fn, now, rest) =>
               HasCounted(fn, took, todo) \/ Raises(s, Now(rest)) \/ (s = "endAssignment" /\ took)
          /\ HasTree(fn, now, rest) => HasTree(fn, took, todo) \/ s \in Calls
          /\ HasTree(fn, took, todo) => s \notin Calls \cup {"saveLHS", "restoreLHS"}
          /\ HasTree(fn, now, rest) /\ s \in Calls => \A t \in Tokens : Callee(s, t) \in Chained

ASSUME MarksBegin ==
    \A fn \in Functions, t \in Tokens : LET todo == Expansion[fn][t] IN
        /\ ~Compares(fn, todo) /\ ~Restores(fn, todo) /\ ~HasTaken(fn, todo)
        /\ ~HasCounted(fn, FALSE, todo) /\ ~HasTree(fn, FALSE, todo)
        /\ Now(todo) \notin {"assignment", "forRest", "sameLHS"}
        /\ fn = "parseAssignmentExpression" => Now(todo) # "next"

ASSUME TreeFlow ==
    /\ \A fn \in Functions : \A s, t \in Places(fn) : Goes(fn, s, t) =>
         /\ t = "assignment" => s \in Checked
         /\ t = "forRest" => s = "failIfNull"
         /\ t = "sameLHS" => s = "forRest"
    /\ \A fn \in Functions : "sameLHS" \in Places(fn) => fn = "parseForStatement"
    /\ \A fn \in Chained : {"returnNull", "returnResult"} \cap Places(fn) = {}

\* What follows the loop over operators is not one more operator.
ASSUME LoopsEnd ==
    \A fn \in Functions : \A todo \in Codes[fn] \ {<<>>} :
        Now(todo) \in {"assignment", "binaryOperator"} => Now(Tail(todo)) # "next"

ASSUME AssignmentTakes ==
    LET fn == "parseAssignmentExpression" IN
    /\ \A s, t \in Places(fn) : Goes(fn, s, t) =>
         /\ t = "next" => s = "assignment"
         /\ s = "next" => t \notin {"", "next"}
    /\ Places(fn) \cap (Takes \cup DOMAIN Otherwise) = {"next"}
=============================================================================
