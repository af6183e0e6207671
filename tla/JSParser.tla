------------------------------ MODULE JSParser ------------------------------
(***************************************************************************)
(* The recursive-descent parser behind Reflect.parse: the fields of class  *)
(* JSParser, the stack of active parse functions, and the node builders    *)
(* with the four stacks that expressions are put together on.  A step is   *)
(* one symbol of the rules of module JSGrammar.                            *)
(*                                                                         *)
(* The lexer is module TokenSource; its state is part of this one's.       *)
(*                                                                         *)
(* A definition whose name ends in _somethingWrong is a slip that a        *)
(* property is tested against; Next does not use it.                       *)
(***************************************************************************)
EXTENDS JSGrammar, TokenSource, SequencesExt

VARIABLES
    allowsIn,   \* m_allowsIn
    error,      \* m_error
    nonLHS,     \* m_nonLHSCount
    stack,      \* the active functions with their locals, the innermost last
    builders,   \* one tree builder per function body being parsed
    value,      \* what the last function returned
    status      \* "parsing", "done", "crashed" or "aborted" (a failed ASSERT)

vars == <<lexVars, allowsIn, error, nonLHS, stack, builders, value, status>>

Calls == Checked \cup DOMAIN Unchecked \cup {"parseStatement*"}

\* The symbols that are neither tokens nor calls nor decisions.
Operations == {"next", "nextIgnoreReserved", "fail", "failIfError", "failIfNull", "sameLHS",
    "failIfNoHandler", "onlyOneToken", "scanRegExp", "accessorType", "returnNull",
    "returnResult", "autoSemiColon", "semicolonOrLabel", "semicolonOrExpression",
    "semicolonOrColon", "inOff", "inOn", "saveLHS", "nonLHS", "restoreLHS",
    "countDeclaration", "forVarRest", "saveTokenCount", "countHandler", "countNew",
    "callOrNew", "pushElseIf", "pushElse", "foldLastIf", "foldElse", "newBuilder",
    "assignment", "endAssignment", "pushOperand", "binaryOperator", "pushUnary",
    "endUnary", "appendConstDecl", "createGetterOrSetterProperty"}
Symbols == Tokens \cup Calls \cup Decisions \cup Operations

\* A function's locals: the rest of its code; m_oldAllowsIn; a saved
\* m_nonLHSCount; two counters; and whether it took a token by itself.
Frame == [fn : Decisions, todo : Seq(Symbols), in : BOOLEAN, mark : Nat,
          n : Nat, m : Nat, took : BOOLEAN]

\* m_assignmentInfoStack, m_binaryOperandStack and m_unaryTokenStack are
\* counted, m_binaryOperatorStack keeps the precedences.
Builder == [assignments : Nat, operands : Nat, operators : Seq(1..10), unary : Nat]
NoOperands == [assignments |-> 0, operands |-> 0, operators |-> <<>>, unary |-> 0]

\* A tree that is a left-hand-side expression is told apart from other trees.
Values == {"null", "node", "lhs"}

-----------------------------------------------------------------------------
\* next(): with a lexer that has failed an ASSERT of Lexer::lex does not hold.
Lex(reserved) ==
    \/ /\ lexer # "ok"
       /\ status' = "aborted"
       /\ UNCHANGED lexVars
    \/ lex(reserved) /\ UNCHANGED status

allowAutomaticSemicolon == tok \in {"CLOSEBRACE", "EOFTOK"} \/ nl

-----------------------------------------------------------------------------
(* The call stack.                                                         *)

Top == Last(stack)
Running == status = "parsing" /\ stack # <<>>
At(s) == Running /\ Top.todo # <<>> /\ Head(Top.todo) = s
AtOneOf(S) == Running /\ Top.todo # <<>> /\ Head(Top.todo) \in S

\* The frame after its current symbol; that symbol replaced by others.
Done(f) == [f EXCEPT !.todo = Tail(@)]
Instead(f, symbols) == [f EXCEPT !.todo = symbols \o Tail(@)]
SetTop(f) == stack' = Append(Front(stack), f)

\* Where the caller goes on: failIfFalse, no check, or the statement loop.
Resume(todo, v) ==
    CASE Head(todo) \in Checked /\ v = "null" -> <<"fail">>
      [] Head(todo) = "parseStatement*" /\ v # "null" -> todo
      [] OTHER -> Tail(todo)

\* Return v to the caller.  The destructors of AllowInOverride and of the
\* function body's builder run.
Leave(v) ==
    /\ value' = v
    /\ allowsIn' = IF Top.fn = "parseUnaryExpression" THEN Top.in ELSE allowsIn
    /\ builders' = IF Top.fn = "parseFunctionBody" /\ Top.n = 1
                   THEN Front(builders) ELSE builders
    /\ LET callers == Front(stack) IN
         IF callers = <<>>
         THEN stack' = <<>> /\ status' = "done"
         ELSE /\ stack' = [callers EXCEPT ![Len(callers)].todo = Resume(@, v)]
              /\ UNCHANGED status
    /\ UNCHANGED <<lexVars, nonLHS>>

fail == error' = TRUE /\ Leave("null")

\* A step of the top function that changes nothing but its own frame.
Local(f) ==
    /\ SetTop(f)
    /\ UNCHANGED <<lexVars, allowsIn, error, nonLHS, builders, value, status>>

-----------------------------------------------------------------------------
(* Calls, decisions, tokens, results.                                      *)

NewFrame(f) ==
    [fn |-> f, todo |-> Expansion[f][tok], in |-> allowsIn, mark |-> 0,
     n |-> 0, m |-> 0, took |-> FALSE]

\* The constructor of AllowInOverride is part of entering parseUnaryExpression.
Call ==
    /\ AtOneOf(Calls)
    /\ LET f == Callee(Head(Top.todo), tok) IN
         /\ stack' = Append(stack, NewFrame(f))
         /\ allowsIn' = (allowsIn \/ f = "parseUnaryExpression")
    /\ UNCHANGED <<lexVars, error, nonLHS, builders, value, status>>

Decide ==
    /\ AtOneOf(Decisions \ Calls)
    /\ Local(Instead(Top, Expansion[Head(Top.todo)][tok]))

\* next(), and next(IgnoreReservedWords).
Advance(reserved) ==
    /\ Lex(reserved)
    /\ SetTop([Done(Top) EXCEPT !.took = TRUE])
    /\ UNCHANGED <<allowsIn, error, nonLHS, builders, value>>

consumeOrFail ==
    /\ AtOneOf(Tokens)
    /\ IF tok = Head(Top.todo) THEN Advance(TRUE) ELSE fail

next == \/ At("next") /\ Advance(TRUE)
        \/ At("nextIgnoreReserved") /\ Advance(FALSE)

failIf(symbol, condition) ==
    /\ At(symbol)
    /\ IF condition THEN fail ELSE Local(Done(Top))

\* scanRegExp and the comparison with "get" and "set" may go either way.
Checks ==
    \/ failIf("fail", TRUE)
    \/ failIf("failIfError", error)
    \/ failIf("failIfNull", value = "null")
    \/ failIf("sameLHS", Top.mark # nonLHS)
    \/ failIf("failIfNoHandler", Top.n = 0)
    \/ failIf("onlyOneToken", Top.n + 1 # tokenCount)
    \/ \E no \in BOOLEAN : failIf("scanRegExp", no) \/ failIf("accessorType", no)

\* A tree handed up unchanged is the tree the callee made.
Chain == {"parseExpression", "parseAssignmentExpression",
          "parseConditionalExpression", "parseBinaryExpression",
          "parseUnaryExpression"}

Return ==
    /\ UNCHANGED error
    /\ \/ /\ Running /\ Top.todo = <<>>
          /\ Leave(CASE Top.fn = "parseMemberExpression" -> "lhs"
                     [] Top.fn \in Chain /\ ~Top.took -> value
                     [] OTHER -> "node")
       \/ At("returnNull") /\ Leave("null")
       \/ At("returnResult") /\ Leave(value)

\* autoSemiColon, and what follows where it may be false.
Otherwise == [
    autoSemiColon |-> <<"fail">>,
    semicolonOrLabel |-> <<"IDENT", "autoSemiColon">>,
    semicolonOrExpression |-> <<"parseExpression", "autoSemiColon">>,
    semicolonOrColon |-> <<"onlyOneToken", "COLON", "parseStatement">>]

autoSemiColon ==
    /\ AtOneOf(DOMAIN Otherwise)
    /\ \/ tok = "SEMICOLON" /\ Advance(TRUE)
       \/ /\ tok # "SEMICOLON"
          /\ Local(IF allowAutomaticSemicolon THEN Done(Top)
                   ELSE Instead(Top, Otherwise[Head(Top.todo)]))

-----------------------------------------------------------------------------
(* m_allowsIn and m_nonLHSCount.                                           *)

SetAllowsIn ==
    /\ AtOneOf({"inOff", "inOn"})
    /\ allowsIn' = At("inOn")
    /\ SetTop(Done(Top))
    /\ UNCHANGED <<lexVars, error, nonLHS, builders, value, status>>

SaveLHS == At("saveLHS") /\ Local([Done(Top) EXCEPT !.mark = nonLHS])

SetNonLHS ==
    /\ \/ At("nonLHS") /\ nonLHS' = nonLHS + 1
       \/ At("restoreLHS") /\ nonLHS' = Top.mark
    /\ SetTop(Done(Top))
    /\ UNCHANGED <<lexVars, allowsIn, error, builders, value, status>>

-----------------------------------------------------------------------------
(* Locals of single functions.                                             *)

\* declarations++ through the reference to the caller's variable.
countDeclaration ==
    /\ At("countDeclaration")
    /\ stack' = [i \in DOMAIN stack |->
                    CASE i = Len(stack) -> Done(Top)
                      [] i = Len(stack) - 1 -> [stack[i] EXCEPT !.n = @ + 1]
                      [] OTHER -> stack[i]]
    /\ UNCHANGED <<lexVars, allowsIn, error, nonLHS, builders, value, status>>

\* After the var list of a for head: declarations > 1 || match(SEMICOLON).
forVarRest ==
    /\ At("forVarRest")
    /\ Local(Instead(Top, IF Top.n > 1 \/ tok = "SEMICOLON"
                          THEN <<"standardForLoop">> ELSE <<"forVarIn">>))

saveTokenCount == At("saveTokenCount") /\ Local([Done(Top) EXCEPT !.n = tokenCount])

countHandler == At("countHandler") /\ Local([Done(Top) EXCEPT !.n = @ + 1])

\* newCount: how many "new" still wait for their arguments.
countNew == At("countNew") /\ Local([Done(Top) EXCEPT !.n = @ + 1])

callOrNew ==
    /\ At("callOrNew")
    /\ Local(IF Top.n > 0
             THEN [Instead(Top, <<"parseArguments">>) EXCEPT !.n = @ - 1]
             ELSE Instead(Top, <<"saveLHS", "parseArguments", "restoreLHS">>))

\* exprStack (n) and statementStack (m) of parseIfStatement, folded from the
\* end: an if without else for the last two, then one if per condition.
elseStacks ==
    \/ At("pushElseIf") /\ Local([Done(Top) EXCEPT !.n = @ + 1, !.m = @ + 1])
    \/ At("pushElse") /\ Local([Done(Top) EXCEPT !.m = @ + 1])
    \/ At("foldLastIf") /\ Local([Done(Top) EXCEPT !.n = @ - 1])
    \/ At("foldElse") /\ Local([Done(Top) EXCEPT !.n = 0, !.m = @ - Top.n])

-----------------------------------------------------------------------------
(* The builder's stacks.                                                   *)

Context == Last(builders)

\* A step that changes the top frame and the builder in use.
Build(f, b) ==
    /\ SetTop(f)
    /\ builders' = Append(Front(builders), b)
    /\ UNCHANGED <<lexVars, allowsIn, error, value, status>>

Crash(symbols) ==
    /\ AtOneOf(symbols)
    /\ status' = "crashed"
    /\ UNCHANGED <<lexVars, allowsIn, error, nonLHS, stack, builders, value>>

newBuilder ==
    /\ At("newBuilder")
    /\ SetTop([Done(Top) EXCEPT !.n = 1])
    /\ builders' = Append(builders, NoOperands)
    /\ UNCHANGED <<lexVars, allowsIn, error, nonLHS, value, status>>

\* The loop over assignment operators; it is left when what was parsed last
\* is not a left-hand side.
assignment ==
    /\ At("assignment")
    /\ \/ /\ Top.mark = nonLHS /\ tok \in AssignmentOps
          /\ Build([Instead(Top, <<"next", "parseConditionalExpression", "assignment">>)
                        EXCEPT !.n = @ + 1],
                   [Context EXCEPT !.assignments = @ + 1])
       \/ /\ Top.mark # nonLHS \/ tok \notin AssignmentOps
          /\ Build(Done(Top), Context)
    /\ UNCHANGED nonLHS

endAssignment ==
    /\ At("endAssignment")
    /\ nonLHS' = IF Top.n > 0 THEN nonLHS + 1 ELSE nonLHS
    /\ Build([Done(Top) EXCEPT !.n = 0], [Context EXCEPT !.assignments = @ - Top.n])

pushOperand_depthOnly ==
    /\ At("pushOperand")
    /\ Build([Done(Top) EXCEPT !.n = @ + 1], Context)
    /\ UNCHANGED nonLHS

pushOperand ==
    /\ At("pushOperand")
    /\ Build([Done(Top) EXCEPT !.n = @ + 1], [Context EXCEPT !.operands = @ + 1])
    /\ UNCHANGED nonLHS

\* operatorStackHasHigherPrecedence.
HasHigherPrecedence_strict(below, precedence) == precedence < below
HasHigherPrecedence(below, precedence) == precedence <= below

\* How many of the m operators of this expression are reduced before one of
\* the given precedence is pushed.
Reduced(m, operators, precedence) ==
    LET stays(i) == i = 0 \/ ~HasHigherPrecedence(operators[Len(operators) - m + i],
                                                  precedence)
    IN  m - (CHOOSE i \in 0..m : stays(i) /\ \A j \in i + 1 .. m : ~stays(j))

binaryOperator ==
    LET precedence == isBinaryOperator(tok, allowsIn)
        k == Reduced(Top.m, Context.operators, precedence)
    IN  /\ At("binaryOperator") /\ precedence # 0
        /\ nonLHS' = nonLHS + 1
        /\ Build([Instead(Top, <<"next", "operand">>) EXCEPT
                      !.n = @ - k, !.m = @ - k + 1],
                 [Context EXCEPT !.operands = @ - k,
                      !.operators = Append(SubSeq(@, 1, Len(@) - k), precedence)])

endBinary_keepsResult ==
    /\ At("binaryOperator") /\ isBinaryOperator(tok, allowsIn) = 0
    /\ Build([Done(Top) EXCEPT !.n = @ - Top.m - 1, !.m = 0],
             [Context EXCEPT !.operands = @ - Top.m,
                             !.operators = SubSeq(@, 1, Len(@) - Top.m)])
    /\ UNCHANGED nonLHS

\* No operator follows: reduce what is left and pop the result.
endBinary ==
    /\ At("binaryOperator") /\ isBinaryOperator(tok, allowsIn) = 0
    /\ Build([Done(Top) EXCEPT !.n = @ - Top.m - 1, !.m = 0],
             [Context EXCEPT !.operands = @ - Top.m - 1,
                             !.operators = SubSeq(@, 1, Len(@) - Top.m)])
    /\ UNCHANGED nonLHS

pushUnary ==
    /\ At("pushUnary")
    /\ Build([Done(Top) EXCEPT !.n = @ + 1], [Context EXCEPT !.unary = @ + 1])
    /\ UNCHANGED nonLHS

endUnary ==
    /\ At("endUnary")
    /\ Build([Done(Top) EXCEPT !.n = 0], [Context EXCEPT !.unary = @ - Top.n])
    /\ UNCHANGED nonLHS

-----------------------------------------------------------------------------
\* The constructor calls next() once, createSyntaxTree parseSourceElements.
Init ==
    /\ text \in Texts
    /\ \E t \in TokensAfter(0), newline \in text.breaks :
         tok = Lexed("none", t, newline, TRUE) /\ nl = newline
    /\ lexer \in LexerAfter(tok)
    /\ tokenCount = 1
    /\ allowsIn = TRUE /\ error = FALSE /\ nonLHS = 0
    /\ stack = <<NewFrame("parseSourceElements")>>
    /\ builders = <<NoOperands>>
    /\ value = "null" /\ status = "parsing"

Next ==
    \/ Call \/ Decide \/ consumeOrFail \/ next \/ Checks \/ Return \/ autoSemiColon
    \/ SetAllowsIn \/ SaveLHS \/ SetNonLHS
    \/ countDeclaration \/ forVarRest \/ saveTokenCount \/ countHandler
    \/ countNew \/ callOrNew \/ elseStacks
    \/ newBuilder \/ assignment \/ endAssignment
    \/ pushOperand \/ binaryOperator \/ endBinary \/ pushUnary \/ endUnary
    \/ Crash({"appendConstDecl", "createGetterOrSetterProperty"})
    \/ status # "parsing" /\ UNCHANGED vars

\* The parser is one thread that runs until it returns.
Spec == Init /\ [][Next]_vars /\ WF_vars(Next)

-----------------------------------------------------------------------------
(* Properties.                                                             *)

\* Every variable, every frame and every builder stack has its type; in
\* particular no counter of a builder or of a function goes below zero.
TypeOK ==
    /\ tok \in Tokens /\ nl \in BOOLEAN /\ tokenCount \in Nat
    /\ lexer \in {"ok", "m_error", "m_buffer16"}
    /\ allowsIn \in BOOLEAN /\ error \in BOOLEAN /\ nonLHS \in Nat
    /\ stack \in Seq(Frame) /\ builders \in Seq(Builder)
    /\ value \in Values /\ status \in {"parsing", "done", "crashed", "aborted"}

\* Between m_allowsIn = false and m_allowsIn = true of parseForStatement.
InForHead(f) ==
    /\ f.fn = "parseForStatement"
    /\ \E i \in 1..2 : i <= Len(f.todo) /\ f.todo[i] = "inOn"
    /\ Head(f.todo) # "inOff"

\* The "in" operator is switched off exactly while the head of a for loop is
\* parsed and no operand of an expression in it is being read: nested
\* functions, brackets and statements see it switched on, and it is back on
\* after every way out of the head, failures included.
InIsOffExactlyInForHeads ==
    allowsIn = ~ \E i \in DOMAIN stack :
                    /\ InForHead(stack[i])
                    /\ \A j \in i + 1 .. Len(stack) : stack[j].fn # "parseUnaryExpression"

\* The builder that stack[i] works on.
Level(i) == 1 + Cardinality({j \in 1 .. i - 1 : stack[j].fn = "parseFunctionBody"
                                              /\ stack[j].n = 1})

Total(counts) ==
    LET sum[k \in 0 .. Len(counts)] == IF k = 0 THEN 0 ELSE sum[k - 1] + counts[k]
    IN  sum[Len(counts)]

\* What the functions of one builder have on its stacks.
Owned(b, f, count) ==
    Total([i \in DOMAIN stack |-> IF Level(i) = b /\ stack[i].fn = f THEN count[i] ELSE 0])

\* The stacks of a builder, shared by all nested expressions of a function
\* body, hold what its active functions put there and nothing else: no
\* function pops another one's entries, and a finished tree leaves none.
\* A function that fails leaves its entries behind, below everyone else's.
BuilderStacksAreOwned ==
    /\ Len(builders) = Level(Len(stack) + 1)
    /\ \A b \in DOMAIN builders :
        LET n == [i \in DOMAIN stack |-> stack[i].n]
            operands == Owned(b, "parseBinaryExpression", n)
            operators == Owned(b, "parseBinaryExpression", [i \in DOMAIN stack |-> stack[i].m])
            unary == Owned(b, "parseUnaryExpression", n)
            assignments == Owned(b, "parseAssignmentExpression", n)
        IN  /\ builders[b].operands >= operands
            /\ Len(builders[b].operators) >= operators
            /\ builders[b].unary >= unary
            /\ builders[b].assignments >= assignments
            /\ ~error => /\ builders[b].operands = operands
                         /\ Len(builders[b].operators) = operators
                         /\ builders[b].unary = unary
                         /\ builders[b].assignments = assignments

\* ASSERT(operandStackDepth > 1): every operator of a binary expression has
\* two operands when it is reduced; and the operators that wait bind tighter
\* and tighter, so that equal precedences group to the left.  The order is
\* lost once a failed expression has left its operators among them, which
\* a conditional, that does not look at its middle part, lets happen.
OperatorsHaveOperands ==
    /\ At("binaryOperator") => Top.n = Top.m + 1
    /\ ~error /\ AtOneOf({"binaryOperator", "parseUnaryExpression", "pushOperand"}) =>
         LET ops == Context.operators
         IN  \A i \in Len(ops) - Top.m + 1 .. Len(ops) - 1 : ops[i] < ops[i + 1]

\* statementStack and exprStack of parseIfStatement fold to one statement.
ElseChainFolds == At("foldElse") => Top.m = Top.n + 1

\* Assignment operators and "in" of a for loop are accepted only after a
\* left-hand-side expression, whatever m_nonLHSCount went through in the
\* brackets, calls and functions inside it.
OnlyLeftHandSidesAreAssigned ==
    /\ At("assignment") /\ Top.mark = nonLHS /\ tok \in AssignmentOps => value = "lhs"
    /\ At("sameLHS") /\ Top.mark = nonLHS /\ tok = "INTOKEN" => value = "lhs"

\* A tree is returned only if nothing failed: the calls whose result is not
\* checked, and Parser::createSyntaxTree that ignores the lexer's error, do
\* not let a broken tree out.
NoTreeAfterError ==
    status = "done" /\ value # "null" => ~error /\ lexer = "ok"

\* Parsing ends, for every sequence of tokens.
ParsingEnds == <>(status # "parsing")

\* README: parse "returns".  The process does not go down.
ParseReturns == status # "crashed"
=============================================================================
