-------------------------- MODULE ExpressionTrees --------------------------
(***************************************************************************)
(* The trees that module JSParser leaves out, for expressions: what the    *)
(* locals of the active functions and the four stacks of the builder hold. *)
(* Every step of JSParser is taken together with what it does to them.     *)
(*                                                                         *)
(* The tree of an expression is compared with its text by printing it, as  *)
(* the grammar of ECMAScript wants it, with no parenthesis that is not     *)
(* needed.  A node keeps the token of its operator; the operator itself is *)
(* a matter of modules SyntaxTree and Reflect.                             *)
(***************************************************************************)
EXTENDS JSParser

VARIABLES
    held,       \* for each active function, the expressions in its locals
    contents,   \* what the stacks of the builder hold
    tree        \* the expression that was returned last

treeVars == <<held, contents, tree>>

\* The texts hold one expression, without function bodies and without void,
\* whose operand createVoid drops; array and pattern literals, whose tokens
\* occur elsewhere too, are left out as well.
ASSUME NoBodiesAssumption == \A x \in Texts :
    {"FUNCTION", "OPENBRACE", "VOIDTOKEN", "SEMICOLON"}
        \cap (x.alphabet \cup ToSet(x.opening)) = {}

Node(type, op, kids) == [type |-> type, op |-> op, kids |-> kids]
Leaf(token) == Node("Leaf", token, <<>>)
NoTree == Leaf("none")

Empty == [operands |-> <<>>, operators |-> <<>>, unary |-> <<>>, assignments |-> <<>>]

-----------------------------------------------------------------------------
(* What the builder does with its stacks.                                  *)

\* Repeat a function of a tree or of the stacks.
Repeat(n, f(_), x) == FoldLeft(LAMBDA y, i : f(y), x, [i \in 1..n |-> i])

makeBinaryNode_swapped(op, lhs, rhs) == Node("BinaryExpression", op, <<rhs, lhs>>)
makeBinaryNode(op, lhs, rhs) == Node("BinaryExpression", op, <<lhs, rhs>>)

\* The loops over getFromOperandStack, shrinkOperandStackBy and operatorStackPop.
appendBinaryOperation(c) ==
    LET n == Len(c.operands) IN
    [c EXCEPT !.operands = Append(SubSeq(@, 1, n - 2),
                  makeBinaryNode(Last(c.operators), c.operands[n - 1], c.operands[n])),
              !.operators = Front(@)]

\* The right-hand side becomes the assignment to what waits on the stack.
createAssignment(rhs, waiting) == Node("AssignmentExpression", waiting.op, <<waiting.node, rhs>>)

\* The AUTO forms become the same operators.
PrefixOps == [PLUSPLUS |-> "PLUSPLUS", AUTOPLUSPLUS |-> "PLUSPLUS",
              MINUSMINUS |-> "MINUSMINUS", AUTOMINUSMINUS |-> "MINUSMINUS"]

unaryNode(operand, op) ==
    IF op \in DOMAIN PrefixOps THEN Node("Prefix", PrefixOps[op], <<operand>>)
    ELSE Node("UnaryExpression", op, <<operand>>)

\* The last n entries of a stack, the topmost first.
FromTop(s, n) == Reverse(SubSeq(s, Len(s) - n + 1, Len(s)))
Popped(s, n) == SubSeq(s, 1, Len(s) - n)

\* createNewExpr without arguments.
newWithoutArguments(base) == Node("Expression", "NoOperator", <<base>>)

-----------------------------------------------------------------------------
(* Functions that return.                                                  *)

Held == Last(held)

\* What the function returns when it has a result.
Result ==
    CASE Top.fn = "parseMemberExpression" -> Repeat(Top.n, newWithoutArguments, Held[1])
      [] Top.fn = "parseArguments" -> Node("Arguments", "NoOperator", Held)
      [] Top.fn = "parseExpression" /\ Len(Held) > 1 -> Node("Comma", "NoOperator", Held)
      [] Top.fn = "parseConditionalExpression" /\ Len(Held) > 1 ->
            Node("ConditionalExpression", "NoOperator", Held)
      [] OTHER -> IF Held = <<>> THEN NoTree ELSE Last(Held)

\* What the caller, a frame with the call still ahead, holds with the result t.
Received(caller, h, t) ==
    LET made(type) == <<Node(type, "NoOperator", <<h[1], t>>)>> IN
    CASE caller.fn = "parseMemberExpression" /\ Head(caller.todo) = "parseExpression" ->
            made("BracketAccess")
      [] caller.fn = "parseMemberExpression" /\ Head(caller.todo) = "parseArguments" ->
            made(IF caller.todo[2] = "restoreLHS" THEN "FunctionCall" ELSE "NewExpression")
      [] OTHER -> Append(h, t)

Enter ==
    /\ Len(stack') > Len(stack)
    /\ held' = Append(held, <<>>)
    /\ UNCHANGED <<contents, tree>>

HandUp ==
    /\ Len(stack') < Len(stack)
    /\ tree' = IF value' = "null" THEN NoTree ELSE Result
    /\ LET n == Len(held) - 1 IN
         held' = IF n = 0 \/ value' = "null" THEN Front(held)
                 ELSE Append(SubSeq(held, 1, n - 1), Received(stack[n], held[n], tree'))
    /\ UNCHANGED contents

-----------------------------------------------------------------------------
(* Steps inside a function.                                                *)

Hold(h) == held' = Append(Front(held), h) /\ UNCHANGED tree

TakeAtom ==
    /\ At("next") /\ Top.fn = "parsePrimaryExpression" /\ tok \in Atoms
    /\ Hold(<<Leaf(tok)>>) /\ UNCHANGED contents

createDotAccess ==
    /\ At("IDENT") /\ Top.fn = "parseMemberExpression"
    /\ Hold(<<Node("DotAccess", "NoOperator", Held)>>) /\ UNCHANGED contents

makePostfixNode ==
    /\ At("next") /\ Top.fn = "parseUnaryExpression" /\ Held # <<>>
    /\ Hold(<<Node("Postfix", tok, Held)>>) /\ UNCHANGED contents

appendUnaryToken ==
    /\ At("pushUnary")
    /\ contents' = [contents EXCEPT !.unary = Append(@, tok)]
    /\ Hold(Held)

makeUnaryNodes ==
    /\ At("endUnary")
    /\ Hold(<<FoldLeft(unaryNode, Held[1], FromTop(contents.unary, Top.n))>>)
    /\ contents' = [contents EXCEPT !.unary = Popped(@, Top.n)]

appendBinaryExpressionInfo ==
    /\ At("pushOperand")
    /\ contents' = [contents EXCEPT !.operands = Append(@, Held[1])]
    /\ Hold(<<>>)

operatorStackAppend ==
    LET precedence == isBinaryOperator(tok, allowsIn)
        k == Reduced(Top.m, Context.operators, precedence)
    IN  /\ At("binaryOperator") /\ precedence # 0
        /\ contents' = [Repeat(k, appendBinaryOperation, contents) EXCEPT
                            !.operators = Append(@, tok)]
        /\ Hold(Held)

popOperandStack ==
    LET reduced == Repeat(Top.m, appendBinaryOperation, contents)
    IN  /\ At("binaryOperator") /\ isBinaryOperator(tok, allowsIn) = 0
        /\ contents' = [reduced EXCEPT !.operands = Front(@)]
        /\ Hold(<<Last(reduced.operands)>>)

assignmentStackAppend ==
    /\ At("assignment") /\ Top.mark = nonLHS /\ tok \in AssignmentOps
    /\ contents' = [contents EXCEPT !.assignments = Append(@, [node |-> Held[1], op |-> tok])]
    /\ Hold(<<>>)

createAssignments ==
    /\ At("endAssignment")
    /\ Hold(<<FoldLeft(createAssignment, Held[1], FromTop(contents.assignments, Top.n))>>)
    /\ contents' = [contents EXCEPT !.assignments = Popped(@, Top.n)]

InPlace ==
    \/ TakeAtom \/ createDotAccess \/ makePostfixNode
    \/ appendUnaryToken \/ makeUnaryNodes
    \/ appendBinaryExpressionInfo \/ operatorStackAppend \/ popOperandStack
    \/ assignmentStackAppend \/ createAssignments

NoTreeTouched ==
    /\ \/ ~Running
       \/ ~AtOneOf({"next", "IDENT", "pushUnary", "endUnary", "pushOperand", "binaryOperator",
                    "assignment", "endAssignment"})
       \/ At("IDENT") /\ Top.fn # "parseMemberExpression"
       \/ At("next") /\ ~(Top.fn = "parsePrimaryExpression" /\ tok \in Atoms)
                     /\ ~(Top.fn = "parseUnaryExpression" /\ Held # <<>>)
       \/ At("assignment") /\ ~(Top.mark = nonLHS /\ tok \in AssignmentOps)
    /\ UNCHANGED treeVars

-----------------------------------------------------------------------------
TreeInit == Init /\ held = <<<<>>>> /\ contents = Empty /\ tree = NoTree

TreeNext ==
    /\ Next
    /\ \/ Enter \/ HandUp
       \/ Len(stack') = Len(stack) /\ (InPlace \/ NoTreeTouched)

TreeSpec == TreeInit /\ [][TreeNext]_<<vars, treeVars>>

-----------------------------------------------------------------------------
(* The text of a tree, by the grammar of ECMAScript 5.1, chapter 11.       *)

\* How tightly an expression binds: comma, assignment, conditional, the ten
\* binary levels, unary, postfix, new without arguments, call, member.
RECURSIVE Binding(_)
Binding(t) ==
    CASE t.type = "Comma" -> 0
      [] t.type = "AssignmentExpression" -> 1
      [] t.type = "ConditionalExpression" -> 2
      [] t.type = "BinaryExpression" -> 2 + isBinaryOperator(t.op, TRUE)
      [] t.type \in {"UnaryExpression", "Prefix"} -> 13
      [] t.type = "Postfix" -> 14
      [] t.type = "Expression" -> 15
      [] t.type = "FunctionCall" -> 16
      [] t.type \in {"DotAccess", "BracketAccess"} -> IF Binding(t.kids[1]) = 16 THEN 16 ELSE 17
      [] t.type \in {"NewExpression", "Leaf"} -> 17

RECURSIVE Text(_)

\* The text of t where one of the levels is wanted.
Within(t, levels) ==
    IF Binding(t) \in levels THEN Text(t) ELSE <<"OPENPAREN">> \o Text(t) \o <<"CLOSEPAREN">>

FromLevel(t, level) == Within(t, level..17)

Commas(ts) ==
    FoldLeft(LAMBDA s, t : s \o (IF s = <<>> THEN <<>> ELSE <<"COMMA">>) \o FromLevel(t, 1),
             <<>>, ts)

Text(t) ==
    LET kid(i, level) == FromLevel(t.kids[i], level)
        precedence == isBinaryOperator(t.op, TRUE)
    IN
    CASE t.type = "Leaf" -> <<t.op>>
      [] t.type = "Comma" -> Commas(t.kids)
      [] t.type = "AssignmentExpression" -> kid(1, 15) \o <<t.op>> \o kid(2, 1)
      [] t.type = "ConditionalExpression" ->
            kid(1, 3) \o <<"QUESTION">> \o kid(2, 1) \o <<"COLON">> \o kid(3, 1)
      [] t.type = "BinaryExpression" ->
            kid(1, 2 + precedence) \o <<t.op>> \o kid(2, 3 + precedence)
      [] t.type \in {"UnaryExpression", "Prefix"} -> <<t.op>> \o kid(1, 13)
      [] t.type = "Postfix" -> kid(1, 15) \o <<t.op>>
      [] t.type = "DotAccess" -> kid(1, 16) \o <<"DOT", "IDENT">>
      [] t.type = "BracketAccess" ->
            kid(1, 16) \o <<"OPENBRACKET">> \o kid(2, 0) \o <<"CLOSEBRACKET">>
      [] t.type = "FunctionCall" -> kid(1, 16) \o Text(t.kids[2])
      [] t.type = "NewExpression" -> <<"NEW">> \o kid(1, 17) \o Text(t.kids[2])
      [] t.type = "Expression" -> <<"NEW">> \o Within(t.kids[1], {15, 17})
      [] t.type = "Arguments" -> <<"OPENPAREN">> \o Commas(t.kids) \o <<"CLOSEPAREN">>

\* The tree of an expression is the one that ECMAScript's grammar gives its
\* text: whatever way precedences, the shared stacks, the counting of "new"
\* and of m_nonLHSCount work together, operands are in their order and grouped
\* as written, and no text is refused.
TreeIsTheText == status # "parsing" => value # "null" /\ Text(tree) = text.opening

\* README: parse "returns JSON-formatted syntax tree corresponding to the
\* code".  The arguments of new leave m_nonLHSCount as they find it only if
\* there is no operator in them, so new X(a + b).c = d is refused.
ExpressionsAreParsed == status # "parsing" => value # "null"
=============================================================================
