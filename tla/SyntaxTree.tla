----------------------------- MODULE SyntaxTree -----------------------------
(***************************************************************************)
(* The nodes that the create... and make... functions of class Builder in  *)
(* modules/reflect/parser/SyntaxTree.h make for JSParser.                  *)
(*                                                                         *)
(* A definition with the name of such a function is the set of nodes its   *)
(* calls can make.  A child is given by its sort, one of the sets of nodes *)
(* at the end of the module, or "null" for a null pointer.  Parentheses    *)
(* make no node, so that every expression can be an operand of every other *)
(* one.                                                                    *)
(***************************************************************************)
EXTENDS Naturals, Sequences

CONSTANTS
    MaxList     \* bound: elements of a list

ASSUME MaxListAssumption == MaxList \in Nat \ {0}

\* Three groups of constructors of Node: Node(type) sets m_operator to
\* NoOperator, the ones with an identifier or a first child leave it as it is.
Node(type, kids) == [type |-> type, op |-> "NoOperator", kids |-> kids]
RawNode(type, kids) == [type |-> type, op |-> "uninitialized", kids |-> kids]
OpNode(type, op, kids) == [type |-> type, op |-> op, kids |-> kids]

Opt(sort) == {"null", sort}
Lists(sort, min) == {[i \in 1..n |-> sort] : n \in min..MaxList}

(* The operators: the token of the program and the operator it becomes.    *)

\* convertOperator(Operator), for assignments and for ++ and --.
AssignOperators == {
    <<"=", "AssignEqual">>, <<"+=", "AssignAdd">>, <<"-=", "AssignSubtract">>,
    <<"*=", "AssignMultiply">>, <<"/=", "AssignDivide">>,
    <<"&=", "AssignAnd">>, <<"^=", "AssignXor">>, <<"|=", "AssignOr">>,
    <<"%=", "AssignModulus">>, <<"<<=", "AssignLeftShift">>,
    <<">>=", "AssignRightShift">>, <<">>>=", "AssignZeroFillRightShift">>}
UpdateOperators == {<<"++", "PlusPlusOperator">>, <<"--", "MinusMinusOperator">>}

\* convertOperator(int), for the tokens of binary operators.
BinaryOperators == {
    <<"||", "LogicalOrOperator">>, <<"&&", "LogicalAndOperator">>,
    <<"|", "BitwiseOrOperator">>, <<"^", "BitwiseXorOperator">>,
    <<"&", "BitwiseAndOperator">>, <<"==", "EqualOperator">>,
    <<"!=", "NotEqualOperator">>, <<"===", "StringEqualOperator">>,
    <<"!==", "StringNotEqualOperator">>, <<"<", "LessThanOperator">>,
    <<">", "GreaterThanOperator">>, <<"<=", "LessThanOrEqualOperator">>,
    <<">=", "GreaterThanOrEqualOperator">>,
    <<"instanceof", "InstanceofOperator">>, <<"in", "IntokenOperator">>,
    <<"<<", "LeftShiftOperator">>, <<">>", "RightShiftOperator">>,
    <<">>>", "ZeroFillRightShiftOperator">>, <<"+", "AddOperator">>,
    <<"-", "SubtractOperator">>, <<"*", "MultiplyOperator">>,
    <<"/", "DivideOperator">>, <<"%", "ModulusOperator">>}

UnaryOperators == {
    <<"!", "LogicalNotOperator">>, <<"~", "BitwiseNotOperator">>,
    <<"+", "AddOperator">>, <<"-", "SubtractOperator">>,
    <<"delete", "DeleteOperator">>, <<"typeof", "TypeofOperator">>}

-----------------------------------------------------------------------------
(* Expressions.                                                            *)

createArguments == {Node("Arguments", <<>>), RawNode("Arguments", <<"ArgumentsList">>)}
createArgumentsList == {RawNode("ArgumentsList", l) : l \in Lists("Expression", 1)}
createArray == {Node("Array", <<>>), Node("Array", <<"ElementList">>)}
createElementList == {RawNode("ElementList", l) : l \in Lists("Expression", 1)}
createAssignment == {OpNode("AssignmentExpression", op[2], <<"Expression", "Expression">>) :
                        op \in AssignOperators}
createAssignResolve == {OpNode("AssignmentExpression", "AssignEqual",
                               <<"VarIdentifier", "Expression">>)}
createBoolean == {Node("BooleanExpression", <<>>)}
createBracketAccess == {Node("BracketAccess", <<"Expression", "Expression">>)}
createCommaExpr == {Node("Comma", l) : l \in Lists("Expression", 2)}
\* parseVarDeclarationList calls it for every declaration after the first.
combineCommaNodes == {Node("Comma", l) : l \in Lists("Declarator", 2)}
createConditionalExpr == {Node("ConditionalExpression",
                               <<"Expression", "Expression", "Expression">>)}
createDotAccess == {RawNode("DotAccess", <<"Expression">>)}
createFormalParameterList == {RawNode("FormalParameterList", <<>>),
                              RawNode("FormalParameterList", <<"FormalParameterList">>)}
createFunctionBody == {RawNode("FunctionBody", <<s>>) : s \in Opt("SourceElements")}
createFunctionExpr == {RawNode("FunctionExpression", <<p, "FunctionBody">>) :
                          p \in Opt("FormalParameterList")}
createLogicalNot == {OpNode("UnaryExpression", "LogicalNotOperator", <<"Expression">>)}
createObjectLiteral == {Node("ObjectLiteral", <<>>), Node("ObjectLiteral", <<"PropertyList">>)}
createPropertyList == {RawNode("PropertyList", l) : l \in Lists("Property", 1)}
createProperty == {RawNode("Property", <<"Expression">>)}
createNewExpr == {RawNode("NewExpression", <<"Expression", "Arguments">>),
                  RawNode("Expression", <<"Expression">>)}
createNull == {Node("Null", <<>>)}
createNumberExpr == {Node("NumberExpression", <<>>)}
createRegex == {RawNode("Regex", <<>>)}
createResolve == {RawNode("Resolve", <<>>)}
createString == {Node("StringExpression", <<>>)}
createUnaryPlus == {OpNode("UnaryExpression", "AddOperator", <<"Expression">>)}
createVarIdentifier == {RawNode("IdentifierExpression", <<>>)}
\* The operand is not appended.
createVoid == {Node("Void", <<>>)}
makeBinaryNode == {OpNode("BinaryExpression", op[2], <<"Expression", "Expression">>) :
                      op \in BinaryOperators}
makeBitwiseNotNode == {OpNode("UnaryExpression", "BitwiseNotOperator", <<"Expression">>)}
makeDeleteNode == {OpNode("UnaryExpression", "DeleteOperator", <<"Expression">>)}
makeFunctionCallNode == {Node("FunctionCall", <<"Expression", "Arguments">>)}
makeNegateNode == {OpNode("UnaryExpression", "SubtractOperator", <<"Expression">>)}
makePostfixNode == {OpNode("Postfix", op[2], <<"Expression">>) : op \in UpdateOperators}
\* Slip: the constructor with a first child, which sets no operator.
makePrefixNode_noOperator == {RawNode("Prefix", <<"Expression">>)}
makePrefixNode == {OpNode("Prefix", op[2], <<"Expression">>) : op \in UpdateOperators}
makeTypeOfNode == {OpNode("UnaryExpression", "TypeofOperator", <<"Expression">>)}
thisExpr == {Node("This", <<>>)}

-----------------------------------------------------------------------------
(* Statements.  A const declaration is never made: appendConstDecl fails.  *)

createBlockStatement == {RawNode("BlockStatement", <<s>>) : s \in Opt("SourceElements")}
\* With and without a label.
createBreakStatement == {Node("BreakStatement", <<>>), RawNode("BreakStatement", <<>>)}
createContinueStatement == {Node("ContinueStatement", <<>>), RawNode("ContinueStatement", <<>>)}
createClause == {RawNode("Clause", <<"Expression", "SourceElements">>)}
createDefaultClause == {RawNode("Clause", <<"null", "SourceElements">>)}
createClauseList == {RawNode("ClauseList", l) : l \in Lists("Clause", 1)}
createDebugger == {Node("Debugger", <<>>)}
createDoWhileStatement == {Node("DoWhileStatement", <<"Statement", "Expression">>)}
createEmptyStatement == {Node("EmptyStatement", <<>>)}
createExprStatement == {Node("ExpressionStatement", <<"Expression">>)}
createForLoop == {Node("ForLoop", <<init, test, step, "Statement">>) :
                     init \in {"null", "Expression", "Declarations"},
                     test \in Opt("Expression"), step \in Opt("Expression")}
\* for (var name = initializer in ...) and for (expression in ...).
createForInLoop == {RawNode("ForInLoop", <<init, "Expression", "Statement">>) :
                       init \in Opt("Expression")}
                   \cup {Node("ForInLoop", <<"Expression", "Expression", "Statement">>)}
createFuncDeclStatement == {RawNode("FunctionDeclStatement", <<p, "FunctionBody">>) :
                               p \in Opt("FormalParameterList")}
createIfStatement == {RawNode("IfStatement", <<"Expression", "Statement">>),
                      RawNode("IfStatement", <<"Expression", "Statement", "Statement">>)}
createLabelStatement == {RawNode("LabelStatement", <<"Statement">>)}
createReturnStatement == {RawNode("ReturnStatement", <<e>>) : e \in Opt("Expression")}
createSourceElements == {Node("SourceElements", l) : l \in Lists("Statement", 0)}
\* Without a default clause the first list takes all the cases.
createSwitchStatement == {RawNode("SwitchStatement", <<"Expression", first, default, second>>) :
                             first \in Opt("ClauseList"), default \in Opt("DefaultClause"),
                             second \in Opt("ClauseList")}
                         \ {RawNode("SwitchStatement", <<"Expression", first, "null", "ClauseList">>) :
                             first \in Opt("ClauseList")}
createThrowStatement == {RawNode("ThrowStatement", <<"Expression">>)}
\* parseTryStatement refuses one with neither handler.
createTryStatement == {RawNode("TryStatement", <<"Block", "Block", f>>) : f \in Opt("Block")}
                      \cup {RawNode("TryStatement", <<"Block", "null", "Block">>)}
createVarStatement == {RawNode("VariableDeclaration", <<"Declarations">>)}
createWhileStatement == {RawNode("WhileStatement", <<"Expression", "Statement">>)}
createWithStatement == {RawNode("WithStatement", <<"Expression", "Statement">>)}

-----------------------------------------------------------------------------
Expressions ==
    UNION {createArray, createAssignment, createBoolean, createBracketAccess,
           createCommaExpr, createConditionalExpr, createDotAccess, createFunctionExpr,
           createLogicalNot, createObjectLiteral, createNewExpr, createNull,
           createNumberExpr, createRegex, createResolve, createString, createUnaryPlus,
           createVoid, makeBinaryNode, makeBitwiseNotNode, makeDeleteNode,
           makeFunctionCallNode, makeNegateNode, makePostfixNode, makePrefixNode,
           makeTypeOfNode, thisExpr}

Statements ==
    UNION {createBlockStatement, createBreakStatement, createContinueStatement,
           createDebugger, createDoWhileStatement, createEmptyStatement,
           createExprStatement, createForLoop, createForInLoop, createFuncDeclStatement,
           createIfStatement, createLabelStatement, createReturnStatement,
           createSwitchStatement, createThrowStatement, createTryStatement,
           createVarStatement, createWhileStatement, createWithStatement}

Declarators == createAssignResolve \cup createVarIdentifier

\* What a pointer to a node of each sort can point to.
NodesOf == [
    Expression |-> Expressions,
    Statement |-> Statements,
    Declarator |-> Declarators,
    Declarations |-> Declarators \cup combineCommaNodes,
    VarIdentifier |-> createVarIdentifier,
    Block |-> createBlockStatement,
    SourceElements |-> createSourceElements,
    Arguments |-> createArguments,
    ArgumentsList |-> createArgumentsList,
    ElementList |-> createElementList,
    PropertyList |-> createPropertyList,
    Property |-> createProperty,
    FormalParameterList |-> createFormalParameterList,
    FunctionBody |-> createFunctionBody,
    Clause |-> createClause,
    DefaultClause |-> createDefaultClause,
    ClauseList |-> createClauseList]
=============================================================================
