------------------------------- MODULE Reflect -------------------------------
(***************************************************************************)
(* Reflect.parse in modules/reflect/reflect.cpp: the syntax tree that      *)
(* JSParser made is turned into JavaScript objects by convertNode, which   *)
(* calls itself through convertChild and convertChildren.                  *)
(*                                                                         *)
(* The tree is not there from the start: whenever convertNode is called on *)
(* a child, the child is any node of module SyntaxTree that can be there.  *)
(* Names, literals and the other data of an object are left out.           *)
(***************************************************************************)
EXTENDS SyntaxTree, FiniteSets

CONSTANTS
    MaxDepth    \* bound: active calls before only the smallest nodes appear

ASSUME MaxDepthAssumption == MaxDepth \in Nat

VARIABLES
    stack,      \* the objects and arrays under construction, the innermost last
    status      \* "called", "converting", "returned", "threw" or "crashed"

vars == <<stack, status>>

(* How a field of an object is set.                                        *)
Field(field, how, kid) == [field |-> field, how |-> how, kid |-> kid]
child(field, kid) == Field(field, "node", kid)          \* convertChild(n, kid, indent + 1)
children(field, kid) == Field(field, "children", kid)   \* convertChildren(n->childAt(kid), indent + 1)
all(field) == Field(field, "all", 0)                    \* convertChildren(n, indent + 1)
only(field, kid) == Field(field, "only", kid)           \* an array with that child, or an empty one
fold(field, kid) == Field(field, "fold", kid)           \* a clause list with the next child appended
empty(field) == Field(field, "array", 0)                \* Array::New()
direct(field) == Field(field, "object", 0)              \* an object made on the spot

Has(n, kid) == kid <= Len(n.kids) /\ n.kids[kid] # "null"

-----------------------------------------------------------------------------
(* The cases of convertNode that make an object: its type and its fields.  *)

Case(type, made, fields) == [type |-> type, made |-> made, fields |-> fields]

convertArray(n) ==
    Case("Array", "ArrayExpression",
         <<IF Len(n.kids) > 0 THEN children("elements", 1) ELSE empty("elements")>>)

convertBlock(n) ==
    Case("BlockStatement", "BlockStatement",
         <<IF Len(n.kids) = 1 /\ n.kids[1] = "SourceElements"
           THEN children("body", 1) ELSE empty("body")>>)

convertForIn(n) ==
    Case("ForInLoop", "ForInStatement",
         (IF Has(n, 1) THEN <<>> ELSE <<direct("left")>>)
            \o <<child("right", 2), child("body", 3)>>)

\* Slip: the update has the index of the test.
convertFor_skipsUpdate ==
    Case("ForLoop", "ForStatement",
         <<child("init", 1), child("test", 2), child("update", 2), child("body", 4)>>)

convertFor ==
    Case("ForLoop", "ForStatement",
         <<child("init", 1), child("test", 2), child("update", 3), child("body", 4)>>)

\* Slip: a function without parameters has no list to convert.
convertFunction_anyParams(n, type) ==
    Case(type, "FunctionExpression", <<child("params", 1), child("body", 2)>>)

convertFunction(n, type) ==
    Case(type, "FunctionExpression",
         <<IF Has(n, 1) THEN child("params", 1) ELSE empty("params"), child("body", 2)>>)

convertObject(n) ==
    Case("ObjectLiteral", "ObjectExpression",
         <<IF Has(n, 1) /\ n.kids[1] = "PropertyList"
           THEN children("properties", 1) ELSE all("properties")>>)

convertSwitch(n) ==
    Case("SwitchStatement", "SwitchStatement",
         <<child("discriminant", 1)>> \o
         (IF Has(n, 2) THEN <<fold("cases", 2)>>
          ELSE IF Has(n, 3) THEN <<children("cases", 3)>> ELSE <<>>))

convertSourceElements(indent) ==
    Case("SourceElements", IF indent > 0 THEN "BlockStatement" ELSE "Program",
         <<all("body")>>)

\* Slip: the children are counted from one.
convertWhile_fromOne ==
    Case("WhileStatement", "WhileStatement", <<child("test", 2), child("body", 3)>>)

convertWhile ==
    Case("WhileStatement", "WhileStatement", <<child("test", 1), child("body", 2)>>)

CasesAToD == {
    Case("AssignmentExpression", "AssignmentExpression", <<child("left", 1), child("right", 2)>>),
    Case("BinaryExpression", "BinaryExpression", <<child("left", 1), child("right", 2)>>),
    Case("BooleanExpression", "Literal", <<>>),
    Case("BracketAccess", "MemberExpression", <<child("object", 1), child("property", 2)>>),
    Case("BreakStatement", "BreakStatement", <<>>),
    Case("Clause", "SwitchCase", <<only("consequent", 2), child("test", 1)>>),
    Case("Comma", "SequenceExpression", <<all("expressions")>>),
    Case("ContinueStatement", "ContinueStatement", <<>>),
    Case("ConditionalExpression", "ConditionalExpression",
         <<child("test", 1), child("consequent", 2), child("alternate", 3)>>),
    Case("Debugger", "DebuggerStatement", <<>>),
    Case("DotAccess", "MemberExpression", <<child("object", 1), direct("property")>>),
    Case("DoWhileStatement", "DoWhileStatement", <<child("body", 1), child("test", 2)>>)}

\* "new" without arguments is an Expression node.
CasesEToI == {
    Case("EmptyStatement", "EmptyStatement", <<>>),
    Case("ExpressionStatement", "ExpressionStatement", <<child("expression", 1)>>),
    Case("Expression", "ExpressionStatement", <<child("expression", 1)>>),
    Case("FunctionCall", "CallExpression", <<child("callee", 1), child("arguments", 2)>>),
    Case("IdentifierExpression", "Identifier", <<>>),
    Case("IfStatement", "IfStatement",
         <<child("test", 1), child("consequent", 2), child("alternate", 3)>>)}

CasesNToR == {
    Case("NewExpression", "NewExpression", <<child("callee", 1), child("arguments", 2)>>),
    Case("Null", "Literal", <<>>),
    Case("NumberExpression", "Literal", <<>>),
    Case("Postfix", "UpdateExpression", <<child("argument", 1)>>),
    Case("Prefix", "UpdateExpression", <<child("argument", 1)>>),
    Case("Property", "Property", <<direct("key"), child("value", 1)>>),
    Case("Regex", "Literal", <<>>),
    Case("ReturnStatement", "ReturnStatement", <<child("argument", 1)>>),
    Case("Resolve", "Identifier", <<>>)}

CasesSToW == {
    Case("StringExpression", "Literal", <<>>),
    Case("This", "ThisExpression", <<>>),
    Case("ThrowStatement", "ThrowStatement", <<child("argument", 1)>>),
    Case("TryStatement", "TryStatement",
         <<child("block", 1), child("handler", 2), child("finalizer", 3)>>),
    Case("UnaryExpression", "UnaryExpression", <<child("argument", 1)>>),
    Case("VariableDeclaration", "VariableDeclaration", <<all("declarations")>>),
    Case("Void", "UnaryExpression", <<child("argument", 1)>>),
    Case("WithStatement", "WithStatement", <<child("object", 1), child("body", 2)>>)}

Cases(n, indent) ==
    CasesAToD \cup CasesEToI \cup CasesNToR \cup CasesSToW
    \cup {convertArray(n), convertBlock(n), convertFor, convertForIn(n),
          convertObject(n), convertSwitch(n), convertWhile, convertSourceElements(indent),
          convertFunction(n, "FunctionDeclStatement"),
          convertFunction(n, "FunctionExpression")}

(* The cases of convertNode that return an array of the children.          *)
ListTypes == {"ArgumentsList", "ClauseList", "ElementList"}

(* The cases that return what their first child is converted to.           *)
PassedOn == {"Arguments", "FunctionBody"}

\* Any other operator stops the program.
operatorAsText == [
    TypeofOperator |-> "typeof", DeleteOperator |-> "delete",
    LogicalNotOperator |-> "!", LogicalOrOperator |-> "||",
    LogicalAndOperator |-> "&&", BitwiseNotOperator |-> "!",
    BitwiseOrOperator |-> "|", BitwiseXorOperator |-> "^",
    BitwiseAndOperator |-> "&", EqualOperator |-> "==",
    NotEqualOperator |-> "!=", StringEqualOperator |-> "===",
    StringNotEqualOperator |-> "!==", LessThanOperator |-> "<",
    GreaterThanOperator |-> ">", LessThanOrEqualOperator |-> ">=",
    GreaterThanOrEqualOperator |-> "<=", InstanceofOperator |-> "instance of",
    IntokenOperator |-> "in", LeftShiftOperator |-> "<<",
    RightShiftOperator |-> ">>", ZeroFillRightShiftOperator |-> ">>>",
    AddOperator |-> "+", SubtractOperator |-> "-", MultiplyOperator |-> "*",
    DivideOperator |-> "/", ModulusOperator |-> "%",
    PlusPlusOperator |-> "++", MinusMinusOperator |-> "--",
    AssignEqual |-> "=", AssignAdd |-> "+=", AssignSubtract |-> "-=",
    AssignMultiply |-> "*=", AssignDivide |-> "/=", AssignModulus |-> "%=",
    AssignLeftShift |-> ">>=", AssignRightShift |-> "<<=",
    AssignZeroFillRightShift |-> ">>>=", AssignAnd |-> "&=",
    AssignXor |-> "^=", AssignOr |-> "|="]

\* The cases that call operatorAsText.
HaveOperator == {"AssignmentExpression", "BinaryExpression", "Postfix", "Prefix",
                 "UnaryExpression"}

-----------------------------------------------------------------------------
(* A frame is an active call of convertNode or convertChildren: its node,  *)
(* its indent, what it makes ("call" before convertNode has looked at the  *)
(* type), the fields it has still to set, the children no field has shown  *)
(* yet, and the fields it has set, with what kind of value.                *)

Frame(n, indent, made, fields) ==
    [node |-> n, indent |-> indent, made |-> made, todo |-> fields,
     left |-> {kid \in DOMAIN n.kids : n.kids[kid] # "null"}, got |-> {}]

convertNode(n, indent) == Frame(n, indent, "call", <<>>)

\* The elements are set in order, with convertNode(n->childAt(index), indent + 1).
convertChildren(n, indent) ==
    Frame(n, indent, "Array", [kid \in DOMAIN n.kids |-> child("element", kid)])

Top == stack[Len(stack)]
Below == SubSeq(stack, 1, Len(stack) - 1)
InPlaceOfTop(frame) == stack' = Append(Below, frame) /\ UNCHANGED status

\* The first field of a frame has its value.
SetField(frame, kind, shown) ==
    [frame EXCEPT !.todo = Tail(@),
                  !.got = @ \cup {<<Head(frame.todo).field, kind>>},
                  !.left = @ \ shown]

\* The innermost call returns a value to the field or element it was called for.
Return(kind) ==
    IF Len(stack) = 1
    THEN stack' = <<>> /\ status' = "returned"
    ELSE /\ stack' = [Below EXCEPT ![Len(Below)] = SetField(@, kind, {})]
         /\ UNCHANGED status

Crash == stack' = <<>> /\ status' = "crashed"

\* Deep in the tree, where only the smallest expressions and statements are.
SmallNodesOf(sort) ==
    CASE sort = "Expression" -> thisExpr
      [] sort = "Statement" -> createEmptyStatement
      [] OTHER -> NodesOf[sort]

ChildNodes(sort) == IF Len(stack) < MaxDepth THEN NodesOf[sort] ELSE SmallNodesOf(sort)

-----------------------------------------------------------------------------
\* Slip: the exception of a parse error does not end the function.
reflect_parse_goesOn ==
    /\ status = "called"
    /\ \E tree \in createSourceElements :
           stack' = <<convertNode(tree, 0)>> /\ status' \in {"converting", "threw"}

(* reflect_parse: a wrong number of arguments and a text that does not     *)
(* parse throw; otherwise the tree is converted.                           *)
reflect_parse ==
    /\ status = "called"
    /\ \/ status' = "threw" /\ UNCHANGED stack
       \/ \E tree \in createSourceElements :
              stack' = <<convertNode(tree, 0)>> /\ status' = "converting"

Calling(types) == status = "converting" /\ Top.made = "call" /\ Top.node.type \in types

\* Slip: the body of a function is converted as a program is.
ConvertPassedOn_restarts ==
    /\ Calling(PassedOn)
    /\ IF Has(Top.node, 1)
       THEN \E n \in NodesOf[Top.node.kids[1]] : InPlaceOfTop(convertNode(n, 0))
       ELSE Return(IF Top.node.type = "Arguments" THEN "array" ELSE "object")

ConvertPassedOn ==
    /\ Calling(PassedOn)
    /\ IF Has(Top.node, 1)
       THEN \E n \in NodesOf[Top.node.kids[1]] : InPlaceOfTop(convertNode(n, Top.indent))
       ELSE Return(IF Top.node.type = "Arguments" THEN "array" ELSE "object")

ConvertList ==
    Calling(ListTypes) /\ InPlaceOfTop(convertChildren(Top.node, Top.indent + 1))

\* The loop over the names of a parameter list.
ConvertParameters == Calling({"FormalParameterList"}) /\ Return("array")

ConvertObject ==
    /\ status = "converting" /\ Top.made = "call"
    /\ \E case \in Cases(Top.node, Top.indent) :
           /\ case.type = Top.node.type
           /\ IF case.type \in HaveOperator /\ Top.node.op \notin DOMAIN operatorAsText
              THEN Crash
              ELSE InPlaceOfTop(Frame(Top.node, Top.indent, case.made, case.fields))

\* No case of convertNode is for this type.
ConvertUnknown == Calling({"LabelStatement"}) /\ Return("undefined")

-----------------------------------------------------------------------------
(* The fields of an object, and the elements of an array, one by one.      *)

Setting(how) == /\ status = "converting" /\ Top.made # "call"
                /\ Top.todo # <<>> /\ Head(Top.todo).how = how

Kid == Head(Top.todo).kid
SetNow(kind) == InPlaceOfTop(SetField(Top, kind, {}))

\* A call for the next field: the children it shows are not left out.
Enter(frame, shown) ==
    /\ stack' = Append([stack EXCEPT ![Len(stack)].left = @ \ shown], frame)
    /\ UNCHANGED status

\* convertChild: the null pointer and an index out of range give null.
SetChild ==
    /\ Setting("node")
    /\ IF Has(Top.node, Kid)
       THEN \E n \in ChildNodes(Top.node.kids[Kid]) :
                Enter(convertNode(n, Top.indent + 1), {Kid})
       ELSE SetNow("null")

\* convertChildren on a child, which has to be there.
SetChildren ==
    /\ Setting("children")
    /\ IF Has(Top.node, Kid)
       THEN \E n \in ChildNodes(Top.node.kids[Kid]) :
                Enter(convertChildren(n, Top.indent + 1), {Kid})
       ELSE Crash

SetAll ==
    /\ Setting("all")
    /\ Enter(convertChildren(Top.node, Top.indent + 1), DOMAIN Top.node.kids)

\* The statements of a clause are one element.
SetOnly ==
    /\ Setting("only")
    /\ IF Has(Top.node, Kid)
       THEN Enter(convertChildren(Node("Array", <<Top.node.kids[Kid]>>), Top.indent), {Kid})
       ELSE SetNow("array")

\* A copy of the clause list gets the default clause as its last one.
SetFold ==
    /\ Setting("fold")
    /\ \E n \in ChildNodes(Top.node.kids[Kid]) :
           LET default == IF Has(Top.node, Kid + 1) THEN <<Top.node.kids[Kid + 1]>> ELSE <<>>
           IN  Enter(convertNode([n EXCEPT !.kids = @ \o default], Top.indent + 1),
                     {Kid, Kid + 1})

SetDirect == (Setting("array") \/ Setting("object")) /\ SetNow(Head(Top.todo).how)

\* All is set: the object or the array is returned.
Finish ==
    /\ status = "converting" /\ Top.made # "call" /\ Top.todo = <<>>
    /\ Return(IF Top.made = "Array" THEN "array" ELSE "object")

Init == stack = <<>> /\ status = "called"

\* Reflect.parse has returned, thrown an exception or stopped the program.
Over == status \in {"returned", "threw", "crashed"} /\ UNCHANGED vars

Next == \/ reflect_parse
        \/ ConvertPassedOn \/ ConvertList \/ ConvertParameters \/ ConvertObject
        \/ ConvertUnknown
        \/ SetChild \/ SetChildren \/ SetAll \/ SetOnly \/ SetFold \/ SetDirect
        \/ Finish
        \/ Over

Spec == Init /\ [][Next]_vars
-----------------------------------------------------------------------------
(* Properties.                                                             *)

Made == {case.made : case \in UNION {Cases(n, i) : n \in UNION {NodesOf[s] : s \in DOMAIN NodesOf},
                                                   i \in {0, 1}}}

\* The stack holds active calls, and only while a tree is being converted.
TypeOK ==
    /\ status \in {"called", "converting", "returned", "threw", "crashed"}
    /\ (status = "converting") <=> (stack # <<>>)
    /\ \A i \in DOMAIN stack :
          /\ stack[i].indent \in Nat
          /\ stack[i].made \in Made \cup {"call", "Array"}
          /\ stack[i].left \subseteq DOMAIN stack[i].node.kids
          /\ \A g \in stack[i].got : g[2] \in {"object", "array", "null", "undefined"}

\* convertNode knows the outermost statements of a program only by their
\* indent of zero: that call, and no call below it, makes a Program object,
\* although function bodies and clauses are SourceElements nodes as well and a
\* FunctionBody node passes its own indent on.
ProgramIsTheRoot ==
    \A i \in DOMAIN stack :
        stack[i].made # "call" => (stack[i].made = "Program" <=> i = 1)

ArrayFields == {"elements", "params", "arguments", "properties", "expressions",
                "declarations", "cases"}
IsArrayField(frame, field) ==
    \/ field \in ArrayFields
    \/ field = "body" /\ frame.made \in {"Program", "BlockStatement"}
    \/ field = "consequent" /\ frame.made = "SwitchCase"

\* A field that lists things is an array, whatever node there is for the list
\* and also if there is none; no other field is an array.
ListsAreArrays ==
    \A i \in DOMAIN stack : \A g \in stack[i].got :
        IsArrayField(stack[i], g[1]) <=> g[2] = "array"

\* Every node that the parser makes can be converted: operatorAsText knows its
\* operator, which is initialized, and no list is taken from a null pointer.
NothingCrashes == status # "crashed"

\* The parts of a node that the language lets a program leave out.
OptionalFields == [ForLoop |-> {"init", "test", "update"}, IfStatement |-> {"alternate"},
                   TryStatement |-> {"handler", "finalizer"}, Clause |-> {"test"},
                   ReturnStatement |-> {"argument"}]

\* A field is null only for a part that the program can leave out, but for the
\* operand of void, which createVoid drops, and the test of a default clause
\* without clauses before it, which becomes an element.
NullMeansLeftOut ==
    \A i \in DOMAIN stack : \A g \in stack[i].got :
        g[2] = "null" =>
            LET type == stack[i].node.type
            IN  \/ type \in DOMAIN OptionalFields /\ g[1] \in OptionalFields[type]
                \/ type = "Void"
                \/ type = "Clause" /\ g[1] = "element"

Finished(frame) == frame.made # "call" /\ frame.todo = <<>>

\* When a node has been converted, all its children are shown, but for the
\* left side or the initializer of for-in and the clauses after a default one.
ChildrenAreShown ==
    \A i \in DOMAIN stack :
        Finished(stack[i]) =>
            stack[i].left \subseteq CASE stack[i].node.type = "ForInLoop" -> {1}
                                      [] stack[i].node.type = "SwitchStatement" -> {4}
                                      [] OTHER -> {}

\* What README.md says of Reflect.parse, that the tree it returns corresponds
\* to the code: whatever the parser put below a node is shown below its object.
TreeCorrespondsToCode ==
    \A i \in DOMAIN stack : Finished(stack[i]) => stack[i].left = {}
=============================================================================
