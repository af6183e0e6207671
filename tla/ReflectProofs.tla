---------------------------- MODULE ReflectProofs ----------------------------
(* Proofs about Reflect: the conversion of every tree that the parser can    *)
(* make, for lists of any length and nodes nested to any depth.              *)
EXTENDS Reflect, SequenceTheorems, TLAPS

-----------------------------------------------------------------------------
(* The inductive invariant.  Each property is about the fields that are set, *)
(* so the invariant says of every active call what it has still to set, of   *)
(* which nodes, and what the call above it will return.                      *)

Sorts == DOMAIN NodesOf

\* The sorts and types that convertNode turns into an array.
ArraySorts == {"Arguments", "ArgumentsList", "ElementList", "FormalParameterList", "ClauseList"}
ArrayTypes == ListTypes \cup {"FormalParameterList", "Arguments"}

\* Nodes, fields and frames by their parts.  convertChildren is also called for
\* an array that is made on the spot.
AllNodes == UNION {NodesOf[sort] : sort \in Sorts}
Kids == Seq(Sorts \cup {"null"})
ANode == [type : {n.type : n \in AllNodes} \cup {"Array"},
          op : {n.op : n \in AllNodes} \cup {"NoOperator"}, kids : Kids]

FieldNames == {"alternate", "argument", "arguments", "block", "body", "callee", "cases",
    "consequent", "declarations", "discriminant", "element", "elements", "expression",
    "expressions", "finalizer", "handler", "init", "key", "left", "object", "params",
    "properties", "property", "right", "test", "update", "value"}
Hows == {"node", "children", "all", "only", "fold", "array", "object"}
AField == [field : FieldNames, how : Hows, kid : Nat]

Kinds == {"object", "array", "null", "undefined"}
AFrame == [node : ANode, indent : Nat, made : Made \cup {"call", "Array"}, todo : Seq(AField),
           left : SUBSET Nat, got : SUBSET (FieldNames \X Kinds)]

\* The child is there, and is no list.
Plain(n, kid) == Has(n, kid) /\ n.kids[kid] \notin ArraySorts
Absent(n, kid) == Has(n, kid) => n.kids[kid] \notin ArraySorts
Present(n) == {kid \in DOMAIN n.kids : n.kids[kid] # "null"}

Childless == {"BooleanExpression", "BreakStatement", "ContinueStatement", "Debugger",
    "EmptyStatement", "IdentifierExpression", "Null", "NumberExpression", "Regex",
    "Resolve", "StringExpression", "This", "Void"}
WithOne == {"DotAccess", "ExpressionStatement", "Expression", "Postfix", "Prefix",
    "Property", "ThrowStatement", "UnaryExpression"}
WithTwo == {"AssignmentExpression", "BinaryExpression", "BracketAccess",
    "DoWhileStatement", "WhileStatement", "WithStatement"}
WithCall == {"FunctionCall", "NewExpression"}
WithList == {"Comma", "VariableDeclaration", "SourceElements", "ArgumentsList",
    "ElementList", "PropertyList", "ClauseList"}
WithFunction == {"FunctionDeclStatement", "FunctionExpression"}

\* What the builder guarantees of the children of a node, by its type.
SimpleShape(n) ==
    /\ n.type \in HaveOperator => n.op \in DOMAIN operatorAsText
    /\ n.type \in Childless => n.kids = <<>>
    /\ n.type \in WithOne => Len(n.kids) = 1 /\ Plain(n, 1)
    /\ n.type \in WithTwo => Len(n.kids) = 2 /\ Plain(n, 1) /\ Plain(n, 2)
    /\ n.type \in WithList => \A kid \in 1..Len(n.kids) : Plain(n, kid)
    /\ n.type \in WithCall => Len(n.kids) = 2 /\ Plain(n, 1) /\ n.kids[2] = "Arguments"
    /\ n.type = "ConditionalExpression" =>
          Len(n.kids) = 3 /\ Plain(n, 1) /\ Plain(n, 2) /\ Plain(n, 3)

StatementShape(n) ==
    /\ n.type = "Clause" => Len(n.kids) = 2 /\ Absent(n, 1) /\ Plain(n, 2)
    /\ n.type = "IfStatement" =>
          Len(n.kids) \in {2, 3} /\ Plain(n, 1) /\ Plain(n, 2) /\ Absent(n, 3)
    /\ n.type = "ReturnStatement" => Len(n.kids) = 1 /\ Absent(n, 1)
    /\ n.type = "TryStatement" =>
          Len(n.kids) = 3 /\ Plain(n, 1) /\ Absent(n, 2) /\ Absent(n, 3)
    /\ n.type = "ForInLoop" =>
          Len(n.kids) = 3 /\ Absent(n, 1) /\ Plain(n, 2) /\ Plain(n, 3)
    /\ n.type = "ForLoop" =>
          Len(n.kids) = 4 /\ Absent(n, 1) /\ Absent(n, 2) /\ Absent(n, 3) /\ Plain(n, 4)
    /\ n.type = "SwitchStatement" =>
          /\ Len(n.kids) = 4 /\ Plain(n, 1)
          /\ n.kids[2] \in {"null", "ClauseList"} /\ n.kids[3] \in {"null", "DefaultClause"}

OtherShape(n) ==
    /\ n.type = "Array" => n.kids = <<>> \/ n.kids = <<"ElementList">>
    /\ n.type = "BlockStatement" => n.kids = <<"null">> \/ n.kids = <<"SourceElements">>
    /\ n.type = "ObjectLiteral" => n.kids = <<>> \/ n.kids = <<"PropertyList">>
    /\ n.type \in WithFunction =>
          /\ Len(n.kids) = 2 /\ n.kids[2] = "FunctionBody"
          /\ n.kids[1] \in {"null", "FormalParameterList"}
    /\ n.type = "Arguments" => n.kids = <<>> \/ n.kids = <<"ArgumentsList">>
    /\ n.type = "FunctionBody" => n.kids = <<"null">> \/ n.kids = <<"SourceElements">>

Shape(n) ==
    /\ n = OpNode(n.type, n.op, n.kids) /\ n.kids \in Kids
    /\ SimpleShape(n) /\ StatementShape(n) /\ OtherShape(n)

\* The nodes whose children convertChildren is called for.
Elements(n) ==
    /\ n \in ANode
    /\ \A kid \in 1..Len(n.kids) :
          IF n.kids[kid] = "null" THEN n.type = "Clause" ELSE n.kids[kid] \notin ArraySorts

MayBeNull(type, field) ==
    \/ type \in DOMAIN OptionalFields /\ field \in OptionalFields[type]
    \/ type = "Void"
    \/ type = "Clause" /\ field = "element"

ArrayField(made, field) ==
    \/ field \in ArrayFields
    \/ field = "body" /\ made \in {"Program", "BlockStatement"}
    \/ field = "consequent" /\ made = "SwitchCase"

ElementsOf(sort) == \A n \in NodesOf[sort] : Elements(n)

\* The field can be set: nothing is taken from a null pointer, a null is put
\* only where the language lets something out, and lists become arrays.
CanSet(n, made, f) ==
    /\ f \in AField
    /\ f.how = "node" =>
          /\ f.kid >= 1
          /\ IF Has(n, f.kid) THEN n.kids[f.kid] \in ArraySorts <=> ArrayField(made, f.field)
             ELSE MayBeNull(n.type, f.field) /\ ~ArrayField(made, f.field)
    /\ f.how = "children" =>
          ArrayField(made, f.field) /\ f.kid >= 1 /\ Has(n, f.kid) /\ ElementsOf(n.kids[f.kid])
    /\ f.how = "all" => ArrayField(made, f.field) /\ Elements(n)
    /\ f.how = "only" => ArrayField(made, f.field) /\ f.kid >= 1 /\ Absent(n, f.kid)
    /\ f.how = "fold" =>
          /\ ArrayField(made, f.field) /\ f.kid = 2 /\ Len(n.kids) = 4
          /\ n.kids[2] = "ClauseList" /\ n.kids[3] \in {"null", "DefaultClause"}
    /\ f.how = "array" => ArrayField(made, f.field)
    /\ f.how = "object" => ~ArrayField(made, f.field)

\* The children that the value of a field shows.
Shows(f, n) ==
    CASE f.how \in {"node", "children", "only"} -> {f.kid}
      [] f.how = "all" -> DOMAIN n.kids
      [] f.how = "fold" -> {f.kid, f.kid + 1}
      [] OTHER -> {}

LeftOut(type) == CASE type = "ForInLoop" -> {1}
                   [] type = "SwitchStatement" -> {4}
                   [] OTHER -> {}

GoodTodo(f) ==
    /\ \A j \in 1..Len(f.todo) : CanSet(f.node, f.made, f.todo[j])
    /\ \A kid \in f.left : \/ \E j \in 1..Len(f.todo) : kid \in Shows(f.todo[j], f.node)
                           \/ kid \in LeftOut(f.node.type)

GoodFrame(f) ==
    /\ f \in AFrame
    /\ f.made = "call" => Shape(f.node) /\ f.todo = <<>> /\ f.got = {}
    /\ f.made # "call" => GoodTodo(f)
    /\ f.left \subseteq Present(f.node)
    /\ \A g \in f.got : /\ ArrayField(f.made, g[1]) <=> g[2] = "array"
                        /\ g[2] = "null" => MayBeNull(f.node.type, g[1])

\* The outermost call, and the calls below it.
Root(f) ==
    /\ f.indent = 0 /\ f.node.type = "SourceElements"
    /\ \/ f.made = "call"
       \/ f.made = "Program" /\ f.todo \in {<<>>, <<all("body")>>}
Inner(f) == f.indent > 0 /\ f.made # "Program"

ReturnsArray(f) ==
    \/ f.made = "Array"
    \/ f.made = "call" /\ f.node.type \in ArrayTypes

\* The call f waits for the call g, which gives the next field its value; the
\* children this shows are no longer left.
Waits(f, g) ==
    /\ f.made # "call" /\ f.todo # <<>>
    /\ \A kid \in Shows(Head(f.todo), f.node) : kid \notin f.left
    /\ ReturnsArray(g) <=> ArrayField(f.made, Head(f.todo).field)

GoodStack(st) ==
    /\ st \in Seq(AFrame)
    /\ \A i \in 1..Len(st) : GoodFrame(st[i]) /\ (IF i = 1 THEN Root(st[i]) ELSE Inner(st[i]))
    /\ \A i \in 1..Len(st) - 1 : Waits(st[i], st[i + 1])

ConvInv ==
    /\ status \in {"called", "converting", "returned", "threw"}
    /\ (status = "converting") <=> (stack # <<>>)
    /\ GoodStack(stack)

-----------------------------------------------------------------------------
(* What the builder makes has its shape.                                    *)

Leaves == {"Expression", "Statement", "Declarator", "Declarations", "VarIdentifier",
           "Block", "SourceElements", "PropertyList", "Property", "FunctionBody",
           "Clause", "DefaultClause"}

LEMMA SortsAre ==
    Sorts = {"Expression", "Statement", "Declarator", "Declarations", "VarIdentifier",
             "Block", "SourceElements", "Arguments", "ArgumentsList", "ElementList",
             "PropertyList", "Property", "FormalParameterList", "FunctionBody",
             "Clause", "DefaultClause", "ClauseList"}
BY DEF Sorts, NodesOf

LEMMA LeafSorts ==
    /\ Leaves \subseteq Sorts /\ Leaves \cap ArraySorts = {} /\ "null" \notin Leaves
    /\ ArraySorts \subseteq Sorts /\ Sorts = Leaves \cup ArraySorts /\ "null" \notin Sorts
    /\ "null" \notin ArraySorts
BY SortsAre DEF Leaves, ArraySorts

LEMMA ThreeConstructors ==
    ASSUME NEW type, NEW kids
    PROVE  /\ Node(type, kids) = OpNode(type, "NoOperator", kids)
           /\ RawNode(type, kids) = OpNode(type, "uninitialized", kids)
BY DEF Node, RawNode, OpNode

LEMMA NodeParts ==
    ASSUME NEW type, NEW op, NEW kids
    PROVE  LET n == OpNode(type, op, kids) IN
           n = OpNode(n.type, n.op, n.kids) /\ n.type = type /\ n.op = op /\ n.kids = kids
BY DEF OpNode

LEMMA ShortLists ==
    ASSUME NEW a \in Sorts \cup {"null"}, NEW b \in Sorts \cup {"null"},
           NEW c \in Sorts \cup {"null"}, NEW d \in Sorts \cup {"null"}
    PROVE  /\ <<>> \in Kids /\ <<a>> \in Kids /\ <<a, b>> \in Kids
           /\ <<a, b, c>> \in Kids /\ <<a, b, c, d>> \in Kids
BY DEF Kids

\* Shape is about the type of a node; these are the parts it has for each.
LEMMA ChildlessShape ==
    ASSUME NEW type \in Childless, NEW op
    PROVE  Shape(OpNode(type, op, <<>>))
<1> DEFINE n == OpNode(type, op, <<>>)
<1>1. n = OpNode(n.type, n.op, n.kids) /\ n.type = type /\ n.kids = <<>>
  BY NodeParts
<1> HIDE DEF n
<1>2. SimpleShape(n)
  BY <1>1 DEF SimpleShape, HaveOperator, Childless, WithOne, WithTwo, WithCall, WithList
<1>3. StatementShape(n)
  BY <1>1 DEF StatementShape, Childless
<1>4. OtherShape(n)
  BY <1>1 DEF OtherShape, Childless, WithFunction
<1> QED
  BY <1>1, <1>2, <1>3, <1>4, EmptySeq DEF Shape, Kids, n

LEMMA OneShape ==
    ASSUME NEW type \in WithOne, NEW op, NEW s \in Leaves,
           type \in HaveOperator => op \in DOMAIN operatorAsText
    PROVE  Shape(OpNode(type, op, <<s>>))
<1> DEFINE k == <<s>>
           n == OpNode(type, op, k)
<1>1. n = OpNode(n.type, n.op, n.kids) /\ n.type = type /\ n.op = op /\ n.kids = k
  BY NodeParts
<1>2. k \in Kids
  BY LeafSorts, ShortLists
<1> HIDE DEF n, k
<1>3. Len(n.kids) = 1 /\ Plain(n, 1)
  BY <1>1, LeafSorts DEF k, Plain, Has
<1>4. SimpleShape(n)
  BY <1>1, <1>3 DEF SimpleShape, Childless, WithOne, WithTwo, WithCall, WithList
<1>5. StatementShape(n)
  BY <1>1 DEF StatementShape, WithOne
<1>6. OtherShape(n)
  BY <1>1 DEF OtherShape, WithOne, WithFunction
<1> QED
  BY <1>1, <1>2, <1>4, <1>5, <1>6 DEF Shape, n, k

LEMMA TwoShape ==
    ASSUME NEW type \in WithTwo, NEW op, NEW s \in Leaves, NEW t \in Leaves,
           type \in HaveOperator => op \in DOMAIN operatorAsText
    PROVE  Shape(OpNode(type, op, <<s, t>>))
<1> DEFINE k == <<s, t>>
           n == OpNode(type, op, k)
<1>1. n = OpNode(n.type, n.op, n.kids) /\ n.type = type /\ n.op = op /\ n.kids = k
  BY NodeParts
<1>2. k \in Kids
  BY LeafSorts, ShortLists
<1> HIDE DEF n, k
<1>3. Len(n.kids) = 2 /\ Plain(n, 1) /\ Plain(n, 2)
  BY <1>1, LeafSorts DEF k, Plain, Has
<1>4. SimpleShape(n)
  BY <1>1, <1>3 DEF SimpleShape, Childless, WithOne, WithTwo, WithCall, WithList
<1>5. StatementShape(n)
  BY <1>1 DEF StatementShape, WithTwo
<1>6. OtherShape(n)
  BY <1>1 DEF OtherShape, WithTwo, WithFunction
<1> QED
  BY <1>1, <1>2, <1>4, <1>5, <1>6 DEF Shape, n, k

LEMMA CallShape ==
    ASSUME NEW type \in WithCall, NEW op
    PROVE  Shape(OpNode(type, op, <<"Expression", "Arguments">>))
<1> DEFINE k == <<"Expression", "Arguments">>
           n == OpNode(type, op, k)
<1>0. "Expression" \in Leaves /\ "Arguments" \in ArraySorts
  BY DEF Leaves, ArraySorts
<1>1. n = OpNode(n.type, n.op, n.kids) /\ n.type = type /\ n.op = op /\ n.kids = k
  BY NodeParts
<1>2. k \in Kids
  BY <1>0, LeafSorts, ShortLists
<1> HIDE DEF n, k
<1>3. Len(n.kids) = 2 /\ Plain(n, 1) /\ n.kids[2] = "Arguments"
  BY <1>0, <1>1, LeafSorts DEF k, Plain, Has
<1>4. SimpleShape(n)
  BY <1>1, <1>3 DEF SimpleShape, HaveOperator, Childless, WithOne, WithTwo, WithCall, WithList
<1>5. StatementShape(n)
  BY <1>1 DEF StatementShape, WithCall
<1>6. OtherShape(n)
  BY <1>1 DEF OtherShape, WithCall, WithFunction
<1> QED
  BY <1>1, <1>2, <1>4, <1>5, <1>6 DEF Shape, n, k

LEMMA ListShape ==
    ASSUME NEW type \in WithList, NEW op, NEW kids \in Kids,
           \A kid \in 1..Len(kids) : kids[kid] \in Leaves
    PROVE  Shape(OpNode(type, op, kids))
<1> DEFINE n == OpNode(type, op, kids)
<1>1. n = OpNode(n.type, n.op, n.kids) /\ n.type = type /\ n.kids = kids /\ n.kids \in Kids
  BY NodeParts
<1> HIDE DEF n
<1>2. \A kid \in 1..Len(n.kids) : Plain(n, kid)
  BY <1>1, LeafSorts DEF Plain, Has
<1>3. SimpleShape(n)
  BY <1>1, <1>2 DEF SimpleShape, HaveOperator, Childless, WithOne, WithTwo, WithCall, WithList
<1>4. StatementShape(n)
  BY <1>1 DEF StatementShape, WithList
<1>5. OtherShape(n)
  BY <1>1 DEF OtherShape, WithList, WithFunction
<1> QED
  BY <1>1, <1>3, <1>4, <1>5 DEF Shape, n

\* The types that only StatementShape is about.
LEMMA StatementShapes ==
    ASSUME NEW type \in {"Clause", "IfStatement", "ReturnStatement", "TryStatement",
                         "ForInLoop", "ForLoop", "SwitchStatement"},
           NEW op, NEW kids \in Kids, StatementShape(OpNode(type, op, kids))
    PROVE  Shape(OpNode(type, op, kids))
<1> DEFINE n == OpNode(type, op, kids)
<1>1. n = OpNode(n.type, n.op, n.kids) /\ n.type = type /\ n.kids = kids /\ n.kids \in Kids
  BY NodeParts
<1>2. StatementShape(n)
  OBVIOUS
<1> HIDE DEF n
<1>3. SimpleShape(n)
  BY <1>1 DEF SimpleShape, HaveOperator, Childless, WithOne, WithTwo, WithCall, WithList
<1>4. OtherShape(n)
  BY <1>1 DEF OtherShape, WithFunction
<1> QED
  BY <1>1, <1>2, <1>3, <1>4 DEF Shape, n

\* The types that only OtherShape is about, and those that no part is about.
LEMMA OtherShapes ==
    ASSUME NEW type \in WithFunction \cup {"Array", "BlockStatement", "ObjectLiteral",
                  "Arguments", "FunctionBody", "FormalParameterList", "LabelStatement"},
           NEW op, NEW kids \in Kids, OtherShape(OpNode(type, op, kids))
    PROVE  Shape(OpNode(type, op, kids))
<1> DEFINE n == OpNode(type, op, kids)
<1>1. n = OpNode(n.type, n.op, n.kids) /\ n.type = type /\ n.kids = kids /\ n.kids \in Kids
  BY NodeParts
<1>2. OtherShape(n)
  OBVIOUS
<1> HIDE DEF n
<1>3. SimpleShape(n)
  BY <1>1 DEF SimpleShape, HaveOperator, Childless, WithOne, WithTwo, WithCall, WithList,
     WithFunction
<1>4. StatementShape(n)
  BY <1>1 DEF StatementShape, WithFunction
<1> QED
  BY <1>1, <1>2, <1>3, <1>4 DEF Shape, n

LEMMA OperatorsHaveText ==
    /\ \A op \in AssignOperators : op[2] \in DOMAIN operatorAsText
    /\ \A op \in UpdateOperators : op[2] \in DOMAIN operatorAsText
    /\ \A op \in BinaryOperators : op[2] \in DOMAIN operatorAsText
    /\ \A op \in {"LogicalNotOperator", "BitwiseNotOperator", "AddOperator",
                   "SubtractOperator", "DeleteOperator", "TypeofOperator", "AssignEqual"} :
          op \in DOMAIN operatorAsText
<1>1. \A op \in AssignOperators : op[2] \in DOMAIN operatorAsText
  BY DEF AssignOperators, operatorAsText
<1>2. \A op \in UpdateOperators : op[2] \in DOMAIN operatorAsText
  BY DEF UpdateOperators, operatorAsText
<1>3. \A op \in BinaryOperators : op[2] \in DOMAIN operatorAsText
  BY DEF BinaryOperators, operatorAsText
<1>4. \A op \in {"LogicalNotOperator", "BitwiseNotOperator", "AddOperator",
                 "SubtractOperator", "DeleteOperator", "TypeofOperator", "AssignEqual"} :
          op \in DOMAIN operatorAsText
  BY DEF operatorAsText
<1> QED
  BY <1>1, <1>2, <1>3, <1>4

LEMMA ListsShape ==
    ASSUME NEW type \in WithList, NEW op, NEW sort \in Leaves, NEW min \in Nat,
           NEW kids \in Lists(sort, min)
    PROVE  Shape(OpNode(type, op, kids))
<1>1. PICK m \in min..MaxList : kids = [i \in 1..m |-> sort]
  BY DEF Lists
<1>2. m \in Nat /\ sort \in Sorts \cup {"null"}
  BY MaxListAssumption, LeafSorts
<1>3. kids \in Kids /\ \A kid \in 1..Len(kids) : kids[kid] \in Leaves
  BY <1>1, <1>2 DEF Kids
<1> QED
  BY <1>3, ListShape

LEMMA ConditionalShape ==
    ASSUME NEW op, NEW s \in Leaves
    PROVE  Shape(OpNode("ConditionalExpression", op, <<s, s, s>>))
<1> DEFINE k == <<s, s, s>>
           n == OpNode("ConditionalExpression", op, k)
<1>1. n = OpNode(n.type, n.op, n.kids) /\ n.type = "ConditionalExpression" /\ n.kids = k
  BY NodeParts
<1>2. k \in Kids
  BY LeafSorts, ShortLists
<1> HIDE DEF n
<1>3. Len(n.kids) = 3 /\ Plain(n, 1) /\ Plain(n, 2) /\ Plain(n, 3)
  BY <1>1, LeafSorts DEF Plain, Has
<1>4. SimpleShape(n)
  BY <1>1, <1>3 DEF SimpleShape, HaveOperator, Childless, WithOne, WithTwo, WithCall, WithList
<1>5. StatementShape(n)
  BY <1>1 DEF StatementShape
<1>6. OtherShape(n)
  BY <1>1 DEF OtherShape, WithFunction
<1> QED
  BY <1>1, <1>2, <1>4, <1>5, <1>6 DEF Shape, n

LEMMA FunctionShape ==
    ASSUME NEW type \in WithFunction, NEW op, NEW p \in {"null", "FormalParameterList"}
    PROVE  Shape(OpNode(type, op, <<p, "FunctionBody">>))
<1> DEFINE k == <<p, "FunctionBody">>
           n == OpNode(type, op, k)
<1>1. n.type = type /\ n.kids = k
  BY NodeParts
<1>2. k \in Kids
  BY SortsAre, ShortLists
<1>3. Len(k) = 2 /\ k[1] = p /\ k[2] = "FunctionBody"
  OBVIOUS
<1> HIDE DEF n, k
<1>4. OtherShape(n)
  BY <1>1, <1>3 DEF OtherShape, WithFunction
<1> QED
  BY <1>2, <1>4, OtherShapes DEF n, k

LEMMA ExpressionShapes == \A n \in Expressions : Shape(n)
<1>s. "Expression" \in Leaves /\ "VarIdentifier" \in Leaves
  BY DEF Leaves
<1>1. \A n \in UNION {createBoolean, createNull, createNumberExpr, createRegex, createResolve,
                      createString, createVoid, thisExpr} : Shape(n)
  BY ChildlessShape, ThreeConstructors
  DEF createBoolean, createNull, createNumberExpr, createRegex, createResolve, createString,
      createVoid, thisExpr, Childless
<1>2. \A n \in UNION {createLogicalNot, createUnaryPlus, makeBitwiseNotNode, makeDeleteNode,
                      makeNegateNode, makeTypeOfNode} : Shape(n)
  <2>1. \A op \in {"LogicalNotOperator", "BitwiseNotOperator", "AddOperator",
                   "SubtractOperator", "DeleteOperator", "TypeofOperator"} :
           Shape(OpNode("UnaryExpression", op, <<"Expression">>))
    BY <1>s, OperatorsHaveText, OneShape DEF WithOne
  <2> QED
    BY <2>1 DEF createLogicalNot, createUnaryPlus, makeBitwiseNotNode, makeDeleteNode,
       makeNegateNode, makeTypeOfNode
<1>3. \A n \in makePostfixNode \cup makePrefixNode : Shape(n)
  <2>1. \A type \in {"Postfix", "Prefix"}, op \in UpdateOperators :
           Shape(OpNode(type, op[2], <<"Expression">>))
    BY <1>s, OperatorsHaveText, OneShape DEF WithOne
  <2> QED
    BY <2>1 DEF makePostfixNode, makePrefixNode
<1>4. \A n \in createDotAccess : Shape(n)
  BY <1>s, OneShape, ThreeConstructors DEF createDotAccess, WithOne, HaveOperator
<1>5. \A n \in createAssignment \cup makeBinaryNode : Shape(n)
  <2>1. \A op \in AssignOperators :
           Shape(OpNode("AssignmentExpression", op[2], <<"Expression", "Expression">>))
    BY <1>s, OperatorsHaveText, TwoShape DEF WithTwo
  <2>2. \A op \in BinaryOperators :
           Shape(OpNode("BinaryExpression", op[2], <<"Expression", "Expression">>))
    BY <1>s, OperatorsHaveText, TwoShape DEF WithTwo
  <2> QED
    BY <2>1, <2>2 DEF createAssignment, makeBinaryNode
<1>6. \A n \in createBracketAccess : Shape(n)
  BY <1>s, TwoShape, ThreeConstructors DEF createBracketAccess, WithTwo, HaveOperator
<1>7. \A n \in createNewExpr \cup makeFunctionCallNode : Shape(n)
  <2>1. Shape(OpNode("Expression", "uninitialized", <<"Expression">>))
    BY <1>s, OneShape DEF WithOne, HaveOperator
  <2> QED
    BY <2>1, CallShape, ThreeConstructors DEF createNewExpr, makeFunctionCallNode, WithCall
<1>8. \A n \in createCommaExpr : Shape(n)
  BY ListsShape, ThreeConstructors DEF createCommaExpr, WithList, Leaves
<1>9. \A n \in createConditionalExpr : Shape(n)
  BY <1>s, ConditionalShape, ThreeConstructors DEF createConditionalExpr
<1>10. \A n \in createArray \cup createObjectLiteral : Shape(n)
  <2>1. <<>> \in Kids /\ <<"ElementList">> \in Kids /\ <<"PropertyList">> \in Kids
    <3>1. "ElementList" \in Sorts \cup {"null"} /\ "PropertyList" \in Sorts \cup {"null"}
      BY SortsAre
    <3> QED
      BY <3>1, ShortLists
  <2>2. ASSUME NEW op, NEW k \in {<<>>, <<"ElementList">>}
        PROVE  Shape(OpNode("Array", op, k))
    BY <2>1, <2>2, OtherShapes, NodeParts DEF OtherShape, WithFunction
  <2>3. ASSUME NEW op, NEW k \in {<<>>, <<"PropertyList">>}
        PROVE  Shape(OpNode("ObjectLiteral", op, k))
    BY <2>1, <2>3, OtherShapes, NodeParts DEF OtherShape, WithFunction
  <2> QED
    BY <2>2, <2>3, ThreeConstructors DEF createArray, createObjectLiteral
<1>11. \A n \in createFunctionExpr : Shape(n)
  BY FunctionShape, ThreeConstructors DEF createFunctionExpr, Opt, WithFunction
<1> QED
  BY <1>1, <1>2, <1>3, <1>4, <1>5, <1>6, <1>7, <1>8, <1>9, <1>10, <1>11 DEF Expressions


LEMMA StatementShapesOf == \A n \in Statements : Shape(n)
<1>s. "Expression" \in Leaves /\ "Statement" \in Leaves /\ "Declarations" \in Leaves
      /\ "Block" \in Leaves
  BY DEF Leaves
<1>1. \A n \in UNION {createBreakStatement, createContinueStatement, createDebugger,
                      createEmptyStatement} : Shape(n)
  BY ChildlessShape, ThreeConstructors
  DEF createBreakStatement, createContinueStatement, createDebugger, createEmptyStatement,
      Childless
<1>2. \A n \in UNION {createExprStatement, createThrowStatement} : Shape(n)
  BY <1>s, OneShape, ThreeConstructors
  DEF createExprStatement, createThrowStatement, WithOne, HaveOperator
<1>3. \A n \in UNION {createDoWhileStatement, createWhileStatement, createWithStatement} :
         Shape(n)
  BY <1>s, TwoShape, ThreeConstructors
  DEF createDoWhileStatement, createWhileStatement, createWithStatement, WithTwo, HaveOperator
<1>4. \A n \in createVarStatement : Shape(n)
  <2>1. <<"Declarations">> \in Kids
    BY <1>s, LeafSorts, ShortLists
  <2>2. \A kid \in 1..Len(<<"Declarations">>) : <<"Declarations">>[kid] \in Leaves
    BY <1>s
  <2> QED
    BY <2>1, <2>2, ListShape, ThreeConstructors DEF createVarStatement, WithList
<1>5. \A n \in createBlockStatement : Shape(n)
  <2>1. <<"null">> \in Kids /\ <<"SourceElements">> \in Kids
    <3>1. "null" \in Sorts \cup {"null"} /\ "SourceElements" \in Sorts \cup {"null"}
      BY SortsAre
    <3> QED
      BY <3>1, ShortLists
  <2>2. ASSUME NEW op, NEW k \in {<<"null">>, <<"SourceElements">>}
        PROVE  Shape(OpNode("BlockStatement", op, k))
    BY <2>1, <2>2, OtherShapes, NodeParts DEF OtherShape, WithFunction
  <2> QED
    BY <2>2, ThreeConstructors DEF createBlockStatement, Opt
<1>6. \A n \in createFuncDeclStatement : Shape(n)
  BY FunctionShape, ThreeConstructors DEF createFuncDeclStatement, Opt, WithFunction
<1>7. \A n \in createLabelStatement : Shape(n)
  <2>1. <<"Statement">> \in Kids
    BY <1>s, LeafSorts, ShortLists
  <2>2. ASSUME NEW op, NEW k \in {<<"Statement">>}
        PROVE  Shape(OpNode("LabelStatement", op, k))
    BY <2>1, <2>2, OtherShapes, NodeParts DEF OtherShape, WithFunction
  <2> QED
    BY <2>2, ThreeConstructors DEF createLabelStatement
<1>8. \A n \in createReturnStatement : Shape(n)
  <2> TAKE n \in createReturnStatement
  <2>1. PICK e \in {"null", "Expression"} : n = OpNode("ReturnStatement", "uninitialized", <<e>>)
    BY ThreeConstructors DEF createReturnStatement, Opt
  <2> DEFINE k == <<e>>
  <2>2. k \in Kids
    BY <1>s, LeafSorts, ShortLists
  <2>3. n.type = "ReturnStatement" /\ n.kids = k
    BY <2>1, NodeParts
  <2>4. Len(k) = 1 /\ k[1] \in {"null", "Expression"}
    OBVIOUS
  <2> HIDE DEF k
  <2>5. StatementShape(n)
    BY <2>3, <2>4, <1>s, LeafSorts DEF StatementShape, Absent
  <2> QED
    BY <2>1, <2>2, <2>5, StatementShapes DEF k
<1>9. \A n \in createIfStatement : Shape(n)
  <2> TAKE n \in createIfStatement
  <2> DEFINE two == <<"Expression", "Statement">>
             three == <<"Expression", "Statement", "Statement">>
  <2>1. PICK k \in {two, three} : n = OpNode("IfStatement", "uninitialized", k)
    BY ThreeConstructors DEF createIfStatement
  <2>2. two \in Kids /\ three \in Kids
    BY <1>s, LeafSorts, ShortLists
  <2>3. n.type = "IfStatement" /\ n.kids = k
    BY <2>1, NodeParts
  <2>4. /\ Len(k) \in {2, 3} /\ k[1] = "Expression" /\ k[2] = "Statement"
        /\ Len(k) = 3 => k[3] = "Statement"
    BY <2>1
  <2> HIDE DEF two, three
  <2>5. StatementShape(n)
    BY <2>3, <2>4, <1>s, LeafSorts DEF StatementShape, Absent, Plain, Has
  <2> QED
    BY <2>1, <2>2, <2>5, StatementShapes
<1>10. \A n \in createTryStatement : Shape(n)
  <2> TAKE n \in createTryStatement
  <2>1. PICK h \in {"null", "Block"}, f \in {"null", "Block"} :
           n = OpNode("TryStatement", "uninitialized", <<"Block", h, f>>)
    BY ThreeConstructors DEF createTryStatement, Opt
  <2> DEFINE k == <<"Block", h, f>>
  <2>2. k \in Kids
    BY <1>s, LeafSorts, ShortLists
  <2>3. n.type = "TryStatement" /\ n.kids = k
    BY <2>1, NodeParts
  <2>4. Len(k) = 3 /\ k[1] = "Block" /\ k[2] \in {"null", "Block"} /\ k[3] \in {"null", "Block"}
    OBVIOUS
  <2> HIDE DEF k
  <2>5. StatementShape(n)
    BY <2>3, <2>4, <1>s, LeafSorts DEF StatementShape, Absent, Plain, Has
  <2> QED
    BY <2>1, <2>2, <2>5, StatementShapes DEF k
<1>11. \A n \in createForInLoop : Shape(n)
  <2> TAKE n \in createForInLoop
  <2>1. PICK i \in {"null", "Expression"}, op \in {"NoOperator", "uninitialized"} :
           n = OpNode("ForInLoop", op, <<i, "Expression", "Statement">>)
    BY ThreeConstructors DEF createForInLoop, Opt
  <2> DEFINE k == <<i, "Expression", "Statement">>
  <2>2. k \in Kids
    BY <1>s, LeafSorts, ShortLists
  <2>3. n.type = "ForInLoop" /\ n.kids = k
    BY <2>1, NodeParts
  <2>4. Len(k) = 3 /\ k[1] \in {"null", "Expression"} /\ k[2] = "Expression" /\ k[3] = "Statement"
    OBVIOUS
  <2> HIDE DEF k
  <2>5. StatementShape(n)
    BY <2>3, <2>4, <1>s, LeafSorts DEF StatementShape, Absent, Plain, Has
  <2> QED
    BY <2>1, <2>2, <2>5, StatementShapes DEF k
<1>12. \A n \in createForLoop : Shape(n)
  <2> TAKE n \in createForLoop
  <2>1. PICK i \in {"null", "Expression", "Declarations"}, t \in {"null", "Expression"},
             u \in {"null", "Expression"} :
           n = OpNode("ForLoop", "NoOperator", <<i, t, u, "Statement">>)
    BY ThreeConstructors DEF createForLoop, Opt
  <2> DEFINE k == <<i, t, u, "Statement">>
  <2>2. k \in Kids
    BY <1>s, LeafSorts, ShortLists
  <2>3. n.type = "ForLoop" /\ n.kids = k
    BY <2>1, NodeParts
  <2>4. /\ Len(k) = 4 /\ k[1] \in {"null", "Expression", "Declarations"}
        /\ k[2] \in {"null", "Expression"} /\ k[3] \in {"null", "Expression"} /\ k[4] = "Statement"
    OBVIOUS
  <2> HIDE DEF k
  <2>5. StatementShape(n)
    BY <2>3, <2>4, <1>s, LeafSorts DEF StatementShape, Absent, Plain, Has
  <2> QED
    BY <2>1, <2>2, <2>5, StatementShapes DEF k
<1>13. \A n \in createSwitchStatement : Shape(n)
  <2> TAKE n \in createSwitchStatement
  <2>1. PICK first \in {"null", "ClauseList"}, default \in {"null", "DefaultClause"},
             second \in {"null", "ClauseList"} :
           n = OpNode("SwitchStatement", "uninitialized", <<"Expression", first, default, second>>)
    BY ThreeConstructors DEF createSwitchStatement, Opt
  <2> DEFINE k == <<"Expression", first, default, second>>
  <2>2. k \in Kids
    BY SortsAre, ShortLists
  <2>3. n.type = "SwitchStatement" /\ n.kids = k
    BY <2>1, NodeParts
  <2>4. /\ Len(k) = 4 /\ k[1] = "Expression" /\ k[2] \in {"null", "ClauseList"}
        /\ k[3] \in {"null", "DefaultClause"}
    OBVIOUS
  <2> HIDE DEF k
  <2>5. StatementShape(n)
    BY <2>3, <2>4, <1>s, LeafSorts DEF StatementShape, Absent, Plain, Has
  <2> QED
    BY <2>1, <2>2, <2>5, StatementShapes DEF k
<1> QED
  BY <1>1, <1>2, <1>3, <1>4, <1>5, <1>6, <1>7, <1>8, <1>9, <1>10, <1>11, <1>12, <1>13
  DEF Statements


\* The makers of nodes that are neither expressions nor statements.
LEMMA OtherMakers ==
    /\ \A n \in UNION {createAssignResolve, createVarIdentifier, combineCommaNodes,
                       createSourceElements, createArgumentsList, createElementList,
                       createPropertyList, createProperty, createClauseList} : Shape(n)
    /\ \A n \in createArguments \cup createFormalParameterList \cup createFunctionBody : Shape(n)
    /\ \A n \in createClause \cup createDefaultClause : Shape(n)
<1>s. "Expression" \in Leaves /\ "Declarator" \in Leaves /\ "VarIdentifier" \in Leaves
      /\ "Statement" \in Leaves /\ "SourceElements" \in Leaves /\ "Property" \in Leaves
      /\ "Clause" \in Leaves
  BY DEF Leaves
<1>1. \A n \in createAssignResolve : Shape(n)
  BY <1>s, OperatorsHaveText, TwoShape DEF createAssignResolve, WithTwo
<1>2. \A n \in createVarIdentifier : Shape(n)
  BY ChildlessShape, ThreeConstructors DEF createVarIdentifier, Childless
<1>3. \A n \in combineCommaNodes \cup createSourceElements : Shape(n)
  <2>1. \A n \in combineCommaNodes : Shape(n)
    BY <1>s, ListsShape, ThreeConstructors DEF combineCommaNodes, WithList
  <2>2. \A n \in createSourceElements : Shape(n)
    BY <1>s, ListsShape, ThreeConstructors DEF createSourceElements, WithList
  <2> QED
    BY <2>1, <2>2
<1>4. \A n \in UNION {createArgumentsList, createElementList, createPropertyList,
                      createClauseList} : Shape(n)
  <2>1. \A n \in createArgumentsList : Shape(n)
    BY <1>s, ListsShape, ThreeConstructors DEF createArgumentsList, WithList
  <2>2. \A n \in createElementList : Shape(n)
    BY <1>s, ListsShape, ThreeConstructors DEF createElementList, WithList
  <2>3. \A n \in createPropertyList : Shape(n)
    BY <1>s, ListsShape, ThreeConstructors DEF createPropertyList, WithList
  <2>4. \A n \in createClauseList : Shape(n)
    BY <1>s, ListsShape, ThreeConstructors DEF createClauseList, WithList
  <2> QED
    BY <2>1, <2>2, <2>3, <2>4
<1>5. \A n \in createProperty : Shape(n)
  BY <1>s, OneShape, ThreeConstructors DEF createProperty, WithOne, HaveOperator
<1>6. \A n \in createArguments \cup createFormalParameterList \cup createFunctionBody : Shape(n)
  <2>1. /\ <<>> \in Kids /\ <<"ArgumentsList">> \in Kids /\ <<"FormalParameterList">> \in Kids
        /\ <<"null">> \in Kids /\ <<"SourceElements">> \in Kids
    <3>1. \A s \in {"ArgumentsList", "FormalParameterList", "null", "SourceElements"} :
             s \in Sorts \cup {"null"}
      BY SortsAre
    <3> QED
      BY <3>1, ShortLists
  <2>2. ASSUME NEW op, NEW k \in {<<>>, <<"ArgumentsList">>}
        PROVE  Shape(OpNode("Arguments", op, k))
    BY <2>1, <2>2, OtherShapes, NodeParts DEF OtherShape, WithFunction
  <2>3. ASSUME NEW op, NEW k \in {<<>>, <<"FormalParameterList">>}
        PROVE  Shape(OpNode("FormalParameterList", op, k))
    BY <2>1, <2>3, OtherShapes, NodeParts DEF OtherShape, WithFunction
  <2>4. ASSUME NEW op, NEW k \in {<<"null">>, <<"SourceElements">>}
        PROVE  Shape(OpNode("FunctionBody", op, k))
    BY <2>1, <2>4, OtherShapes, NodeParts DEF OtherShape, WithFunction
  <2> QED
    BY <2>2, <2>3, <2>4, ThreeConstructors
    DEF createArguments, createFormalParameterList, createFunctionBody, Opt
<1>7. \A n \in createClause \cup createDefaultClause : Shape(n)
  <2> TAKE n \in createClause \cup createDefaultClause
  <2>1. PICK test \in {"null", "Expression"} :
           n = OpNode("Clause", "uninitialized", <<test, "SourceElements">>)
    BY ThreeConstructors DEF createClause, createDefaultClause
  <2> DEFINE k == <<test, "SourceElements">>
  <2>2. k \in Kids
    BY <1>s, LeafSorts, ShortLists
  <2>3. n.type = "Clause" /\ n.kids = k
    BY <2>1, NodeParts
  <2>4. Len(k) = 2 /\ k[1] \in {"null", "Expression"} /\ k[2] = "SourceElements"
    OBVIOUS
  <2> HIDE DEF k
  <2>5. StatementShape(n)
    BY <2>3, <2>4, <1>s, LeafSorts DEF StatementShape, Absent, Plain, Has
  <2> QED
    BY <2>1, <2>2, <2>5, StatementShapes DEF k
<1> QED
  BY <1>1, <1>2, <1>3, <1>4, <1>5, <1>6, <1>7

\* Every node of the tree has the shape of its type, for lists of any length.
LEMMA NodesHaveShape ==
    ASSUME NEW sort \in Sorts, NEW n \in NodesOf[sort]
    PROVE  Shape(n)
<1>1. \A m \in UNION {Expressions, Statements} : Shape(m)
  BY ExpressionShapes, StatementShapesOf
<1>2. CASE sort \in {"Expression", "Statement"}
  BY <1>1, <1>2 DEF NodesOf
<1>3. CASE sort = "Block"
  BY <1>1, <1>3 DEF NodesOf, Statements
<1>4. CASE sort \in {"Declarator", "Declarations", "VarIdentifier"}
  BY <1>4, OtherMakers DEF NodesOf, Declarators
<1>5. CASE sort \in {"SourceElements", "ArgumentsList", "ElementList", "PropertyList",
                    "Property", "ClauseList"}
  BY <1>5, OtherMakers DEF NodesOf
<1>6. CASE sort \in {"Arguments", "FormalParameterList", "FunctionBody", "Clause",
                    "DefaultClause"}
  BY <1>6, OtherMakers DEF NodesOf
<1> QED
  BY <1>2, <1>3, <1>4, <1>5, <1>6, SortsAre

\* Which nodes convertNode turns into an array is decided by the sort of the
\* pointer to them.
LEMMA ExpressionsAreNoArrays == \A n \in Expressions : n.type \notin ArrayTypes
<1>1. \A n \in UNION {createArray, createAssignment, createBoolean, createBracketAccess,
           createCommaExpr, createConditionalExpr, createDotAccess, createFunctionExpr,
           createLogicalNot, createObjectLiteral} : n.type \notin ArrayTypes
  BY DEF Node, RawNode, OpNode,
     createArray, createAssignment, createBoolean, createBracketAccess, createCommaExpr,
      createConditionalExpr, createDotAccess, createFunctionExpr, createLogicalNot,
      createObjectLiteral, ArrayTypes, ListTypes
<1>2. \A n \in UNION {createNewExpr, createNull, createNumberExpr, createRegex, createResolve,
           createString, createUnaryPlus, createVoid} : n.type \notin ArrayTypes
  BY DEF Node, RawNode, OpNode,
     createNewExpr, createNull, createNumberExpr, createRegex, createResolve, createString,
      createUnaryPlus, createVoid, ArrayTypes, ListTypes
<1>3. \A n \in UNION {makeBinaryNode, makeBitwiseNotNode, makeDeleteNode,
           makeFunctionCallNode, makeNegateNode, makePostfixNode, makePrefixNode,
           makeTypeOfNode, thisExpr} : n.type \notin ArrayTypes
  BY DEF Node, RawNode, OpNode,
     makeBinaryNode, makeBitwiseNotNode, makeDeleteNode, makeFunctionCallNode,
      makeNegateNode, makePostfixNode, makePrefixNode, makeTypeOfNode, thisExpr,
      ArrayTypes, ListTypes
<1> QED
  BY <1>1, <1>2, <1>3 DEF Expressions

LEMMA StatementsAreNoArrays == \A n \in Statements : n.type \notin ArrayTypes
<1>1. \A n \in UNION {createBlockStatement, createBreakStatement, createContinueStatement,
           createDebugger, createDoWhileStatement, createEmptyStatement,
           createExprStatement, createForLoop, createForInLoop, createFuncDeclStatement} :
         n.type \notin ArrayTypes
  BY DEF Node, RawNode, OpNode,
     createBlockStatement, createBreakStatement, createContinueStatement, createDebugger,
      createDoWhileStatement, createEmptyStatement, createExprStatement, createForLoop,
      createForInLoop, createFuncDeclStatement, ArrayTypes, ListTypes
<1>2. \A n \in UNION {createIfStatement, createLabelStatement, createReturnStatement,
           createSwitchStatement, createThrowStatement, createTryStatement,
           createVarStatement, createWhileStatement, createWithStatement} :
         n.type \notin ArrayTypes
  BY DEF Node, RawNode, OpNode,
     createIfStatement, createLabelStatement, createReturnStatement, createSwitchStatement,
      createThrowStatement, createTryStatement, createVarStatement, createWhileStatement,
      createWithStatement, ArrayTypes, ListTypes
<1> QED
  BY <1>1, <1>2 DEF Statements

LEMMA ArraysBySort ==
    ASSUME NEW sort \in Sorts, NEW n \in NodesOf[sort]
    PROVE  n.type \in ArrayTypes <=> sort \in ArraySorts
<1>1. CASE sort \in {"Expression", "Statement"}
  BY <1>1, ExpressionsAreNoArrays, StatementsAreNoArrays DEF NodesOf, ArraySorts
<1>2. CASE sort = "Block"
  BY <1>2, StatementsAreNoArrays DEF NodesOf, ArraySorts, Statements
<1>3. CASE sort \in {"Declarator", "Declarations", "VarIdentifier", "SourceElements",
                    "PropertyList", "Property"}
  BY <1>3 DEF Node, RawNode, OpNode, NodesOf, ArraySorts, ArrayTypes, ListTypes,
     Declarators, createAssignResolve, createVarIdentifier, combineCommaNodes,
     createSourceElements, createPropertyList, createProperty
<1>4. CASE sort \in {"FunctionBody", "Clause", "DefaultClause"}
  BY <1>4 DEF Node, RawNode, OpNode, NodesOf, ArraySorts, ArrayTypes, ListTypes,
     createFunctionBody, createClause, createDefaultClause
<1>5. CASE sort \in ArraySorts
  BY <1>5 DEF Node, RawNode, OpNode, NodesOf, ArraySorts, ArrayTypes, ListTypes,
     createArguments, createArgumentsList, createElementList, createFormalParameterList,
     createClauseList
<1> QED
  BY <1>1, <1>2, <1>3, <1>4, <1>5, SortsAre DEF ArraySorts

LEMMA NodesAreNodes ==
    ASSUME NEW sort \in Sorts, NEW n \in NodesOf[sort]
    PROVE  n \in ANode /\ Shape(n)
<1>1. Shape(n)
  BY NodesHaveShape
<1>2. n \in AllNodes
  BY DEF AllNodes
<1>3. n = [type |-> n.type, op |-> n.op, kids |-> n.kids] /\ n.kids \in Kids
  BY <1>1 DEF Shape, OpNode
<1>4. n.type \in {m.type : m \in AllNodes} \cup {"Array"}
  BY <1>2
<1>5. n.op \in {m.op : m \in AllNodes} \cup {"NoOperator"}
  BY <1>2
<1> QED
  BY <1>1, <1>3, <1>4, <1>5 DEF ANode

\* ChildNodes restricts what is below a node when the bound is reached.
LEMMA ChildrenAreNodes ==
    ASSUME NEW sort \in Sorts, NEW n \in ChildNodes(sort)
    PROVE  n \in NodesOf[sort]
BY DEF ChildNodes, SmallNodesOf, NodesOf, Expressions, Statements

\* convertChildren can be called for these.
LEMMA ListsHaveElements ==
    ASSUME NEW n \in ANode, Shape(n), n.type \in WithList \cup {"Clause"}
    PROVE  Elements(n)
<1>1. CASE n.type \in WithList
  BY <1>1 DEF Shape, SimpleShape, Elements, Plain, Has
<1>2. CASE n.type = "Clause"
  BY <1>2 DEF Shape, StatementShape, Elements, Plain, Absent, Has
<1> QED
  BY <1>1, <1>2

LEMMA ElementsOfLists ==
    \A sort \in {"ElementList", "SourceElements", "PropertyList", "DefaultClause", "ClauseList"} :
        /\ ElementsOf(sort)
        /\ \A n \in NodesOf[sort] : n.type = (IF sort = "DefaultClause" THEN "Clause" ELSE sort)
<1> TAKE sort \in {"ElementList", "SourceElements", "PropertyList", "DefaultClause", "ClauseList"}
<1>1. \A n \in NodesOf[sort] : n.type = (IF sort = "DefaultClause" THEN "Clause" ELSE sort)
  BY DEF Node, RawNode, OpNode,
     NodesOf, createElementList, createSourceElements, createPropertyList,
      createDefaultClause, createClauseList
<1>2. sort \in Sorts
  BY SortsAre
<1>3. ASSUME NEW n \in NodesOf[sort]
      PROVE  Elements(n)
  BY <1>1, <1>2, <1>3, NodesAreNodes, ListsHaveElements DEF WithList
<1> QED
  BY <1>1, <1>3 DEF ElementsOf

-----------------------------------------------------------------------------
(* The table of cases: the fields of an object fit the shape of its node.    *)

\* All the fields can be set, and between them they show all the children.
GoodFields(n, made, fields) ==
    /\ fields \in Seq(AField)
    /\ \A j \in 1..Len(fields) : CanSet(n, made, fields[j])
    /\ \A kid \in Present(n) : \/ \E j \in 1..Len(fields) : kid \in Shows(fields[j], n)
                               \/ kid \in LeftOut(n.type)

LEMMA CaseParts ==
    ASSUME NEW type, NEW made, NEW fields
    PROVE  LET c == Case(type, made, fields) IN
           c.type = type /\ c.made = made /\ c.fields = fields
BY DEF Case

LEMMA SetsChild ==
    ASSUME NEW n, NEW made, NEW field \in FieldNames, NEW kid \in {1, 2, 3, 4},
           ~ArrayField(made, field), Absent(n, kid), Has(n, kid) \/ MayBeNull(n.type, field)
    PROVE  /\ CanSet(n, made, child(field, kid)) /\ child(field, kid) \in AField
           /\ Shows(child(field, kid), n) = {kid}
<1> DEFINE f == child(field, kid)
<1>1. f \in AField /\ f.field = field /\ f.how = "node" /\ f.kid = kid
  BY DEF child, Field, AField, Hows
<1> HIDE DEF f
<1>2. CanSet(n, made, f)
  BY <1>1 DEF CanSet, Absent
<1>3. Shows(f, n) = {kid}
  BY <1>1 DEF Shows
<1> QED
  BY <1>1, <1>2, <1>3 DEF f

LEMMA SetsListChild ==
    ASSUME NEW n, NEW made, NEW field \in FieldNames, NEW kid \in {1, 2, 3, 4},
           ArrayField(made, field), Has(n, kid), n.kids[kid] \in ArraySorts
    PROVE  /\ CanSet(n, made, child(field, kid)) /\ child(field, kid) \in AField
           /\ Shows(child(field, kid), n) = {kid}
<1> DEFINE f == child(field, kid)
<1>1. f \in AField /\ f.field = field /\ f.how = "node" /\ f.kid = kid
  BY DEF child, Field, AField, Hows
<1> HIDE DEF f
<1>2. CanSet(n, made, f)
  BY <1>1 DEF CanSet
<1>3. Shows(f, n) = {kid}
  BY <1>1 DEF Shows
<1> QED
  BY <1>1, <1>2, <1>3 DEF f

LEMMA SetsChildren ==
    ASSUME NEW n, NEW made, NEW field \in FieldNames, NEW kid \in {1, 2, 3, 4},
           ArrayField(made, field), Has(n, kid), ElementsOf(n.kids[kid])
    PROVE  /\ CanSet(n, made, children(field, kid)) /\ children(field, kid) \in AField
           /\ Shows(children(field, kid), n) = {kid}
<1> DEFINE f == children(field, kid)
<1>1. f \in AField /\ f.field = field /\ f.how = "children" /\ f.kid = kid
  BY DEF children, Field, AField, Hows
<1> HIDE DEF f
<1>2. CanSet(n, made, f)
  BY <1>1 DEF CanSet
<1>3. Shows(f, n) = {kid}
  BY <1>1 DEF Shows
<1> QED
  BY <1>1, <1>2, <1>3 DEF f

LEMMA SetsAll ==
    ASSUME NEW n, NEW made, NEW field \in FieldNames, ArrayField(made, field), Elements(n)
    PROVE  /\ CanSet(n, made, all(field)) /\ all(field) \in AField
           /\ Shows(all(field), n) = DOMAIN n.kids
<1> DEFINE f == all(field)
<1>1. f \in AField /\ f.field = field /\ f.how = "all"
  BY DEF all, Field, AField, Hows
<1> HIDE DEF f
<1>2. CanSet(n, made, f)
  BY <1>1 DEF CanSet
<1>3. Shows(f, n) = DOMAIN n.kids
  BY <1>1 DEF Shows
<1> QED
  BY <1>1, <1>2, <1>3 DEF f

LEMMA SetsOnTheSpot ==
    ASSUME NEW n, NEW made, NEW field \in FieldNames
    PROVE  /\ ArrayField(made, field) =>
                 CanSet(n, made, empty(field)) /\ empty(field) \in AField
           /\ ~ArrayField(made, field) =>
                 CanSet(n, made, direct(field)) /\ direct(field) \in AField
<1>1. empty(field) \in AField /\ empty(field).field = field /\ empty(field).how = "array"
  BY DEF empty, Field, AField, Hows
<1>2. direct(field) \in AField /\ direct(field).field = field /\ direct(field).how = "object"
  BY DEF direct, Field, AField, Hows
<1> QED
  BY <1>1, <1>2 DEF CanSet

LEMMA SetsOnly ==
    ASSUME NEW n, NEW made, NEW field \in FieldNames, NEW kid \in {1, 2, 3, 4},
           ArrayField(made, field), Absent(n, kid)
    PROVE  /\ CanSet(n, made, only(field, kid)) /\ only(field, kid) \in AField
           /\ Shows(only(field, kid), n) = {kid}
<1> DEFINE f == only(field, kid)
<1>1. f \in AField /\ f.field = field /\ f.how = "only" /\ f.kid = kid
  BY DEF only, Field, AField, Hows
<1> HIDE DEF f
<1>2. CanSet(n, made, f)
  BY <1>1 DEF CanSet
<1>3. Shows(f, n) = {kid}
  BY <1>1 DEF Shows
<1> QED
  BY <1>1, <1>2, <1>3 DEF f

\* Up to four fields, of which each can be set.
LEMMA NoFields ==
    ASSUME NEW n, NEW made, Present(n) \subseteq LeftOut(n.type)
    PROVE  GoodFields(n, made, <<>>)
BY DEF GoodFields

LEMMA OneField ==
    ASSUME NEW n, NEW made, NEW f \in AField, CanSet(n, made, f),
           Present(n) \subseteq Shows(f, n) \cup LeftOut(n.type)
    PROVE  GoodFields(n, made, <<f>>)
BY DEF GoodFields

LEMMA TwoFields ==
    ASSUME NEW n, NEW made, NEW f \in AField, CanSet(n, made, f),
           NEW g \in AField, CanSet(n, made, g),
           Present(n) \subseteq UNION {Shows(f, n), Shows(g, n), LeftOut(n.type)}
    PROVE  GoodFields(n, made, <<f, g>>)
<1> DEFINE s == <<f, g>>
<1>1. s \in Seq(AField) /\ Len(s) = 2 /\ s[1] = f /\ s[2] = g
  OBVIOUS
<1> HIDE DEF s
<1>2. GoodFields(n, made, s)
  BY <1>1 DEF GoodFields
<1> QED
  BY <1>2 DEF s

LEMMA ThreeFields ==
    ASSUME NEW n, NEW made, NEW f \in AField, CanSet(n, made, f),
           NEW g \in AField, CanSet(n, made, g), NEW h \in AField, CanSet(n, made, h),
           Present(n) \subseteq UNION {Shows(f, n), Shows(g, n), Shows(h, n), LeftOut(n.type)}
    PROVE  GoodFields(n, made, <<f, g, h>>)
<1> DEFINE s == <<f, g, h>>
<1>1. s \in Seq(AField) /\ Len(s) = 3 /\ s[1] = f /\ s[2] = g /\ s[3] = h
  OBVIOUS
<1> HIDE DEF s
<1>2. GoodFields(n, made, s)
  BY <1>1 DEF GoodFields
<1> QED
  BY <1>2 DEF s

LEMMA FourFields ==
    ASSUME NEW n, NEW made, NEW f \in AField, CanSet(n, made, f),
           NEW g \in AField, CanSet(n, made, g), NEW h \in AField, CanSet(n, made, h),
           NEW i \in AField, CanSet(n, made, i),
           Present(n) \subseteq UNION {Shows(f, n), Shows(g, n), Shows(h, n), Shows(i, n)}
    PROVE  GoodFields(n, made, <<f, g, h, i>>)
<1> DEFINE s == <<f, g, h, i>>
<1>1. s \in Seq(AField) /\ Len(s) = 4 /\ s[1] = f /\ s[2] = g /\ s[3] = h /\ s[4] = i
  OBVIOUS
<1> HIDE DEF s
<1>2. GoodFields(n, made, s)
  BY <1>1 DEF GoodFields
<1> QED
  BY <1>2 DEF s

LEMMA PresentKids ==
    ASSUME NEW n, n.kids \in Kids
    PROVE  /\ Present(n) \subseteq 1..Len(n.kids) /\ DOMAIN n.kids = 1..Len(n.kids)
           /\ Len(n.kids) \in Nat
           /\ Len(n.kids) = 0 => Present(n) = {}
           /\ Len(n.kids) = 1 => Present(n) \subseteq {1}
           /\ Len(n.kids) = 2 => Present(n) \subseteq {1, 2}
           /\ Len(n.kids) \in {2, 3} => Present(n) \subseteq {1, 2, 3}
           /\ Len(n.kids) = 4 => Present(n) \subseteq {1, 2, 3, 4}
<1>1. /\ Present(n) \subseteq 1..Len(n.kids) /\ DOMAIN n.kids = 1..Len(n.kids)
      /\ Len(n.kids) \in Nat
  BY DEF Kids, Present
<1>2. 1..0 = {} /\ 1..1 = {1} /\ 1..2 = {1, 2} /\ 1..3 = {1, 2, 3} /\ 1..4 = {1, 2, 3, 4}
  OBVIOUS
<1> QED
  BY <1>1, <1>2

LEMMA NoChildren ==
    ASSUME NEW n, NEW made, Shape(n), n.type \in Childless
    PROVE  GoodFields(n, made, <<>>)
<1>1. n.kids = <<>> /\ n.kids \in Kids
  BY DEF Shape, SimpleShape
<1>2. Present(n) = {}
  BY <1>1, PresentKids
<1> QED
  BY <1>2, NoFields

LEMMA OneChild ==
    ASSUME NEW n, NEW made, Shape(n), n.type \in WithOne,
           NEW a \in FieldNames, ~ArrayField(made, a), NEW b \in FieldNames, ~ArrayField(made, b)
    PROVE  /\ GoodFields(n, made, <<child(a, 1)>>)
           /\ GoodFields(n, made, <<child(a, 1), direct(b)>>)
           /\ GoodFields(n, made, <<direct(b), child(a, 1)>>)
<1>1. Len(n.kids) = 1 /\ Plain(n, 1) /\ n.kids \in Kids
  BY DEF Shape, SimpleShape
<1>2. Present(n) \subseteq {1}
  BY <1>1, PresentKids
<1>3. CanSet(n, made, child(a, 1)) /\ child(a, 1) \in AField /\ Shows(child(a, 1), n) = {1}
  BY <1>1, SetsChild DEF Plain, Absent
<1>4. CanSet(n, made, direct(b)) /\ direct(b) \in AField
  BY SetsOnTheSpot
<1>5. GoodFields(n, made, <<child(a, 1)>>)
  BY <1>2, <1>3, OneField
<1>6. GoodFields(n, made, <<child(a, 1), direct(b)>>)
  BY <1>2, <1>3, <1>4, TwoFields
<1>7. GoodFields(n, made, <<direct(b), child(a, 1)>>)
  BY <1>2, <1>3, <1>4, TwoFields
<1> QED
  BY <1>5, <1>6, <1>7

LEMMA TwoChildren ==
    ASSUME NEW n, NEW made, Shape(n), n.type \in WithTwo,
           NEW a \in FieldNames, ~ArrayField(made, a), NEW b \in FieldNames, ~ArrayField(made, b)
    PROVE  GoodFields(n, made, <<child(a, 1), child(b, 2)>>)
<1>1. Len(n.kids) = 2 /\ Plain(n, 1) /\ Plain(n, 2) /\ n.kids \in Kids
  BY DEF Shape, SimpleShape
<1>2. Present(n) \subseteq {1, 2}
  BY <1>1, PresentKids
<1>3. CanSet(n, made, child(a, 1)) /\ child(a, 1) \in AField /\ Shows(child(a, 1), n) = {1}
  BY <1>1, SetsChild DEF Plain, Absent
<1>4. CanSet(n, made, child(b, 2)) /\ child(b, 2) \in AField /\ Shows(child(b, 2), n) = {2}
  BY <1>1, SetsChild DEF Plain, Absent
<1> QED
  BY <1>2, <1>3, <1>4, TwoFields

LEMMA CallFields ==
    ASSUME NEW n, NEW made, Shape(n), n.type \in WithCall
    PROVE  GoodFields(n, made, <<child("callee", 1), child("arguments", 2)>>)
<1>1. Len(n.kids) = 2 /\ Plain(n, 1) /\ n.kids[2] = "Arguments" /\ n.kids \in Kids
  BY DEF Shape, SimpleShape
<1>2. Present(n) \subseteq {1, 2}
  BY <1>1, PresentKids
<1>3. ~ArrayField(made, "callee") /\ ArrayField(made, "arguments")
      /\ "callee" \in FieldNames /\ "arguments" \in FieldNames
  BY DEF ArrayField, ArrayFields, FieldNames
<1>4. Has(n, 2) /\ n.kids[2] \in ArraySorts
  BY <1>1 DEF Has, ArraySorts
<1>5. CanSet(n, made, child("callee", 1)) /\ child("callee", 1) \in AField
      /\ Shows(child("callee", 1), n) = {1}
  BY <1>1, <1>3, SetsChild DEF Plain, Absent
<1>6. CanSet(n, made, child("arguments", 2)) /\ child("arguments", 2) \in AField
      /\ Shows(child("arguments", 2), n) = {2}
  BY <1>3, <1>4, SetsListChild
<1> QED
  BY <1>2, <1>5, <1>6, TwoFields

LEMMA AllFields ==
    ASSUME NEW n \in ANode, NEW made, Shape(n), n.type \in WithList,
           NEW a \in FieldNames, ArrayField(made, a)
    PROVE  GoodFields(n, made, <<all(a)>>)
<1>1. Elements(n)
  BY ListsHaveElements
<1>2. CanSet(n, made, all(a)) /\ all(a) \in AField /\ Shows(all(a), n) = DOMAIN n.kids
  BY <1>1, SetsAll
<1> QED
  BY <1>2, OneField DEF Present

LEMMA ConditionalFields ==
    ASSUME NEW n, NEW made, made # "SwitchCase", Shape(n),
           n.type \in {"ConditionalExpression", "IfStatement"}
    PROVE  GoodFields(n, made, <<child("test", 1), child("consequent", 2), child("alternate", 3)>>)
<1> DEFINE f == child("test", 1)
           g == child("consequent", 2)
           h == child("alternate", 3)
<1>1. /\ Len(n.kids) \in {2, 3} /\ Plain(n, 1) /\ Plain(n, 2) /\ Absent(n, 3) /\ n.kids \in Kids
      /\ Has(n, 3) \/ n.type = "IfStatement"
  BY DEF Shape, SimpleShape, StatementShape, Plain, Absent
<1>2. Present(n) \subseteq {1, 2, 3}
  BY <1>1, PresentKids
<1>3. MayBeNull("IfStatement", "alternate")
  BY DEF MayBeNull, OptionalFields
<1>4. f \in AField /\ CanSet(n, made, f) /\ Shows(f, n) = {1}
  <2>1. ~ArrayField(made, "test") /\ "test" \in FieldNames
    BY DEF ArrayField, ArrayFields, FieldNames
  <2> QED
    BY <1>1, <2>1, SetsChild DEF Plain, Absent
<1>5. g \in AField /\ CanSet(n, made, g) /\ Shows(g, n) = {2}
  <2>1. ~ArrayField(made, "consequent") /\ "consequent" \in FieldNames
    BY DEF ArrayField, ArrayFields, FieldNames
  <2> QED
    BY <1>1, <2>1, SetsChild DEF Plain, Absent
<1>6. h \in AField /\ CanSet(n, made, h) /\ Shows(h, n) = {3}
  <2>1. ~ArrayField(made, "alternate") /\ "alternate" \in FieldNames
    BY DEF ArrayField, ArrayFields, FieldNames
  <2>2. Has(n, 3) \/ MayBeNull(n.type, "alternate")
    BY <1>1, <1>3
  <2> QED
    BY <1>1, <2>1, <2>2, SetsChild
<1> HIDE DEF f, g, h
<1> QED
  BY <1>2, <1>4, <1>5, <1>6, ThreeFields DEF f, g, h

LEMMA ShortConcats ==
    ASSUME NEW a, NEW b, NEW c
    PROVE  /\ <<a>> \o <<>> = <<a>> /\ <<a>> \o <<b>> = <<a, b>>
           /\ <<>> \o <<a, b>> = <<a, b>> /\ <<a>> \o <<b, c>> = <<a, b, c>>
<1>1. <<a>> \in Seq({a, b}) /\ <<a, b>> \in Seq({a, b})
  OBVIOUS
<1>2. <<a>> \o <<>> = <<a>> /\ <<>> \o <<a, b>> = <<a, b>>
  BY <1>1, ConcatEmptySeq
<1>3. <<a>> \o <<b>> = <<a, b>>
  <2> DEFINE s == <<a>> \o <<b>>
  <2>1. /\ s \in Seq({a, b, c}) /\ <<a, b>> \in Seq({a, b, c})
        /\ Len(s) = 2 /\ s[1] = a /\ s[2] = b
    OBVIOUS
  <2> HIDE DEF s
  <2>2. s = <<a, b>>
    BY <2>1, SeqEqual
  <2> QED
    BY <2>2 DEF s
<1>4. <<a>> \o <<b, c>> = <<a, b, c>>
  <2> DEFINE s == <<a>> \o <<b, c>>
  <2>1. /\ s \in Seq({a, b, c}) /\ <<a, b, c>> \in Seq({a, b, c})
        /\ Len(s) = 3 /\ s[1] = a /\ s[2] = b /\ s[3] = c
    OBVIOUS
  <2> HIDE DEF s
  <2>2. s = <<a, b, c>>
    BY <2>1, SeqEqual
  <2> QED
    BY <2>2 DEF s
<1> QED
  BY <1>2, <1>3, <1>4

\* The one child is left out.
LEMMA ReturnFields ==
    ASSUME NEW n, NEW made, Shape(n), n.type \in {"ReturnStatement", "Void"}
    PROVE  GoodFields(n, made, <<child("argument", 1)>>)
<1>1. Len(n.kids) \in {0, 1} /\ Absent(n, 1) /\ n.kids \in Kids
  BY DEF Shape, SimpleShape, StatementShape, Childless, Absent, Has
<1>2. Present(n) \subseteq {1}
  BY <1>1, PresentKids
<1>3. MayBeNull(n.type, "argument")
  BY DEF MayBeNull, OptionalFields
<1>4. ~ArrayField(made, "argument") /\ "argument" \in FieldNames
  BY DEF ArrayField, ArrayFields, FieldNames
<1>5. child("argument", 1) \in AField /\ CanSet(n, made, child("argument", 1))
      /\ Shows(child("argument", 1), n) = {1}
  BY <1>1, <1>3, <1>4, SetsChild
<1> QED
  BY <1>2, <1>5, OneField

LEMMA TryFields ==
    ASSUME NEW n, NEW made, Shape(n), n.type = "TryStatement"
    PROVE  GoodFields(n, made, <<child("block", 1), child("handler", 2), child("finalizer", 3)>>)
<1> DEFINE f == child("block", 1)
           g == child("handler", 2)
           h == child("finalizer", 3)
<1>1. Len(n.kids) = 3 /\ Plain(n, 1) /\ Absent(n, 2) /\ Absent(n, 3) /\ n.kids \in Kids
  BY DEF Shape, StatementShape
<1>2. Present(n) \subseteq {1, 2, 3}
  BY <1>1, PresentKids
<1>3. MayBeNull(n.type, "handler") /\ MayBeNull(n.type, "finalizer")
  BY DEF MayBeNull, OptionalFields
<1>4. /\ ~ArrayField(made, "block") /\ "block" \in FieldNames
      /\ ~ArrayField(made, "handler") /\ "handler" \in FieldNames
      /\ ~ArrayField(made, "finalizer") /\ "finalizer" \in FieldNames
  BY DEF ArrayField, ArrayFields, FieldNames
<1>5. f \in AField /\ CanSet(n, made, f) /\ Shows(f, n) = {1}
  BY <1>1, <1>4, SetsChild DEF Plain, Absent
<1>6. g \in AField /\ CanSet(n, made, g) /\ Shows(g, n) = {2}
  BY <1>1, <1>3, <1>4, SetsChild
<1>7. h \in AField /\ CanSet(n, made, h) /\ Shows(h, n) = {3}
  BY <1>1, <1>3, <1>4, SetsChild
<1> HIDE DEF f, g, h
<1> QED
  BY <1>2, <1>5, <1>6, <1>7, ThreeFields DEF f, g, h

LEMMA ForFields ==
    ASSUME NEW n, NEW made, made \notin {"Program", "BlockStatement"}, Shape(n),
           n.type = "ForLoop"
    PROVE  GoodFields(n, made,
               <<child("init", 1), child("test", 2), child("update", 3), child("body", 4)>>)
<1> DEFINE f == child("init", 1)
           g == child("test", 2)
           h == child("update", 3)
           i == child("body", 4)
<1>1. /\ Len(n.kids) = 4 /\ Absent(n, 1) /\ Absent(n, 2) /\ Absent(n, 3) /\ Plain(n, 4)
      /\ n.kids \in Kids
  BY DEF Shape, StatementShape
<1>2. Present(n) \subseteq {1, 2, 3, 4}
  BY <1>1, PresentKids
<1>3. MayBeNull(n.type, "init") /\ MayBeNull(n.type, "test") /\ MayBeNull(n.type, "update")
  BY DEF MayBeNull, OptionalFields
<1>4. /\ ~ArrayField(made, "init") /\ "init" \in FieldNames
      /\ ~ArrayField(made, "test") /\ "test" \in FieldNames
      /\ ~ArrayField(made, "update") /\ "update" \in FieldNames
      /\ ~ArrayField(made, "body") /\ "body" \in FieldNames
  BY DEF ArrayField, ArrayFields, FieldNames
<1>5. f \in AField /\ CanSet(n, made, f) /\ Shows(f, n) = {1}
  BY <1>1, <1>3, <1>4, SetsChild
<1>6. g \in AField /\ CanSet(n, made, g) /\ Shows(g, n) = {2}
  BY <1>1, <1>3, <1>4, SetsChild
<1>7. h \in AField /\ CanSet(n, made, h) /\ Shows(h, n) = {3}
  BY <1>1, <1>3, <1>4, SetsChild
<1>8. i \in AField /\ CanSet(n, made, i) /\ Shows(i, n) = {4}
  BY <1>1, <1>4, SetsChild DEF Plain, Absent
<1> HIDE DEF f, g, h, i
<1> QED
  BY <1>2, <1>5, <1>6, <1>7, <1>8, FourFields DEF f, g, h, i

\* The left side of for-in is set only if the initializer is missing, and then
\* to an object made on the spot.
LEMMA ForInFields ==
    ASSUME NEW n, Shape(n), n.type = "ForInLoop"
    PROVE  GoodFields(n, "ForInStatement", convertForIn(n).fields)
<1> DEFINE made == "ForInStatement"
           f == direct("left")
           g == child("right", 2)
           h == child("body", 3)
<1>1. Len(n.kids) = 3 /\ Absent(n, 1) /\ Plain(n, 2) /\ Plain(n, 3) /\ n.kids \in Kids
  BY DEF Shape, StatementShape
<1>2. Present(n) \subseteq {1, 2, 3} /\ LeftOut(n.type) = {1}
  BY <1>1, PresentKids DEF LeftOut
<1>3. /\ ~ArrayField(made, "left") /\ "left" \in FieldNames
      /\ ~ArrayField(made, "right") /\ "right" \in FieldNames
      /\ ~ArrayField(made, "body") /\ "body" \in FieldNames
  BY DEF ArrayField, ArrayFields, FieldNames
<1>4. f \in AField /\ CanSet(n, made, f)
  BY <1>3, SetsOnTheSpot
<1>5. g \in AField /\ CanSet(n, made, g) /\ Shows(g, n) = {2}
  BY <1>1, <1>3, SetsChild DEF Plain, Absent
<1>6. h \in AField /\ CanSet(n, made, h) /\ Shows(h, n) = {3}
  BY <1>1, <1>3, SetsChild DEF Plain, Absent
<1>7. convertForIn(n).fields \in {<<g, h>>, <<f, g, h>>}
  <2>1. convertForIn(n).fields = (IF Has(n, 1) THEN <<>> ELSE <<f>>) \o <<g, h>>
    BY Zenon DEF convertForIn, Case
  <2> HIDE DEF f, g, h
  <2> QED
    BY <2>1, ShortConcats
<1> HIDE DEF f, g, h, made
<1>8. GoodFields(n, made, <<g, h>>)
  BY <1>2, <1>5, <1>6, TwoFields
<1>9. GoodFields(n, made, <<f, g, h>>)
  BY <1>2, <1>4, <1>5, <1>6, ThreeFields
<1> QED
  BY <1>7, <1>8, <1>9 DEF made

LEMMA SwitchFields ==
    ASSUME NEW n, Shape(n), n.type = "SwitchStatement"
    PROVE  GoodFields(n, "SwitchStatement", convertSwitch(n).fields)
<1> DEFINE made == "SwitchStatement"
           f == child("discriminant", 1)
           g == fold("cases", 2)
           h == children("cases", 3)
<1>1. /\ Len(n.kids) = 4 /\ Plain(n, 1) /\ n.kids \in Kids
      /\ n.kids[2] \in {"null", "ClauseList"} /\ n.kids[3] \in {"null", "DefaultClause"}
  BY DEF Shape, StatementShape
<1>2. Present(n) \subseteq {1, 2, 3, 4} /\ LeftOut(n.type) = {4}
  BY <1>1, PresentKids DEF LeftOut
<1>3. /\ ~ArrayField(made, "discriminant") /\ "discriminant" \in FieldNames
      /\ ArrayField(made, "cases") /\ "cases" \in FieldNames
  BY DEF ArrayField, ArrayFields, FieldNames
<1>4. f \in AField /\ CanSet(n, made, f) /\ Shows(f, n) = {1}
  BY <1>1, <1>3, SetsChild DEF Plain, Absent
<1>5. ASSUME Has(n, 2)
      PROVE  g \in AField /\ CanSet(n, made, g) /\ Shows(g, n) = {2, 3}
  <2>1. g \in AField /\ g.field = "cases" /\ g.how = "fold" /\ g.kid = 2
    BY <1>3 DEF fold, Field, AField, Hows
  <2> HIDE DEF g
  <2>2. CanSet(n, made, g)
    BY <1>1, <1>3, <1>5, <2>1 DEF CanSet, Has
  <2>3. Shows(g, n) = {2, 3}
    BY <2>1 DEF Shows
  <2> QED
    BY <2>1, <2>2, <2>3
<1>6. ASSUME ~Has(n, 2), Has(n, 3)
      PROVE  h \in AField /\ CanSet(n, made, h) /\ Shows(h, n) = {3} /\ 2 \notin Present(n)
  <2>1. n.kids[3] = "DefaultClause" /\ ElementsOf("DefaultClause")
    BY <1>1, <1>6, ElementsOfLists DEF Has
  <2>2. h \in AField /\ CanSet(n, made, h) /\ Shows(h, n) = {3}
    BY <1>3, <1>6, <2>1, SetsChildren
  <2>3. 2 \notin Present(n)
    BY <1>1, <1>6 DEF Present, Has
  <2> QED
    BY <2>2, <2>3
<1>7. ASSUME ~Has(n, 2), ~Has(n, 3)
      PROVE  2 \notin Present(n) /\ 3 \notin Present(n)
  BY <1>1, <1>7 DEF Present, Has
<1>8. convertSwitch(n).fields =
         <<f>> \o (IF Has(n, 2) THEN <<g>> ELSE IF Has(n, 3) THEN <<h>> ELSE <<>>)
  BY Zenon DEF convertSwitch, Case
<1> HIDE DEF f, g, h, made
<1>9. CASE Has(n, 2)
  <2>1. convertSwitch(n).fields = <<f, g>>
    BY <1>8, <1>9, ShortConcats
  <2> QED
    BY <1>2, <1>4, <1>5, <1>9, <2>1, TwoFields DEF made
<1>10. CASE ~Has(n, 2) /\ Has(n, 3)
  <2>1. convertSwitch(n).fields = <<f, h>>
    BY <1>8, <1>10, ShortConcats
  <2> QED
    BY <1>2, <1>4, <1>6, <1>10, <2>1, TwoFields DEF made
<1>11. CASE ~Has(n, 2) /\ ~Has(n, 3)
  <2>1. convertSwitch(n).fields = <<f>>
    BY <1>8, <1>11, ShortConcats
  <2> QED
    BY <1>2, <1>4, <1>7, <1>11, <2>1, OneField DEF made
<1> QED
  BY <1>9, <1>10, <1>11

LEMMA ClauseFields ==
    ASSUME NEW n, Shape(n), n.type = "Clause"
    PROVE  GoodFields(n, "SwitchCase", <<only("consequent", 2), child("test", 1)>>)
<1> DEFINE made == "SwitchCase"
           f == only("consequent", 2)
           g == child("test", 1)
<1>1. Len(n.kids) = 2 /\ Absent(n, 1) /\ Plain(n, 2) /\ n.kids \in Kids
  BY DEF Shape, StatementShape
<1>2. Present(n) \subseteq {1, 2}
  BY <1>1, PresentKids
<1>3. MayBeNull(n.type, "test")
  BY DEF MayBeNull, OptionalFields
<1>4. /\ ArrayField(made, "consequent") /\ "consequent" \in FieldNames
      /\ ~ArrayField(made, "test") /\ "test" \in FieldNames
  BY DEF ArrayField, ArrayFields, FieldNames
<1>5. f \in AField /\ CanSet(n, made, f) /\ Shows(f, n) = {2}
  BY <1>1, <1>4, SetsOnly DEF Plain, Absent
<1>6. g \in AField /\ CanSet(n, made, g) /\ Shows(g, n) = {1}
  BY <1>1, <1>3, <1>4, SetsChild
<1> HIDE DEF f, g, made
<1>7. GoodFields(n, made, <<f, g>>)
  BY <1>2, <1>5, <1>6, TwoFields
<1> QED
  BY <1>7 DEF f, g, made

\* An array literal, a block and an object literal with or without a list.
LEMMA ArrayLiteralFields ==
    ASSUME NEW n, Shape(n), n.type = "Array"
    PROVE  GoodFields(n, "ArrayExpression", convertArray(n).fields)
<1> DEFINE made == "ArrayExpression"
           f == children("elements", 1)
           g == empty("elements")
<1>1. n.kids = <<>> \/ n.kids = <<"ElementList">>
  BY DEF Shape, OtherShape
<1>2. Present(n) \subseteq {1} /\ (n.kids = <<>> => Present(n) = {})
  BY PresentKids DEF Shape, OtherShape
<1>3. ArrayField(made, "elements") /\ "elements" \in FieldNames
  BY DEF ArrayField, ArrayFields, FieldNames
<1>4. ASSUME n.kids # <<>>
      PROVE  f \in AField /\ CanSet(n, made, f) /\ Shows(f, n) = {1}
  <2>1. Has(n, 1) /\ ElementsOf(n.kids[1])
    BY <1>1, <1>4, ElementsOfLists DEF Has
  <2> QED
    BY <1>3, <2>1, SetsChildren
<1>5. g \in AField /\ CanSet(n, made, g)
  BY <1>3, SetsOnTheSpot
<1>6. convertArray(n).fields = <<IF Len(n.kids) > 0 THEN f ELSE g>>
  BY Zenon DEF convertArray, Case
<1>7. Len(n.kids) > 0 <=> n.kids # <<>>
  BY <1>1
<1> HIDE DEF f, g, made
<1>8. CASE n.kids # <<>>
  <2>1. convertArray(n).fields = <<f>>
    BY <1>6, <1>7, <1>8
  <2> QED
    BY <1>2, <1>4, <1>8, <2>1, OneField DEF made
<1>9. CASE n.kids = <<>>
  <2>1. convertArray(n).fields = <<g>>
    BY <1>6, <1>7, <1>9
  <2> QED
    BY <1>2, <1>5, <1>9, <2>1, OneField DEF made
<1> QED
  BY <1>8, <1>9

LEMMA BlockFields ==
    ASSUME NEW n, Shape(n), n.type = "BlockStatement"
    PROVE  GoodFields(n, "BlockStatement", convertBlock(n).fields)
<1> DEFINE made == "BlockStatement"
           f == children("body", 1)
           g == empty("body")
           b == Len(n.kids) = 1 /\ n.kids[1] = "SourceElements"
<1>1. n.kids = <<"null">> \/ n.kids = <<"SourceElements">>
  BY DEF Shape, OtherShape
<1>2. Len(n.kids) = 1 /\ n.kids[1] \in {"null", "SourceElements"} /\ n.kids \in Kids
  BY <1>1 DEF Shape
<1>3. Present(n) \subseteq {1} /\ (n.kids[1] = "null" => Present(n) = {})
  <2>1. Present(n) \subseteq {1}
    BY <1>2, PresentKids
  <2> QED
    BY <2>1 DEF Present
<1>4. ArrayField(made, "body") /\ "body" \in FieldNames
  BY DEF ArrayField, ArrayFields, FieldNames
<1>5. ASSUME b
      PROVE  f \in AField /\ CanSet(n, made, f) /\ Shows(f, n) = {1}
  <2>1. Has(n, 1) /\ ElementsOf(n.kids[1])
    BY <1>5, ElementsOfLists DEF Has
  <2> QED
    BY <1>4, <2>1, SetsChildren
<1>6. g \in AField /\ CanSet(n, made, g)
  BY <1>4, SetsOnTheSpot
<1>7. convertBlock(n).fields = <<IF b THEN f ELSE g>>
  BY Zenon DEF convertBlock, Case
<1>8. ~b => n.kids[1] = "null"
  BY <1>2
<1> HIDE DEF f, g, made, b
<1>9. CASE b
  <2>1. convertBlock(n).fields = <<f>>
    BY <1>7, <1>9
  <2> QED
    BY <1>3, <1>5, <1>9, <2>1, OneField DEF made
<1>10. CASE ~b
  <2>1. convertBlock(n).fields = <<g>>
    BY <1>7, <1>10
  <2> QED
    BY <1>3, <1>6, <1>8, <1>10, <2>1, OneField DEF made
<1> QED
  BY <1>9, <1>10

LEMMA ObjectLiteralFields ==
    ASSUME NEW n \in ANode, Shape(n), n.type = "ObjectLiteral"
    PROVE  GoodFields(n, "ObjectExpression", convertObject(n).fields)
<1> DEFINE made == "ObjectExpression"
           f == children("properties", 1)
           g == all("properties")
           b == Has(n, 1) /\ n.kids[1] = "PropertyList"
<1>1. n.kids = <<>> \/ n.kids = <<"PropertyList">>
  BY DEF Shape, OtherShape
<1>2. Present(n) \subseteq {1} /\ (n.kids = <<>> => Present(n) = {})
  BY PresentKids DEF Shape, OtherShape
<1>3. ArrayField(made, "properties") /\ "properties" \in FieldNames
  BY DEF ArrayField, ArrayFields, FieldNames
<1>4. b \/ n.kids = <<>>
  BY <1>1 DEF Has
<1>5. ASSUME b
      PROVE  f \in AField /\ CanSet(n, made, f) /\ Shows(f, n) = {1}
  <2>1. Has(n, 1) /\ ElementsOf(n.kids[1])
    BY <1>5, ElementsOfLists
  <2> QED
    BY <1>3, <2>1, SetsChildren
<1>6. ASSUME n.kids = <<>>
      PROVE  g \in AField /\ CanSet(n, made, g)
  <2>1. Elements(n)
    BY <1>6 DEF Elements
  <2> QED
    BY <1>3, <2>1, SetsAll
<1>7. convertObject(n).fields = <<IF b THEN f ELSE g>>
  BY Zenon DEF convertObject, Case
<1> HIDE DEF f, g, made, b
<1>8. CASE b
  <2>1. convertObject(n).fields = <<f>>
    BY <1>7, <1>8
  <2> QED
    BY <1>2, <1>5, <1>8, <2>1, OneField DEF made
<1>9. CASE ~b
  <2>1. convertObject(n).fields = <<g>>
    BY <1>7, <1>9
  <2> QED
    BY <1>2, <1>4, <1>6, <1>9, <2>1, OneField DEF made
<1> QED
  BY <1>8, <1>9

\* A function without parameters gets an empty array for them.
LEMMA FunctionFields ==
    ASSUME NEW n, Shape(n), n.type \in WithFunction
    PROVE  GoodFields(n, "FunctionExpression", convertFunction(n, n.type).fields)
<1> DEFINE made == "FunctionExpression"
           f == child("params", 1)
           g == empty("params")
           h == child("body", 2)
<1>1. /\ Len(n.kids) = 2 /\ n.kids[2] = "FunctionBody"
      /\ n.kids[1] \in {"null", "FormalParameterList"} /\ n.kids \in Kids
  BY DEF Shape, OtherShape
<1>2. Present(n) \subseteq {1, 2} /\ (~Has(n, 1) => Present(n) \subseteq {2})
  <2>1. Present(n) \subseteq {1, 2}
    BY <1>1, PresentKids
  <2> QED
    BY <1>1, <2>1 DEF Present, Has
<1>3. /\ ArrayField(made, "params") /\ "params" \in FieldNames
      /\ ~ArrayField(made, "body") /\ "body" \in FieldNames
  BY DEF ArrayField, ArrayFields, FieldNames
<1>4. ASSUME Has(n, 1)
      PROVE  f \in AField /\ CanSet(n, made, f) /\ Shows(f, n) = {1}
  <2>1. n.kids[1] \in ArraySorts
    BY <1>1, <1>4 DEF Has, ArraySorts
  <2> QED
    BY <1>3, <1>4, <2>1, SetsListChild
<1>5. g \in AField /\ CanSet(n, made, g)
  BY <1>3, SetsOnTheSpot
<1>6. h \in AField /\ CanSet(n, made, h) /\ Shows(h, n) = {2}
  <2>1. Plain(n, 2)
    BY <1>1 DEF Plain, Has, ArraySorts
  <2> QED
    BY <1>3, <2>1, SetsChild DEF Plain, Absent
<1>7. convertFunction(n, n.type).fields = <<IF Has(n, 1) THEN f ELSE g, h>>
  BY Zenon DEF convertFunction, Case
<1> HIDE DEF f, g, h, made
<1>8. CASE Has(n, 1)
  <2>1. convertFunction(n, n.type).fields = <<f, h>>
    BY <1>7, <1>8
  <2> QED
    BY <1>2, <1>4, <1>6, <1>8, <2>1, TwoFields DEF made
<1>9. CASE ~Has(n, 1)
  <2>1. convertFunction(n, n.type).fields = <<g, h>>
    BY <1>7, <1>9
  <2> QED
    BY <1>2, <1>5, <1>6, <1>9, <2>1, TwoFields DEF made
<1> QED
  BY <1>8, <1>9

\* What convertNode does next with a node that becomes an object.
GoodCase(n, indent, c) ==
    /\ c.made \notin {"call", "Array"} /\ n.type \notin ArrayTypes
    /\ indent > 0 => c.made # "Program"
    /\ indent = 0 /\ n.type = "SourceElements" =>
          c.made = "Program" /\ c.fields = <<all("body")>>
    /\ GoodFields(n, c.made, c.fields)

LEMMA GoodCaseOf ==
    ASSUME NEW n, NEW indent, NEW made, NEW fields, GoodFields(n, made, fields),
           made \notin {"call", "Array", "Program"},
           n.type \notin ArrayTypes, n.type # "SourceElements"
    PROVE  GoodCase(n, indent, Case(n.type, made, fields))
<1> DEFINE c == Case(n.type, made, fields)
<1>1. c.made = made /\ c.fields = fields
  BY CaseParts
<1> HIDE DEF c
<1>2. GoodCase(n, indent, c)
  BY <1>1 DEF GoodCase
<1> QED
  BY <1>2 DEF c

ObjectFields == FieldNames \ ArrayFields

LEMMA ObjectFieldsAreNoArrays ==
    ASSUME NEW made, made \notin {"Program", "BlockStatement", "SwitchCase"}, NEW a \in ObjectFields
    PROVE  a \in FieldNames /\ ~ArrayField(made, a)
BY DEF ObjectFields, ArrayField

LEMMA NotArrays ==
    \A type \in UNION {Childless, WithOne, WithTwo, WithCall, WithFunction,
                       {"Comma", "VariableDeclaration", "ConditionalExpression", "IfStatement",
                        "ReturnStatement", "TryStatement", "ForInLoop", "ForLoop",
                        "SwitchStatement", "Clause", "Array", "BlockStatement",
                        "ObjectLiteral"}} :
        type \notin ArrayTypes /\ type # "SourceElements"
BY DEF Childless, WithOne, WithTwo, WithCall, WithFunction, ArrayTypes, ListTypes

\* The cases that set no field, one, and two, of the same kind of node.
LEMMA LiteralCase ==
    ASSUME NEW n, NEW indent, Shape(n), NEW c, NEW made, made \notin {"call", "Array", "Program"},
           NEW type \in Childless, c = Case(type, made, <<>>), c.type = n.type
    PROVE  GoodCase(n, indent, c)
<1>1. n.type = type
  BY CaseParts
<1> QED
  BY <1>1, NoChildren, NotArrays, GoodCaseOf

LEMMA OneChildCase ==
    ASSUME NEW n, NEW indent, Shape(n), NEW c,
           NEW made, made \notin {"call", "Array", "Program", "BlockStatement", "SwitchCase"},
           NEW a \in ObjectFields,
           NEW type \in WithOne, c.type = n.type,
           c = Case(type, made, <<child(a, 1)>>)
    PROVE  GoodCase(n, indent, c)
<1>0. n.type = type
  BY CaseParts
<1>1. n.type \notin ArrayTypes /\ n.type # "SourceElements"
  BY <1>0, NotArrays
<1>2. a \in FieldNames /\ ~ArrayField(made, a)
  BY ObjectFieldsAreNoArrays
<1>3. GoodFields(n, made, <<child(a, 1)>>)
  BY <1>0, <1>2, OneChild
<1> QED
  BY <1>0, <1>1, <1>3, GoodCaseOf

LEMMA ChildAndDirectCase ==
    ASSUME NEW n, NEW indent, Shape(n), NEW c,
           NEW made, made \notin {"call", "Array", "Program", "BlockStatement", "SwitchCase"},
           NEW a \in ObjectFields, NEW b \in ObjectFields,
           NEW type \in WithOne, c.type = n.type,
           \/ c = Case(type, made, <<child(a, 1), direct(b)>>)
           \/ c = Case(type, made, <<direct(b), child(a, 1)>>)
    PROVE  GoodCase(n, indent, c)
<1>0. n.type = type
  BY CaseParts
<1>1. n.type \notin ArrayTypes /\ n.type # "SourceElements"
  BY <1>0, NotArrays
<1>2. a \in FieldNames /\ b \in FieldNames /\ ~ArrayField(made, a) /\ ~ArrayField(made, b)
  BY ObjectFieldsAreNoArrays
<1>3. /\ GoodFields(n, made, <<child(a, 1), direct(b)>>)
      /\ GoodFields(n, made, <<direct(b), child(a, 1)>>)
  BY <1>0, <1>2, OneChild
<1> QED
  BY <1>0, <1>1, <1>3, GoodCaseOf

LEMMA TwoChildrenCase ==
    ASSUME NEW n, NEW indent, Shape(n), NEW c,
           NEW made, made \notin {"call", "Array", "Program", "BlockStatement", "SwitchCase"},
           NEW a \in ObjectFields, NEW b \in ObjectFields,
           NEW type \in WithTwo, c.type = n.type, c = Case(type, made, <<child(a, 1), child(b, 2)>>)
    PROVE  GoodCase(n, indent, c)
<1>0. n.type = type
  BY CaseParts
<1>1. n.type \notin ArrayTypes /\ n.type # "SourceElements"
  BY <1>0, NotArrays
<1>2. a \in FieldNames /\ b \in FieldNames /\ ~ArrayField(made, a) /\ ~ArrayField(made, b)
  BY ObjectFieldsAreNoArrays
<1>3. GoodFields(n, made, <<child(a, 1), child(b, 2)>>)
  BY <1>0, <1>2, TwoChildren
<1> QED
  BY <1>0, <1>1, <1>3, GoodCaseOf

LEMMA AToDIsGood ==
    ASSUME NEW n \in ANode, NEW indent, Shape(n), NEW c \in CasesAToD, c.type = n.type
    PROVE  GoodCase(n, indent, c)
<1>1. CASE c = Case("AssignmentExpression", "AssignmentExpression",
                   <<child("left", 1), child("right", 2)>>)
  BY <1>1, TwoChildrenCase DEF WithTwo, ObjectFields, FieldNames, ArrayFields
<1>2. CASE c = Case("BinaryExpression", "BinaryExpression",
                   <<child("left", 1), child("right", 2)>>)
  BY <1>2, TwoChildrenCase DEF WithTwo, ObjectFields, FieldNames, ArrayFields
<1>3. CASE c = Case("BooleanExpression", "Literal", <<>>)
  BY <1>3, LiteralCase DEF Childless
<1>4. CASE c = Case("BracketAccess", "MemberExpression",
                   <<child("object", 1), child("property", 2)>>)
  BY <1>4, TwoChildrenCase DEF WithTwo, ObjectFields, FieldNames, ArrayFields
<1>5. CASE c = Case("BreakStatement", "BreakStatement", <<>>)
  BY <1>5, LiteralCase DEF Childless
<1>6. CASE c = Case("Clause", "SwitchCase", <<only("consequent", 2), child("test", 1)>>)
  <2>1. n.type = "Clause"
    BY <1>6, CaseParts
  <2>2. GoodFields(n, "SwitchCase", <<only("consequent", 2), child("test", 1)>>)
    BY <2>1, ClauseFields
  <2>3. n.type \notin ArrayTypes /\ n.type # "SourceElements"
    BY <2>1, NotArrays
  <2> QED
    BY <1>6, <2>1, <2>2, <2>3, GoodCaseOf
<1>7. CASE c = Case("Comma", "SequenceExpression", <<all("expressions")>>)
  <2>1. n.type = "Comma"
    BY <1>7, CaseParts
  <2>2. GoodFields(n, "SequenceExpression", <<all("expressions")>>)
    BY <2>1, AllFields DEF WithList, FieldNames, ArrayField, ArrayFields
  <2>3. n.type \notin ArrayTypes /\ n.type # "SourceElements"
    BY <2>1, NotArrays
  <2> QED
    BY <1>7, <2>1, <2>2, <2>3, GoodCaseOf
<1>8. CASE c = Case("ContinueStatement", "ContinueStatement", <<>>)
  BY <1>8, LiteralCase DEF Childless
<1>9. CASE c = Case("ConditionalExpression", "ConditionalExpression",
                   <<child("test", 1), child("consequent", 2), child("alternate", 3)>>)
  <2>1. n.type = "ConditionalExpression"
    BY <1>9, CaseParts
  <2>2. GoodFields(n, "ConditionalExpression",
           <<child("test", 1), child("consequent", 2), child("alternate", 3)>>)
    BY <2>1, ConditionalFields
  <2>3. n.type \notin ArrayTypes /\ n.type # "SourceElements"
    BY <2>1, NotArrays
  <2> QED
    BY <1>9, <2>1, <2>2, <2>3, GoodCaseOf
<1>10. CASE c = Case("Debugger", "DebuggerStatement", <<>>)
  BY <1>10, LiteralCase DEF Childless
<1>11. CASE c = Case("DotAccess", "MemberExpression",
                   <<child("object", 1), direct("property")>>)
  BY <1>11, ChildAndDirectCase DEF WithOne, ObjectFields, FieldNames, ArrayFields
<1>12. CASE c = Case("DoWhileStatement", "DoWhileStatement",
                   <<child("body", 1), child("test", 2)>>)
  BY <1>12, TwoChildrenCase DEF WithTwo, ObjectFields, FieldNames, ArrayFields
<1> QED
  BY <1>1, <1>2, <1>3, <1>4, <1>5, <1>6, <1>7, <1>8, <1>9, <1>10, <1>11, <1>12 DEF CasesAToD

LEMMA EToIIsGood ==
    ASSUME NEW n \in ANode, NEW indent, Shape(n), NEW c \in CasesEToI, c.type = n.type
    PROVE  GoodCase(n, indent, c)
<1>1. CASE c = Case("EmptyStatement", "EmptyStatement", <<>>)
  BY <1>1, LiteralCase DEF Childless
<1>2. CASE c = Case("ExpressionStatement", "ExpressionStatement",
                   <<child("expression", 1)>>)
  BY <1>2, OneChildCase DEF WithOne, ObjectFields, FieldNames, ArrayFields
<1>3. CASE c = Case("Expression", "ExpressionStatement", <<child("expression", 1)>>)
  BY <1>3, OneChildCase DEF WithOne, ObjectFields, FieldNames, ArrayFields
<1>4. CASE c = Case("FunctionCall", "CallExpression",
                   <<child("callee", 1), child("arguments", 2)>>)
  <2>1. n.type = "FunctionCall"
    BY <1>4, CaseParts
  <2>2. GoodFields(n, "CallExpression", <<child("callee", 1), child("arguments", 2)>>)
    BY <2>1, CallFields DEF WithCall
  <2>3. n.type \notin ArrayTypes /\ n.type # "SourceElements"
    BY <2>1, NotArrays DEF WithCall
  <2> QED
    BY <1>4, <2>1, <2>2, <2>3, GoodCaseOf
<1>5. CASE c = Case("IdentifierExpression", "Identifier", <<>>)
  BY <1>5, LiteralCase DEF Childless
<1>6. CASE c = Case("IfStatement", "IfStatement",
                   <<child("test", 1), child("consequent", 2), child("alternate", 3)>>)
  <2>1. n.type = "IfStatement"
    BY <1>6, CaseParts
  <2>2. GoodFields(n, "IfStatement",
           <<child("test", 1), child("consequent", 2), child("alternate", 3)>>)
    BY <2>1, ConditionalFields
  <2>3. n.type \notin ArrayTypes /\ n.type # "SourceElements"
    BY <2>1, NotArrays
  <2> QED
    BY <1>6, <2>1, <2>2, <2>3, GoodCaseOf
<1> QED
  BY <1>1, <1>2, <1>3, <1>4, <1>5, <1>6 DEF CasesEToI

LEMMA NToRIsGood ==
    ASSUME NEW n \in ANode, NEW indent, Shape(n), NEW c \in CasesNToR, c.type = n.type
    PROVE  GoodCase(n, indent, c)
<1>1. CASE c = Case("NewExpression", "NewExpression",
                   <<child("callee", 1), child("arguments", 2)>>)
  <2>1. n.type = "NewExpression"
    BY <1>1, CaseParts
  <2>2. GoodFields(n, "NewExpression", <<child("callee", 1), child("arguments", 2)>>)
    BY <2>1, CallFields DEF WithCall
  <2>3. n.type \notin ArrayTypes /\ n.type # "SourceElements"
    BY <2>1, NotArrays DEF WithCall
  <2> QED
    BY <1>1, <2>1, <2>2, <2>3, GoodCaseOf
<1>2. CASE c = Case("Null", "Literal", <<>>)
  BY <1>2, LiteralCase DEF Childless
<1>3. CASE c = Case("NumberExpression", "Literal", <<>>)
  BY <1>3, LiteralCase DEF Childless
<1>4. CASE c = Case("Postfix", "UpdateExpression", <<child("argument", 1)>>)
  BY <1>4, OneChildCase DEF WithOne, ObjectFields, FieldNames, ArrayFields
<1>5. CASE c = Case("Prefix", "UpdateExpression", <<child("argument", 1)>>)
  BY <1>5, OneChildCase DEF WithOne, ObjectFields, FieldNames, ArrayFields
<1>6. CASE c = Case("Property", "Property", <<direct("key"), child("value", 1)>>)
  BY <1>6, ChildAndDirectCase DEF WithOne, ObjectFields, FieldNames, ArrayFields
<1>7. CASE c = Case("Regex", "Literal", <<>>)
  BY <1>7, LiteralCase DEF Childless
<1>8. CASE c = Case("ReturnStatement", "ReturnStatement", <<child("argument", 1)>>)
  <2>1. n.type = "ReturnStatement"
    BY <1>8, CaseParts
  <2>2. GoodFields(n, "ReturnStatement", <<child("argument", 1)>>)
    BY <2>1, ReturnFields
  <2>3. n.type \notin ArrayTypes /\ n.type # "SourceElements"
    BY <2>1, NotArrays
  <2> QED
    BY <1>8, <2>1, <2>2, <2>3, GoodCaseOf
<1>9. CASE c = Case("Resolve", "Identifier", <<>>)
  BY <1>9, LiteralCase DEF Childless
<1> QED
  BY <1>1, <1>2, <1>3, <1>4, <1>5, <1>6, <1>7, <1>8, <1>9 DEF CasesNToR

LEMMA SToWIsGood ==
    ASSUME NEW n \in ANode, NEW indent, Shape(n), NEW c \in CasesSToW, c.type = n.type
    PROVE  GoodCase(n, indent, c)
<1>1. CASE c = Case("StringExpression", "Literal", <<>>)
  BY <1>1, LiteralCase DEF Childless
<1>2. CASE c = Case("This", "ThisExpression", <<>>)
  BY <1>2, LiteralCase DEF Childless
<1>3. CASE c = Case("ThrowStatement", "ThrowStatement", <<child("argument", 1)>>)
  BY <1>3, OneChildCase DEF WithOne, ObjectFields, FieldNames, ArrayFields
<1>4. CASE c = Case("TryStatement", "TryStatement",
                   <<child("block", 1), child("handler", 2), child("finalizer", 3)>>)
  <2>1. n.type = "TryStatement"
    BY <1>4, CaseParts
  <2>2. GoodFields(n, "TryStatement",
           <<child("block", 1), child("handler", 2), child("finalizer", 3)>>)
    BY <2>1, TryFields
  <2>3. n.type \notin ArrayTypes /\ n.type # "SourceElements"
    BY <2>1, NotArrays
  <2> QED
    BY <1>4, <2>1, <2>2, <2>3, GoodCaseOf
<1>5. CASE c = Case("UnaryExpression", "UnaryExpression", <<child("argument", 1)>>)
  BY <1>5, OneChildCase DEF WithOne, ObjectFields, FieldNames, ArrayFields
<1>6. CASE c = Case("VariableDeclaration", "VariableDeclaration",
                   <<all("declarations")>>)
  <2>1. n.type = "VariableDeclaration"
    BY <1>6, CaseParts
  <2>2. GoodFields(n, "VariableDeclaration", <<all("declarations")>>)
    BY <2>1, AllFields DEF WithList, FieldNames, ArrayField, ArrayFields
  <2>3. n.type \notin ArrayTypes /\ n.type # "SourceElements"
    BY <2>1, NotArrays
  <2> QED
    BY <1>6, <2>1, <2>2, <2>3, GoodCaseOf
<1>7. CASE c = Case("Void", "UnaryExpression", <<child("argument", 1)>>)
  <2>1. n.type = "Void"
    BY <1>7, CaseParts
  <2>2. GoodFields(n, "UnaryExpression", <<child("argument", 1)>>)
    BY <2>1, ReturnFields
  <2>3. n.type \notin ArrayTypes /\ n.type # "SourceElements"
    BY <2>1, NotArrays DEF Childless
  <2> QED
    BY <1>7, <2>1, <2>2, <2>3, GoodCaseOf
<1>8. CASE c = Case("WithStatement", "WithStatement",
                   <<child("object", 1), child("body", 2)>>)
  BY <1>8, TwoChildrenCase DEF WithTwo, ObjectFields, FieldNames, ArrayFields
<1> QED
  BY <1>1, <1>2, <1>3, <1>4, <1>5, <1>6, <1>7, <1>8 DEF CasesSToW

\* Whatever node of the right shape convertNode is called for, the case of its
\* type makes an object that can be completed.
LEMMA CasesAreGood ==
    ASSUME NEW n \in ANode, Shape(n), NEW indent \in Nat, NEW c \in Cases(n, indent),
           c.type = n.type
    PROVE  GoodCase(n, indent, c)
<1>1. CASE c \in UNION {CasesAToD, CasesEToI, CasesNToR, CasesSToW}
  BY <1>1, AToDIsGood, EToIIsGood, NToRIsGood, SToWIsGood
<1>2. CASE c = convertArray(n)
  <2>1. n.type = "Array" /\ c = Case(n.type, "ArrayExpression", convertArray(n).fields)
    BY <1>2 DEF convertArray, Case
  <2> QED
    BY <2>1, ArrayLiteralFields, NotArrays, GoodCaseOf
<1>3. CASE c = convertBlock(n)
  <2>1. n.type = "BlockStatement" /\ c = Case(n.type, "BlockStatement", convertBlock(n).fields)
    BY <1>3 DEF convertBlock, Case
  <2> QED
    BY <2>1, BlockFields, NotArrays, GoodCaseOf
<1>4. CASE c = convertFor
  <2>1. n.type = "ForLoop" /\ c.made = "ForStatement"
        /\ c = Case(n.type, "ForStatement",
                    <<child("init", 1), child("test", 2), child("update", 3), child("body", 4)>>)
    BY <1>4 DEF convertFor, Case
  <2> QED
    BY <2>1, ForFields, NotArrays, GoodCaseOf
<1>5. CASE c = convertForIn(n)
  <2>1. n.type = "ForInLoop" /\ c = Case(n.type, "ForInStatement", convertForIn(n).fields)
    BY <1>5 DEF convertForIn, Case
  <2> QED
    BY <2>1, ForInFields, NotArrays, GoodCaseOf
<1>6. CASE c = convertObject(n)
  <2>1. n.type = "ObjectLiteral" /\ c = Case(n.type, "ObjectExpression", convertObject(n).fields)
    BY <1>6 DEF convertObject, Case
  <2> QED
    BY <2>1, ObjectLiteralFields, NotArrays, GoodCaseOf
<1>7. CASE c = convertSwitch(n)
  <2>1. n.type = "SwitchStatement" /\ c = Case(n.type, "SwitchStatement", convertSwitch(n).fields)
    BY <1>7 DEF convertSwitch, Case
  <2> QED
    BY <2>1, SwitchFields, NotArrays, GoodCaseOf
<1>8. CASE c = convertWhile
  BY <1>8, TwoChildrenCase DEF convertWhile, WithTwo, ObjectFields, FieldNames, ArrayFields
<1>9. CASE c = convertSourceElements(indent)
  <2> DEFINE made == IF indent > 0 THEN "BlockStatement" ELSE "Program"
  <2>1. n.type = "SourceElements" /\ c.made = made /\ c.fields = <<all("body")>>
    BY <1>9 DEF convertSourceElements, Case
  <2>2. made \in {"BlockStatement", "Program"} /\ (indent > 0 <=> made # "Program")
    OBVIOUS
  <2> HIDE DEF made
  <2>3. ArrayField(made, "body") /\ "body" \in FieldNames
    BY <2>2 DEF ArrayField, FieldNames
  <2>4. GoodFields(n, made, <<all("body")>>)
    BY <2>1, <2>3, AllFields DEF WithList
  <2>5. n.type \notin ArrayTypes
    BY <2>1 DEF ArrayTypes, ListTypes
  <2> QED
    BY <2>1, <2>2, <2>4, <2>5 DEF GoodCase
<1>10. ASSUME NEW type \in WithFunction, c = convertFunction(n, type)
       PROVE  GoodCase(n, indent, c)
  <2>1. n.type = type /\ c = Case(n.type, "FunctionExpression", convertFunction(n, n.type).fields)
    BY <1>10 DEF convertFunction, Case
  <2>2. n.type \notin ArrayTypes /\ n.type # "SourceElements"
    BY <2>1, NotArrays
  <2> QED
    BY <2>1, <2>2, FunctionFields, GoodCaseOf
<1> QED
  BY <1>1, <1>2, <1>3, <1>4, <1>5, <1>6, <1>7, <1>8, <1>9, <1>10 DEF Cases, WithFunction

\* The type of the object is one of those that TypeOK lists.
LEMMA CasesMake ==
    ASSUME NEW n, NEW indent \in Nat, NEW c \in Cases(n, indent)
    PROVE  c.made \in Made
<1> DEFINE m == Node("This", <<>>)
           i == IF indent > 0 THEN 1 ELSE 0
<1>1. m \in UNION {NodesOf[s] : s \in DOMAIN NodesOf}
  BY DEF NodesOf, Expressions, thisExpr
<1>2. \A d \in Cases(m, i) : d.made \in Made
  BY <1>1 DEF Made
<1> HIDE DEF m, i
<1>3. CASE c \in CasesAToD \cup CasesEToI \cup CasesNToR \cup CasesSToW
                 \cup {convertFor, convertWhile}
  <2>1. c \in Cases(m, i)
    BY <1>3 DEF Cases
  <2> QED
    BY <1>2, <2>1
<1>4. CASE c = convertArray(n)
  <2>1. c.made = convertArray(m).made
    BY <1>4 DEF convertArray, Case
  <2> QED
    BY <1>2, <2>1 DEF Cases
<1>5. CASE c = convertBlock(n)
  <2>1. c.made = convertBlock(m).made
    BY <1>5 DEF convertBlock, Case
  <2> QED
    BY <1>2, <2>1 DEF Cases
<1>6. CASE c = convertForIn(n)
  <2>1. c.made = convertForIn(m).made
    BY <1>6 DEF convertForIn, Case
  <2> QED
    BY <1>2, <2>1 DEF Cases
<1>7. CASE c = convertObject(n)
  <2>1. c.made = convertObject(m).made
    BY <1>7 DEF convertObject, Case
  <2> QED
    BY <1>2, <2>1 DEF Cases
<1>8. CASE c = convertSwitch(n)
  <2>1. c.made = convertSwitch(m).made
    BY <1>8 DEF convertSwitch, Case
  <2> QED
    BY <1>2, <2>1 DEF Cases
<1>9. CASE c = convertSourceElements(indent)
  <2>1. c.made = convertSourceElements(i).made
    BY <1>9 DEF convertSourceElements, Case, i
  <2> QED
    BY <1>2, <2>1 DEF Cases
<1>10. CASE c \in {convertFunction(n, "FunctionDeclStatement"),
                   convertFunction(n, "FunctionExpression")}
  <2>1. c.made = convertFunction(m, "FunctionExpression").made
    BY <1>10 DEF convertFunction, Case
  <2> QED
    BY <1>2, <2>1 DEF Cases
<1> QED
  BY <1>3, <1>4, <1>5, <1>6, <1>7, <1>8, <1>9, <1>10 DEF Cases

-----------------------------------------------------------------------------
(* Frames.                                                                  *)

LEMMA FrameParts ==
    ASSUME NEW n \in ANode, NEW indent \in Nat, NEW made \in Made \cup {"call", "Array"},
           NEW fields \in Seq(AField)
    PROVE  LET f == Frame(n, indent, made, fields) IN
           /\ f \in AFrame /\ f.node = n /\ f.indent = indent /\ f.made = made
           /\ f.todo = fields /\ f.left = Present(n) /\ f.got = {}
BY DEF Frame, AFrame, Present, ANode, Kids

\* A call of convertNode.
LEMMA CallFrame ==
    ASSUME NEW n \in ANode, Shape(n), NEW indent \in Nat
    PROVE  LET f == convertNode(n, indent) IN
           /\ GoodFrame(f) /\ f.node = n /\ f.indent = indent /\ f.made = "call"
           /\ f \in AFrame
<1> DEFINE f == convertNode(n, indent)
<1>1. /\ f \in AFrame /\ f.node = n /\ f.indent = indent /\ f.made = "call" /\ f.todo = <<>>
      /\ f.left = Present(n) /\ f.got = {}
  <2> DEFINE none == <<>>
  <2>1. none \in Seq(AField)
    BY EmptySeq
  <2>2. f = Frame(n, indent, "call", none)
    BY DEF convertNode
  <2> HIDE DEF none, f
  <2>3. /\ f \in AFrame /\ f.node = n /\ f.indent = indent /\ f.made = "call" /\ f.todo = none
        /\ f.left = Present(n) /\ f.got = {}
    BY <2>1, <2>2, FrameParts
  <2> QED
    BY <2>3 DEF none
<1> HIDE DEF f
<1>2. GoodFrame(f)
  BY <1>1 DEF GoodFrame
<1> QED
  BY <1>1, <1>2 DEF f

\* The object that a case of convertNode begins to make.
LEMMA ObjectFrame ==
    ASSUME NEW n \in ANode, NEW indent \in Nat, NEW c, c.made \in Made, GoodCase(n, indent, c)
    PROVE  LET f == Frame(n, indent, c.made, c.fields) IN
           /\ GoodFrame(f) /\ f.node = n /\ f.indent = indent /\ f.made = c.made
           /\ f.todo = c.fields /\ f \in AFrame
<1> DEFINE f == Frame(n, indent, c.made, c.fields)
<1>1. GoodFields(n, c.made, c.fields) /\ c.made # "call"
  BY DEF GoodCase
<1>2. /\ f \in AFrame /\ f.node = n /\ f.indent = indent /\ f.made = c.made
      /\ f.todo = c.fields /\ f.left = Present(n) /\ f.got = {}
  BY <1>1, FrameParts DEF GoodFields
<1> HIDE DEF f
<1>3. GoodTodo(f)
  BY <1>1, <1>2 DEF GoodTodo, GoodFields
<1>4. GoodFrame(f)
  BY <1>1, <1>2, <1>3 DEF GoodFrame
<1> QED
  BY <1>2, <1>4 DEF f

\* A call of convertChildren.
LEMMA ArrayFrame ==
    ASSUME NEW n, Elements(n), NEW indent \in Nat
    PROVE  LET f == convertChildren(n, indent) IN
           GoodFrame(f) /\ f.indent = indent /\ f.made = "Array" /\ f \in AFrame
<1> DEFINE f == convertChildren(n, indent)
           elements == [kid \in DOMAIN n.kids |-> child("element", kid)]
<1>1. n \in ANode /\ n.kids \in Kids
  BY DEF Elements, ANode
<1>2. DOMAIN n.kids = 1..Len(n.kids) /\ Len(n.kids) \in Nat
  BY <1>1, PresentKids
<1>3. \A kid \in 1..Len(n.kids) : child("element", kid) \in AField
  BY <1>2 DEF child, Field, AField, FieldNames, Hows
<1>4. /\ elements \in Seq(AField) /\ Len(elements) = Len(n.kids)
      /\ \A kid \in 1..Len(n.kids) : elements[kid] = child("element", kid)
  BY <1>2, <1>3
<1>5. /\ f \in AFrame /\ f.node = n /\ f.indent = indent /\ f.made = "Array"
      /\ f.todo = elements /\ f.left = Present(n) /\ f.got = {}
  BY <1>1, <1>4, FrameParts DEF convertChildren
<1>6. ASSUME NEW kid \in 1..Len(n.kids)
      PROVE  CanSet(n, "Array", child("element", kid)) /\ Shows(child("element", kid), n) = {kid}
  <2> DEFINE g == child("element", kid)
  <2>1. g \in AField /\ g.field = "element" /\ g.how = "node" /\ g.kid = kid
    BY <1>3 DEF child, Field
  <2> HIDE DEF g
  <2>2. ~ArrayField("Array", "element")
    BY DEF ArrayField, ArrayFields
  <2>3. Has(n, kid) => n.kids[kid] \notin ArraySorts
    BY DEF Elements, Has
  <2>4. ~Has(n, kid) => MayBeNull(n.type, "element")
    BY <1>2 DEF Elements, Has, MayBeNull
  <2>5. CanSet(n, "Array", g)
    BY <1>2, <2>1, <2>2, <2>3, <2>4 DEF CanSet
  <2>6. Shows(g, n) = {kid}
    BY <2>1 DEF Shows
  <2> QED
    BY <2>5, <2>6 DEF g
<1> HIDE DEF f, elements
<1>7. GoodTodo(f)
  BY <1>2, <1>4, <1>5, <1>6 DEF GoodTodo, Present
<1>8. GoodFrame(f)
  BY <1>5, <1>7 DEF GoodFrame
<1> QED
  BY <1>5, <1>8 DEF f

\* A field gets its value, when the children it shows are not left any more.
LEMMA FieldIsSet ==
    ASSUME NEW f, GoodFrame(f), f.made # "call", f.todo # <<>>, NEW kind \in Kinds,
           kind = "array" <=> ArrayField(f.made, Head(f.todo).field),
           kind = "null" => MayBeNull(f.node.type, Head(f.todo).field),
           \A kid \in Shows(Head(f.todo), f.node) : kid \notin f.left
    PROVE  LET h == SetField(f, kind, {}) IN
           /\ h \in AFrame /\ GoodFrame(h) /\ h.made = f.made
           /\ Root(f) => Root(h)
           /\ Inner(f) => Inner(h)
<1> DEFINE h == SetField(f, kind, {})
           a == Head(f.todo)
<1>1. f \in AFrame /\ f.todo \in Seq(AField) /\ GoodTodo(f)
  BY DEF GoodFrame, AFrame
<1>2. a \in AField /\ Tail(f.todo) \in Seq(AField) /\ Len(Tail(f.todo)) = Len(f.todo) - 1
      /\ Len(f.todo) \in Nat \ {0} /\ a = f.todo[1]
      /\ \A j \in 1..Len(f.todo) - 1 : Tail(f.todo)[j] = f.todo[j + 1]
  BY <1>1
<1>3. a.field \in FieldNames
  BY <1>2 DEF AField
<1>4. /\ h \in AFrame /\ h.node = f.node /\ h.indent = f.indent /\ h.made = f.made
      /\ h.todo = Tail(f.todo) /\ h.left = f.left /\ h.got = f.got \cup {<<a.field, kind>>}
  <2>1. h = [f EXCEPT !.todo = Tail(f.todo), !.got = f.got \cup {<<a.field, kind>>},
                     !.left = f.left \ {}]
    BY DEF SetField
  <2>2. f.left \ {} = f.left /\ f.left \in SUBSET Nat
    BY <1>1 DEF AFrame
  <2>3. f.got \cup {<<a.field, kind>>} \in SUBSET (FieldNames \X Kinds)
    BY <1>1, <1>3 DEF AFrame
  <2> HIDE DEF h, a
  <2>4. h = [f EXCEPT !.todo = Tail(f.todo), !.got = f.got \cup {<<a.field, kind>>},
                     !.left = f.left]
    BY <2>1, <2>2
  <2> QED
    BY <1>1, <1>2, <2>2, <2>3, <2>4 DEF AFrame
<1> HIDE DEF h, a
<1>5. GoodTodo(h)
  <2>1. \A j \in 1..Len(h.todo) : CanSet(h.node, h.made, h.todo[j])
    BY <1>1, <1>2, <1>4 DEF GoodTodo
  <2>2. ASSUME NEW kid \in h.left
        PROVE  (\E j \in 1..Len(h.todo) : kid \in Shows(h.todo[j], h.node))
               \/ kid \in LeftOut(h.node.type)
    <3>1. \/ \E j \in 1..Len(f.todo) : kid \in Shows(f.todo[j], f.node)
          \/ kid \in LeftOut(f.node.type)
      BY <1>1, <1>4 DEF GoodTodo
    <3>2. CASE kid \in LeftOut(f.node.type)
      BY <1>4, <3>2
    <3>3. ASSUME NEW j \in 1..Len(f.todo), kid \in Shows(f.todo[j], f.node)
          PROVE  \E i \in 1..Len(h.todo) : kid \in Shows(h.todo[i], h.node)
      <4>1. j # 1
        BY <1>2, <1>4, <3>3 DEF a
      <4>2. j - 1 \in 1..Len(h.todo) /\ h.todo[j - 1] = f.todo[j]
        BY <1>2, <1>4, <4>1
      <4> QED
        BY <1>4, <3>3, <4>2
    <3> QED
      BY <3>1, <3>2, <3>3
  <2> QED
    BY <2>1, <2>2 DEF GoodTodo
<1>6. \A g \in h.got : /\ ArrayField(h.made, g[1]) <=> g[2] = "array"
                       /\ g[2] = "null" => MayBeNull(h.node.type, g[1])
  BY <1>4 DEF GoodFrame, a
<1>7. GoodFrame(h)
  BY <1>4, <1>5, <1>6 DEF GoodFrame
<1>8. Root(f) => Root(h)
  <2>1. f.todo = <<all("body")>> => Tail(f.todo) = <<>>
    OBVIOUS
  <2> QED
    BY <1>4, <2>1 DEF Root
<1>9. Inner(f) => Inner(h)
  BY <1>4 DEF Inner
<1> QED
  BY <1>4, <1>7, <1>8, <1>9 DEF h

\* A call for the next field: the children it shows are left no longer.
CalledFor(f, shown) == [f EXCEPT !.left = @ \ shown]

LEMMA FieldIsCalledFor ==
    ASSUME NEW f, GoodFrame(f), f.made # "call", NEW shown
    PROVE  LET h == CalledFor(f, shown) IN
           /\ h \in AFrame /\ GoodFrame(h)
           /\ h.node = f.node /\ h.made = f.made /\ h.todo = f.todo /\ h.left = f.left \ shown
           /\ Root(f) => Root(h)
           /\ Inner(f) => Inner(h)
<1> DEFINE h == CalledFor(f, shown)
<1>1. /\ h \in AFrame /\ h.node = f.node /\ h.indent = f.indent /\ h.made = f.made
      /\ h.todo = f.todo /\ h.left = f.left \ shown /\ h.got = f.got
  BY DEF GoodFrame, AFrame, CalledFor
<1> HIDE DEF h
<1>2. GoodFrame(h)
  BY <1>1 DEF GoodFrame, GoodTodo
<1>3. (Root(f) => Root(h)) /\ (Inner(f) => Inner(h))
  BY <1>1 DEF Root, Inner
<1> QED
  BY <1>1, <1>2, <1>3 DEF h

-----------------------------------------------------------------------------
(* The stack.                                                               *)

LEMMA TopOfStack ==
    ASSUME NEW st, GoodStack(st), st # <<>>
    PROVE  /\ Len(st) \in Nat \ {0} /\ st \in Seq(AFrame)
           /\ GoodFrame(st[Len(st)]) /\ st[Len(st)] \in AFrame
           /\ Len(st) = 1 => Root(st[Len(st)])
           /\ Len(st) # 1 => Inner(st[Len(st)])
<1>1. Len(st) \in Nat \ {0} /\ st \in Seq(AFrame)
  <2>1. st \in Seq(AFrame)
    BY DEF GoodStack
  <2> QED
    BY <2>1, EmptySeq
<1>2. Len(st) \in 1..Len(st)
  BY <1>1
<1>3. st[Len(st)] \in AFrame
  BY <1>1, <1>2
<1> QED
  BY <1>1, <1>2, <1>3 DEF GoodStack

\* The three ways in which the innermost calls change.
LEMMA TopIsReplaced ==
    ASSUME NEW st, GoodStack(st), st # <<>>, NEW g \in AFrame, GoodFrame(g),
           Root(st[Len(st)]) => Root(g), Inner(st[Len(st)]) => Inner(g),
           ReturnsArray(g) <=> ReturnsArray(st[Len(st)])
    PROVE  /\ GoodStack(Append(SubSeq(st, 1, Len(st) - 1), g))
           /\ Append(SubSeq(st, 1, Len(st) - 1), g) # <<>>
<1> DEFINE n == Len(st)
           t == Append(SubSeq(st, 1, n - 1), g)
<1>1. n \in Nat \ {0} /\ st \in Seq(AFrame)
  BY TopOfStack
<1>2. t \in Seq(AFrame) /\ Len(t) = n /\ t[n] = g /\ \A i \in 1..n - 1 : t[i] = st[i]
  <2> DEFINE s == SubSeq(st, 1, n - 1)
  <2>1. s \in Seq(AFrame) /\ Len(s) = n - 1 /\ \A i \in 1..n - 1 : s[i] = st[i]
    <3>1. \A i \in 1..n - 1 : st[i] \in AFrame
      BY <1>1
    <3> HIDE DEF n, t
    <3> QED
      BY <1>1, <3>1, SubSeqProperties
  <2>2. t = Append(s, g)
    OBVIOUS
  <2> HIDE DEF s, t, n
  <2> QED
    BY <1>1, <2>1, <2>2
<1> HIDE DEF t, n
<1>3. ASSUME NEW i \in 1..n
      PROVE  GoodFrame(t[i]) /\ (IF i = 1 THEN Root(t[i]) ELSE Inner(t[i]))
  BY <1>1, <1>2, <1>3 DEF GoodStack, n
<1>4. ASSUME NEW i \in 1..n - 1
      PROVE  Waits(t[i], t[i + 1])
  <2>1. Waits(st[i], st[i + 1])
    BY <1>4 DEF GoodStack, n
  <2>2. t[i] = st[i] /\ (i # n - 1 => t[i + 1] = st[i + 1]) /\ (i = n - 1 => t[i + 1] = g)
    BY <1>1, <1>2
  <2>3. i = n - 1 => st[i + 1] = st[n]
    BY <1>1
  <2> QED
    BY <2>1, <2>2, <2>3 DEF Waits, n
<1>5. GoodStack(t) /\ t # <<>>
  BY <1>1, <1>2, <1>3, <1>4 DEF GoodStack
<1> QED
  BY <1>5 DEF t, n

LEMMA CallIsPushed ==
    ASSUME NEW st, GoodStack(st), st # <<>>, NEW g \in AFrame, GoodFrame(g), Inner(g),
           NEW h \in AFrame, GoodFrame(h), h.made = st[Len(st)].made,
           h.node = st[Len(st)].node, Waits(h, g),
           Root(st[Len(st)]) => Root(h), Inner(st[Len(st)]) => Inner(h)
    PROVE  LET t == Append([st EXCEPT ![Len(st)] = h], g) IN GoodStack(t) /\ t # <<>>
<1> DEFINE n == Len(st)
           t == Append([st EXCEPT ![n] = h], g)
<1>1. n \in Nat \ {0} /\ st \in Seq(AFrame)
  BY TopOfStack
<1>2. /\ t \in Seq(AFrame) /\ Len(t) = n + 1 /\ t[n + 1] = g /\ t[n] = h
      /\ \A i \in 1..n - 1 : t[i] = st[i]
  BY <1>1
<1> HIDE DEF t, n
<1>3. ASSUME NEW i \in 1..n + 1
      PROVE  GoodFrame(t[i]) /\ (IF i = 1 THEN Root(t[i]) ELSE Inner(t[i]))
  BY <1>1, <1>2, <1>3 DEF GoodStack, n
<1>4. ASSUME NEW i \in 1..n
      PROVE  Waits(t[i], t[i + 1])
  <2>1. CASE i = n
    BY <1>1, <1>2, <2>1
  <2>2. CASE i = n - 1
    <3>1. Waits(st[i], st[i + 1]) /\ st[i + 1] = st[n]
      BY <1>1, <2>2 DEF GoodStack, n
    <3>2. t[i] = st[i] /\ t[i + 1] = h
      BY <1>1, <1>2, <2>2
    <3> QED
      BY <3>1, <3>2 DEF Waits, ReturnsArray, n
  <2>3. CASE i < n - 1
    <3>1. Waits(st[i], st[i + 1])
      BY <1>1, <2>3 DEF GoodStack, n
    <3>2. t[i] = st[i] /\ t[i + 1] = st[i + 1]
      BY <1>1, <1>2, <2>3
    <3> QED
      BY <3>1, <3>2
  <2> QED
    BY <1>1, <2>1, <2>2, <2>3
<1>5. GoodStack(t) /\ t # <<>>
  BY <1>1, <1>2, <1>3, <1>4 DEF GoodStack
<1> QED
  BY <1>5 DEF t, n

LEMMA CallReturns ==
    ASSUME NEW st, GoodStack(st), Len(st) > 1, NEW h \in AFrame, GoodFrame(h),
           h.made = st[Len(st) - 1].made, h.made # "call",
           Root(st[Len(st) - 1]) => Root(h), Inner(st[Len(st) - 1]) => Inner(h)
    PROVE  LET t == [SubSeq(st, 1, Len(st) - 1) EXCEPT ![Len(st) - 1] = h] IN
           GoodStack(t) /\ t # <<>>
<1> DEFINE n == Len(st)
           t == [SubSeq(st, 1, n - 1) EXCEPT ![n - 1] = h]
<1>1. n \in Nat \ {0, 1} /\ st \in Seq(AFrame)
  BY DEF GoodStack
<1>2. t \in Seq(AFrame) /\ Len(t) = n - 1 /\ t[n - 1] = h /\ \A i \in 1..n - 2 : t[i] = st[i]
  <2> DEFINE s == SubSeq(st, 1, n - 1)
  <2>1. s \in Seq(AFrame) /\ Len(s) = n - 1 /\ \A i \in 1..n - 1 : s[i] = st[i]
    BY <1>1
  <2> HIDE DEF s
  <2>2. /\ [s EXCEPT ![n - 1] = h] \in Seq(AFrame) /\ Len([s EXCEPT ![n - 1] = h]) = n - 1
        /\ \A i \in 1..n - 1 : [s EXCEPT ![n - 1] = h][i] = IF i = n - 1 THEN h ELSE s[i]
    BY <1>1, <2>1, ExceptSeq
  <2>3. t = [s EXCEPT ![n - 1] = h]
    BY DEF s
  <2> HIDE DEF t, n
  <2>4. n - 1 \in 1..n - 1 /\ \A i \in 1..n - 2 : i \in 1..n - 1 /\ i # n - 1
    BY <1>1
  <2> QED
    BY <2>1, <2>2, <2>3, <2>4
<1> HIDE DEF t, n
<1>3. ASSUME NEW i \in 1..n - 1
      PROVE  GoodFrame(t[i]) /\ (IF i = 1 THEN Root(t[i]) ELSE Inner(t[i]))
  BY <1>1, <1>2, <1>3 DEF GoodStack, n
<1>4. ASSUME NEW i \in 1..n - 2
      PROVE  Waits(t[i], t[i + 1])
  <2>1. Waits(st[i], st[i + 1])
    BY <1>1, <1>4 DEF GoodStack, n
  <2>2. CASE i = n - 2
    <3>1. t[i] = st[i] /\ t[i + 1] = h /\ st[i + 1] = st[n - 1]
      BY <1>1, <1>2, <2>2
    <3> QED
      BY <2>1, <3>1 DEF Waits, ReturnsArray, n
  <2>3. CASE i # n - 2
    <3>1. t[i] = st[i] /\ t[i + 1] = st[i + 1]
      BY <1>1, <1>2, <2>3
    <3> QED
      BY <2>1, <3>1
  <2> QED
    BY <2>2, <2>3
<1>5. GoodStack(t) /\ t # <<>>
  BY <1>1, <1>2, <1>3, <1>4 DEF GoodStack
<1> QED
  BY <1>5 DEF t, n

-----------------------------------------------------------------------------
(* The steps.                                                               *)

LEMMA TopIsGood ==
    ASSUME ConvInv, status = "converting"
    PROVE  /\ GoodStack(stack) /\ stack # <<>> /\ Top = stack[Len(stack)]
           /\ Len(stack) \in Nat \ {0} /\ Top \in AFrame /\ GoodFrame(Top)
           /\ Len(stack) = 1 => Root(Top)
           /\ Len(stack) # 1 => Inner(Top)
           /\ Root(Top) \/ Inner(Top)
BY TopOfStack DEF ConvInv, Top

LEMMA InPlaceIsGood ==
    ASSUME ConvInv, status = "converting", NEW g \in AFrame, GoodFrame(g),
           Root(Top) => Root(g), Inner(Top) => Inner(g),
           ReturnsArray(g) <=> ReturnsArray(Top), InPlaceOfTop(g)
    PROVE  ConvInv'
<1>1. GoodStack(stack) /\ stack # <<>> /\ Top = stack[Len(stack)]
  BY TopIsGood
<1>2. stack' = Append(SubSeq(stack, 1, Len(stack) - 1), g) /\ status' = status
  BY DEF InPlaceOfTop, Below
<1>3. GoodStack(stack') /\ stack' # <<>>
  BY <1>1, <1>2, TopIsReplaced
<1> QED
  BY <1>2, <1>3 DEF ConvInv

LEMMA ReturnIsGood ==
    ASSUME ConvInv, status = "converting", NEW kind \in Kinds \ {"null"},
           kind = "array" <=> ReturnsArray(Top), Return(kind)
    PROVE  ConvInv'
<1>1. GoodStack(stack) /\ stack # <<>> /\ Top = stack[Len(stack)] /\ Len(stack) \in Nat \ {0}
  BY TopIsGood
<1>2. CASE Len(stack) = 1
  <2>1. stack' = <<>> /\ status' = "returned"
    BY <1>2 DEF Return
  <2>2. GoodStack(<<>>)
    <3>1. <<>> \in Seq(AFrame) /\ Len(<<>>) = 0
      BY EmptySeq
    <3> QED
      BY <3>1 DEF GoodStack
  <2> QED
    BY <2>1, <2>2 DEF ConvInv
<1>3. CASE Len(stack) # 1
  <2> DEFINE n == Len(stack)
             f == stack[n - 1]
             h == SetField(f, kind, {})
  <2>1. n \in Nat \ {0, 1} /\ stack \in Seq(AFrame)
    BY <1>1, <1>3 DEF GoodStack
  <2>2. GoodFrame(f) /\ Waits(f, Top)
    <3>1. n - 1 \in 1..n /\ n - 1 \in 1..n - 1 /\ (n - 1) + 1 = n
      <4> HIDE DEF n
      <4> QED
        BY <2>1
    <3> QED
      BY <1>1, <3>1 DEF GoodStack
  <2>3. /\ h \in AFrame /\ GoodFrame(h) /\ h.made = f.made
        /\ (Root(f) => Root(h)) /\ (Inner(f) => Inner(h))
    BY <2>2, FieldIsSet DEF Waits
  <2>4. stack' = [SubSeq(stack, 1, n - 1) EXCEPT ![n - 1] = h] /\ status' = status
    <3>1. /\ stack' = [Below EXCEPT ![Len(Below)] = SetField(@, kind, {})]
          /\ status' = status
      BY <1>3 DEF Return
    <3>2. Len(Below) = n - 1 /\ Below[n - 1] = f /\ Below = SubSeq(stack, 1, n - 1)
      <4>1. Below = SubSeq(stack, 1, n - 1)
        BY DEF Below
      <4> HIDE DEF n
      <4> QED
        BY <2>1, <4>1
    <3> HIDE DEF h, f, n
    <3>3. stack' = [Below EXCEPT ![n - 1] = SetField(Below[n - 1], kind, {})]
      BY <3>1, <3>2
    <3> QED
      BY <3>1, <3>2, <3>3 DEF h
  <2> HIDE DEF h
  <2>5. GoodStack(stack') /\ stack' # <<>>
    <3>1. n > 1
      <4> HIDE DEF n
      <4> QED
        BY <2>1
    <3>2. h.made # "call"
      BY <2>2, <2>3 DEF Waits
    <3> QED
      BY <1>1, <2>3, <2>4, <3>1, <3>2, CallReturns
  <2> QED
    BY <2>4, <2>5 DEF ConvInv
<1> QED
  BY <1>2, <1>3

LEMMA EnterIsGood ==
    ASSUME ConvInv, status = "converting", Top.made # "call", Top.todo # <<>>,
           NEW g \in AFrame, GoodFrame(g), Inner(g),
           NEW shown, shown = Shows(Head(Top.todo), Top.node),
           ReturnsArray(g) <=> ArrayField(Top.made, Head(Top.todo).field), Enter(g, shown)
    PROVE  ConvInv'
<1> DEFINE n == Len(stack)
           f == stack[n]
           h == CalledFor(f, shown)
<1>1. /\ GoodStack(stack) /\ stack # <<>> /\ Top = f /\ n \in Nat \ {0}
      /\ GoodFrame(f) /\ stack \in Seq(AFrame)
  BY TopIsGood DEF GoodStack
<1>2. stack' = Append([stack EXCEPT ![n] = h], g) /\ status' = status
  BY <1>1 DEF Enter, CalledFor
<1>3. /\ h \in AFrame /\ GoodFrame(h) /\ h.node = f.node /\ h.made = f.made
      /\ h.todo = f.todo /\ h.left = f.left \ shown
      /\ (Root(f) => Root(h)) /\ (Inner(f) => Inner(h))
  <2> HIDE DEF f
  <2>1. f.made # "call"
    BY <1>1
  <2> QED
    BY <1>1, <2>1, FieldIsCalledFor
<1> HIDE DEF h
<1>4. Waits(h, g)
  BY <1>1, <1>3 DEF Waits
<1>5. GoodStack(stack') /\ stack' # <<>>
  BY <1>1, <1>2, <1>3, <1>4, CallIsPushed
<1> QED
  BY <1>2, <1>5 DEF ConvInv

LEMMA SetNowIsGood ==
    ASSUME ConvInv, status = "converting", Top.made # "call", Top.todo # <<>>,
           NEW kind \in Kinds, kind = "array" <=> ArrayField(Top.made, Head(Top.todo).field),
           kind = "null" => MayBeNull(Top.node.type, Head(Top.todo).field),
           \A kid \in Shows(Head(Top.todo), Top.node) : kid \notin Top.left, SetNow(kind)
    PROVE  ConvInv'
<1> DEFINE h == SetField(Top, kind, {})
<1>1. Top \in AFrame /\ GoodFrame(Top)
  BY TopIsGood
<1>2. h \in AFrame /\ GoodFrame(h) /\ h.made = Top.made
      /\ (Root(Top) => Root(h)) /\ (Inner(Top) => Inner(h))
  BY <1>1, FieldIsSet
<1>3. InPlaceOfTop(h)
  BY DEF SetNow
<1> HIDE DEF h
<1>4. ReturnsArray(h) <=> ReturnsArray(Top)
  BY <1>2 DEF ReturnsArray
<1> QED
  BY <1>2, <1>3, <1>4, InPlaceIsGood

\* The field that is set next, and what the table of cases says of it.
LEMMA NextField ==
    ASSUME ConvInv, NEW how, Setting(how)
    PROVE  /\ status = "converting" /\ Top.made # "call" /\ Top.todo # <<>>
           /\ CanSet(Top.node, Top.made, Head(Top.todo)) /\ Head(Top.todo).how = how
           /\ Kid = Head(Top.todo).kid /\ Top.node \in ANode /\ Top.left \subseteq Present(Top.node)
           /\ Top.indent \in Nat
           /\ how # "all" => Inner(Top)
<1>1. status = "converting" /\ Top.made # "call" /\ Top.todo # <<>> /\ Head(Top.todo).how = how
      /\ Kid = Head(Top.todo).kid
  BY DEF Setting, Kid
<1>2. Top \in AFrame /\ GoodFrame(Top) /\ (Root(Top) \/ Inner(Top))
  BY <1>1, TopIsGood
<1>3. Top.todo \in Seq(AField) /\ Top.node \in ANode /\ Top.indent \in Nat
  BY <1>2 DEF AFrame
<1>4. CanSet(Top.node, Top.made, Head(Top.todo)) /\ Top.left \subseteq Present(Top.node)
  BY <1>1, <1>2, <1>3 DEF GoodFrame, GoodTodo
<1>5. ASSUME Root(Top)
      PROVE  how = "all"
  <2>1. Top.todo = <<all("body")>>
    BY <1>1, <1>5 DEF Root
  <2> QED
    BY <1>1, <2>1 DEF all, Field
<1> QED
  BY <1>1, <1>2, <1>3, <1>4, <1>5

\* One lemma for each action that does more than return a value.
LEMMA ParseStep ==
    ASSUME reflect_parse, ConvInv
    PROVE  ConvInv'
<1>1. CASE status' = "threw" /\ UNCHANGED stack
  BY <1>1 DEF reflect_parse, ConvInv
<1>2. ASSUME NEW tree \in createSourceElements, stack' = <<convertNode(tree, 0)>>,
             status' = "converting"
      PROVE  ConvInv'
  <2> DEFINE g == convertNode(tree, 0)
  <2>1. tree \in NodesOf["SourceElements"] /\ "SourceElements" \in Sorts
    BY SortsAre DEF NodesOf
  <2>2. tree \in ANode /\ Shape(tree) /\ tree.type = "SourceElements"
    BY <2>1, NodesAreNodes, ElementsOfLists
  <2>3. GoodFrame(g) /\ g \in AFrame /\ g.node = tree /\ g.indent = 0 /\ g.made = "call"
    BY <2>2, CallFrame
  <2>4. Root(g)
    BY <2>2, <2>3 DEF Root
  <2> HIDE DEF g
  <2>5. <<g>> \in Seq(AFrame) /\ Len(<<g>>) = 1 /\ <<g>>[1] = g /\ <<g>> # <<>>
    BY <2>3
  <2>6. GoodStack(<<g>>)
    BY <2>3, <2>4, <2>5 DEF GoodStack
  <2> QED
    BY <1>2, <2>5, <2>6 DEF ConvInv, g
<1> QED
  BY <1>1, <1>2 DEF reflect_parse

LEMMA CallingTop ==
    ASSUME ConvInv, NEW types, Calling(types)
    PROVE  /\ status = "converting" /\ Top.made = "call" /\ Top.node.type \in types
           /\ Top.node \in ANode /\ Shape(Top.node) /\ Top.indent \in Nat
           /\ ReturnsArray(Top) <=> Top.node.type \in ArrayTypes
           /\ "SourceElements" \notin types => Inner(Top)
<1>1. status = "converting" /\ Top.made = "call" /\ Top.node.type \in types
  BY DEF Calling
<1>2. Top \in AFrame /\ GoodFrame(Top) /\ (Root(Top) \/ Inner(Top))
  BY <1>1, TopIsGood
<1>3. Top.node \in ANode /\ Top.indent \in Nat
  BY <1>2 DEF AFrame
<1> QED
  BY <1>1, <1>2, <1>3 DEF GoodFrame, ReturnsArray, Root

LEMMA PassedOnStep ==
    ASSUME ConvertPassedOn, ConvInv
    PROVE  ConvInv'
<1> DEFINE m == Top.node
<1>1. /\ status = "converting" /\ m.type \in PassedOn /\ Shape(m) /\ Top.indent \in Nat
      /\ ReturnsArray(Top) <=> m.type \in ArrayTypes
      /\ Inner(Top)
  <2>1. "SourceElements" \notin PassedOn
    BY DEF PassedOn
  <2> QED
    BY <2>1, CallingTop DEF ConvertPassedOn
<1>2. m.type = "Arguments" <=> m.type \in ArrayTypes
  BY <1>1 DEF PassedOn, ArrayTypes, ListTypes
<1>3. CASE Has(m, 1)
  <2>1. PICK n \in NodesOf[m.kids[1]] : InPlaceOfTop(convertNode(n, Top.indent))
    BY <1>3 DEF ConvertPassedOn
  <2>2. m.kids[1] = (IF m.type = "Arguments" THEN "ArgumentsList" ELSE "SourceElements")
    BY <1>1, <1>3 DEF Shape, OtherShape, PassedOn, Has
  <2>3. m.kids[1] \in Sorts /\ (m.kids[1] \in ArraySorts <=> m.type = "Arguments")
    BY <2>2, SortsAre DEF ArraySorts
  <2>4. n \in ANode /\ Shape(n) /\ (n.type \in ArrayTypes <=> m.type = "Arguments")
    BY <2>1, <2>3, NodesAreNodes, ArraysBySort
  <2> DEFINE g == convertNode(n, Top.indent)
  <2>5. GoodFrame(g) /\ g \in AFrame /\ g.node = n /\ g.indent = Top.indent /\ g.made = "call"
    BY <1>1, <2>4, CallFrame
  <2> HIDE DEF g, m
  <2>6. Inner(g) /\ (ReturnsArray(g) <=> ReturnsArray(Top)) /\ ~Root(Top)
    BY <1>1, <1>2, <2>4, <2>5 DEF Inner, ReturnsArray, Root
  <2> QED
    BY <1>1, <2>1, <2>5, <2>6, InPlaceIsGood DEF g
<1>4. CASE ~Has(m, 1)
  <2> DEFINE kind == IF m.type = "Arguments" THEN "array" ELSE "object"
  <2>1. Return(kind)
    BY <1>4 DEF ConvertPassedOn
  <2>2. kind \in Kinds \ {"null"} /\ (kind = "array" <=> ReturnsArray(Top))
    BY <1>1, <1>2 DEF Kinds
  <2> HIDE DEF kind
  <2> QED
    BY <1>1, <2>1, <2>2, ReturnIsGood
<1> QED
  BY <1>3, <1>4

LEMMA ListStep ==
    ASSUME ConvertList, ConvInv
    PROVE  ConvInv'
<1> DEFINE g == convertChildren(Top.node, Top.indent + 1)
<1>1. /\ status = "converting" /\ Top.node.type \in ListTypes /\ Top.node \in ANode
      /\ Shape(Top.node) /\ Top.indent \in Nat /\ Inner(Top)
      /\ ReturnsArray(Top) <=> Top.node.type \in ArrayTypes
  <2>1. "SourceElements" \notin ListTypes
    BY DEF ListTypes
  <2> QED
    BY <2>1, CallingTop DEF ConvertList
<1>2. Top.node.type \in WithList /\ Top.node.type \in ArrayTypes
  BY <1>1 DEF ListTypes, WithList, ArrayTypes
<1>3. Elements(Top.node)
  BY <1>1, <1>2, ListsHaveElements
<1>4. GoodFrame(g) /\ g.indent = Top.indent + 1 /\ g.made = "Array" /\ g \in AFrame
  BY <1>1, <1>3, ArrayFrame
<1>5. InPlaceOfTop(g)
  BY DEF ConvertList
<1> HIDE DEF g
<1>6. Inner(g) /\ ReturnsArray(g) /\ ReturnsArray(Top) /\ ~Root(Top)
  BY <1>1, <1>2, <1>4 DEF Inner, ReturnsArray, Root
<1> QED
  BY <1>1, <1>4, <1>5, <1>6, InPlaceIsGood

LEMMA ObjectStep ==
    ASSUME ConvertObject, ConvInv
    PROVE  ConvInv'
<1> DEFINE n == Top.node
<1>1. status = "converting" /\ Top.made = "call"
  BY DEF ConvertObject
<1>2. Top \in AFrame /\ GoodFrame(Top) /\ (Root(Top) \/ Inner(Top))
  BY <1>1, TopIsGood
<1>3. n \in ANode /\ Top.indent \in Nat /\ Shape(n)
  BY <1>1, <1>2 DEF AFrame, GoodFrame
<1>4. PICK case \in Cases(n, Top.indent) :
         /\ case.type = n.type
         /\ IF case.type \in HaveOperator /\ n.op \notin DOMAIN operatorAsText
            THEN Crash
            ELSE InPlaceOfTop(Frame(n, Top.indent, case.made, case.fields))
  BY DEF ConvertObject
<1>5. ~(case.type \in HaveOperator /\ n.op \notin DOMAIN operatorAsText)
  BY <1>3, <1>4 DEF Shape, SimpleShape
<1> DEFINE g == Frame(n, Top.indent, case.made, case.fields)
<1>6. InPlaceOfTop(g)
  BY <1>4, <1>5
<1>7. GoodCase(n, Top.indent, case) /\ case.made \in Made
  BY <1>3, <1>4, CasesAreGood, CasesMake
<1>8. /\ GoodFrame(g) /\ g.node = n /\ g.indent = Top.indent /\ g.made = case.made
      /\ g.todo = case.fields /\ g \in AFrame
  BY <1>3, <1>7, ObjectFrame
<1> HIDE DEF g
<1>9. Root(Top) => Root(g)
  BY <1>7, <1>8 DEF Root, GoodCase
<1>10. Inner(Top) => Inner(g)
  BY <1>7, <1>8 DEF Inner, GoodCase
<1>11. ~ReturnsArray(g) /\ ~ReturnsArray(Top)
  BY <1>1, <1>7, <1>8 DEF ReturnsArray, GoodCase
<1> QED
  BY <1>1, <1>6, <1>8, <1>9, <1>10, <1>11, InPlaceIsGood

LEMMA ParametersStep ==
    ASSUME ConvertParameters \/ ConvertUnknown, ConvInv
    PROVE  ConvInv'
<1>1. CASE ConvertParameters
  <2>1. status = "converting" /\ ReturnsArray(Top) /\ Return("array")
    BY <1>1, CallingTop DEF ConvertParameters, ArrayTypes
  <2>2. "array" \in Kinds \ {"null"}
    BY DEF Kinds
  <2> QED
    BY <2>1, <2>2, ReturnIsGood
<1>2. CASE ConvertUnknown
  <2>1. status = "converting" /\ ~ReturnsArray(Top) /\ Return("undefined")
    BY <1>2, CallingTop DEF ConvertUnknown, ArrayTypes, ListTypes
  <2>2. "undefined" \in Kinds \ {"null"}
    BY DEF Kinds
  <2> QED
    BY <2>1, <2>2, ReturnIsGood
<1> QED
  BY <1>1, <1>2

LEMMA FinishStep ==
    ASSUME Finish, ConvInv
    PROVE  ConvInv'
<1> DEFINE kind == IF Top.made = "Array" THEN "array" ELSE "object"
<1>1. status = "converting" /\ Top.made # "call" /\ Return(kind)
  BY DEF Finish
<1>2. kind \in Kinds \ {"null"} /\ (kind = "array" <=> ReturnsArray(Top))
  BY <1>1 DEF Kinds, ReturnsArray
<1> HIDE DEF kind
<1> QED
  BY <1>1, <1>2, ReturnIsGood

\* A field is set to null or an empty array, or by a call.
LEMMA ChildStep ==
    ASSUME SetChild, ConvInv
    PROVE  ConvInv'
<1> DEFINE n == Top.node
           a == Head(Top.todo)
<1>1. /\ status = "converting" /\ Top.made # "call" /\ Top.todo # <<>>
      /\ CanSet(n, Top.made, a) /\ a.how = "node" /\ Kid = a.kid /\ n \in ANode
      /\ Top.left \subseteq Present(n) /\ Top.indent \in Nat
  BY NextField DEF SetChild
<1>2. a.kid \in Nat \ {0} /\ Shows(a, n) = {a.kid} /\ n.kids \in Kids
  BY <1>1 DEF CanSet, AField, Shows, ANode
<1>3. CASE Has(n, a.kid)
  <2>1. PICK m \in ChildNodes(n.kids[a.kid]) : Enter(convertNode(m, Top.indent + 1), {a.kid})
    BY <1>1, <1>3 DEF SetChild
  <2>2. n.kids[a.kid] \in Sorts
    BY <1>2, <1>3 DEF Has, Kids
  <2>3. m \in ANode /\ Shape(m) /\ (m.type \in ArrayTypes <=> n.kids[a.kid] \in ArraySorts)
    BY <2>1, <2>2, ChildrenAreNodes, NodesAreNodes, ArraysBySort
  <2>4. n.kids[a.kid] \in ArraySorts <=> ArrayField(Top.made, a.field)
    BY <1>1, <1>3 DEF CanSet
  <2> DEFINE g == convertNode(m, Top.indent + 1)
  <2>5. /\ GoodFrame(g) /\ g \in AFrame /\ g.node = m /\ g.indent = Top.indent + 1
        /\ g.made = "call"
    BY <1>1, <2>3, CallFrame
  <2> HIDE DEF g
  <2>6. Inner(g) /\ (ReturnsArray(g) <=> ArrayField(Top.made, a.field))
    BY <1>1, <2>3, <2>4, <2>5 DEF Inner, ReturnsArray
  <2> QED
    BY <1>1, <1>2, <2>1, <2>5, <2>6, EnterIsGood DEF g
<1>4. CASE ~Has(n, a.kid)
  <2>1. SetNow("null")
    BY <1>1, <1>4 DEF SetChild
  <2>2. MayBeNull(n.type, a.field) /\ ~ArrayField(Top.made, a.field)
    BY <1>1, <1>4 DEF CanSet
  <2>3. a.kid \notin Top.left
    BY <1>1, <1>2, <1>4, PresentKids DEF Present, Has
  <2>4. "null" \in Kinds
    BY DEF Kinds
  <2> QED
    BY <1>1, <1>2, <2>1, <2>2, <2>3, <2>4, SetNowIsGood
<1> QED
  BY <1>3, <1>4

LEMMA ChildrenStep ==
    ASSUME SetChildren, ConvInv
    PROVE  ConvInv'
<1> DEFINE n == Top.node
           a == Head(Top.todo)
<1>1. /\ status = "converting" /\ Top.made # "call" /\ Top.todo # <<>>
      /\ CanSet(n, Top.made, a) /\ a.how = "children" /\ Kid = a.kid /\ Top.indent \in Nat
  BY NextField DEF SetChildren
<1>2. Has(n, a.kid) /\ ElementsOf(n.kids[a.kid]) /\ ArrayField(Top.made, a.field) /\ n \in ANode
      /\ a.kid \in Nat \ {0}
  BY <1>1, NextField DEF CanSet, SetChildren, AField
<1>3. PICK m \in ChildNodes(n.kids[a.kid]) : Enter(convertChildren(m, Top.indent + 1), {a.kid})
  BY <1>1, <1>2 DEF SetChildren
<1>4. n.kids[a.kid] \in Sorts
  BY <1>2 DEF Has, ANode, Kids
<1>5. Elements(m)
  BY <1>2, <1>3, <1>4, ChildrenAreNodes DEF ElementsOf
<1> DEFINE g == convertChildren(m, Top.indent + 1)
<1>6. GoodFrame(g) /\ g.indent = Top.indent + 1 /\ g.made = "Array" /\ g \in AFrame
  BY <1>1, <1>5, ArrayFrame
<1>7. Shows(a, n) = {a.kid}
  BY <1>1 DEF Shows
<1> HIDE DEF g
<1>8. Inner(g) /\ ReturnsArray(g)
  BY <1>1, <1>6 DEF Inner, ReturnsArray
<1> QED
  BY <1>1, <1>2, <1>3, <1>6, <1>7, <1>8, EnterIsGood DEF g

LEMMA AllStep ==
    ASSUME SetAll, ConvInv
    PROVE  ConvInv'
<1> DEFINE n == Top.node
           a == Head(Top.todo)
           g == convertChildren(n, Top.indent + 1)
<1>1. /\ status = "converting" /\ Top.made # "call" /\ Top.todo # <<>>
      /\ CanSet(n, Top.made, a) /\ a.how = "all" /\ Top.indent \in Nat
  BY NextField DEF SetAll
<1>2. Elements(n) /\ ArrayField(Top.made, a.field) /\ Shows(a, n) = DOMAIN n.kids
  BY <1>1 DEF CanSet, Shows
<1>3. GoodFrame(g) /\ g.indent = Top.indent + 1 /\ g.made = "Array" /\ g \in AFrame
  BY <1>1, <1>2, ArrayFrame
<1>4. Enter(g, DOMAIN n.kids)
  BY DEF SetAll
<1> HIDE DEF g
<1>5. Inner(g) /\ ReturnsArray(g)
  BY <1>1, <1>3 DEF Inner, ReturnsArray
<1> QED
  BY <1>1, <1>2, <1>3, <1>4, <1>5, EnterIsGood

LEMMA OnlyStep ==
    ASSUME SetOnly, ConvInv
    PROVE  ConvInv'
<1> DEFINE n == Top.node
           a == Head(Top.todo)
<1>1. /\ status = "converting" /\ Top.made # "call" /\ Top.todo # <<>>
      /\ CanSet(n, Top.made, a) /\ a.how = "only" /\ Kid = a.kid /\ n \in ANode
      /\ Top.left \subseteq Present(n) /\ Top.indent \in Nat /\ Inner(Top)
  <2>1. "only" # "all"
    OBVIOUS
  <2> QED
    BY <2>1, NextField DEF SetOnly
<1>2. /\ ArrayField(Top.made, a.field) /\ Absent(n, a.kid) /\ Shows(a, n) = {a.kid}
      /\ a.kid \in Nat \ {0} /\ n.kids \in Kids
  BY <1>1 DEF CanSet, Shows, AField, ANode
<1>3. CASE Has(n, a.kid)
  <2> DEFINE k == <<n.kids[a.kid]>>
             m == Node("Array", k)
             g == convertChildren(m, Top.indent)
  <2>1. n.kids[a.kid] \in Sorts
    BY <1>2, <1>3 DEF Has, Kids
  <2>2. k \in Kids /\ Len(k) = 1 /\ k[1] = n.kids[a.kid] /\ k[1] \notin ArraySorts /\ k[1] # "null"
    BY <1>2, <1>3, <2>1, LeafSorts, ShortLists DEF Absent
  <2> HIDE DEF k
  <2>3. m \in ANode /\ m.kids = k
    BY <2>2 DEF Node, ANode
  <2> HIDE DEF m
  <2>4. Elements(m)
    <3>1. Len(m.kids) = 1 /\ \A kid \in 1..1 : kid = 1
      BY <2>2, <2>3
    <3> QED
      BY <2>2, <2>3, <3>1 DEF Elements
  <2>5. GoodFrame(g) /\ g.indent = Top.indent /\ g.made = "Array" /\ g \in AFrame
    BY <1>1, <2>4, ArrayFrame
  <2>6. Enter(g, {a.kid})
    BY <1>1, <1>3 DEF SetOnly, m, k
  <2> HIDE DEF g
  <2>7. Inner(g) /\ ReturnsArray(g)
    BY <1>1, <2>5 DEF Inner, ReturnsArray
  <2> QED
    BY <1>1, <1>2, <2>5, <2>6, <2>7, EnterIsGood
<1>4. CASE ~Has(n, a.kid)
  <2>1. SetNow("array")
    BY <1>1, <1>4 DEF SetOnly
  <2>2. a.kid \notin Top.left
    BY <1>1, <1>2, <1>4, PresentKids DEF Present, Has
  <2>3. "array" \in Kinds
    BY DEF Kinds
  <2> QED
    BY <1>1, <1>2, <2>1, <2>2, <2>3, SetNowIsGood
<1> QED
  BY <1>3, <1>4

\* The clause list with the default clause is a clause list still.
LEMMA FoldedList ==
    ASSUME NEW m \in NodesOf["ClauseList"], NEW default \in {<<>>, <<"DefaultClause">>}
    PROVE  LET f == [m EXCEPT !.kids = @ \o default] IN
           f \in ANode /\ Shape(f) /\ f.type = "ClauseList"
<1> DEFINE k == m.kids \o default
           f == [m EXCEPT !.kids = @ \o default]
<1>1. m \in ANode /\ Shape(m) /\ m.type = "ClauseList" /\ m.kids \in Kids
  <2>1. "ClauseList" \in Sorts
    BY SortsAre
  <2>2. m \in ANode /\ Shape(m)
    BY <2>1, NodesAreNodes
  <2>3. m.type = "ClauseList"
    BY ElementsOfLists
  <2> QED
    BY <2>2, <2>3 DEF ANode
<1>2. \A kid \in 1..Len(m.kids) : m.kids[kid] \in Leaves
  <2>1. \A kid \in 1..Len(m.kids) : Plain(m, kid) /\ m.kids[kid] \in Sorts \cup {"null"}
    BY <1>1 DEF Shape, SimpleShape, WithList, Kids
  <2> QED
    BY <2>1, LeafSorts DEF Plain, Has
<1>3. default \in Kids /\ \A kid \in 1..Len(default) : default[kid] \in Leaves
  <2>1. "DefaultClause" \in Leaves /\ "DefaultClause" \in Sorts \cup {"null"}
    BY SortsAre DEF Leaves
  <2>2. <<>> \in Kids /\ <<"DefaultClause">> \in Kids
    BY <2>1, ShortLists
  <2>3. Len(<<>>) = 0 /\ Len(<<"DefaultClause">>) = 1 /\ <<"DefaultClause">>[1] = "DefaultClause"
    OBVIOUS
  <2> QED
    BY <2>1, <2>2, <2>3
<1>4. k \in Kids /\ \A kid \in 1..Len(k) : k[kid] \in Leaves
  <2>1. /\ k \in Seq(Sorts \cup {"null"}) /\ Len(k) = Len(m.kids) + Len(default)
        /\ \A kid \in 1..Len(m.kids) + Len(default) :
              k[kid] = IF kid <= Len(m.kids) THEN m.kids[kid] ELSE default[kid - Len(m.kids)]
    BY <1>1, <1>3, ConcatProperties DEF Kids
  <2>2. Len(m.kids) \in Nat /\ Len(default) \in Nat
    BY <1>1, <1>3, PresentKids DEF Kids
  <2> HIDE DEF k
  <2>3. ASSUME NEW kid \in 1..Len(k)
        PROVE  k[kid] \in Leaves
    <3>1. CASE kid <= Len(m.kids)
      BY <1>2, <2>1, <2>2, <3>1
    <3>2. CASE ~(kid <= Len(m.kids))
      <4>1. kid - Len(m.kids) \in 1..Len(default) /\ k[kid] = default[kid - Len(m.kids)]
        BY <2>1, <2>2, <3>2
      <4> QED
        BY <1>3, <4>1
    <3> QED
      BY <3>1, <3>2
  <2> QED
    BY <2>1, <2>3 DEF Kids
<1> HIDE DEF k
<1>5. f = OpNode("ClauseList", m.op, k) /\ f \in ANode /\ f.type = "ClauseList"
  <2>1. f = [m EXCEPT !.kids = k]
    BY DEF k
  <2> HIDE DEF f
  <2>2. f \in ANode /\ f.type = m.type /\ f.op = m.op /\ f.kids = k
    BY <1>1, <1>4, <2>1 DEF ANode
  <2>3. f = [type |-> f.type, op |-> f.op, kids |-> f.kids]
    BY <2>2 DEF ANode
  <2> QED
    BY <1>1, <2>2, <2>3 DEF OpNode
<1>6. Shape(OpNode("ClauseList", m.op, k))
  <2>1. "ClauseList" \in WithList
    BY DEF WithList
  <2> QED
    BY <1>4, <2>1, ListShape
<1> QED
  BY <1>5, <1>6

LEMMA FoldStep ==
    ASSUME SetFold, ConvInv
    PROVE  ConvInv'
<1> DEFINE n == Top.node
           a == Head(Top.todo)
           default == IF Has(n, 3) THEN <<n.kids[3]>> ELSE <<>>
<1>1. /\ status = "converting" /\ Top.made # "call" /\ Top.todo # <<>>
      /\ CanSet(n, Top.made, a) /\ a.how = "fold" /\ Kid = a.kid /\ Top.indent \in Nat
  BY NextField DEF SetFold
<1>2. /\ ArrayField(Top.made, a.field) /\ a.kid = 2 /\ n.kids[2] = "ClauseList"
      /\ n.kids[3] \in {"null", "DefaultClause"} /\ Shows(a, n) = {2, 3}
  BY <1>1 DEF CanSet, Shows
<1>3. default \in {<<>>, <<"DefaultClause">>}
  BY <1>2 DEF Has
<1>4. PICK m \in ChildNodes("ClauseList") :
         Enter(convertNode([m EXCEPT !.kids = @ \o default], Top.indent + 1), {2, 3})
  <2>1. Kid + 1 = 3
    BY <1>1, <1>2
  <2>2. PICK m \in ChildNodes(n.kids[2]) :
           LET d == IF Has(n, 3) THEN <<n.kids[3]>> ELSE <<>> IN
           Enter(convertNode([m EXCEPT !.kids = @ \o d], Top.indent + 1), {2, 3})
    BY <1>1, <1>2, <2>1 DEF SetFold
  <2> QED
    BY <1>2, <2>2
<1>5. m \in NodesOf["ClauseList"]
  <2>1. "ClauseList" \in Sorts
    BY SortsAre
  <2> QED
    BY <1>4, <2>1, ChildrenAreNodes
<1> HIDE DEF default
<1> DEFINE f == [m EXCEPT !.kids = @ \o default]
           g == convertNode(f, Top.indent + 1)
<1>6. f \in ANode /\ Shape(f) /\ f.type = "ClauseList"
  BY <1>3, <1>5, FoldedList
<1> HIDE DEF f
<1>7. GoodFrame(g) /\ g \in AFrame /\ g.node = f /\ g.indent = Top.indent + 1 /\ g.made = "call"
  BY <1>1, <1>6, CallFrame
<1>8. Enter(g, {2, 3})
  BY <1>4 DEF f
<1> HIDE DEF g
<1>9. Inner(g) /\ ReturnsArray(g)
  BY <1>1, <1>6, <1>7 DEF Inner, ReturnsArray, ArrayTypes, ListTypes
<1> QED
  BY <1>1, <1>2, <1>7, <1>8, <1>9, EnterIsGood

LEMMA DirectStep ==
    ASSUME SetDirect, ConvInv
    PROVE  ConvInv'
<1> DEFINE a == Head(Top.todo)
<1>1. /\ status = "converting" /\ Top.made # "call" /\ Top.todo # <<>>
      /\ CanSet(Top.node, Top.made, a) /\ a.how \in {"array", "object"}
  BY NextField DEF SetDirect
<1>2. SetNow(a.how)
  BY DEF SetDirect
<1>3. a.how = "array" <=> ArrayField(Top.made, a.field)
  BY <1>1 DEF CanSet
<1>4. Shows(a, Top.node) = {} /\ a.how \in Kinds /\ a.how # "null"
  BY <1>1 DEF Shows, Kinds
<1> QED
  BY <1>1, <1>2, <1>3, <1>4, SetNowIsGood

-----------------------------------------------------------------------------
LEMMA ConvInvHolds == Spec => []ConvInv
<1>1. Init => ConvInv
  <2>1. GoodStack(<<>>)
    <3>1. <<>> \in Seq(AFrame) /\ Len(<<>>) = 0
      BY EmptySeq
    <3> QED
      BY <3>1 DEF GoodStack
  <2> QED
    BY <2>1 DEF Init, ConvInv
<1>2. ConvInv /\ [Next]_vars => ConvInv'
  <2> SUFFICES ASSUME ConvInv, [Next]_vars
               PROVE  ConvInv'
    OBVIOUS
  <2>1. CASE reflect_parse
    BY <2>1, ParseStep
  <2>2. CASE ConvertPassedOn
    BY <2>2, PassedOnStep
  <2>3. CASE ConvertList
    BY <2>3, ListStep
  <2>4. CASE ConvertParameters \/ ConvertUnknown
    BY <2>4, ParametersStep
  <2>5. CASE ConvertObject
    BY <2>5, ObjectStep
  <2>6. CASE SetChild
    BY <2>6, ChildStep
  <2>7. CASE SetChildren
    BY <2>7, ChildrenStep
  <2>8. CASE SetAll
    BY <2>8, AllStep
  <2>9. CASE SetOnly
    BY <2>9, OnlyStep
  <2>10. CASE SetFold
    BY <2>10, FoldStep
  <2>11. CASE SetDirect
    BY <2>11, DirectStep
  <2>12. CASE Finish
    BY <2>12, FinishStep
  <2>13. CASE Over \/ UNCHANGED vars
    BY <2>13 DEF Over, vars, ConvInv
  <2> QED
    BY <2>1, <2>2, <2>3, <2>4, <2>5, <2>6, <2>7, <2>8, <2>9, <2>10, <2>11, <2>12, <2>13
    DEF Next
<1> QED
  BY <1>1, <1>2, PTL DEF Spec

\* What the invariant says of one frame of the stack.
LEMMA FrameOfStack ==
    ASSUME ConvInv, NEW i \in DOMAIN stack
    PROVE  /\ stack[i] \in AFrame /\ GoodFrame(stack[i])
           /\ IF i = 1 THEN Root(stack[i]) ELSE Inner(stack[i])
<1>1. stack \in Seq(AFrame) /\ i \in 1..Len(stack)
  BY DEF ConvInv, GoodStack
<1> QED
  BY <1>1 DEF ConvInv, GoodStack

\* The stack of convertNode and convertChildren holds frames of the right kind,
\* and is empty unless Reflect.parse is converting a tree.
THEOREM ConversionTypes == Spec => []TypeOK
<1>1. ConvInv => TypeOK
  <2> SUFFICES ASSUME ConvInv
               PROVE  TypeOK
    OBVIOUS
  <2>1. ASSUME NEW i \in DOMAIN stack
        PROVE  /\ stack[i].indent \in Nat
               /\ stack[i].made \in Made \cup {"call", "Array"}
               /\ stack[i].left \subseteq DOMAIN stack[i].node.kids
               /\ \A g \in stack[i].got : g[2] \in {"object", "array", "null", "undefined"}
    <3>1. stack[i] \in AFrame /\ GoodFrame(stack[i])
      BY FrameOfStack
    <3>2. stack[i].left \subseteq DOMAIN stack[i].node.kids
      BY <3>1 DEF GoodFrame, Present
    <3>3. stack[i].got \in SUBSET (FieldNames \X Kinds)
      BY <3>1 DEF AFrame
    <3>4. stack[i].indent \in Nat /\ stack[i].made \in Made \cup {"call", "Array"}
      BY <3>1 DEF AFrame
    <3>5. \A g \in stack[i].got : g[2] \in Kinds
      BY <3>3
    <3> QED
      BY <3>2, <3>4, <3>5 DEF Kinds
  <2> QED
    BY <2>1 DEF TypeOK, ConvInv
<1> QED
  BY <1>1, ConvInvHolds, PTL

\* convertNode makes a Program object in its outermost call and in no other.
THEOREM OneProgram == Spec => []ProgramIsTheRoot
<1>1. ConvInv => ProgramIsTheRoot
  BY FrameOfStack DEF ProgramIsTheRoot, Root, Inner
<1> QED
  BY <1>1, ConvInvHolds, PTL

\* A field of an object is an array exactly if it is one that lists things,
\* whichever nodes the parser put there or left out.
THEOREM ArraysForLists == Spec => []ListsAreArrays
<1>1. ConvInv => ListsAreArrays
  <2> SUFFICES ASSUME ConvInv, NEW i \in DOMAIN stack, NEW g \in stack[i].got
               PROVE  IsArrayField(stack[i], g[1]) <=> g[2] = "array"
    BY DEF ListsAreArrays
  <2>1. ArrayField(stack[i].made, g[1]) <=> g[2] = "array"
    BY FrameOfStack DEF GoodFrame
  <2> QED
    BY <2>1 DEF ArrayField, IsArrayField
<1> QED
  BY <1>1, ConvInvHolds, PTL

\* Every tree that the parser can make is converted without an operator that
\* operatorAsText does not know and without a list taken from a null pointer.
THEOREM ConversionDoesNotCrash == Spec => []NothingCrashes
<1>1. ConvInv => NothingCrashes
  BY DEF ConvInv, NothingCrashes
<1> QED
  BY <1>1, ConvInvHolds, PTL

\* convertNode sets a field to null only for what the program left out, but for
\* the operand of void and the missing test of a default clause.
THEOREM NullsAreLeftOut == Spec => []NullMeansLeftOut
<1>1. ConvInv => NullMeansLeftOut
  <2> SUFFICES ASSUME ConvInv, NEW i \in DOMAIN stack, NEW g \in stack[i].got, g[2] = "null"
               PROVE  LET type == stack[i].node.type
                      IN  \/ type \in DOMAIN OptionalFields /\ g[1] \in OptionalFields[type]
                          \/ type = "Void"
                          \/ type = "Clause" /\ g[1] = "element"
    BY DEF NullMeansLeftOut
  <2>1. MayBeNull(stack[i].node.type, g[1])
    BY FrameOfStack DEF GoodFrame
  <2> QED
    BY <2>1 DEF MayBeNull
<1> QED
  BY <1>1, ConvInvHolds, PTL

\* An object shows all the children of its node when it is finished, but for the
\* left side of for-in and the clauses after a default clause.
THEOREM AllChildrenAreShown == Spec => []ChildrenAreShown
<1>1. ConvInv => ChildrenAreShown
  <2> SUFFICES ASSUME ConvInv, NEW i \in DOMAIN stack, Finished(stack[i])
               PROVE  stack[i].left \subseteq LeftOut(stack[i].node.type)
    BY DEF ChildrenAreShown, LeftOut
  <2>1. GoodTodo(stack[i])
    BY FrameOfStack DEF GoodFrame, Finished
  <2>2. Len(stack[i].todo) = 0
    BY DEF Finished
  <2> QED
    BY <2>1, <2>2 DEF GoodTodo
<1> QED
  BY <1>1, ConvInvHolds, PTL
==============================================================================
