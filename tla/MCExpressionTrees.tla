------------------------ MODULE MCExpressionTrees ------------------------
(* The texts of all small trees, in a few groups.                          *)
EXTENDS ExpressionTrees, ParserCode

Plain(type, kids) == Node(type, "NoOperator", kids)
Arguments(ts) == Plain("Arguments", ts)

\* The trees with t in one place and a leaf in every other place.
Around(t) ==
    LET x == Leaf("NUMBER")
        pairs == {<<t, x>>, <<x, t>>}
    IN  {Node(u[1], u[2], <<t>>) : u \in {<<"UnaryExpression", "MINUS">>,
             <<"UnaryExpression", "TYPEOF">>, <<"Prefix", "PLUSPLUS">>, <<"Postfix", "PLUSPLUS">>}}
        \cup {Node("BinaryExpression", op, p) : op \in {"OR", "INTOKEN", "PLUS"}, p \in pairs}
        \cup {Node("AssignmentExpression", op, p) : op \in {"EQUAL", "MODEQUAL"}, p \in pairs}
        \cup {Plain("BracketAccess", p) : p \in pairs}
        \cup {Plain("Comma", p) : p \in pairs \cup {<<x, t, x>>, <<x, x, t>>}}
        \cup {Plain("ConditionalExpression", p) : p \in {<<t, x, x>>, <<x, t, x>>, <<x, x, t>>}}
        \cup {Plain(type, p) : type \in {"FunctionCall", "NewExpression"},
              p \in {<<t, Arguments(<<>>)>>, <<x, Arguments(<<t>>)>>, <<x, Arguments(<<x, t>>)>>}}
        \cup {Plain(type, <<t>>) : type \in {"DotAccess", "Expression"}}

Inside(S) == UNION {Around(t) : t \in S}
Simple == Inside({Leaf("IDENT")})

\* Chains of member accesses, calls and new, whose parts bind in two directions.
Members == {"DotAccess", "Expression"}
RECURSIVE Chains(_)
Chains(n) ==
    IF n = 0 THEN {Leaf("IDENT")}
    ELSE LET S == Chains(n - 1) IN
         S \cup {Plain(type, <<t>>) : type \in Members, t \in S}
           \cup {Plain(type, <<t, Arguments(<<>>)>>) :
                 type \in {"FunctionCall", "NewExpression"}, t \in S}
           \cup {Plain("BracketAccess", <<t, Leaf("THISTOKEN")>>) : t \in S}

\* Every way to group n binary operators.
RECURSIVE Groupings(_)
Groupings(n) ==
    IF n = 0 THEN {Leaf("IDENT")}
    ELSE UNION {{Node("BinaryExpression", op, <<l, r>>) :
                     op \in {"OR", "PLUS", "TIMES"}, l \in Groupings(i), r \in Groupings(n - 1 - i)} :
                i \in 0 .. n - 1}

\* Assignments to every expression of Nested, in parentheses or not.
Nested == Inside(Simple)
AssignedTo(S) == {Node("AssignmentExpression", "EQUAL", <<t, Leaf("THISTOKEN")>>) : t \in S}

RECURSIVE HasNew(_)
HasNew(t) == t.type = "NewExpression" \/ \E i \in DOMAIN t.kids : HasNew(t.kids[i])
Constructed == {t \in Nested : HasNew(t)}

Trees == Nested \cup AssignedTo(Nested \ Constructed) \cup Chains(4) \cup Groupings(4)
         \cup {Node("BinaryExpression", op, <<l, r>>) :
                   op \in {"AND", "TIMES"}, l \in Simple, r \in Simple}

TextsOf(ts) == {[opening |-> Text(t), alphabet |-> {}, length |-> Len(Text(t)),
                 breaks |-> {FALSE}] : t \in ts}
TreeTexts == TextsOf(Trees)

\* Assignments like new X(a + b).c = d.
NewTargets == TextsOf(AssignedTo({Plain("DotAccess", <<t>>) : t \in Constructed}))
===========================================================================
