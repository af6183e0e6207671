---------------------------- MODULE ParserProofs ----------------------------
(* Proofs about JSParser: its registers and its call stack, for texts of any *)
(* length and calls nested to any depth.  What the functions do one after    *)
(* the other is taken from ParserCode.                                       *)
EXTENDS ParserCode, SequenceTheorems, WellFoundedInduction, TLAPS

-----------------------------------------------------------------------------
(* The inductive invariant.                                                 *)

Registers ==
    /\ text \in Texts /\ tok \in Tokens /\ nl \in BOOLEAN /\ tokenCount \in Nat
    /\ lexer \in {"ok", "m_error", "m_buffer16"} /\ (lexer # "ok" => tok = "ERRORTOK")
    /\ allowsIn \in BOOLEAN /\ error \in BOOLEAN /\ nonLHS \in Nat
    /\ value \in Values /\ status \in {"parsing", "done", "crashed", "aborted"}

\* What the counters of a frame are where its function is.
GoodCounts(f) ==
    /\ f.fn = "parseIfStatement" =>
         /\ Now(f.todo) = "foldElse" => f.m = f.n + 1
         /\ Now(f.todo) \notin {"", "fail", "foldElse"} => f.m = f.n
         /\ Now(f.todo) \in {"moreElse", "foldLastIf"} => f.n >= 1
    /\ f.fn = "parseBinaryExpression" =>
         /\ Now(f.todo) = "" => f.n = 0 /\ f.m = 0
         /\ Now(f.todo) = "binaryOperator" => f.n = f.m + 1
         /\ Now(f.todo) \notin {"", "fail", "binaryOperator"} => f.n = f.m
    /\ f.fn \in {"parseUnaryExpression", "parseAssignmentExpression"} /\ Now(f.todo) = "" =>
         f.n = 0
    /\ f.fn = "parseFunctionBody" =>
         /\ Now(f.todo) = "newBuilder" => f.n = 0
         /\ Now(f.todo) \in {"parseSourceElements", "fail"} => f.n = 1

GoodFrame(f) ==
    f \in Frame /\ f.fn \in Functions /\ f.todo \in Codes[f.fn] /\ GoodCounts(f)

\* f waits for g.
Calling(f, g) ==
    /\ f.todo # <<>> /\ Head(f.todo) \in Calls
    /\ \E t \in Tokens : g.fn = Callee(Head(f.todo), t)

Frames ==
    /\ stack \in Seq(Frame)
    /\ \A k \in 1 .. Len(stack) : GoodFrame(stack[k])
    /\ \A k \in 1 .. Len(stack) - 1 : Calling(stack[k], stack[k + 1])

\* The statement loop of the outermost function ends where parseStatement has
\* failed or found an end; it never looks at an error token with no error set.
Root ==
    /\ stack = <<>> <=> status = "done"
    /\ stack # <<>> =>
         /\ stack[1].fn = "parseSourceElements"
         /\ Now(stack[1].todo) = "failIfError" => error \/ lexer = "ok"
         /\ Now(stack[1].todo) = "" => ~error /\ lexer = "ok"
         /\ Top.fn = "parseStatement" /\ Now(Top.todo) = "returnNull" => lexer = "ok"

\* m_allowsIn as it is with the first k functions.
OnUpTo(k) == ~ \E i \in 1 .. k : /\ InForHead(stack[i])
                                 /\ \A j \in i + 1 .. k : stack[j].fn # "parseUnaryExpression"

AllowsIn ==
    /\ allowsIn = OnUpTo(Len(stack))
    /\ \A k \in 1 .. Len(stack) :
         stack[k].fn = "parseUnaryExpression" => stack[k].in = OnUpTo(k - 1)
    /\ \A i \in 1 .. Len(stack) : InForHead(stack[i]) =>
         \A k \in i + 1 .. Len(stack) :
           \/ \E j \in i + 1 .. k : stack[j].fn = "parseUnaryExpression"
           \/ stack[k].fn \in HeadFunctions

ParserInv == Registers /\ Frames /\ Root /\ AllowsIn /\ NoTreeAfterError

-----------------------------------------------------------------------------
(* The stack: a step replaces the innermost frame, adds one, or takes it     *)
(* away and changes the one below it.                                        *)

LEMMA StackFacts ==
    ASSUME stack \in Seq(Frame)
    PROVE  /\ Len(stack) \in Nat /\ (stack = <<>> <=> Len(stack) = 0)
           /\ \A k \in 1 .. Len(stack) : stack[k] \in Frame
           /\ stack # <<>> => /\ Len(stack) \in 1 .. Len(stack) /\ 1 \in 1 .. Len(stack)
                              /\ Top = stack[Len(stack)] /\ Top \in Frame
<1>1. Len(stack) \in Nat /\ (stack # <<>> => Len(stack) # 0) /\ Len(<<>>) = 0
  BY EmptySeq, LenProperties
<1>2. \A k \in 1 .. Len(stack) : stack[k] \in Frame
  BY ElementOfSeq
<1> QED
  BY <1>1, <1>2 DEF Top, Last

LEMMA FrontFacts ==
    ASSUME stack \in Seq(Frame), stack # <<>>
    PROVE  /\ Front(stack) \in Seq(Frame) /\ Len(Front(stack)) = Len(stack) - 1
           /\ \A k \in 1 .. Len(stack) - 1 : Front(stack)[k] = stack[k]
           /\ Front(stack) = <<>> <=> Len(stack) = 1
<1> DEFINE m == Len(stack) - 1
<1>1. m \in Nat /\ 1 \in Int /\ Len(stack) = m + 1 /\ \A k \in 1 .. m : stack[k] \in Frame
  BY StackFacts
<1>2. Front(stack) = SubSeq(stack, 1, m)
  BY DEF Front
<1> HIDE DEF m
<1>3. /\ Front(stack) \in Seq(Frame)
      /\ Len(Front(stack)) = IF 1 <= m THEN m - 1 + 1 ELSE 0
      /\ \A k \in 1 .. m - 1 + 1 : Front(stack)[k] = stack[1 + k - 1]
  BY <1>1, <1>2, SubSeqProperties
<1>4. Len(Front(stack)) = m /\ \A k \in 1 .. m : Front(stack)[k] = stack[k]
  BY <1>1, <1>3
<1>5. Front(stack) = <<>> <=> Len(Front(stack)) = 0
  BY <1>3, EmptySeq
<1> QED
  BY <1>1, <1>3, <1>4, <1>5

LEMMA TopReplaced ==
    ASSUME stack \in Seq(Frame), stack # <<>>, NEW f \in Frame, SetTop(f)
    PROVE  /\ stack' \in Seq(Frame) /\ stack' # <<>> /\ Len(stack') = Len(stack)
           /\ stack'[Len(stack)] = f
           /\ \A k \in 1 .. Len(stack) - 1 : stack'[k] = stack[k]
<1>1. /\ stack' \in Seq(Frame) /\ Len(stack') = Len(Front(stack)) + 1 /\ stack' # <<>>
      /\ \A k \in 1 .. Len(Front(stack)) : stack'[k] = Front(stack)[k]
      /\ stack'[Len(Front(stack)) + 1] = f
  BY FrontFacts, AppendProperties DEF SetTop
<1> QED
  BY <1>1, FrontFacts, StackFacts

LEMMA TopSet ==
    ASSUME stack \in Seq(Frame), stack # <<>>, NEW g, SetTop(g)
    PROVE  /\ Len(stack') = Len(stack) /\ stack'[Len(stack)] = g
           /\ \A k \in 1 .. Len(stack) - 1 : stack'[k] = stack[k]
<1> DEFINE m == Len(stack) - 1
           S == Frame \cup {g}
<1>1. /\ Front(stack) \in Seq(Frame) /\ Len(Front(stack)) = m
      /\ \A k \in 1 .. m : Front(stack)[k] = stack[k]
  BY FrontFacts
<1>2. Front(stack) \in Seq(S) /\ g \in S
  BY <1>1
<1>3. /\ Len(stack') = Len(Front(stack)) + 1
      /\ \A k \in 1 .. Len(Front(stack)) : stack'[k] = Front(stack)[k]
      /\ stack'[Len(Front(stack)) + 1] = g
  <2> HIDE DEF S
  <2> QED
    BY <1>2, AppendProperties DEF SetTop
<1>4. Len(stack) \in Nat /\ m + 1 = Len(stack)
  BY StackFacts
<1> QED
  BY <1>1, <1>3, <1>4

LEMMA FrameAdded ==
    ASSUME stack \in Seq(Frame), NEW g \in Frame, stack' = Append(stack, g)
    PROVE  /\ stack' \in Seq(Frame) /\ stack' # <<>> /\ Len(stack') = Len(stack) + 1
           /\ stack'[Len(stack) + 1] = g
           /\ \A k \in 1 .. Len(stack) : stack'[k] = stack[k]
BY AppendProperties

LEMMA FrameRemoved ==
    ASSUME stack \in Seq(Frame), stack # <<>>, NEW v, Leave(v)
    PROVE  /\ Len(stack) = 1 => stack' = <<>> /\ status' = "done"
           /\ Len(stack) # 1 =>
                LET m == Len(stack) - 1
                    f == [stack[m] EXCEPT !.todo = Resume(@, v)]
                IN  /\ m \in 1 .. Len(stack) /\ status' = status
                    /\ f \in Frame =>
                         /\ stack' \in Seq(Frame) /\ stack' # <<>> /\ Len(stack') = m
                         /\ stack'[m] = f /\ \A k \in 1 .. m - 1 : stack'[k] = stack[k]
<1> DEFINE m == Len(stack) - 1
           callers == Front(stack)
<1>1. /\ callers \in Seq(Frame) /\ Len(callers) = m
      /\ \A k \in 1 .. m : callers[k] = stack[k]
      /\ callers = <<>> <=> Len(stack) = 1
  BY FrontFacts
<1>2. IF callers = <<>> THEN stack' = <<>> /\ status' = "done"
      ELSE /\ stack' = [callers EXCEPT ![Len(callers)].todo = Resume(@, v)]
           /\ UNCHANGED status
  BY DEF Leave
<1>3. Len(stack) \in Nat /\ Len(stack) # 0
  BY StackFacts
<1> HIDE DEF callers
<1>4. ASSUME Len(stack) # 1, [stack[m] EXCEPT !.todo = Resume(@, v)] \in Frame
      PROVE  /\ stack' \in Seq(Frame) /\ stack' # <<>> /\ Len(stack') = m
             /\ stack'[m] = [stack[m] EXCEPT !.todo = Resume(@, v)]
             /\ \A k \in 1 .. m - 1 : stack'[k] = stack[k]
  <2> DEFINE f == [stack[m] EXCEPT !.todo = Resume(@, v)]
  <2>1. m \in 1 .. Len(callers) /\ f \in Frame
    BY <1>1, <1>3, <1>4
  <2>2. stack' = [callers EXCEPT ![m] = f]
    BY <1>1, <1>2, <1>4, <2>1
  <2> HIDE DEF f
  <2>3. /\ stack' \in Seq(Frame) /\ Len(stack') = m
        /\ \A k \in 1 .. m : stack'[k] = IF k = m THEN f ELSE callers[k]
    BY <1>1, <2>1, <2>2, ExceptSeq
  <2>4. stack' # <<>>
    BY <1>1, <1>3, <2>1, <2>3, EmptySeq
  <2>5. ASSUME NEW k \in 1 .. m - 1 PROVE stack'[k] = stack[k]
    <3>1. k \in 1 .. m /\ k # m
      BY <1>3
    <3> QED
      BY <1>1, <2>3, <3>1
  <2>6. stack'[m] = f
    BY <1>1, <2>1, <2>3
  <2> QED
    BY <2>3, <2>4, <2>5, <2>6 DEF f
<1> QED
  BY <1>1, <1>2, <1>3, <1>4

-----------------------------------------------------------------------------
(* The steps of a function.                                                 *)

\* The operations that put nothing in their place.
PlainOperations == Operations \ (Ends \cup DOMAIN Otherwise
                        \cup {"forVarRest", "callOrNew", "assignment", "binaryOperator"})

LEMMA SymbolFacts ==
    /\ Ends \subseteq Operations /\ DOMAIN Otherwise \subseteq Operations
    /\ {"forVarRest", "callOrNew", "assignment", "binaryOperator"} \subseteq Operations
    /\ Checked \subseteq Calls /\ "parseStatement*" \in Calls /\ DOMAIN Unchecked \subseteq Calls
    /\ DOMAIN Otherwise = {"autoSemiColon", "semicolonOrLabel", "semicolonOrExpression",
                           "semicolonOrColon"}
<1>1. DOMAIN Otherwise = {"autoSemiColon", "semicolonOrLabel", "semicolonOrExpression",
                          "semicolonOrColon"}
  BY DEF Otherwise
<1>2. Checked \subseteq Calls /\ "parseStatement*" \in Calls /\ DOMAIN Unchecked \subseteq Calls
  BY DEF Calls
<1> QED
  BY <1>1, <1>2 DEF Ends, Operations

LEMMA PutFacts ==
    /\ \A s \in Tokens \cup Calls \cup PlainOperations : Put(s) = {<<>>}
    /\ \A s \in Ends : Put(s) = {}
    /\ \A s \in Decisions \ Calls : Put(s) = {Expansion[s][t] : t \in Tokens}
    /\ \A s \in DOMAIN Otherwise : Put(s) = {<<>>, Otherwise[s]}
    /\ Put("forVarRest") = {<<"standardForLoop">>, <<"forVarIn">>}
    /\ Put("callOrNew") = {<<"parseArguments">>, <<"saveLHS", "parseArguments", "restoreLHS">>}
    /\ Put("assignment") = {<<>>, <<"next", "parseConditionalExpression", "assignment">>}
    /\ Put("binaryOperator") = {<<>>, <<"next", "operand">>}
<1> DEFINE Special == {"forVarRest", "callOrNew", "assignment", "binaryOperator"}
<1>1. /\ \A s \in Tokens \cup Calls : s \notin Operations
      /\ \A s \in Operations : s \notin Decisions \ Calls
      /\ \A s \in Tokens \cup Calls : s \notin Decisions \ Calls
  BY SymbolsAreToldApart
<1>2. \A s \in Tokens \cup Calls \cup PlainOperations :
        s \notin Ends /\ s \notin Decisions \ Calls /\ s \notin DOMAIN Otherwise /\ s \notin Special
  BY <1>1, SymbolFacts DEF PlainOperations
<1>3. \A s \in Tokens \cup Calls \cup PlainOperations : Put(s) = {<<>>}
  BY <1>2 DEF Put
<1>4. \A s \in Ends : Put(s) = {}
  <2>1. \A s \in Ends : s \notin Decisions \ Calls /\ s \notin DOMAIN Otherwise /\ s \notin Special
    BY <1>1, SymbolFacts DEF Ends
  <2> QED
    BY <2>1 DEF Put
<1>5. \A s \in Decisions \ Calls : s \notin Ends /\ s \notin DOMAIN Otherwise /\ s \notin Special
  BY <1>1, SymbolFacts
<1>6. \A s \in Decisions \ Calls : Put(s) = {Expansion[s][t] : t \in Tokens}
  BY <1>5 DEF Put
<1>7. \A s \in DOMAIN Otherwise \cup Special : s \notin Ends /\ s \notin Decisions \ Calls
  BY <1>1, SymbolFacts DEF Ends
<1>8. \A s \in DOMAIN Otherwise : Put(s) = {<<>>, Otherwise[s]}
  <2>1. \A s \in DOMAIN Otherwise : s \notin Special
    BY SymbolFacts
  <2> QED
    BY <1>7, <2>1 DEF Put
<1>9. \A s \in Special : s \notin DOMAIN Otherwise
  BY SymbolFacts
<1>10. Put("forVarRest") = {<<"standardForLoop">>, <<"forVarIn">>}
  BY <1>7, <1>9 DEF Put
<1>11. Put("callOrNew") = {<<"parseArguments">>, <<"saveLHS", "parseArguments", "restoreLHS">>}
  BY <1>7, <1>9 DEF Put
<1>12. Put("assignment") = {<<>>, <<"next", "parseConditionalExpression", "assignment">>}
  BY <1>7, <1>9 DEF Put
<1>13. Put("binaryOperator") = {<<>>, <<"next", "operand">>}
  BY <1>7, <1>9 DEF Put
<1> QED
  BY <1>3, <1>4, <1>6, <1>8, <1>10, <1>11, <1>12, <1>13

\* What is known of the code of a frame, and of the code that is left.
LEMMA CodeFacts ==
    ASSUME NEW f, GoodFrame(f)
    PROVE  /\ f.todo \in Seq(Symbols) /\ Now(f.todo) \in Places(f.fn)
           /\ f.todo = <<>> <=> Now(f.todo) = ""
           /\ f.todo # <<>> => /\ Now(f.todo) = Head(f.todo) /\ Head(f.todo) \in Symbols
                               /\ Tail(f.todo) \in Seq(Symbols)
<1>1. f.todo \in Seq(Symbols) /\ f.todo \in Codes[f.fn]
  BY CodesAreClosed DEF GoodFrame
<1>2. Now(f.todo) \in Places(f.fn)
  BY <1>1 DEF Places
<1>3. f.todo # <<>> => Now(f.todo) = Head(f.todo) /\ Head(f.todo) \in Symbols
                       /\ Tail(f.todo) \in Seq(Symbols)
  BY <1>1, HeadTailProperties DEF Now
<1>4. f.todo = <<>> => Now(f.todo) = ""
  BY DEF Now
<1> QED
  BY <1>1, <1>2, <1>3, <1>4, SymbolsAreToldApart

LEMMA AfterFacts ==
    ASSUME NEW f, GoodFrame(f), f.todo # <<>>, NEW d \in After(f.todo)
    PROVE  /\ d \in Codes[f.fn] /\ d \in Seq(Symbols) /\ Now(d) \in Places(f.fn)
           /\ Goes(f.fn, Now(f.todo), Now(d))
           /\ Now(f.todo) \notin Ends
<1>1. /\ f.fn \in Functions /\ f.todo \in Codes[f.fn] \ {<<>>}
  BY DEF GoodFrame
<1>2. d \in Codes[f.fn] /\ d \in Seq(Symbols)
  BY <1>1, CodesAreClosed
<1>3. Now(d) \in Places(f.fn) /\ Goes(f.fn, Now(f.todo), Now(d))
  BY <1>1, <1>2 DEF Places, Goes
<1>4. ASSUME Head(f.todo) \in Ends PROVE FALSE
  BY <1>4, PutFacts, SymbolFacts, SymbolsAreToldApart DEF After
<1> QED
  BY <1>2, <1>3, <1>4, CodeFacts

LEMMA SymbolsPut ==
    ASSUME NEW f, GoodFrame(f), f.todo # <<>>
    PROVE  /\ <<>> \in Put(Head(f.todo)) => Tail(f.todo) \in After(f.todo)
           /\ \A x \in Put(Head(f.todo)) : x \o Tail(f.todo) \in After(f.todo)
<1>1. \A x \in Put(Head(f.todo)) : x \o Tail(f.todo) \in After(f.todo)
  BY DEF After
<1>2. <<>> \o Tail(f.todo) = Tail(f.todo)
  BY CodeFacts, ConcatEmptySeq
<1> QED
  BY <1>1, <1>2

-----------------------------------------------------------------------------
(* Counters and code of one frame.                                          *)

\* The operations after which the counters of a frame fit where it is then.
CountingOperations == {"pushElseIf", "pushElse", "foldLastIf", "foldElse", "newBuilder",
    "endAssignment", "pushOperand", "binaryOperator", "endUnary"}

LEMMA CountingFacts == CountingOperations \subseteq Operations
BY DEF CountingOperations, Operations

LEMMA CountsKept ==
    ASSUME NEW f, GoodFrame(f), f.todo # <<>>, Now(f.todo) \notin CountingOperations,
           NEW g, g.fn = f.fn, g.todo \in After(f.todo), g.n = f.n, g.m = f.m
    PROVE  GoodCounts(g)
<1> DEFINE s == Now(f.todo)
           t == Now(g.todo)
<1>1. /\ s \in Places(f.fn) /\ t \in Places(f.fn) /\ Goes(f.fn, s, t)
      /\ s \notin Ends /\ s # "" /\ s \notin CountingOperations
  BY CodeFacts, AfterFacts
<1>2. s # "fail"
  BY <1>1 DEF Ends
<1>3. GoodCounts(f)
  BY DEF GoodFrame
<1> HIDE DEF s, t
<1>4. f.fn = "parseIfStatement" =>
        /\ t # "foldElse" /\ f.m = f.n /\ (t \in {"moreElse", "foldLastIf"} => f.n >= 1)
  <2> SUFFICES ASSUME f.fn = "parseIfStatement"
               PROVE  t # "foldElse" /\ f.m = f.n /\ (t \in {"moreElse", "foldLastIf"} => f.n >= 1)
    OBVIOUS
  <2>1. /\ t # "foldElse" /\ t # "moreElse" /\ (t = "foldLastIf" => s = "moreElse")
        /\ s # "foldElse"
    <3>1. /\ s \in Places("parseIfStatement") /\ t \in Places("parseIfStatement")
          /\ Goes("parseIfStatement", s, t)
      BY <1>1
    <3>2. s \notin {"pushElse", "foldLastIf", "pushElseIf", "foldElse"}
      BY <1>1 DEF CountingOperations
    <3> QED
      BY <3>1, <3>2, IfFlow
  <2> QED
    BY <1>1, <1>2, <1>3, <2>1 DEF GoodCounts, s
<1>5. f.fn = "parseBinaryExpression" => t \notin {"", "binaryOperator"} /\ f.n = f.m
  <2> SUFFICES ASSUME f.fn = "parseBinaryExpression"
               PROVE  t \notin {"", "binaryOperator"} /\ f.n = f.m
    OBVIOUS
  <2>1. t # "binaryOperator" /\ t # "" /\ s # "binaryOperator"
    BY <1>1, BinaryFlow DEF CountingOperations
  <2> QED
    BY <1>1, <1>2, <1>3, <2>1 DEF GoodCounts, s
<1>6. f.fn \in {"parseUnaryExpression", "parseAssignmentExpression"} => t # ""
  BY <1>1, UnaryFlow, AssignmentFlow DEF CountingOperations
<1>7. f.fn = "parseFunctionBody" => t # "newBuilder" /\ f.n = 1
  <2> SUFFICES ASSUME f.fn = "parseFunctionBody" PROVE t # "newBuilder" /\ f.n = 1
    OBVIOUS
  <2>1. t # "newBuilder" /\ s = "parseSourceElements"
    BY <1>1, <1>2, BodyFlow DEF CountingOperations
  <2> QED
    BY <1>3, <2>1 DEF GoodCounts, s
<1> QED
  BY <1>4, <1>5, <1>6, <1>7 DEF GoodCounts, t

\* A function that begins.
LEMMA CountsBegin ==
    ASSUME NEW g, NEW t \in Tokens, g.todo = Expansion[g.fn][t], g.n = 0, g.m = 0
    PROVE  GoodCounts(g)
<1>1. Now(g.todo) \in Starts(g.fn)
  BY DEF Starts
<1>2. g.fn = "parseIfStatement" => Now(g.todo) = "next"
  BY <1>1, IfFlow
<1>3. g.fn = "parseBinaryExpression" => Now(g.todo) = "operand"
  BY <1>1, BinaryFlow
<1>4. g.fn = "parseFunctionBody" => Now(g.todo) \in {"", "newBuilder"}
  BY <1>1, BodyFlow
<1> QED
  BY <1>2, <1>3, <1>4 DEF GoodCounts

\* g is the frame f after a call in it has returned v.
Continues(f, v, g) ==
    /\ GoodFrame(g) /\ g.fn = f.fn /\ g.in = f.in
    /\ g.n = f.n /\ g.m = f.m /\ g.mark = f.mark /\ g.took = f.took
    /\ g.todo \in After(f.todo) \/ (g.todo = f.todo /\ Head(f.todo) = "parseStatement*")
    /\ Head(f.todo) = "parseStatement*" => g.todo = IF v = "null" THEN Tail(f.todo) ELSE f.todo
    /\ Head(f.todo) \in Checked /\ v = "null" => g.todo = <<"fail">>
    /\ Head(f.todo) # "parseStatement*" /\ ~(Head(f.todo) \in Checked /\ v = "null") =>
         g.todo = Tail(f.todo)

LEMMA ResumeFacts ==
    ASSUME NEW f, GoodFrame(f), f.todo # <<>>, Head(f.todo) \in Calls, NEW v
    PROVE  Continues(f, v, [f EXCEPT !.todo = Resume(@, v)])
<1> DEFINE r == Resume(f.todo, v)
           g == [f EXCEPT !.todo = r]
<1>0. f \in Frame /\ f.fn \in Functions /\ f.todo \in Codes[f.fn] /\ GoodCounts(f)
  BY DEF GoodFrame
<1>1. "parseStatement*" \notin Checked
  BY DEF Checked
<1>2. /\ Head(f.todo) = "parseStatement*" => r = IF v = "null" THEN Tail(f.todo) ELSE f.todo
      /\ Head(f.todo) \in Checked /\ v = "null" => r = <<"fail">>
      /\ Head(f.todo) # "parseStatement*" /\ ~(Head(f.todo) \in Checked /\ v = "null") =>
           r = Tail(f.todo)
  BY <1>1 DEF Resume
<1>3. Tail(f.todo) \in After(f.todo)
  BY PutFacts, SymbolsPut
<1>4. Head(f.todo) \in Checked => <<"fail">> \in After(f.todo)
  BY DEF After
<1>5. r \in After(f.todo) \/ (r = f.todo /\ Head(f.todo) = "parseStatement*")
  BY <1>2, <1>3, <1>4
<1> HIDE DEF r
<1>6. r \in Seq(Symbols) /\ r \in Codes[f.fn]
  BY <1>0, <1>5, CodeFacts, AfterFacts
<1>7. /\ g \in Frame /\ g.todo = r /\ g.fn = f.fn /\ g.in = f.in
      /\ g.n = f.n /\ g.m = f.m /\ g.mark = f.mark /\ g.took = f.took
  BY <1>0, <1>6 DEF Frame
<1>11. g = [f EXCEPT !.todo = Resume(@, v)]
  BY DEF r
<1> HIDE DEF g
<1>8. GoodCounts(g)
  <2>1. CASE r \in After(f.todo)
    <3>1. Now(f.todo) \notin CountingOperations
      BY CodeFacts, CountingFacts, SymbolsAreToldApart
    <3> QED
      BY <1>7, <2>1, <3>1, CountsKept
  <2>2. CASE r = f.todo
    BY <1>0, <1>7, <2>2 DEF GoodCounts
  <2> QED
    BY <1>5, <2>1, <2>2
<1>9. GoodFrame(g)
  BY <1>0, <1>6, <1>7, <1>8 DEF GoodFrame
<1>10. Continues(f, v, g)
  BY <1>2, <1>5, <1>7, <1>9 DEF Continues
<1> QED
  BY <1>10, <1>11

-----------------------------------------------------------------------------
(* What the steps of the stack make of the frames.                          *)

LEMMA TopFacts ==
    ASSUME Frames, stack # <<>>
    PROVE  /\ stack \in Seq(Frame) /\ Len(stack) \in Nat /\ Len(stack) # 0
           /\ Len(stack) \in 1 .. Len(stack) /\ 1 \in 1 .. Len(stack)
           /\ Top = stack[Len(stack)] /\ GoodFrame(Top)
BY StackFacts DEF Frames

\* The innermost function has made a step.
Shifted ==
    /\ stack # <<>> /\ Top.todo # <<>>
    /\ stack' \in Seq(Frame) /\ Len(stack') = Len(stack)
    /\ \A k \in 1 .. Len(stack) :
         stack'[k].fn = stack[k].fn /\ stack'[k].in = stack[k].in /\ GoodCounts(stack'[k])
    /\ \A k \in 1 .. Len(stack) - 1 : stack'[k].todo = stack[k].todo
    /\ stack'[Len(stack)].todo \in After(Top.todo)

\* The frame that a step of the top frame makes.
NextFrame(f, g) ==
    g \in Frame /\ g.fn = f.fn /\ g.in = f.in /\ g.todo \in After(f.todo) /\ GoodCounts(g)

LEMMA TopShifts ==
    ASSUME Frames, stack # <<>>, Top.todo # <<>>, NEW g, NextFrame(Top, g), SetTop(g)
    PROVE  Shifted
<1>1. /\ stack \in Seq(Frame) /\ Len(stack) \in Nat /\ Len(stack) \in 1 .. Len(stack)
      /\ Top = stack[Len(stack)]
      /\ \A k \in 1 .. Len(stack) : GoodCounts(stack[k])
  BY TopFacts DEF Frames, GoodFrame
<1>2. /\ stack' \in Seq(Frame) /\ Len(stack') = Len(stack) /\ stack'[Len(stack)] = g
      /\ \A k \in 1 .. Len(stack) - 1 : stack'[k] = stack[k]
  BY <1>1, TopReplaced DEF NextFrame
<1>3. ASSUME NEW k \in 1 .. Len(stack)
      PROVE  stack'[k].fn = stack[k].fn /\ stack'[k].in = stack[k].in /\ GoodCounts(stack'[k])
  <2>1. CASE k = Len(stack)
    BY <1>1, <1>2, <2>1 DEF NextFrame
  <2>2. CASE k \in 1 .. Len(stack) - 1
    BY <1>1, <1>2, <2>2
  <2> QED
    BY <1>1, <2>1, <2>2
<1> QED
  BY <1>1, <1>2, <1>3 DEF Shifted, NextFrame

LEMMA FramesShifted == ASSUME Frames, Shifted PROVE Frames'
<1> DEFINE n == Len(stack)
<1>1. /\ stack \in Seq(Frame) /\ n \in Nat /\ n \in 1 .. n /\ Top = stack[n]
      /\ \A k \in 1 .. n : GoodFrame(stack[k])
      /\ \A k \in 1 .. n - 1 : Calling(stack[k], stack[k + 1])
      /\ Top.todo # <<>>
  BY TopFacts DEF Frames, Shifted
<1>2. /\ stack' \in Seq(Frame) /\ Len(stack') = n
      /\ \A k \in 1 .. n :
           stack'[k].fn = stack[k].fn /\ GoodCounts(stack'[k])
      /\ \A k \in 1 .. n - 1 : stack'[k].todo = stack[k].todo
      /\ stack'[n].todo \in After(stack[n].todo)
  BY <1>1 DEF Shifted
<1>3. \A k \in 1 .. n : stack'[k] \in Frame
  BY <1>2, ElementOfSeq
<1> HIDE DEF n
<1>4. ASSUME NEW k \in 1 .. n PROVE stack'[k].todo \in Codes[stack'[k].fn]
  <2>1. CASE k = n
    BY <1>1, <1>2, <2>1, AfterFacts
  <2>2. CASE k \in 1 .. n - 1
    BY <1>1, <1>2, <2>2 DEF GoodFrame
  <2> QED
    BY <1>1, <2>1, <2>2
<1>5. \A k \in 1 .. n : GoodFrame(stack'[k])
  BY <1>1, <1>2, <1>3, <1>4 DEF GoodFrame
<1>6. ASSUME NEW k \in 1 .. n - 1 PROVE Calling(stack'[k], stack'[k + 1])
  <2>1. k \in 1 .. n /\ k + 1 \in 1 .. n
    BY <1>1
  <2>2. stack'[k].todo = stack[k].todo /\ stack'[k + 1].fn = stack[k + 1].fn
    BY <1>2, <2>1
  <2> QED
    BY <1>1, <2>2 DEF Calling
<1> QED
  BY <1>2, <1>5, <1>6 DEF Frames

\* The innermost function has called another one.
LEMMA FramesCalled ==
    ASSUME Frames, stack # <<>>, NEW g, GoodFrame(g), Calling(Top, g), stack' = Append(stack, g)
    PROVE  Frames'
<1> DEFINE n == Len(stack)
<1>0. n \in Nat /\ n # 0
  BY TopFacts
<1>1. /\ stack \in Seq(Frame) /\ n \in Nat /\ n # 0 /\ n \in 1 .. n /\ Top = stack[n]
      /\ \A k \in 1 .. n : GoodFrame(stack[k])
      /\ \A k \in 1 .. n - 1 : Calling(stack[k], stack[k + 1])
  BY TopFacts DEF Frames
<1>2. /\ stack' \in Seq(Frame) /\ Len(stack') = n + 1 /\ stack'[n + 1] = g
      /\ \A k \in 1 .. n : stack'[k] = stack[k]
  BY <1>1, FrameAdded DEF GoodFrame
<1> HIDE DEF n
<1>3. ASSUME NEW k \in 1 .. n + 1 PROVE GoodFrame(stack'[k])
  <2>1. CASE k = n + 1
    BY <1>2, <2>1
  <2>2. CASE k \in 1 .. n
    BY <1>1, <1>2, <2>2
  <2>3. k = n + 1 \/ k \in 1 .. n
    BY <1>0
  <2> QED
    BY <2>1, <2>2, <2>3
<1>4. ASSUME NEW k \in 1 .. n PROVE Calling(stack'[k], stack'[k + 1])
  <2>1. CASE k = n
    BY <1>1, <1>2, <2>1
  <2>2. CASE k \in 1 .. n - 1
    <3>1. k + 1 \in 1 .. n
      BY <1>1, <2>2
    <3> QED
      BY <1>1, <1>2, <2>2, <3>1
  <2>3. k = n \/ k \in 1 .. n - 1
    BY <1>0
  <2> QED
    BY <2>1, <2>2, <2>3
<1> QED
  BY <1>1, <1>2, <1>3, <1>4 DEF Frames

\* The caller of the innermost function, and what it becomes.
Caller == stack[Len(stack) - 1]
Resumed(v) == [Caller EXCEPT !.todo = Resume(@, v)]

LEMMA ResumedFacts ==
    ASSUME GoodFrame(Caller), Calling(Caller, Top), NEW v
    PROVE  Continues(Caller, v, Resumed(v))
<1>1. Caller.todo # <<>> /\ Head(Caller.todo) \in Calls
  BY DEF Calling
<1> HIDE DEF Caller
<1> QED
  BY <1>1, ResumeFacts DEF Resumed

\* The innermost function has returned v to it.
Returned(v) ==
    /\ Len(stack) - 1 \in 1 .. Len(stack) /\ status' = status
    /\ GoodFrame(Caller) /\ Calling(Caller, Top)
    /\ GoodFrame(Resumed(v))
    /\ stack' \in Seq(Frame) /\ stack' # <<>> /\ Len(stack') = Len(stack) - 1
    /\ stack'[Len(stack) - 1] = Resumed(v)
    /\ \A k \in 1 .. Len(stack) - 2 : stack'[k] = stack[k]

LEMMA FramesReturned ==
    ASSUME Frames, stack # <<>>, NEW v, Leave(v)
    PROVE  \/ Len(stack) = 1 /\ stack' = <<>> /\ status' = "done" /\ Frames'
           \/ Len(stack) # 1 /\ Returned(v) /\ Frames'
<1> DEFINE n == Len(stack)
           m == n - 1
<1>0. n \in Nat /\ n # 0
  BY TopFacts
<1>1. /\ stack \in Seq(Frame) /\ n \in Nat /\ n # 0 /\ Top = stack[n]
      /\ \A k \in 1 .. n : GoodFrame(stack[k])
      /\ \A k \in 1 .. n - 1 : Calling(stack[k], stack[k + 1])
  BY TopFacts DEF Frames
<1>2. CASE n = 1
  <2>1. stack' = <<>> /\ status' = "done"
    BY <1>1, <1>2, FrameRemoved
  <2>2. stack' \in Seq(Frame) /\ Len(stack') = 0
    BY <2>1, EmptySeq
  <2> QED
    BY <1>2, <2>1, <2>2 DEF Frames
<1>3. CASE n # 1
  <2>1. m \in 1 .. n /\ m \in 1 .. n - 1 /\ m + 1 = n /\ m - 1 = n - 2 /\ m \in Nat
    BY <1>0, <1>3
  <2>2. GoodFrame(Caller) /\ Calling(Caller, Top)
    <3>1. GoodFrame(stack[m]) /\ Calling(stack[m], stack[m + 1])
      BY <1>1, <2>1
    <3> QED
      BY <1>1, <2>1, <3>1 DEF Caller
  <2>3. GoodFrame(Resumed(v)) /\ Resumed(v).fn = Caller.fn
    BY <2>2, ResumedFacts DEF Continues
  <2>4. Resumed(v) \in Frame
    BY <2>3 DEF GoodFrame
  <2>5. /\ stack' \in Seq(Frame) /\ stack' # <<>> /\ Len(stack') = m /\ status' = status
        /\ stack'[m] = Resumed(v) /\ \A k \in 1 .. m - 1 : stack'[k] = stack[k]
    BY <1>1, <1>3, <2>4, FrameRemoved DEF Resumed, Caller
  <2>6. Returned(v)
    BY <2>1, <2>2, <2>3, <2>5 DEF Returned
  <2> HIDE DEF m, n
  <2>7. ASSUME NEW k \in 1 .. m PROVE GoodFrame(stack'[k])
    <3>1. CASE k = m
      BY <2>3, <2>5, <3>1
    <3>2. CASE k \in 1 .. m - 1
      <4>1. k \in 1 .. n
        BY <2>1, <3>2
      <4> QED
        BY <1>1, <2>5, <3>2, <4>1
    <3> QED
      BY <2>1, <3>1, <3>2
  <2>8. ASSUME NEW k \in 1 .. m - 1 PROVE Calling(stack'[k], stack'[k + 1])
    <3>1. k \in 1 .. n - 1 /\ k + 1 \in 1 .. m
      BY <2>1
    <3>2. Calling(stack[k], stack[k + 1]) /\ stack'[k] = stack[k]
      BY <1>1, <2>5, <3>1
    <3>3. stack'[k + 1].fn = stack[k + 1].fn
      <4>1. CASE k + 1 = m
        BY <2>3, <2>5, <4>1 DEF Caller, m, n
      <4>2. CASE k + 1 \in 1 .. m - 1
        BY <2>5, <4>2
      <4> QED
        BY <2>1, <3>1, <4>1, <4>2
    <3> QED
      BY <3>2, <3>3 DEF Calling
  <2>9. Frames'
    BY <2>5, <2>7, <2>8 DEF Frames
  <2> QED
    BY <1>3, <2>6, <2>9 DEF n
<1> QED
  BY <1>2, <1>3

-----------------------------------------------------------------------------
(* m_allowsIn.                                                              *)

LEMMA HeadFacts ==
    ASSUME NEW f, f.fn \in Functions, f.todo \in Codes[f.fn]
    PROVE  InForHead(f) <=> f.fn = "parseForStatement" /\ Now(f.todo) \in HeadCalls \cup {"inOn"}
<1> DEFINE g == [fn |-> f.fn, todo |-> f.todo]
<1>1. InForHead(f) <=> InForHead(g)
  BY DEF InForHead
<1>2. f.fn = "parseForStatement" =>
        (InForHead(g) <=> Now(f.todo) \in HeadCalls \cup {"inOn"})
  BY ForFlow
<1>3. InForHead(f) => f.fn = "parseForStatement"
  BY DEF InForHead
<1> QED
  BY <1>1, <1>2, <1>3

LEMMA HeadKept ==
    ASSUME NEW f, GoodFrame(f), f.todo # <<>>, Now(f.todo) \notin {"inOff", "inOn"},
           NEW g, g.fn = f.fn, g.todo \in After(f.todo) \/ g.todo = f.todo
    PROVE  InForHead(g) <=> InForHead(f)
<1>1. CASE g.todo = f.todo
  BY <1>1 DEF InForHead
<1>2. CASE g.todo \in After(f.todo)
  <2>1. /\ g.todo \in Codes[f.fn] /\ Goes(f.fn, Now(f.todo), Now(g.todo))
        /\ Now(f.todo) \in Places(f.fn) /\ Now(g.todo) \in Places(f.fn)
    BY <1>2, AfterFacts, CodeFacts
  <2>2. f.fn = "parseForStatement" =>
          (Now(g.todo) \in HeadCalls \cup {"inOn"} <=> Now(f.todo) \in HeadCalls \cup {"inOn"})
    BY <2>1, ForFlow
  <2> QED
    BY <2>1, <2>2, HeadFacts DEF GoodFrame
<1> QED
  BY <1>1, <1>2

\* A function that begins is not in a head.
LEMMA HeadBegins ==
    ASSUME NEW g, GoodFrame(g), NEW t \in Tokens, g.todo = Expansion[g.fn][t]
    PROVE  ~InForHead(g)
<1>1. Now(g.todo) \in Starts(g.fn)
  BY DEF Starts
<1>2. g.fn = "parseForStatement" => Now(g.todo) = "next"
  BY <1>1, ForFlow
<1> QED
  BY <1>2, HeadFacts DEF GoodFrame, HeadCalls

LEMMA OnUpToSame ==
    ASSUME NEW k, \A i \in 1 .. k : /\ InForHead(stack'[i]) <=> InForHead(stack[i])
                                    /\ stack'[i].fn = stack[i].fn
    PROVE  OnUpTo(k)' = OnUpTo(k)
<1>1. ASSUME NEW i \in 1 .. k
      PROVE  (\A j \in i + 1 .. k : stack'[j].fn # "parseUnaryExpression") <=>
             (\A j \in i + 1 .. k : stack[j].fn # "parseUnaryExpression")
  <2>1. \A j \in i + 1 .. k : stack'[j].fn = stack[j].fn
    <3>1. \A j \in i + 1 .. k : j \in 1 .. k
      OBVIOUS
    <3> QED
      BY <3>1
  <2> QED
    BY <2>1
<1> QED
  BY <1>1 DEF OnUpTo

\* A step within the innermost function that leaves m_allowsIn alone.
LEMMA AllowsInShifted ==
    ASSUME Frames, AllowsIn, Shifted, Now(Top.todo) \notin {"inOff", "inOn"}, UNCHANGED allowsIn
    PROVE  AllowsIn'
<1> SUFFICES ASSUME NEW n \in Nat, n = Len(stack), n \in 1 .. n PROVE AllowsIn'
  BY TopFacts DEF Shifted
<1>1. /\ Top = stack[n] /\ GoodFrame(Top) /\ Top.todo # <<>>
      /\ Len(stack') = n
      /\ \A k \in 1 .. n : stack'[k].fn = stack[k].fn /\ stack'[k].in = stack[k].in
      /\ \A k \in 1 .. n - 1 : stack'[k].todo = stack[k].todo
      /\ stack'[n].todo \in After(Top.todo)
  BY TopFacts DEF Shifted
<1>2. /\ allowsIn = OnUpTo(n)
      /\ \A k \in 1 .. n :
           stack[k].fn = "parseUnaryExpression" => stack[k].in = OnUpTo(k - 1)
      /\ \A i \in 1 .. n : InForHead(stack[i]) =>
           \A k \in i + 1 .. n :
             \/ \E j \in i + 1 .. k : stack[j].fn = "parseUnaryExpression"
             \/ stack[k].fn \in HeadFunctions
  BY DEF AllowsIn
<1>3. ASSUME NEW k \in 1 .. n PROVE InForHead(stack'[k]) <=> InForHead(stack[k])
  <2>1. CASE k = n
    BY <1>1, <2>1, HeadKept
  <2>2. CASE k \in 1 .. n - 1
    BY <1>1, <2>2 DEF InForHead
  <2>3. k = n \/ k \in 1 .. n - 1
    OBVIOUS
  <2> QED
    BY <2>1, <2>2, <2>3
<1>4. ASSUME NEW k \in 0 .. n PROVE OnUpTo(k)' = OnUpTo(k)
  <2>1. \A i \in 1 .. k : i \in 1 .. n
    OBVIOUS
  <2> QED
    BY <1>1, <1>3, <2>1, OnUpToSame
<1>5. n \in 0 .. n /\ \A k \in 1 .. n : k - 1 \in 0 .. n
  OBVIOUS
<1>6. allowsIn' = OnUpTo(n)'
  BY <1>2, <1>4, <1>5
<1>7. \A k \in 1 .. n :
        stack'[k].fn = "parseUnaryExpression" => stack'[k].in = OnUpTo(k - 1)'
  BY <1>1, <1>2, <1>4, <1>5
<1>8. ASSUME NEW i \in 1 .. n, InForHead(stack'[i]), NEW k \in i + 1 .. n
      PROVE  \/ \E j \in i + 1 .. k : stack'[j].fn = "parseUnaryExpression"
             \/ stack'[k].fn \in HeadFunctions
  <2>1. k \in 1 .. n /\ \A j \in i + 1 .. k : j \in 1 .. n
    OBVIOUS
  <2> QED
    BY <1>1, <1>2, <1>3, <1>8, <2>1
<1> QED
  BY <1>1, <1>6, <1>7, <1>8 DEF AllowsIn

\* m_allowsIn = false, and m_allowsIn = true, in parseForStatement.
LEMMA AllowsInSwitched ==
    ASSUME Frames, AllowsIn, Shifted, Now(Top.todo) \in {"inOff", "inOn"},
           allowsIn' = (Now(Top.todo) = "inOn")
    PROVE  AllowsIn'
<1> SUFFICES ASSUME NEW n \in Nat, n = Len(stack), n \in 1 .. n PROVE AllowsIn'
  BY TopFacts DEF Shifted
<1>1. /\ Top = stack[n] /\ GoodFrame(Top) /\ Top.todo # <<>>
      /\ Len(stack') = n
      /\ \A k \in 1 .. n : stack'[k].fn = stack[k].fn /\ stack'[k].in = stack[k].in
      /\ \A k \in 1 .. n - 1 : stack'[k].todo = stack[k].todo
      /\ stack'[n].todo \in After(Top.todo)
  BY TopFacts DEF Shifted
<1>2. /\ \A k \in 1 .. n :
           stack[k].fn = "parseUnaryExpression" => stack[k].in = OnUpTo(k - 1)
      /\ \A i \in 1 .. n : InForHead(stack[i]) =>
           \A k \in i + 1 .. n :
             \/ \E j \in i + 1 .. k : stack[j].fn = "parseUnaryExpression"
             \/ stack[k].fn \in HeadFunctions
  BY DEF AllowsIn
<1>3. /\ Top.fn = "parseForStatement" /\ stack'[n].fn = "parseForStatement"
      /\ InForHead(stack'[n]) <=> Now(Top.todo) = "inOff"
  <2> DEFINE s == Now(Top.todo)
             t == Now(stack'[n].todo)
  <2>1. s \in Places(Top.fn) /\ s \in Symbols /\ Top.fn \in Functions
    BY <1>1, CodeFacts DEF GoodFrame
  <2>2. Top.fn = "parseForStatement"
    BY <2>1, OperationsAreOwned
  <2>3. t \in Places(Top.fn) /\ Goes(Top.fn, s, t) /\ stack'[n].todo \in Codes[Top.fn]
    BY <1>1, AfterFacts
  <2>4. t \in HeadCalls \cup {"inOn"} <=> s = "inOff"
    BY <2>1, <2>2, <2>3, ForFlow DEF HeadCalls
  <2> QED
    BY <1>1, <2>1, <2>2, <2>3, <2>4, HeadFacts
<1>4. \A k \in 1 .. n - 1 : InForHead(stack'[k]) <=> InForHead(stack[k])
  BY <1>1 DEF InForHead
<1>5. ASSUME NEW k \in 0 .. n - 1 PROVE OnUpTo(k)' = OnUpTo(k)
  <2>1. \A i \in 1 .. k : i \in 1 .. n /\ i \in 1 .. n - 1
    OBVIOUS
  <2> QED
    BY <1>1, <1>4, <2>1, OnUpToSame
<1>6. ASSUME NEW i \in 1 .. n - 1, InForHead(stack[i])
      PROVE  \E j \in i + 1 .. n : stack'[j].fn = "parseUnaryExpression"
  <2>1. i \in 1 .. n /\ n \in i + 1 .. n /\ \A j \in i + 1 .. n : j \in 1 .. n
    OBVIOUS
  <2>2. stack[n].fn \notin HeadFunctions
    BY <1>1, <1>3 DEF HeadFunctions
  <2> QED
    BY <1>1, <1>2, <1>6, <2>1, <2>2
<1>7. allowsIn' = OnUpTo(n)'
  <2>1. CASE Now(Top.todo) = "inOff"
    <3>1. InForHead(stack'[n]) /\ \A j \in n + 1 .. n : FALSE
      BY <1>3, <2>1
    <3>2. ~OnUpTo(n)'
      BY <3>1 DEF OnUpTo
    <3> QED
      BY <2>1, <3>2 DEF OnUpTo
  <2>2. CASE Now(Top.todo) = "inOn"
    <3>1. ASSUME NEW i \in 1 .. n, InForHead(stack'[i])
          PROVE  \E j \in i + 1 .. n : stack'[j].fn = "parseUnaryExpression"
      <4>1. i # n
        BY <1>3, <2>2, <3>1
      <4>2. i \in 1 .. n - 1
        BY <4>1
      <4> QED
        BY <1>4, <1>6, <3>1, <4>2
    <3>2. OnUpTo(n)'
      BY <3>1 DEF OnUpTo
    <3> QED
      BY <2>2, <3>2 DEF OnUpTo
  <2> QED
    BY <2>1, <2>2
<1>8. \A k \in 1 .. n :
        stack'[k].fn = "parseUnaryExpression" => stack'[k].in = OnUpTo(k - 1)'
  <2>1. \A k \in 1 .. n : k - 1 \in 0 .. n - 1
    OBVIOUS
  <2> QED
    BY <1>1, <1>2, <1>5, <2>1
<1>9. ASSUME NEW i \in 1 .. n, InForHead(stack'[i]), NEW k \in i + 1 .. n
      PROVE  \/ \E j \in i + 1 .. k : stack'[j].fn = "parseUnaryExpression"
             \/ stack'[k].fn \in HeadFunctions
  <2>1. i \in 1 .. n - 1 /\ k \in 1 .. n /\ \A j \in i + 1 .. k : j \in 1 .. n
    OBVIOUS
  <2> QED
    BY <1>1, <1>2, <1>4, <1>9, <2>1
<1> QED
  BY <1>1, <1>7, <1>8, <1>9 DEF AllowsIn

\* A call, with the constructor of AllowInOverride.
LEMMA AllowsInCalled ==
    ASSUME Registers, Frames, AllowsIn, stack # <<>>, NEW g, GoodFrame(g), Calling(Top, g),
           ~InForHead(g), g.in = allowsIn,
           stack' = Append(stack, g), allowsIn' = (allowsIn \/ g.fn = "parseUnaryExpression")
    PROVE  AllowsIn'
<1> SUFFICES ASSUME NEW n \in Nat, n = Len(stack), n \in 1 .. n PROVE AllowsIn'
  BY TopFacts
<1>1. /\ Top = stack[n] /\ GoodFrame(Top) /\ stack \in Seq(Frame)
  BY TopFacts
<1>2. /\ allowsIn = OnUpTo(n)
      /\ \A k \in 1 .. n :
           stack[k].fn = "parseUnaryExpression" => stack[k].in = OnUpTo(k - 1)
      /\ \A i \in 1 .. n : InForHead(stack[i]) =>
           \A k \in i + 1 .. n :
             \/ \E j \in i + 1 .. k : stack[j].fn = "parseUnaryExpression"
             \/ stack[k].fn \in HeadFunctions
  BY DEF AllowsIn
<1>3. /\ Len(stack') = n + 1 /\ stack'[n + 1] = g
      /\ \A k \in 1 .. n : stack'[k] = stack[k]
  BY <1>1, FrameAdded DEF GoodFrame
<1>4. ASSUME NEW k \in 0 .. n PROVE OnUpTo(k)' = OnUpTo(k)
  <2>1. \A i \in 1 .. k : i \in 1 .. n
    OBVIOUS
  <2> QED
    BY <1>3, <2>1, OnUpToSame
<1>5. n \in 0 .. n /\ \A k \in 1 .. n : k - 1 \in 0 .. n
  OBVIOUS
<1>6. OnUpTo(n + 1)' = (OnUpTo(n) \/ g.fn = "parseUnaryExpression")
  <2>1. ASSUME NEW i \in 1 .. n
        PROVE  (\A j \in i + 1 .. n + 1 : stack'[j].fn # "parseUnaryExpression") <=>
               /\ \A j \in i + 1 .. n : stack[j].fn # "parseUnaryExpression"
               /\ g.fn # "parseUnaryExpression"
    <3>1. \A j \in i + 1 .. n + 1 : j = n + 1 \/ j \in i + 1 .. n
      OBVIOUS
    <3>2. n + 1 \in i + 1 .. n + 1 /\ \A j \in i + 1 .. n : j \in i + 1 .. n + 1 /\ j \in 1 .. n
      OBVIOUS
    <3> QED
      BY <1>3, <3>1, <3>2
  <2>2. \A i \in 1 .. n + 1 : i = n + 1 \/ i \in 1 .. n
    OBVIOUS
  <2>3. \A i \in 1 .. n : i \in 1 .. n + 1
    OBVIOUS
  <2>4. OnUpTo(n + 1)' <=>
          ~ \E i \in 1 .. n : /\ InForHead(stack[i])
                              /\ \A j \in i + 1 .. n + 1 : stack'[j].fn # "parseUnaryExpression"
    BY <1>3, <2>2, <2>3 DEF OnUpTo
  <2> QED
    BY <2>1, <2>4 DEF OnUpTo
<1>7. allowsIn' = OnUpTo(n + 1)'
  BY <1>2, <1>6
<1>8. ASSUME NEW k \in 1 .. n + 1, stack'[k].fn = "parseUnaryExpression"
      PROVE  stack'[k].in = OnUpTo(k - 1)'
  <2>1. CASE k = n + 1
    <3>1. k - 1 = n
      BY <2>1
    <3> QED
      BY <1>2, <1>3, <1>4, <1>5, <2>1, <3>1
  <2>2. CASE k \in 1 .. n
    BY <1>2, <1>3, <1>4, <1>5, <1>8, <2>2
  <2>3. k = n + 1 \/ k \in 1 .. n
    OBVIOUS
  <2> QED
    BY <2>1, <2>2, <2>3
<1>9. ASSUME NEW i \in 1 .. n, InForHead(stack[i])
      PROVE  \/ \E j \in i + 1 .. n : stack[j].fn = "parseUnaryExpression"
             \/ g.fn = "parseUnaryExpression"
             \/ g.fn \in HeadFunctions
  <2>1. PICK t \in Tokens : g.fn = Callee(Head(Top.todo), t)
    BY DEF Calling
  <2>2. /\ Top.fn \in Functions /\ Top.todo \in Codes[Top.fn] /\ Now(Top.todo) \in Places(Top.fn)
        /\ Now(Top.todo) = Head(Top.todo) /\ Head(Top.todo) \in Calls
    BY <1>1, CodeFacts DEF Calling, GoodFrame
  <2>3. CASE i = n
    <3>1. Head(Top.todo) \in HeadCalls \cup {"inOn"}
      BY <1>1, <1>9, <2>2, <2>3, HeadFacts
    <3>2. "inOn" \notin Calls
      BY SymbolsAreToldApart DEF Operations
    <3> QED
      BY <2>1, <2>2, <3>1, <3>2, CallsInHeads
  <2>4. CASE i \in 1 .. n - 1
    <3>1. n \in i + 1 .. n
      BY <2>4
    <3>2. \/ \E j \in i + 1 .. n : stack[j].fn = "parseUnaryExpression"
          \/ stack[n].fn \in HeadFunctions
      BY <1>2, <1>9, <3>1
    <3>3. stack[n].fn \in HeadFunctions => g.fn \in HeadFunctions \cup {"parseUnaryExpression"}
      BY <1>1, <2>1, <2>2, CallsInHeads
    <3> QED
      BY <3>2, <3>3
  <2> QED
    BY <2>3, <2>4
<1>10. ASSUME NEW i \in 1 .. n + 1, InForHead(stack'[i]), NEW k \in i + 1 .. n + 1
       PROVE  \/ \E j \in i + 1 .. k : stack'[j].fn = "parseUnaryExpression"
              \/ stack'[k].fn \in HeadFunctions
  <2>1. i \in 1 .. n /\ InForHead(stack[i])
    BY <1>3, <1>10
  <2>2. CASE k = n + 1
    <3>1. n + 1 \in i + 1 .. n + 1 /\ \A j \in i + 1 .. n : j \in i + 1 .. n + 1 /\ j \in 1 .. n
      BY <2>1
    <3> QED
      BY <1>3, <1>9, <2>1, <2>2, <3>1
  <2>3. CASE k \in i + 1 .. n
    <3>1. k \in 1 .. n /\ \A j \in i + 1 .. k : j \in 1 .. n
      BY <2>1, <2>3
    <3> QED
      BY <1>2, <1>3, <2>1, <2>3, <3>1
  <2>4. k = n + 1 \/ k \in i + 1 .. n
    BY <2>1
  <2> QED
    BY <2>2, <2>3, <2>4
<1> QED
  BY <1>3, <1>7, <1>8, <1>10 DEF AllowsIn

\* A return, with the destructor of AllowInOverride.
LEMMA AllowsInReturned ==
    ASSUME Frames, AllowsIn, stack # <<>>, ~InForHead(Top), NEW v, Returned(v),
           allowsIn' = IF Top.fn = "parseUnaryExpression" THEN Top.in ELSE allowsIn
    PROVE  AllowsIn'
<1> SUFFICES ASSUME NEW m \in Nat, NEW n \in Nat, n = Len(stack), n = m + 1, n \in 1 .. n,
                    m \in 1 .. n
             PROVE  AllowsIn'
  <2>1. Len(stack) \in Nat /\ Len(stack) - 1 \in 1 .. Len(stack) /\ Len(stack) \in 1 .. Len(stack)
    BY TopFacts DEF Returned
  <2>2. Len(stack) - 1 \in Nat /\ Len(stack) = Len(stack) - 1 + 1
    BY <2>1
  <2> QED
    BY <2>1, <2>2
<1>1. /\ Top = stack[n] /\ Len(stack') = m /\ stack'[m] = Resumed(v)
      /\ GoodFrame(Caller) /\ Caller = stack[m] /\ Calling(Caller, Top)
      /\ \A k \in 1 .. m - 1 : stack'[k] = stack[k]
  <2>1. m = Len(stack) - 1 /\ m - 1 = Len(stack) - 2
    OBVIOUS
  <2> QED
    BY <2>1, TopFacts DEF Returned, Caller
<1>2. /\ allowsIn = OnUpTo(n)
      /\ \A k \in 1 .. n :
           stack[k].fn = "parseUnaryExpression" => stack[k].in = OnUpTo(k - 1)
      /\ \A i \in 1 .. n : InForHead(stack[i]) =>
           \A k \in i + 1 .. n :
             \/ \E j \in i + 1 .. k : stack[j].fn = "parseUnaryExpression"
             \/ stack[k].fn \in HeadFunctions
  BY DEF AllowsIn
<1>3. /\ Resumed(v).fn = stack[m].fn /\ Resumed(v).in = stack[m].in
      /\ InForHead(Resumed(v)) <=> InForHead(stack[m])
  <2>1. /\ Head(Caller.todo) \in Calls /\ Caller.todo # <<>>
        /\ Now(Caller.todo) = Head(Caller.todo)
    BY <1>1, CodeFacts DEF Calling
  <2>2. Now(Caller.todo) \notin {"inOff", "inOn"}
    BY <2>1, SymbolsAreToldApart DEF Operations
  <2>3. /\ Resumed(v).fn = Caller.fn /\ Resumed(v).in = Caller.in
        /\ Resumed(v).todo \in After(Caller.todo) \/ Resumed(v).todo = Caller.todo
    BY <1>1, ResumedFacts DEF Continues
  <2> QED
    BY <1>1, <2>1, <2>2, <2>3, HeadKept
<1>4. \A k \in 1 .. m : /\ stack'[k].fn = stack[k].fn /\ stack'[k].in = stack[k].in
                        /\ InForHead(stack'[k]) <=> InForHead(stack[k])
  <2>1. \A k \in 1 .. m : k = m \/ k \in 1 .. m - 1
    OBVIOUS
  <2> QED
    BY <1>1, <1>3, <2>1
<1>5. ASSUME NEW k \in 0 .. m PROVE OnUpTo(k)' = OnUpTo(k)
  <2>1. \A i \in 1 .. k : i \in 1 .. m
    OBVIOUS
  <2> QED
    BY <1>4, <2>1, OnUpToSame
<1>6. m \in 0 .. m /\ \A k \in 1 .. m : k \in 1 .. n /\ k - 1 \in 0 .. m
  OBVIOUS
<1>7. Top.fn # "parseUnaryExpression" => OnUpTo(n) = OnUpTo(m)
  <2> SUFFICES ASSUME Top.fn # "parseUnaryExpression" PROVE OnUpTo(n) = OnUpTo(m)
    OBVIOUS
  <2>1. ASSUME NEW i \in 1 .. m
        PROVE  (\A j \in i + 1 .. n : stack[j].fn # "parseUnaryExpression") <=>
               (\A j \in i + 1 .. m : stack[j].fn # "parseUnaryExpression")
    <3>1. /\ \A j \in i + 1 .. n : j = n \/ j \in i + 1 .. m
          /\ \A j \in i + 1 .. m : j \in i + 1 .. n
      OBVIOUS
    <3> QED
      BY <1>1, <3>1
  <2>2. (\A i \in 1 .. n : i = n \/ i \in 1 .. m) /\ \A i \in 1 .. m : i \in 1 .. n
    OBVIOUS
  <2> QED
    BY <1>1, <2>1, <2>2 DEF OnUpTo
<1>8. allowsIn' = OnUpTo(m)'
  <2>1. CASE Top.fn = "parseUnaryExpression"
    <3>1. n - 1 = m
      OBVIOUS
    <3> QED
      BY <1>1, <1>2, <1>5, <1>6, <2>1, <3>1
  <2>2. CASE Top.fn # "parseUnaryExpression"
    BY <1>2, <1>5, <1>6, <1>7, <2>2
  <2> QED
    BY <2>1, <2>2
<1>9. \A k \in 1 .. m :
        stack'[k].fn = "parseUnaryExpression" => stack'[k].in = OnUpTo(k - 1)'
  BY <1>2, <1>4, <1>5, <1>6
<1>10. ASSUME NEW i \in 1 .. m, InForHead(stack'[i]), NEW k \in i + 1 .. m
       PROVE  \/ \E j \in i + 1 .. k : stack'[j].fn = "parseUnaryExpression"
              \/ stack'[k].fn \in HeadFunctions
  <2>1. i \in 1 .. n /\ k \in i + 1 .. n /\ k \in 1 .. m /\ \A j \in i + 1 .. k : j \in 1 .. m
    OBVIOUS
  <2> QED
    BY <1>2, <1>4, <1>10, <2>1
<1> QED
  BY <1>1, <1>8, <1>9, <1>10 DEF AllowsIn

LEMMA AllowsInEnded ==
    ASSUME Frames, AllowsIn, Len(stack) = 1, stack[1].fn = "parseSourceElements",
           stack' = <<>>, allowsIn' = allowsIn
    PROVE  AllowsIn'
<1>1. ~InForHead(stack[1])
  BY DEF InForHead
<1>2. OnUpTo(1) /\ OnUpTo(0)'
  BY <1>1 DEF OnUpTo
<1>3. Len(stack') = 0 /\ 1 .. 0 = {}
  BY EmptySeq
<1>4. allowsIn = OnUpTo(1) /\ allowsIn' = OnUpTo(0)'
  BY <1>2 DEF AllowsIn, OnUpTo
<1> QED
  BY <1>3, <1>4 DEF AllowsIn

-----------------------------------------------------------------------------
(* The outermost function, and the result.                                  *)

\* It waits for a statement, or is the only one.
LEMMA RootFacts ==
    ASSUME Frames, stack # <<>>, stack[1].fn = "parseSourceElements"
    PROVE  /\ Now(stack[1].todo) \in {"parseStatement*", "failIfError", ""}
           /\ Len(stack) # 1 => /\ Now(stack[1].todo) = "parseStatement*"
                                /\ stack[1].todo # <<>> /\ Head(stack[1].todo) = "parseStatement*"
<1>1. GoodFrame(stack[1]) /\ (Len(stack) # 1 => Calling(stack[1], stack[2]))
  <2>0. Len(stack) \in Nat /\ Len(stack) # 0
    BY TopFacts
  <2>1. 1 \in 1 .. Len(stack) /\ (Len(stack) # 1 => 1 \in 1 .. Len(stack) - 1)
    <3>1. \A n \in Nat : n # 0 => 1 \in 1 .. n /\ (n # 1 => 1 \in 1 .. n - 1)
      OBVIOUS
    <3> QED
      BY <2>0, <3>1
  <2>2. \A k \in 1 .. Len(stack) - 1 : Calling(stack[k], stack[k + 1])
    BY DEF Frames
  <2>3. Len(stack) # 1 => Calling(stack[1], stack[1 + 1])
    BY <2>1, <2>2
  <2> QED
    BY <2>1, <2>3 DEF Frames
<1>2. Now(stack[1].todo) \in {"parseStatement*", "failIfError", ""}
  BY <1>1, CodeFacts, StatementLoop
<1>3. "failIfError" \notin Calls
  BY SymbolsAreToldApart DEF Operations
<1> QED
  BY <1>1, <1>2, <1>3, CodeFacts DEF Calling

\* A step within the innermost function that is not a call.
LocalStep ==
    /\ Shifted /\ Now(Top.todo) \notin Calls
    /\ status' \in {"parsing", "aborted"} /\ error' = error /\ value' = value
    /\ Now(Top.todo) = "failIfError" => ~error /\ lexer' = lexer
    /\ IF Now(Top.todo) \in {"inOff", "inOn"} THEN allowsIn' = (Now(Top.todo) = "inOn")
       ELSE allowsIn' = allowsIn

LEMMA RootShifted == ASSUME Frames, Root, LocalStep, Frames' PROVE Root'
<1>1. /\ Shifted /\ stack # <<>> /\ Top.todo # <<>> /\ Len(stack') = Len(stack)
      /\ stack' \in Seq(Frame) /\ GoodFrame(Top) /\ Top = stack[Len(stack)]
      /\ Len(stack) \in 1 .. Len(stack) /\ 1 \in 1 .. Len(stack) /\ Len(stack) \in Nat
      /\ stack'[Len(stack)].todo \in After(Top.todo)
      /\ \A k \in 1 .. Len(stack) : stack'[k].fn = stack[k].fn
      /\ \A k \in 1 .. Len(stack) - 1 : stack'[k].todo = stack[k].todo
  BY TopFacts DEF LocalStep, Shifted
<1>2. stack' # <<>> /\ status' # "done"
  BY <1>1, EmptySeq DEF LocalStep
<1>3. stack[1].fn = "parseSourceElements" /\ stack'[1].fn = "parseSourceElements"
  BY <1>1 DEF Root
<1>4. /\ Goes(Top.fn, Now(Top.todo), Now(stack'[Len(stack)].todo))
      /\ Now(Top.todo) \in Places(Top.fn) /\ Now(stack'[Len(stack)].todo) \in Places(Top.fn)
  BY <1>1, AfterFacts, CodeFacts
<1>5. /\ Now(stack'[1].todo) = "failIfError" => error' \/ lexer' = "ok"
      /\ Now(stack'[1].todo) = "" => ~error' /\ lexer' = "ok"
  <2>1. CASE Len(stack) = 1
    <3>1. Top = stack[1] /\ Now(Top.todo) \in {"parseStatement*", "failIfError", ""}
      BY <1>1, <1>3, <2>1, RootFacts
    <3>2. "parseStatement*" \in Calls /\ Now(Top.todo) # ""
      BY <1>1, CodeFacts, SymbolFacts
    <3>3. Now(Top.todo) = "failIfError"
      BY <3>1, <3>2 DEF LocalStep
    <3>4. Now(stack'[1].todo) = ""
      BY <1>3, <1>4, <2>1, <3>1, <3>3, StatementLoop
    <3> QED
      BY <1>1, <3>1, <3>3, <3>4 DEF LocalStep, Root
  <2>2. CASE Len(stack) # 1
    <3>1. 1 \in 1 .. Len(stack) - 1
      BY <1>1, <2>2
    <3>2. stack'[1].todo = stack[1].todo
      BY <1>1, <3>1
    <3> QED
      BY <1>1, <1>3, <2>2, <3>2, RootFacts
  <2> QED
    BY <2>1, <2>2
<1>6. Top' = stack'[Len(stack)] /\ Top'.fn = Top.fn
  BY <1>1, <1>2 DEF Top, Last
<1>7. Top'.fn = "parseStatement" => Now(Top'.todo) # "returnNull"
  BY <1>4, <1>6, StatementsReturn
<1> QED
  BY <1>2, <1>3, <1>5, <1>7 DEF Root

LEMMA RootCalled ==
    ASSUME Registers, Frames, Root, stack # <<>>, NEW g, GoodFrame(g), Calling(Top, g),
           g.fn = Callee(Head(Top.todo), tok), stack' = Append(stack, g),
           UNCHANGED <<status, error, lexer>>
    PROVE  Root'
<1>1. /\ stack \in Seq(Frame) /\ Top = stack[Len(stack)] /\ GoodFrame(Top)
      /\ Len(stack) \in Nat /\ Len(stack) \in 1 .. Len(stack) /\ 1 \in 1 .. Len(stack)
  BY TopFacts
<1>2. /\ stack' # <<>> /\ Len(stack') = Len(stack) + 1 /\ stack'[Len(stack) + 1] = g
      /\ stack'[1] = stack[1]
  BY <1>1, FrameAdded DEF GoodFrame
<1>3. stack[1].fn = "parseSourceElements" /\ status # "done"
  BY DEF Root
<1>4. Now(stack[1].todo) = "parseStatement*"
  <2>1. CASE Len(stack) = 1
    <3>1. "failIfError" \notin Calls
      BY SymbolsAreToldApart DEF Operations
    <3> QED
      BY <1>1, <1>3, <2>1, <3>1, RootFacts, CodeFacts DEF Calling
  <2> QED
    BY <1>3, <2>1, RootFacts
<1>5. Top' = g
  BY <1>2 DEF Top, Last
<1>6. Top'.fn = "parseStatement" => lexer' = "ok"
  BY <1>5, StatementsReturn DEF Registers, Calling
<1> QED
  BY <1>2, <1>3, <1>4, <1>6 DEF Root

\* A null result of a statement has a reason the loop sees.
LEMMA RootReturned ==
    ASSUME Frames, Root, stack # <<>>, NEW v, Returned(v), UNCHANGED lexer,
           Len(stack) = 2 /\ v = "null" => error' \/ lexer = "ok"
    PROVE  Root'
<1>1. /\ Len(stack) - 1 \in 1 .. Len(stack) /\ status' = status
      /\ GoodFrame(Caller) /\ Calling(Caller, Top) /\ GoodFrame(Resumed(v))
      /\ stack' # <<>> /\ Len(stack') = Len(stack) - 1
      /\ stack'[Len(stack) - 1] = Resumed(v)
      /\ \A k \in 1 .. Len(stack) - 2 : stack'[k] = stack[k]
      /\ stack[1].fn = "parseSourceElements" /\ status # "done"
  BY DEF Returned, Root
<1>0. Caller = stack[Len(stack) - 1] /\ Len(stack) \in Nat /\ Len(stack) # 1
  <2>1. Len(stack) \in Nat
    BY TopFacts
  <2> QED
    BY <1>1, <2>1 DEF Caller
<1>2. Top' = Resumed(v)
  BY <1>1 DEF Top, Last
<1>3. stack'[1].fn = "parseSourceElements"
  <2>1. CASE Len(stack) = 2
    <3>1. Len(stack) - 1 = 1
      BY <2>1
    <3> QED
      BY <1>0, <1>1, <3>1, ResumedFacts DEF Continues
  <2>2. CASE Len(stack) # 2
    <3>1. 1 \in 1 .. Len(stack) - 2
      BY <1>0, <1>1, <2>2
    <3> QED
      BY <1>0, <1>1, <3>1
  <2> QED
    BY <2>1, <2>2
<1>4. /\ Now(stack'[1].todo) = "failIfError" => error' \/ lexer = "ok"
      /\ Now(stack'[1].todo) # ""
  <2>1. CASE Len(stack) = 2
    <3>1. Len(stack) - 1 = 1
      BY <2>1
    <3>2. stack'[1] = Resumed(v) /\ Caller = stack[1]
      BY <1>0, <1>1, <3>1
    <3>3. /\ Now(Caller.todo) = "parseStatement*" /\ Head(Caller.todo) = "parseStatement*"
          /\ Caller.todo # <<>>
      BY <1>0, <1>1, <3>2, RootFacts
    <3>4. Resumed(v).todo = IF v = "null" THEN Tail(Caller.todo) ELSE Caller.todo
      BY <1>1, <3>3, ResumedFacts DEF Continues
    <3>5. Tail(Caller.todo) \in After(Caller.todo)
      BY <1>1, <3>3, SymbolsPut, PutFacts, SymbolFacts
    <3>6. Now(Tail(Caller.todo)) = "failIfError"
      <4>1. /\ Goes(Caller.fn, Now(Caller.todo), Now(Tail(Caller.todo)))
            /\ Now(Caller.todo) \in Places(Caller.fn) /\ Now(Tail(Caller.todo)) \in Places(Caller.fn)
        BY <1>1, <3>3, <3>5, AfterFacts, CodeFacts
      <4>2. Caller.fn = "parseSourceElements"
        BY <1>1, <3>2
      <4> QED
        BY <3>3, <4>1, <4>2, StatementLoop
    <3> QED
      BY <2>1, <3>2, <3>3, <3>4, <3>6
  <2>2. CASE Len(stack) # 2
    <3>1. 1 \in 1 .. Len(stack) - 2
      BY <1>0, <1>1, <2>2
    <3> QED
      BY <1>0, <1>1, <3>1, RootFacts
  <2> QED
    BY <2>1, <2>2
<1>5. Top'.fn = "parseStatement" => Now(Top'.todo) # "returnNull"
  <2> SUFFICES ASSUME Resumed(v).fn = "parseStatement"
               PROVE  Now(Resumed(v).todo) # "returnNull"
    BY <1>2
  <2>1. Caller.todo # <<>> /\ Now(Caller.todo) = Head(Caller.todo) /\ Head(Caller.todo) \in Calls
    BY <1>1, CodeFacts DEF Calling
  <2>2. CASE Resumed(v).todo \in After(Caller.todo)
    <3>1. /\ Goes(Caller.fn, Now(Caller.todo), Now(Resumed(v).todo))
          /\ Now(Caller.todo) \in Places(Caller.fn) /\ Now(Resumed(v).todo) \in Places(Caller.fn)
      BY <1>1, <2>1, <2>2, AfterFacts, CodeFacts
    <3> QED
      BY <1>0, <1>1, <3>1, ResumedFacts, StatementsReturn DEF Continues
  <2>3. CASE Resumed(v).todo = Caller.todo
    <3>1. "returnNull" \notin Calls
      BY SymbolsAreToldApart DEF Operations
    <3> QED
      BY <2>1, <2>3, <3>1
  <2> QED
    BY <1>1, <2>2, <2>3, ResumedFacts DEF Continues
<1> QED
  BY <1>1, <1>3, <1>4, <1>5 DEF Root

-----------------------------------------------------------------------------
(* What the kinds of steps keep.                                            *)

LEMMA LocalKeeps == ASSUME ParserInv, LocalStep, Registers' PROVE ParserInv'
<1>1. Frames' /\ Root'
  BY FramesShifted, RootShifted DEF ParserInv, LocalStep
<1>2. AllowsIn'
  BY AllowsInShifted, AllowsInSwitched DEF ParserInv, LocalStep
<1>3. NoTreeAfterError'
  BY DEF LocalStep, NoTreeAfterError
<1> QED
  BY <1>1, <1>2, <1>3 DEF ParserInv

LEMMA TopMoves ==
    ASSUME ParserInv, stack # <<>>, Top.todo # <<>>, NEW g, NextFrame(Top, g), SetTop(g),
           Now(Top.todo) \notin Calls, Registers', status' \in {"parsing", "aborted"},
           error' = error, value' = value,
           Now(Top.todo) = "failIfError" => ~error /\ lexer' = lexer,
           IF Now(Top.todo) \in {"inOff", "inOn"} THEN allowsIn' = (Now(Top.todo) = "inOn")
           ELSE allowsIn' = allowsIn
    PROVE  ParserInv'
<1>1. Shifted
  BY TopShifts DEF ParserInv
<1>2. LocalStep
  BY <1>1 DEF LocalStep
<1> QED
  BY <1>2, LocalKeeps

LEMMA CallKeeps == ASSUME ParserInv, Call PROVE ParserInv'
<1> DEFINE f == Callee(Head(Top.todo), tok)
           g == NewFrame(f)
<1>1. /\ stack # <<>> /\ Top.todo # <<>> /\ Head(Top.todo) \in Calls
      /\ stack' = Append(stack, g) /\ allowsIn' = (allowsIn \/ f = "parseUnaryExpression")
      /\ UNCHANGED <<text, tok, nl, lexer, tokenCount, error, nonLHS, value, status>>
  BY DEF Call, AtOneOf, Running, lexVars
<1>2. Registers /\ Frames /\ Root /\ AllowsIn /\ NoTreeAfterError
  BY DEF ParserInv
<1>3. tok \in Tokens /\ allowsIn \in BOOLEAN
  BY <1>2 DEF Registers
<1>4. f \in Functions
  BY <1>1, <1>3 DEF Functions
<1> HIDE DEF f
<1>5. /\ g.fn = f /\ g.todo = Expansion[f][tok] /\ g.in = allowsIn /\ g.n = 0 /\ g.m = 0
      /\ g.mark = 0 /\ g.took = FALSE
  BY DEF NewFrame
<1>6. f \in Decisions /\ Expansion[f][tok] \in Codes[f] /\ Expansion[f][tok] \in Seq(Symbols)
  BY <1>3, <1>4, CodesAreClosed
<1>7. g \in Frame
  BY <1>3, <1>6 DEF NewFrame, Frame
<1> HIDE DEF g
<1>8. GoodFrame(g)
  BY <1>3, <1>4, <1>5, <1>6, <1>7, CountsBegin DEF GoodFrame
<1>9. Calling(Top, g)
  BY <1>1, <1>3, <1>5 DEF Calling, f
<1>10. Frames'
  BY <1>1, <1>2, <1>8, <1>9, FramesCalled
<1>11. Root'
  BY <1>1, <1>2, <1>5, <1>8, <1>9, RootCalled DEF f
<1>12. ~InForHead(g)
  BY <1>3, <1>5, <1>8, HeadBegins
<1>13. AllowsIn'
  BY <1>1, <1>2, <1>5, <1>8, <1>9, <1>12, AllowsInCalled
<1>14. Registers' /\ NoTreeAfterError'
  BY <1>1, <1>2 DEF Registers, NoTreeAfterError
<1> QED
  BY <1>10, <1>11, <1>13, <1>14 DEF ParserInv

LEMMA LeaveKeeps ==
    ASSUME ParserInv, stack # <<>>, ~InForHead(Top), NEW v \in Values, Leave(v),
           status = "parsing", error' \in BOOLEAN,
           Len(stack) = 2 /\ v = "null" => error' \/ lexer = "ok",
           Len(stack) = 1 /\ v # "null" => ~error' /\ lexer = "ok"
    PROVE  ParserInv'
<1>1. Registers /\ Frames /\ Root /\ AllowsIn
  BY DEF ParserInv
<1>2. /\ value' = v /\ UNCHANGED <<text, tok, nl, lexer, tokenCount, nonLHS>>
      /\ allowsIn' = IF Top.fn = "parseUnaryExpression" THEN Top.in ELSE allowsIn
  BY DEF Leave, lexVars
<1>3. Top \in Frame /\ Top = stack[Len(stack)]
  BY <1>1, TopFacts DEF GoodFrame
<1>4. allowsIn' \in BOOLEAN
  BY <1>1, <1>2, <1>3 DEF Registers, Frame
<1>5. CASE Len(stack) = 1 /\ stack' = <<>> /\ status' = "done" /\ Frames'
  <2>1. stack[1].fn = "parseSourceElements" /\ Top = stack[1]
    BY <1>1, <1>3, <1>5 DEF Root
  <2>2. AllowsIn'
    BY <1>1, <1>2, <1>5, <2>1, AllowsInEnded
  <2>3. Root'
    BY <1>5 DEF Root
  <2>4. Registers' /\ NoTreeAfterError'
    BY <1>1, <1>2, <1>4, <1>5 DEF Registers, NoTreeAfterError
  <2> QED
    BY <1>5, <2>2, <2>3, <2>4 DEF ParserInv
<1>6. CASE Len(stack) # 1 /\ Returned(v) /\ Frames'
  <2>1. status' = "parsing"
    BY <1>6 DEF Returned
  <2>2. AllowsIn'
    BY <1>1, <1>2, <1>6, AllowsInReturned
  <2>3. Root'
    BY <1>1, <1>2, <1>6, RootReturned
  <2>4. Registers' /\ NoTreeAfterError'
    BY <1>1, <1>2, <1>4, <2>1 DEF Registers, NoTreeAfterError
  <2> QED
    BY <1>6, <2>2, <2>3, <2>4 DEF ParserInv
<1> QED
  BY <1>1, <1>5, <1>6, FramesReturned

\* The stack stays as it is.
LEMMA StopKeeps ==
    ASSUME ParserInv, UNCHANGED <<lexVars, allowsIn, error, nonLHS, stack, value>>,
           (stack # <<>> /\ status' = "crashed") \/ status' = status
    PROVE  ParserInv'
<1>1. /\ UNCHANGED <<text, tok, nl, lexer, tokenCount, allowsIn, error, nonLHS, stack, value>>
  BY DEF lexVars
<1>2. Registers'
  BY <1>1 DEF ParserInv, Registers
<1>3. Frames' /\ AllowsIn'
  BY <1>1 DEF ParserInv, Frames, AllowsIn, OnUpTo
<1>4. Root'
  <2>1. Top' = Top /\ stack' = stack /\ lexer' = lexer /\ (error' <=> error)
    BY <1>1 DEF Top
  <2>2. stack' = <<>> <=> status' = "done"
    BY <2>1 DEF ParserInv, Root
  <2>3. Root
    BY DEF ParserInv
  <2>4. ASSUME stack # <<>>
        PROVE  /\ stack'[1].fn = "parseSourceElements"
               /\ Now(stack'[1].todo) = "failIfError" => error' \/ lexer' = "ok"
               /\ Now(stack'[1].todo) = "" => ~error' /\ lexer' = "ok"
               /\ Top'.fn = "parseStatement" /\ Now(Top'.todo) = "returnNull" => lexer' = "ok"
    BY <2>1, <2>3, <2>4 DEF Root
  <2> QED
    BY <2>1, <2>2, <2>4 DEF Root
<1>5. NoTreeAfterError'
  BY <1>1 DEF ParserInv, NoTreeAfterError
<1> QED
  BY <1>2, <1>3, <1>4, <1>5 DEF ParserInv

-----------------------------------------------------------------------------
(* The actions.                                                             *)

LEMMA AtFacts ==
    ASSUME ParserInv, NEW S, AtOneOf(S)
    PROVE  /\ Registers /\ Frames /\ Root /\ AllowsIn /\ status = "parsing" /\ stack # <<>>
           /\ Top.todo # <<>> /\ Head(Top.todo) \in S /\ Now(Top.todo) = Head(Top.todo)
           /\ GoodFrame(Top) /\ Top \in Frame /\ Top.fn \in Functions
           /\ Head(Top.todo) \in Symbols /\ Head(Top.todo) \in Places(Top.fn)
<1>1. Registers /\ Frames /\ Root /\ AllowsIn /\ status = "parsing" /\ stack # <<>>
  BY DEF ParserInv, AtOneOf, Running
<1>2. Top.todo # <<>> /\ Head(Top.todo) \in S
  BY DEF AtOneOf
<1>3. GoodFrame(Top)
  BY <1>1, TopFacts
<1>4. Now(Top.todo) = Head(Top.todo) /\ Head(Top.todo) \in Symbols /\ Now(Top.todo) \in Places(Top.fn)
  BY <1>2, <1>3, CodeFacts
<1> QED
  BY <1>1, <1>2, <1>3, <1>4 DEF GoodFrame

LEMMA AtIs == \A s : At(s) <=> AtOneOf({s})
BY DEF At, AtOneOf

\* A frame of the same function with other code and other locals.
Changed(g, f, d, mark, n, m, took) ==
    /\ g \in Frame /\ g.fn = f.fn /\ g.in = f.in /\ g.todo = d
    /\ g.mark = mark /\ g.n = n /\ g.m = m /\ g.took = took

LEMMA FrameFields ==
    ASSUME NEW f \in Frame, NEW d \in Seq(Symbols)
    PROVE  /\ f.mark \in Nat /\ f.n \in Nat /\ f.m \in Nat /\ f.took \in BOOLEAN
           /\ f.fn \in Decisions /\ f.in \in BOOLEAN
           /\ Changed([f EXCEPT !.todo = d], f, d, f.mark, f.n, f.m, f.took)
           /\ \A x \in Nat : Changed([[f EXCEPT !.todo = d] EXCEPT !.mark = x],
                                     f, d, x, f.n, f.m, f.took)
           /\ \A x \in Nat : Changed([[f EXCEPT !.todo = d] EXCEPT !.n = x],
                                     f, d, f.mark, x, f.m, f.took)
           /\ \A x \in Nat : Changed([[f EXCEPT !.todo = d] EXCEPT !.m = x],
                                     f, d, f.mark, f.n, x, f.took)
           /\ \A x, y \in Nat : Changed([[f EXCEPT !.todo = d] EXCEPT !.n = x, !.m = y],
                                        f, d, f.mark, x, y, f.took)
           /\ \A x \in BOOLEAN : Changed([[f EXCEPT !.todo = d] EXCEPT !.took = x],
                                         f, d, f.mark, f.n, f.m, x)
<1> DEFINE h == [f EXCEPT !.todo = d]
<1>1. /\ f.mark \in Nat /\ f.n \in Nat /\ f.m \in Nat /\ f.took \in BOOLEAN
      /\ f.fn \in Decisions /\ f.in \in BOOLEAN
  BY DEF Frame
<1>2. Changed(h, f, d, f.mark, f.n, f.m, f.took)
  BY DEF Frame, Changed
<1> HIDE DEF h
<1>3. /\ h \in Frame /\ h.fn = f.fn /\ h.in = f.in /\ h.todo = d
      /\ h.mark = f.mark /\ h.n = f.n /\ h.m = f.m /\ h.took = f.took
  BY <1>2 DEF Changed
<1>4. \A x \in Nat : Changed([h EXCEPT !.mark = x], f, d, x, f.n, f.m, f.took)
  BY <1>3 DEF Changed, Frame
<1>5. \A x \in Nat : Changed([h EXCEPT !.n = x], f, d, f.mark, x, f.m, f.took)
  BY <1>3 DEF Changed, Frame
<1>6. \A x \in Nat : Changed([h EXCEPT !.m = x], f, d, f.mark, f.n, x, f.took)
  BY <1>3 DEF Changed, Frame
<1>7. \A x, y \in Nat : Changed([h EXCEPT !.n = x, !.m = y], f, d, f.mark, x, y, f.took)
  BY <1>3 DEF Changed, Frame
<1>8. \A x \in BOOLEAN : Changed([h EXCEPT !.took = x], f, d, f.mark, f.n, f.m, x)
  BY <1>3 DEF Changed, Frame
<1> QED
  BY <1>1, <1>2, <1>4, <1>5, <1>6, <1>7, <1>8 DEF h

\* What replaces the current symbol of a frame.
LEMMA RestFacts ==
    ASSUME NEW f, GoodFrame(f), f.todo # <<>>
    PROVE  /\ After(f.todo) \subseteq Seq(Symbols)
           /\ Done(f) = [f EXCEPT !.todo = Tail(f.todo)]
           /\ \A x : Instead(f, x) = [f EXCEPT !.todo = x \o Tail(f.todo)]
           /\ <<>> \in Put(Head(f.todo)) => Tail(f.todo) \in After(f.todo)
           /\ \A x \in Put(Head(f.todo)) : x \o Tail(f.todo) \in After(f.todo)
BY SymbolsPut, AfterFacts DEF Done, Instead

\* What the lexer returns are tokens.
LEMMA TokensFacts ==
    ASSUME text \in Texts, NEW n \in Nat
    PROVE  /\ TokensAfter(n) \subseteq Tokens /\ text.breaks \subseteq BOOLEAN
           /\ \A t \in TokensAfter(n) : \A last, newline, reserved : Lexed(last, t, newline, reserved) \in Tokens
           /\ \A t : LexerAfter(t) \subseteq {"ok", "m_error", "m_buffer16"}
                     /\ \A l \in LexerAfter(t) : l # "ok" => t = "ERRORTOK"
<1>1. /\ text.opening \in Seq(TextTokens) /\ text.alphabet \subseteq TextTokens
      /\ text.breaks \subseteq BOOLEAN
  BY TextsAssumption
<1>2. /\ TextTokens \subseteq Tokens
      /\ {"EOFTOK", "SEMICOLON", "AUTOPLUSPLUS", "AUTOMINUSMINUS", "IDENT"} \subseteq Tokens
  BY DEF TextTokens, Tokens, Punctuation, UnaryOps
<1>3. n < Len(text.opening) => text.opening[n + 1] \in TextTokens
  <2>1. Len(text.opening) \in Nat
    BY <1>1, LenProperties
  <2>2. n < Len(text.opening) => n + 1 \in 1 .. Len(text.opening)
    BY <2>1
  <2> QED
    BY <1>1, <2>2, ElementOfSeq
<1>4. TokensAfter(n) \subseteq Tokens
  BY <1>1, <1>2, <1>3 DEF TokensAfter
<1>5. \A t \in TokensAfter(n) : \A last, newline, reserved : Lexed(last, t, newline, reserved) \in Tokens
  BY <1>2, <1>4 DEF Lexed
<1> QED
  BY <1>1, <1>4, <1>5 DEF LexerAfter

LEMMA LexFacts ==
    ASSUME Registers, NEW reserved \in BOOLEAN, Lex(reserved)
    PROVE  /\ status' \in {status, "aborted"}
           /\ text' \in Texts /\ tok' \in Tokens /\ nl' \in BOOLEAN /\ tokenCount' \in Nat
           /\ lexer' \in {"ok", "m_error", "m_buffer16"} /\ (lexer' # "ok" => tok' = "ERRORTOK")
<1>1. CASE lexer # "ok" /\ status' = "aborted" /\ UNCHANGED lexVars
  BY <1>1 DEF Registers, lexVars
<1>2. CASE lex(reserved) /\ UNCHANGED status
  <2>1. /\ tokenCount \in Nat /\ text \in Texts
        /\ tokenCount' = tokenCount + 1 /\ nl' \in text.breaks /\ text' = text
        /\ \E t \in TokensAfter(tokenCount) :
             tok' = Lexed(tok, t, nl', reserved) /\ lexer' \in LexerAfter(tok')
    BY <1>2 DEF lex, Registers
  <2>2. /\ TokensAfter(tokenCount) \subseteq Tokens /\ text.breaks \subseteq BOOLEAN
        /\ \A t \in TokensAfter(tokenCount) : Lexed(tok, t, nl', reserved) \in Tokens
        /\ \A t : LexerAfter(t) \subseteq {"ok", "m_error", "m_buffer16"}
                  /\ \A l \in LexerAfter(t) : l # "ok" => t = "ERRORTOK"
    BY <2>1, TokensFacts
  <2>3. tok' \in Tokens /\ lexer' \in LexerAfter(tok')
    BY <2>1, <2>2
  <2> QED
    BY <1>2, <2>1, <2>2, <2>3
<1> QED
  BY <1>1, <1>2 DEF Lex

\* The frame that a step makes when it leaves the counters alone.
LEMMA PlainStep ==
    ASSUME NEW f, GoodFrame(f), f.todo # <<>>, Head(f.todo) \notin CountingOperations,
           NEW d \in After(f.todo), NEW mark, NEW took, NEW g,
           Changed(g, f, d, mark, f.n, f.m, took)
    PROVE  NextFrame(f, g)
<1>1. Now(f.todo) = Head(f.todo)
  BY CodeFacts
<1>2. g \in Frame /\ g.fn = f.fn /\ g.in = f.in /\ g.todo = d /\ g.n = f.n /\ g.m = f.m
  BY DEF Changed
<1>3. GoodCounts(g)
  BY <1>1, <1>2, CountsKept
<1> QED
  BY <1>2, <1>3 DEF NextFrame

\* Only these functions have counters that the invariant speaks of.
Tracked == {"parseIfStatement", "parseBinaryExpression", "parseUnaryExpression",
            "parseAssignmentExpression", "parseFunctionBody"}

LEMMA UntrackedStep ==
    ASSUME NEW f, f.fn \notin Tracked, NEW d \in After(f.todo),
           NEW mark, NEW n, NEW m, NEW took, NEW g, Changed(g, f, d, mark, n, m, took)
    PROVE  NextFrame(f, g)
<1>1. g \in Frame /\ g.fn = f.fn /\ g.in = f.in /\ g.todo = d
  BY DEF Changed
<1>2. GoodCounts(g)
  BY <1>1 DEF GoodCounts, Tracked
<1> QED
  BY <1>1, <1>2 DEF NextFrame

\* Operations whose symbol is dropped when they are done.
Dropped == {"next", "nextIgnoreReserved", "failIfError", "failIfNull", "sameLHS",
    "failIfNoHandler", "onlyOneToken", "scanRegExp", "accessorType", "inOff", "inOn",
    "saveLHS", "nonLHS", "restoreLHS", "countDeclaration", "saveTokenCount", "countHandler",
    "countNew", "pushElseIf", "pushElse", "foldLastIf", "foldElse", "newBuilder",
    "endAssignment", "pushOperand", "pushUnary", "endUnary"}

LEMMA DroppedFacts ==
    /\ Dropped \subseteq PlainOperations /\ Dropped \subseteq Operations
    /\ \A s \in Dropped : Put(s) = {<<>>}
<1>1. Dropped \subseteq PlainOperations /\ Dropped \subseteq Operations
  <2>1. Dropped \subseteq Operations
    BY DEF Dropped, Operations
  <2>2. Dropped \cap (Ends \cup DOMAIN Otherwise
          \cup {"forVarRest", "callOrNew", "assignment", "binaryOperator"}) = {}
    BY SymbolFacts DEF Dropped, Ends
  <2> QED
    BY <2>1, <2>2 DEF PlainOperations
<1> QED
  BY <1>1, PutFacts

LEMMA KindFacts ==
    /\ Operations \cap Calls = {} /\ Tokens \cap Calls = {} /\ HeadCalls \subseteq Calls
    /\ Tokens \cap CountingOperations = {} /\ (Decisions \ Calls) \cap CountingOperations = {}
    /\ Tokens \cap Operations = {} /\ (Decisions \ Calls) \cap Operations = {}
    /\ Calls \cap CountingOperations = {}
<1>1. HeadCalls \subseteq Calls
  BY DEF HeadCalls, Calls, Unchecked
<1> QED
  BY <1>1, SymbolsAreToldApart, CountingFacts

-----------------------------------------------------------------------------

\* A step of the innermost function that touches its frame alone.
LEMMA LocalMoves ==
    ASSUME ParserInv, NEW S, AtOneOf(S), NEW g, NextFrame(Top, g), Local(g),
           Head(Top.todo) \notin Calls \cup {"inOff", "inOn"},
           Head(Top.todo) = "failIfError" => ~error
    PROVE  ParserInv'
<1>1. /\ Registers /\ stack # <<>> /\ status = "parsing" /\ Top.todo # <<>>
      /\ Now(Top.todo) = Head(Top.todo)
  BY AtFacts
<1>2. /\ SetTop(g)
      /\ UNCHANGED <<text, tok, nl, lexer, tokenCount, allowsIn, error, nonLHS, value, status>>
  BY DEF Local, lexVars
<1>3. Registers'
  BY <1>1, <1>2 DEF Registers
<1> QED
  BY <1>1, <1>2, <1>3, TopMoves

LEMMA Decisive ==
    ASSUME ParserInv, Decide PROVE ParserInv'
<1> DEFINE S == Decisions \ Calls
           x == Expansion[Head(Top.todo)][tok]
           g == Instead(Top, x)
<1>1. AtOneOf(S) /\ Local(g)
  BY DEF Decide
<1>2. /\ Registers /\ Top.todo # <<>> /\ Head(Top.todo) \in S /\ GoodFrame(Top) /\ Top \in Frame
  BY <1>1, AtFacts
<1>3. x \in Put(Head(Top.todo))
  BY <1>2, PutFacts DEF Registers
<1> HIDE DEF x
<1>4. x \o Tail(Top.todo) \in After(Top.todo) /\ x \o Tail(Top.todo) \in Seq(Symbols)
  BY <1>2, <1>3, RestFacts
<1>5. Changed(g, Top, x \o Tail(Top.todo), Top.mark, Top.n, Top.m, Top.took)
  BY <1>2, <1>4, FrameFields, RestFacts
<1>6. Head(Top.todo) \notin CountingOperations /\ Head(Top.todo) \notin Operations
  BY <1>2, KindFacts
<1>7. NextFrame(Top, g)
  BY <1>2, <1>4, <1>5, <1>6, PlainStep
<1>8. Head(Top.todo) \notin {"inOff", "inOn", "failIfError"}
  BY <1>6 DEF Operations
<1> HIDE DEF g
<1> QED
  BY <1>1, <1>2, <1>7, <1>8, LocalMoves

\* Done(Top), with counters as they are and another mark or none.
LEMMA DoneNext ==
    ASSUME NEW f, GoodFrame(f), f.todo # <<>>, <<>> \in Put(Head(f.todo)),
           Head(f.todo) \notin CountingOperations
    PROVE  /\ NextFrame(f, Done(f))
           /\ \A x \in Nat : NextFrame(f, [Done(f) EXCEPT !.mark = x])
           /\ \A x \in BOOLEAN : NextFrame(f, [Done(f) EXCEPT !.took = x])
<1> DEFINE d == Tail(f.todo)
<1>1. d \in After(f.todo) /\ d \in Seq(Symbols) /\ Done(f) = [f EXCEPT !.todo = d]
  BY RestFacts
<1>2. f \in Frame
  BY DEF GoodFrame
<1> HIDE DEF d
<1>3. /\ Changed(Done(f), f, d, f.mark, f.n, f.m, f.took)
      /\ \A x \in Nat : Changed([Done(f) EXCEPT !.mark = x], f, d, x, f.n, f.m, f.took)
      /\ \A x \in BOOLEAN : Changed([Done(f) EXCEPT !.took = x], f, d, f.mark, f.n, f.m, x)
  BY <1>1, <1>2, FrameFields
<1> QED
  BY <1>1, <1>3, PlainStep

\* The lexer is asked for a token, and the current symbol is done.
LEMMA AdvanceKeeps ==
    ASSUME ParserInv, NEW S, AtOneOf(S), NEW reserved \in BOOLEAN, Advance(reserved),
           <<>> \in Put(Head(Top.todo)), Head(Top.todo) \notin CountingOperations,
           Head(Top.todo) \notin Calls \cup {"inOff", "inOn", "failIfError"}
    PROVE  ParserInv'
<1>1. /\ Registers /\ stack # <<>> /\ status = "parsing" /\ Top.todo # <<>>
      /\ Now(Top.todo) = Head(Top.todo) /\ GoodFrame(Top)
  BY AtFacts
<1>2. /\ Lex(reserved) /\ SetTop([Done(Top) EXCEPT !.took = TRUE])
      /\ UNCHANGED <<allowsIn, error, nonLHS, value>>
  BY DEF Advance
<1>3. NextFrame(Top, [Done(Top) EXCEPT !.took = TRUE])
  BY <1>1, DoneNext
<1>4. /\ status' \in {"parsing", "aborted"}
      /\ text' \in Texts /\ tok' \in Tokens /\ nl' \in BOOLEAN /\ tokenCount' \in Nat
      /\ lexer' \in {"ok", "m_error", "m_buffer16"} /\ (lexer' # "ok" => tok' = "ERRORTOK")
  BY <1>1, <1>2, LexFacts
<1>5. Registers'
  BY <1>1, <1>2, <1>4 DEF Registers
<1> QED
  BY <1>1, <1>2, <1>3, <1>4, <1>5, TopMoves

LEMMA NotInHead ==
    ASSUME NEW f, GoodFrame(f), Now(f.todo) \notin HeadCalls \cup {"inOn"}
    PROVE  ~InForHead(f)
BY HeadFacts DEF GoodFrame

LEMMA FailKeeps ==
    ASSUME ParserInv, NEW S, AtOneOf(S), fail, Head(Top.todo) \notin Calls \cup {"inOn"}
    PROVE  ParserInv'
<1>1. /\ Registers /\ stack # <<>> /\ status = "parsing"
      /\ Now(Top.todo) = Head(Top.todo) /\ GoodFrame(Top)
  BY AtFacts
<1>2. ~InForHead(Top)
  BY <1>1, NotInHead, KindFacts
<1>3. error' = TRUE /\ Leave("null") /\ "null" \in Values
  BY DEF fail, Values
<1> QED
  BY <1>1, <1>2, <1>3, LeaveKeeps

LEMMA TokenTaken == ASSUME ParserInv, consumeOrFail PROVE ParserInv'
<1>1. AtOneOf(Tokens) /\ IF tok = Head(Top.todo) THEN Advance(TRUE) ELSE fail
  BY DEF consumeOrFail
<1>2. Head(Top.todo) \in Tokens
  BY <1>1, AtFacts
<1>3. /\ Put(Head(Top.todo)) = {<<>>} /\ Head(Top.todo) \notin Calls
      /\ Head(Top.todo) \notin CountingOperations /\ Head(Top.todo) \notin Operations
  BY <1>2, PutFacts, KindFacts
<1>4. Head(Top.todo) \notin {"inOff", "inOn", "failIfError"}
  BY <1>3 DEF Operations
<1> QED
  BY <1>1, <1>3, <1>4, AdvanceKeeps, FailKeeps

LEMMA TokenSkipped == ASSUME ParserInv, next PROVE ParserInv'
<1>1. PICK r \in BOOLEAN : AtOneOf({"next", "nextIgnoreReserved"}) /\ Advance(r)
  BY DEF next, At, AtOneOf
<1>2. Head(Top.todo) \in {"next", "nextIgnoreReserved"}
  BY <1>1, AtFacts
<1>3. Head(Top.todo) \in Dropped /\ Head(Top.todo) \notin CountingOperations
  BY <1>2 DEF Dropped, CountingOperations
<1>4. Put(Head(Top.todo)) = {<<>>} /\ Head(Top.todo) \notin Calls
  BY <1>3, DroppedFacts, KindFacts
<1> QED
  BY <1>1, <1>2, <1>3, <1>4, AdvanceKeeps

\* A step that only drops the current symbol.
Quiet == Dropped \ (CountingOperations \cup {"inOff", "inOn"})

LEMMA QuietDone ==
    ASSUME ParserInv, NEW S, AtOneOf(S), Head(Top.todo) \in Quiet, Local(Done(Top)),
           Head(Top.todo) = "failIfError" => ~error
    PROVE  ParserInv'
<1>1. GoodFrame(Top) /\ Top.todo # <<>>
  BY AtFacts
<1>2. /\ Put(Head(Top.todo)) = {<<>>} /\ Head(Top.todo) \notin Calls
      /\ Head(Top.todo) \notin CountingOperations /\ Head(Top.todo) \notin {"inOff", "inOn"}
  BY DroppedFacts, KindFacts DEF Quiet
<1>3. NextFrame(Top, Done(Top))
  BY <1>1, <1>2, DoneNext
<1> QED
  BY <1>2, <1>3, LocalMoves

LEMMA CheckKeeps ==
    ASSUME ParserInv, NEW s, s = "fail" \/ s \in Quiet,
           NEW c \in BOOLEAN, failIf(s, c), s = "fail" => c, s = "failIfError" => c = error
    PROVE  ParserInv'
<1>1. AtOneOf({s}) /\ IF c THEN fail ELSE Local(Done(Top))
  BY AtIs DEF failIf
<1>2. Head(Top.todo) = s
  BY <1>1, AtFacts
<1>3. s \in Operations /\ s # "inOn"
  BY DroppedFacts DEF Quiet, Operations
<1>4. CASE c
  BY <1>1, <1>2, <1>3, <1>4, FailKeeps, KindFacts
<1>5. CASE ~c
  BY <1>1, <1>2, <1>5, QuietDone
<1> QED
  BY <1>4, <1>5

LEMMA ChecksKeep == ASSUME ParserInv, Checks PROVE ParserInv'
<1>1. {"failIfError", "failIfNull", "sameLHS", "failIfNoHandler", "onlyOneToken", "scanRegExp",
       "accessorType"} \subseteq Quiet
  BY DEF Quiet, Dropped, CountingOperations
<1>2. error \in BOOLEAN
  BY DEF ParserInv, Registers
<1>3. CASE failIf("fail", TRUE)
  BY <1>3, CheckKeeps
<1>4. CASE failIf("failIfError", error)
  BY <1>1, <1>2, <1>4, CheckKeeps
<1>5. ASSUME NEW s \in {"failIfNull", "sameLHS", "failIfNoHandler", "onlyOneToken", "scanRegExp",
                        "accessorType"},
             NEW c \in BOOLEAN, failIf(s, c)
      PROVE  ParserInv'
  <2>1. s \in Quiet /\ s # "fail" /\ s # "failIfError"
    BY <1>1
  <2> QED
    BY <1>5, <2>1, CheckKeeps
<1>6. (value = "null") \in BOOLEAN /\ (Top.mark # nonLHS) \in BOOLEAN /\ (Top.n = 0) \in BOOLEAN
      /\ (Top.n + 1 # tokenCount) \in BOOLEAN
  OBVIOUS
<1> QED
  BY <1>3, <1>4, <1>5, <1>6 DEF Checks

\* What called the function above the statement loop.
LEMMA SecondFrame ==
    ASSUME ParserInv, Len(stack) = 2
    PROVE  \E t \in Tokens : Top.fn = Callee("parseStatement*", t)
<1>1. /\ stack # <<>> /\ stack[1].fn = "parseSourceElements" /\ Frames
  <2>1. stack # <<>>
    BY StackFacts DEF ParserInv, Frames
  <2> QED
    BY <2>1 DEF ParserInv, Root
<1>2. Head(stack[1].todo) = "parseStatement*" /\ Top = stack[2]
  <2>1. Len(stack) # 1
    OBVIOUS
  <2>2. Head(stack[1].todo) = "parseStatement*"
    BY <1>1, <2>1, RootFacts
  <2>3. Top = stack[Len(stack)]
    BY <1>1, TopFacts
  <2> QED
    BY <2>2, <2>3
<1>3. \A k \in 1 .. Len(stack) - 1 : Calling(stack[k], stack[k + 1])
  BY <1>1 DEF Frames
<1>4. 1 \in 1 .. Len(stack) - 1 /\ 1 + 1 = 2
  OBVIOUS
<1>5. Calling(stack[1], stack[2])
  BY <1>3, <1>4
<1> QED
  BY <1>2, <1>5 DEF Calling

LEMMA ReturnKeeps == ASSUME ParserInv, Return PROVE ParserInv'
<1>1. Running /\ UNCHANGED error
  BY DEF Return, At
<1>2. /\ Registers /\ Frames /\ Root /\ AllowsIn /\ status = "parsing" /\ stack # <<>>
      /\ GoodFrame(Top) /\ error' \in BOOLEAN /\ (error' <=> error)
  BY <1>1, TopFacts DEF ParserInv, Running, Registers
<1>3. CASE Running /\ Top.todo = <<>>
  <2> DEFINE v == CASE Top.fn = "parseMemberExpression" -> "lhs"
                    [] Top.fn \in Chain /\ ~Top.took -> value
                    [] OTHER -> "node"
  <2>1. Leave(v)
    <3>1. At("returnNull") => Top.todo # <<>>
      BY DEF At
    <3>2. At("returnResult") => Top.todo # <<>>
      BY DEF At
    <3> QED
      BY <1>3, <3>1, <3>2 DEF Return
  <2>2. "parseMemberExpression" \notin Chain
    BY DEF Chain
  <2>3. v \in Values /\ (Top.fn \notin Chained => v = "node")
    BY <1>2, <2>2 DEF Registers, Values, Chained
  <2> HIDE DEF v
  <2>4. Now(Top.todo) = ""
    BY <1>3 DEF Now
  <2>5. ~InForHead(Top)
    BY <1>2, <2>4, NotInHead DEF HeadCalls
  <2>6. Len(stack) = 2 => v # "null"
    BY <2>3, SecondFrame, StatementsReturn
  <2>7. Len(stack) = 1 => ~error /\ lexer = "ok"
    BY <1>2, <2>4, TopFacts DEF Root
  <2> QED
    BY <1>2, <2>1, <2>3, <2>5, <2>6, <2>7, LeaveKeeps
<1>4. CASE At("returnNull") /\ Leave("null")
  <2>1. AtOneOf({"returnNull"})
    BY <1>4, AtIs
  <2>2. Now(Top.todo) = "returnNull" /\ "returnNull" \in Places(Top.fn)
    BY <2>1, AtFacts
  <2>3. ~InForHead(Top)
    BY <1>2, <2>2, NotInHead DEF HeadCalls
  <2>4. Len(stack) = 2 => lexer = "ok"
    <3>1. ASSUME Len(stack) = 2 PROVE Top.fn = "parseStatement"
      BY <2>2, <3>1, SecondFrame, StatementsReturn
    <3> QED
      BY <1>2, <2>2, <3>1 DEF Root
  <2> QED
    BY <1>2, <1>4, <2>3, <2>4, LeaveKeeps DEF Values
<1>5. CASE At("returnResult") /\ Leave(value)
  <2>1. AtOneOf({"returnResult"})
    BY <1>5, AtIs
  <2>2. Now(Top.todo) = "returnResult" /\ "returnResult" \in Places(Top.fn)
    BY <2>1, AtFacts
  <2>3. ~InForHead(Top)
    BY <1>2, <2>2, NotInHead DEF HeadCalls
  <2>4. Len(stack) # 2
    BY <2>2, SecondFrame, StatementsReturn
  <2>5. Len(stack) # 1
    BY <1>2, <2>2, TopFacts, StatementLoop DEF Root
  <2> QED
    BY <1>2, <1>5, <2>3, <2>4, <2>5, LeaveKeeps DEF Registers
<1> QED
  BY <1>3, <1>4, <1>5 DEF Return

LEMMA SemicolonKeeps == ASSUME ParserInv, autoSemiColon PROVE ParserInv'
<1> DEFINE s == Head(Top.todo)
<1>1. AtOneOf(DOMAIN Otherwise)
  BY DEF autoSemiColon
<1>2. /\ s \in DOMAIN Otherwise /\ GoodFrame(Top) /\ Top.todo # <<>> /\ Top \in Frame
  BY <1>1, AtFacts
<1>3. /\ Put(s) = {<<>>, Otherwise[s]} /\ s \notin Calls /\ s \notin CountingOperations
      /\ s \notin {"inOff", "inOn", "failIfError"}
  <2>1. s \notin Calls /\ s \notin CountingOperations /\ s \notin {"inOff", "inOn", "failIfError"}
    BY <1>2, SymbolFacts, KindFacts DEF CountingOperations
  <2> QED
    BY <1>2, <2>1, PutFacts
<1>4. CASE Advance(TRUE)
  BY <1>1, <1>3, <1>4, AdvanceKeeps
<1>5. CASE Local(Done(Top))
  <2>1. NextFrame(Top, Done(Top))
    BY <1>2, <1>3, DoneNext
  <2> QED
    BY <1>1, <1>3, <1>5, <2>1, LocalMoves
<1>6. CASE Local(Instead(Top, Otherwise[s]))
  <2> DEFINE d == Otherwise[s] \o Tail(Top.todo)
             g == Instead(Top, Otherwise[s])
  <2>1. d \in After(Top.todo) /\ d \in Seq(Symbols) /\ g = [Top EXCEPT !.todo = d]
    BY <1>2, <1>3, RestFacts
  <2> HIDE DEF d, g
  <2>2. Changed(g, Top, d, Top.mark, Top.n, Top.m, Top.took)
    BY <1>2, <2>1, FrameFields
  <2>3. NextFrame(Top, g)
    BY <1>2, <1>3, <2>1, <2>2, PlainStep
  <2>4. Local(g)
    BY <1>6 DEF g
  <2> QED
    BY <1>1, <1>3, <2>3, <2>4, LocalMoves
<1> QED
  BY <1>4, <1>5, <1>6 DEF autoSemiColon

LEMMA SwitchKeeps == ASSUME ParserInv, SetAllowsIn PROVE ParserInv'
<1> DEFINE s == Head(Top.todo)
<1>1. /\ AtOneOf({"inOff", "inOn"}) /\ allowsIn' = At("inOn") /\ SetTop(Done(Top))
      /\ UNCHANGED <<text, tok, nl, lexer, tokenCount, error, nonLHS, value, status>>
  BY DEF SetAllowsIn, lexVars
<1>2. /\ s \in {"inOff", "inOn"} /\ GoodFrame(Top) /\ Top.todo # <<>> /\ Now(Top.todo) = s
      /\ Registers /\ stack # <<>> /\ status = "parsing"
  BY <1>1, AtFacts
<1>3. At("inOn") <=> s = "inOn"
  BY <1>1, <1>2 DEF At, AtOneOf
<1>4. s \in Dropped /\ s \notin CountingOperations /\ s # "failIfError"
  BY <1>2 DEF Dropped, CountingOperations
<1>5. Put(s) = {<<>>} /\ s \notin Calls
  BY <1>4, DroppedFacts, KindFacts
<1>6. NextFrame(Top, Done(Top))
  BY <1>2, <1>4, <1>5, DoneNext
<1>7. allowsIn' = (s = "inOn")
  BY <1>1, <1>3 DEF At
<1>8. Registers'
  BY <1>1, <1>2, <1>7 DEF Registers
<1> QED
  BY <1>1, <1>2, <1>4, <1>5, <1>6, <1>7, <1>8, TopMoves

LEMMA MarkKeeps == ASSUME ParserInv, SaveLHS PROVE ParserInv'
<1>1. AtOneOf({"saveLHS"}) /\ Local([Done(Top) EXCEPT !.mark = nonLHS])
  BY AtIs DEF SaveLHS
<1>2. /\ Head(Top.todo) = "saveLHS" /\ GoodFrame(Top) /\ Top.todo # <<>> /\ nonLHS \in Nat
  BY <1>1, AtFacts DEF Registers
<1>3. "saveLHS" \in Dropped /\ "saveLHS" \notin CountingOperations
  BY DEF Dropped, CountingOperations
<1>4. Put("saveLHS") = {<<>>} /\ "saveLHS" \notin Calls
  BY <1>3, DroppedFacts, KindFacts
<1>5. NextFrame(Top, [Done(Top) EXCEPT !.mark = nonLHS])
  BY <1>2, <1>3, <1>4, DoneNext
<1> QED
  BY <1>1, <1>2, <1>4, <1>5, LocalMoves

LEMMA NonLHSKeeps == ASSUME ParserInv, SetNonLHS PROVE ParserInv'
<1> DEFINE s == Head(Top.todo)
<1>1. /\ AtOneOf({"nonLHS", "restoreLHS"}) /\ SetTop(Done(Top))
      /\ nonLHS' \in {nonLHS + 1, Top.mark}
      /\ UNCHANGED <<text, tok, nl, lexer, tokenCount, allowsIn, error, value, status>>
  BY DEF SetNonLHS, At, AtOneOf, lexVars
<1>2. /\ s \in {"nonLHS", "restoreLHS"} /\ GoodFrame(Top) /\ Top.todo # <<>> /\ Now(Top.todo) = s
      /\ Registers /\ stack # <<>> /\ status = "parsing" /\ Top \in Frame
  BY <1>1, AtFacts
<1>3. s \in Dropped /\ s \notin CountingOperations /\ s \notin {"failIfError", "inOff", "inOn"}
  BY <1>2 DEF Dropped, CountingOperations
<1>4. Put(s) = {<<>>} /\ s \notin Calls
  BY <1>3, DroppedFacts, KindFacts
<1>5. NextFrame(Top, Done(Top))
  BY <1>2, <1>3, <1>4, DoneNext
<1>6. nonLHS' \in Nat
  BY <1>1, <1>2 DEF Registers, Frame
<1>7. Registers'
  BY <1>1, <1>2, <1>6 DEF Registers
<1> QED
  BY <1>1, <1>2, <1>3, <1>4, <1>5, <1>7, TopMoves

LEMMA ForVarKeeps == ASSUME ParserInv, forVarRest PROVE ParserInv'
<1>1. AtOneOf({"forVarRest"})
  BY AtIs DEF forVarRest
<1>2. PICK x \in {<<"standardForLoop">>, <<"forVarIn">>} : Local(Instead(Top, x))
  BY DEF forVarRest
<1>3. Head(Top.todo) = "forVarRest" /\ GoodFrame(Top) /\ Top.todo # <<>> /\ Top \in Frame
  BY <1>1, AtFacts
<1>4. "forVarRest" \in Operations /\ "forVarRest" \notin CountingOperations
  BY SymbolFacts DEF CountingOperations
<1>5. x \in Put(Head(Top.todo)) /\ "forVarRest" \notin Calls
  BY <1>3, <1>4, PutFacts, KindFacts
<1> DEFINE d == x \o Tail(Top.todo)
           g == Instead(Top, x)
<1>6. d \in After(Top.todo) /\ d \in Seq(Symbols) /\ g = [Top EXCEPT !.todo = d]
  BY <1>3, <1>5, RestFacts
<1>7. Local(g)
  BY <1>2
<1> HIDE DEF d, g
<1>8. Changed(g, Top, d, Top.mark, Top.n, Top.m, Top.took)
  BY <1>3, <1>6, FrameFields
<1>9. NextFrame(Top, g)
  BY <1>3, <1>4, <1>6, <1>8, PlainStep
<1> QED
  BY <1>1, <1>3, <1>5, <1>7, <1>9, LocalMoves

-----------------------------------------------------------------------------
(* The steps that count.                                                    *)

\* The frames that take their symbol away and count in n.
LEMMA CountedFacts ==
    ASSUME NEW f, GoodFrame(f), f.todo # <<>>, Head(f.todo) \in Dropped
    PROVE  LET d == Tail(f.todo) IN
           /\ d \in After(f.todo) /\ d \in Seq(Symbols)
           /\ \A x \in Nat : Changed([Done(f) EXCEPT !.n = x], f, d, f.mark, x, f.m, f.took)
           /\ \A x \in Nat : Changed([Done(f) EXCEPT !.m = x], f, d, f.mark, f.n, x, f.took)
           /\ \A x, y \in Nat : Changed([Done(f) EXCEPT !.n = x, !.m = y], f, d, f.mark, x, y, f.took)
           /\ Done(f).n = f.n /\ Done(f).m = f.m /\ Done(f).mark = f.mark
           /\ f.n \in Nat /\ f.m \in Nat /\ f.mark \in Nat
           /\ Goes(f.fn, Now(f.todo), Now(d)) /\ Now(d) \in Places(f.fn)
<1> DEFINE d == Tail(f.todo)
<1>1. d \in After(f.todo) /\ Done(f) = [f EXCEPT !.todo = d] /\ d \in Seq(Symbols)
  BY RestFacts, DroppedFacts
<1>2. f \in Frame
  BY DEF GoodFrame
<1> HIDE DEF d
<1>3. Changed(Done(f), f, d, f.mark, f.n, f.m, f.took)
  BY <1>1, <1>2, FrameFields
<1>4. Goes(f.fn, Now(f.todo), Now(d)) /\ Now(d) \in Places(f.fn)
  BY <1>1, AfterFacts
<1>5. /\ \A x \in Nat : Changed([Done(f) EXCEPT !.n = x], f, d, f.mark, x, f.m, f.took)
      /\ \A x \in Nat : Changed([Done(f) EXCEPT !.m = x], f, d, f.mark, f.n, x, f.took)
      /\ \A x, y \in Nat : Changed([Done(f) EXCEPT !.n = x, !.m = y], f, d, f.mark, x, y, f.took)
      /\ f.n \in Nat /\ f.m \in Nat /\ f.mark \in Nat
  BY <1>1, <1>2, FrameFields
<1>6. Done(f).n = f.n /\ Done(f).m = f.m /\ Done(f).mark = f.mark
  BY <1>3 DEF Changed
<1> QED
  BY <1>1, <1>4, <1>5, <1>6 DEF d

LEMMA CountersKeep ==
    ASSUME ParserInv, saveTokenCount \/ countHandler \/ countNew PROVE ParserInv'
<1> DEFINE s == Head(Top.todo)
<1>1. AtOneOf({"saveTokenCount", "countHandler", "countNew"})
  BY DEF saveTokenCount, countHandler, countNew, At, AtOneOf
<1>2. /\ s \in {"saveTokenCount", "countHandler", "countNew"} /\ GoodFrame(Top) /\ Top.todo # <<>>
      /\ Top.fn \in Functions /\ s \in Symbols /\ s \in Places(Top.fn) /\ tokenCount \in Nat
  BY <1>1, AtFacts DEF Registers
<1>3. s \in Dropped /\ s \notin {"inOff", "inOn", "failIfError"}
  BY <1>2 DEF Dropped
<1>4. s \notin Calls
  BY <1>3, DroppedFacts, KindFacts
<1>5. Top.fn \notin Tracked
  BY <1>2, OperationsAreOwned DEF Tracked
<1>6. /\ Done(Top).n = Top.n /\ Top.n \in Nat
      /\ Tail(Top.todo) \in After(Top.todo)
      /\ \A x \in Nat : Changed([Done(Top) EXCEPT !.n = x], Top, Tail(Top.todo),
                                Top.mark, x, Top.m, Top.took)
  BY <1>2, <1>3, CountedFacts
<1>C. Top.n + 1 \in Nat
  BY <1>6
<1>7. PICK x \in Nat : Local([Done(Top) EXCEPT !.n = x])
  <2>1. \/ Local([Done(Top) EXCEPT !.n = tokenCount])
        \/ Local([Done(Top) EXCEPT !.n = @ + 1])
    BY DEF saveTokenCount, countHandler, countNew
  <2>2. [Done(Top) EXCEPT !.n = @ + 1] = [Done(Top) EXCEPT !.n = Top.n + 1]
    BY <1>6
  <2> QED
    BY <1>2, <1>C, <2>1, <2>2
<1>8. NextFrame(Top, [Done(Top) EXCEPT !.n = x])
  BY <1>5, <1>6, UntrackedStep
<1> QED
  BY <1>1, <1>3, <1>4, <1>7, <1>8, LocalMoves

LEMMA CallOrNewKeeps == ASSUME ParserInv, callOrNew PROVE ParserInv'
<1>1. AtOneOf({"callOrNew"})
  BY AtIs DEF callOrNew
<1>2. /\ Head(Top.todo) = "callOrNew" /\ GoodFrame(Top) /\ Top.todo # <<>> /\ Top \in Frame
      /\ Top.fn \in Functions /\ "callOrNew" \in Symbols /\ "callOrNew" \in Places(Top.fn)
  BY <1>1, AtFacts
<1>3. "callOrNew" \in Operations
  BY SymbolFacts
<1>4. "callOrNew" \notin Calls /\ Top.fn \notin Tracked
  BY <1>2, <1>3, KindFacts, OperationsAreOwned DEF Tracked
<1> DEFINE x == <<"parseArguments">>
           y == <<"saveLHS", "parseArguments", "restoreLHS">>
<1>5. {x, y} \subseteq Put(Head(Top.todo))
  BY <1>2, PutFacts
<1>6. IF Top.n > 0 THEN Local([Instead(Top, x) EXCEPT !.n = @ - 1]) ELSE Local(Instead(Top, y))
  BY DEF callOrNew
<1> HIDE DEF x, y
<1>7. ASSUME NEW z \in {x, y}
      PROVE  LET d == z \o Tail(Top.todo) IN
             /\ d \in After(Top.todo)
             /\ Changed(Instead(Top, z), Top, d, Top.mark, Top.n, Top.m, Top.took)
             /\ \A k \in Nat : Changed([Instead(Top, z) EXCEPT !.n = k], Top, d,
                                       Top.mark, k, Top.m, Top.took)
  <2> DEFINE d == z \o Tail(Top.todo)
  <2>1. d \in After(Top.todo) /\ d \in Seq(Symbols) /\ Instead(Top, z) = [Top EXCEPT !.todo = d]
    BY <1>2, <1>5, RestFacts
  <2> HIDE DEF d
  <2> QED
    BY <1>2, <2>1, FrameFields DEF d
<1>8. CASE Top.n > 0
  <2>1. Instead(Top, x).n = Top.n
    BY <1>7 DEF Changed
  <2>B. Top.n \in Nat
    BY <1>2 DEF Frame
  <2>2. Local([Instead(Top, x) EXCEPT !.n = Top.n - 1]) /\ Top.n - 1 \in Nat
    BY <1>6, <1>8, <2>1, <2>B
  <2>3. NextFrame(Top, [Instead(Top, x) EXCEPT !.n = Top.n - 1])
    BY <1>4, <1>7, <2>2, UntrackedStep
  <2> QED
    BY <1>1, <1>2, <1>4, <2>2, <2>3, LocalMoves
<1>9. CASE ~(Top.n > 0)
  <2>1. NextFrame(Top, Instead(Top, y))
    BY <1>4, <1>7, UntrackedStep
  <2> QED
    BY <1>1, <1>2, <1>4, <1>6, <1>9, <2>1, LocalMoves
<1> QED
  BY <1>8, <1>9

LEMMA ElseKeeps == ASSUME ParserInv, elseStacks PROVE ParserInv'
<1> DEFINE s == Head(Top.todo)
           S == {"pushElseIf", "pushElse", "foldLastIf", "foldElse"}
           d == Tail(Top.todo)
<1>1. AtOneOf(S)
  BY DEF elseStacks, At, AtOneOf
<1>2. /\ s \in S /\ GoodFrame(Top) /\ GoodCounts(Top) /\ Top.todo # <<>> /\ Now(Top.todo) = s
      /\ Top.fn \in Functions /\ s \in Symbols /\ s \in Places(Top.fn)
  BY <1>1, AtFacts DEF GoodFrame
<1>3. s \in Dropped /\ s \notin {"inOff", "inOn", "failIfError", "", "fail"}
  BY <1>2 DEF Dropped
<1>4. s \notin Calls
  BY <1>3, DroppedFacts, KindFacts
<1>5. Top.fn = "parseIfStatement"
  BY <1>2, OperationsAreOwned
<1>6. /\ d \in After(Top.todo)
      /\ \A x \in Nat : Changed([Done(Top) EXCEPT !.n = x], Top, d, Top.mark, x, Top.m, Top.took)
      /\ \A x \in Nat : Changed([Done(Top) EXCEPT !.m = x], Top, d, Top.mark, Top.n, x, Top.took)
      /\ \A x, y \in Nat : Changed([Done(Top) EXCEPT !.n = x, !.m = y], Top, d,
                                   Top.mark, x, y, Top.took)
      /\ Done(Top).n = Top.n /\ Done(Top).m = Top.m /\ Top.n \in Nat /\ Top.m \in Nat
      /\ Goes(Top.fn, s, Now(d)) /\ Now(d) \in Places(Top.fn)
  BY <1>2, <1>3, CountedFacts
<1>7. /\ Now(d) = "foldElse" <=> s \in {"pushElse", "foldLastIf"}
      /\ Now(d) = "moreElse" <=> s = "pushElseIf"
      /\ Now(d) = "foldLastIf" => s = "moreElse"
      /\ s = "foldElse" => Now(d) = ""
  <2>1. /\ s \in Places("parseIfStatement") /\ Now(d) \in Places("parseIfStatement")
        /\ Goes("parseIfStatement", s, Now(d))
    BY <1>2, <1>5, <1>6
  <2> QED
    BY <2>1, IfFlow
<1>8. /\ s = "foldElse" => Top.m = Top.n + 1
      /\ s # "foldElse" => Top.m = Top.n
      /\ s = "foldLastIf" => Top.n >= 1
  BY <1>2, <1>3, <1>5 DEF GoodCounts
<1>9. ASSUME NEW g, NEW n \in Nat, NEW m \in Nat,
             Changed(g, Top, d, Top.mark, n, m, Top.took), Local(g),
             Now(d) = "foldElse" => m = n + 1,
             Now(d) \notin {"", "fail", "foldElse"} => m = n,
             Now(d) = "moreElse" => n >= 1
      PROVE  ParserInv'
  <2>1. g \in Frame /\ g.fn = Top.fn /\ g.in = Top.in /\ g.todo = d /\ g.n = n /\ g.m = m
    BY <1>9 DEF Changed
  <2>2. Now(d) # "foldLastIf"
    BY <1>2, <1>7
  <2>3. GoodCounts(g)
    BY <1>5, <1>9, <2>1, <2>2 DEF GoodCounts
  <2>4. NextFrame(Top, g)
    BY <1>6, <2>1, <2>3 DEF NextFrame
  <2> QED
    BY <1>1, <1>3, <1>4, <1>9, <2>4, LocalMoves
<1> HIDE DEF d
<1>D. \A k \in Nat : k + 1 \in Nat /\ k + 1 >= 1 /\ (k >= 1 => k - 1 \in Nat /\ k - 1 + 1 = k)
  OBVIOUS
<1>10. CASE At("pushElseIf") /\ Local([Done(Top) EXCEPT !.n = @ + 1, !.m = @ + 1])
  <2>1. Local([Done(Top) EXCEPT !.n = Top.n + 1, !.m = Top.m + 1])
    BY <1>6, <1>10
  <2>2. s = "pushElseIf" /\ Top.n + 1 \in Nat /\ Top.m + 1 \in Nat /\ Top.n + 1 >= 1
    <3>1. s = "pushElseIf"
      BY <1>10 DEF At
    <3> QED
      BY <1>6, <1>D, <3>1
  <2>3. Now(d) = "moreElse" /\ Top.m = Top.n
    BY <1>7, <1>8, <2>2
  <2>4. Changed([Done(Top) EXCEPT !.n = Top.n + 1, !.m = Top.m + 1], Top, d,
                Top.mark, Top.n + 1, Top.m + 1, Top.took)
    BY <1>6, <2>2
  <2> QED
    BY <1>9, <2>1, <2>2, <2>3, <2>4
<1>11. CASE At("pushElse") /\ Local([Done(Top) EXCEPT !.m = @ + 1])
  <2>1. Local([Done(Top) EXCEPT !.m = Top.m + 1]) /\ Top.m + 1 \in Nat /\ s = "pushElse"
    <3>1. s = "pushElse"
      BY <1>11 DEF At
    <3> QED
      BY <1>6, <1>D, <1>11, <3>1
  <2>2. Now(d) = "foldElse" /\ Top.m = Top.n
    BY <1>7, <1>8, <2>1
  <2>3. Changed([Done(Top) EXCEPT !.m = Top.m + 1], Top, d, Top.mark, Top.n, Top.m + 1, Top.took)
    BY <1>6, <2>1
  <2> QED
    BY <1>6, <1>9, <2>1, <2>2, <2>3
<1>12. CASE At("foldLastIf") /\ Local([Done(Top) EXCEPT !.n = @ - 1])
  <2>1. Local([Done(Top) EXCEPT !.n = Top.n - 1]) /\ s = "foldLastIf"
    BY <1>6, <1>12 DEF At
  <2>2. Now(d) = "foldElse" /\ Top.m = Top.n /\ Top.n - 1 \in Nat /\ Top.m = Top.n - 1 + 1
    <3>1. Now(d) = "foldElse" /\ Top.m = Top.n /\ Top.n >= 1
      BY <1>7, <1>8, <2>1
    <3> QED
      BY <1>6, <1>D, <3>1
  <2>3. Changed([Done(Top) EXCEPT !.n = Top.n - 1], Top, d, Top.mark, Top.n - 1, Top.m, Top.took)
    BY <1>6, <2>2
  <2> QED
    BY <1>6, <1>9, <2>1, <2>2, <2>3
<1>13. CASE At("foldElse") /\ Local([Done(Top) EXCEPT !.n = 0, !.m = @ - Top.n])
  <2>1. Local([Done(Top) EXCEPT !.n = 0, !.m = Top.m - Top.n]) /\ s = "foldElse"
    BY <1>6, <1>13 DEF At
  <2>2. Now(d) = "" /\ Top.m - Top.n \in Nat /\ 0 \in Nat
    <3>1. Now(d) = "" /\ Top.m = Top.n + 1
      BY <1>7, <1>8, <2>1
    <3>2. \A a, b \in Nat : a = b + 1 => a - b \in Nat
      OBVIOUS
    <3> QED
      BY <1>6, <3>1, <3>2
  <2>3. Changed([Done(Top) EXCEPT !.n = 0, !.m = Top.m - Top.n], Top, d,
                Top.mark, 0, Top.m - Top.n, Top.took)
    BY <1>6, <2>2
  <2> QED
    BY <1>9, <2>1, <2>2, <2>3
<1> QED
  BY <1>10, <1>11, <1>12, <1>13 DEF elseStacks

\* The builder's stacks are not part of the invariant: of a step that changes
\* them the frame and m_nonLHSCount matter.
LEMMA BuildMoves ==
    ASSUME ParserInv, NEW S, AtOneOf(S), NEW g, NextFrame(Top, g), SetTop(g), nonLHS' \in Nat,
           UNCHANGED <<text, tok, nl, lexer, tokenCount, allowsIn, error, value, status>>,
           Head(Top.todo) \notin Calls \cup {"inOff", "inOn", "failIfError"}
    PROVE  ParserInv'
<1>1. /\ Registers /\ stack # <<>> /\ status = "parsing" /\ Top.todo # <<>>
      /\ Now(Top.todo) = Head(Top.todo)
  BY AtFacts
<1>2. Registers'
  BY <1>1 DEF Registers
<1> QED
  BY <1>1, <1>2, TopMoves

\* The functions that count what they have on a stack of the builder.
LEMMA BuilderKeeps ==
    ASSUME ParserInv, pushOperand \/ pushUnary \/ endUnary \/ endAssignment \/ newBuilder
    PROVE  ParserInv'
<1> DEFINE s == Head(Top.todo)
           d == Tail(Top.todo)
           S == {"pushOperand", "pushUnary", "endUnary", "endAssignment", "newBuilder"}
           n == IF s \in {"endUnary", "endAssignment"} THEN 0
                ELSE IF s = "newBuilder" THEN 1 ELSE Top.n + 1
           g == [Done(Top) EXCEPT !.n = n]
<1>1. AtOneOf(S)
  BY DEF pushOperand, pushUnary, endUnary, endAssignment, newBuilder, At, AtOneOf
<1>2. /\ s \in S /\ GoodFrame(Top) /\ GoodCounts(Top) /\ Top.todo # <<>> /\ Now(Top.todo) = s
      /\ Top.fn \in Functions /\ s \in Symbols /\ s \in Places(Top.fn) /\ nonLHS \in Nat
  BY <1>1, AtFacts DEF GoodFrame, Registers
<1>3. s \in Dropped /\ s \notin {"inOff", "inOn", "failIfError", "", "fail", "binaryOperator"}
  BY <1>2 DEF Dropped
<1>4. s \notin Calls
  BY <1>3, DroppedFacts, KindFacts
<1>5. /\ d \in After(Top.todo)
      /\ \A x \in Nat : Changed([Done(Top) EXCEPT !.n = x], Top, d, Top.mark, x, Top.m, Top.took)
      /\ Done(Top).n = Top.n /\ Top.n \in Nat /\ Top.m \in Nat
      /\ Goes(Top.fn, s, Now(d)) /\ Now(d) \in Places(Top.fn)
  BY <1>2, <1>3, CountedFacts
<1>6. \A k \in Nat : k + 1 \in Nat
  OBVIOUS
<1>7. n \in Nat
  BY <1>5, <1>6
<1>8. /\ SetTop(g) /\ nonLHS' \in {nonLHS, nonLHS + 1}
      /\ UNCHANGED <<text, tok, nl, lexer, tokenCount, allowsIn, error, value, status>>
  <2>1. CASE pushOperand
    BY <1>5, <2>1 DEF pushOperand, Build, At, lexVars
  <2>2. CASE pushUnary
    BY <1>5, <2>2 DEF pushUnary, Build, At, lexVars
  <2>3. CASE endUnary
    BY <1>5, <2>3 DEF endUnary, Build, At, lexVars
  <2>4. CASE endAssignment
    BY <1>5, <2>4 DEF endAssignment, Build, At, lexVars
  <2>5. CASE newBuilder
    BY <1>5, <2>5 DEF newBuilder, At, lexVars
  <2> QED
    BY <2>1, <2>2, <2>3, <2>4, <2>5
<1>9. Changed(g, Top, d, Top.mark, n, Top.m, Top.took)
  BY <1>5, <1>7
<1> HIDE DEF d
<1>10. GoodCounts(g)
  <2>1. g.fn = Top.fn /\ g.todo = d /\ g.n = n /\ g.m = Top.m
    BY <1>9 DEF Changed
  <2> HIDE DEF g
  <2>2. CASE s = "pushOperand"
    <3>1. Top.fn = "parseBinaryExpression"
      BY <1>2, <2>2, OperationsAreOwned
    <3>2. Now(d) = "binaryOperator"
      BY <1>2, <1>5, <2>2, <3>1, BinaryFlow
    <3>3. Top.n = Top.m /\ n = Top.n + 1
      BY <1>2, <1>3, <2>2, <3>1 DEF GoodCounts
    <3> HIDE DEF n
    <3> QED
      BY <2>1, <3>1, <3>2, <3>3 DEF GoodCounts
  <2>3. CASE s = "pushUnary"
    <3>1. Top.fn = "parseUnaryExpression"
      BY <1>2, <2>3, OperationsAreOwned
    <3>2. Now(d) # ""
      BY <1>2, <1>5, <2>3, <3>1, UnaryFlow
    <3> QED
      BY <2>1, <3>1, <3>2 DEF GoodCounts
  <2>4. CASE s \in {"endUnary", "endAssignment"}
    <3>1. Top.fn \in {"parseUnaryExpression", "parseAssignmentExpression"} /\ n = 0
      BY <1>2, <2>4, OperationsAreOwned
    <3> QED
      BY <2>1, <3>1 DEF GoodCounts
  <2>5. CASE s = "newBuilder"
    <3>1. Top.fn = "parseFunctionBody" /\ n = 1
      BY <1>2, <2>5, OperationsAreOwned
    <3>2. Now(d) = "parseSourceElements"
      BY <1>2, <1>5, <2>5, <3>1, BodyFlow
    <3> QED
      BY <2>1, <3>1, <3>2 DEF GoodCounts
  <2> QED
    BY <1>2, <2>2, <2>3, <2>4, <2>5
<1>11. NextFrame(Top, g)
  BY <1>5, <1>9, <1>10 DEF NextFrame, Changed
<1>12. nonLHS' \in Nat
  BY <1>2, <1>6, <1>8
<1> HIDE DEF g
<1> QED
  BY <1>1, <1>3, <1>4, <1>8, <1>11, <1>12, BuildMoves

LEMMA AssignmentKeeps == ASSUME ParserInv, assignment PROVE ParserInv'
<1> DEFINE x == <<"next", "parseConditionalExpression", "assignment">>
<1>1. AtOneOf({"assignment"})
  BY AtIs DEF assignment
<1>2. /\ Head(Top.todo) = "assignment" /\ GoodFrame(Top) /\ Top.todo # <<>> /\ Top \in Frame
      /\ Top.fn \in Functions /\ "assignment" \in Symbols /\ "assignment" \in Places(Top.fn)
      /\ Now(Top.todo) = "assignment" /\ nonLHS \in Nat
  BY <1>1, AtFacts DEF Registers
<1>3. "assignment" \in Operations /\ "assignment" \notin CountingOperations
  BY SymbolFacts DEF CountingOperations
<1>4. "assignment" \notin Calls /\ Top.fn = "parseAssignmentExpression"
  BY <1>2, <1>3, KindFacts, OperationsAreOwned
<1>5. Put(Head(Top.todo)) = {<<>>, x}
  BY <1>2, PutFacts
<1>6. /\ UNCHANGED <<text, tok, nl, lexer, tokenCount, allowsIn, error, nonLHS, value, status>>
      /\ SetTop([Instead(Top, x) EXCEPT !.n = @ + 1]) \/ SetTop(Done(Top))
  BY DEF assignment, Build, lexVars
<1> HIDE DEF x
<1>7. CASE SetTop([Instead(Top, x) EXCEPT !.n = @ + 1])
  <2> DEFINE d == x \o Tail(Top.todo)
             g == [Instead(Top, x) EXCEPT !.n = Top.n + 1]
  <2>1. d \in After(Top.todo) /\ d \in Seq(Symbols) /\ Instead(Top, x) = [Top EXCEPT !.todo = d]
    BY <1>2, <1>5, RestFacts
  <2> HIDE DEF d
  <2>2. Changed(Instead(Top, x), Top, d, Top.mark, Top.n, Top.m, Top.took) /\ Top.n \in Nat
    BY <1>2, <2>1, FrameFields
  <2>3. Top.n + 1 \in Nat
    BY <2>2
  <2>4. Changed(g, Top, d, Top.mark, Top.n + 1, Top.m, Top.took)
    BY <1>2, <2>1, <2>3, FrameFields
  <2>5. SetTop(g)
    BY <1>7, <2>2 DEF Changed
  <2>6. Now(d) # ""
    <3>1. /\ Goes(Top.fn, "assignment", Now(d)) /\ Now(d) \in Places(Top.fn)
      BY <1>2, <2>1, AfterFacts
    <3> QED
      BY <1>2, <1>4, <3>1, AssignmentFlow
  <2> HIDE DEF g
  <2>7. g \in Frame /\ g.fn = Top.fn /\ g.in = Top.in /\ g.todo = d
    BY <2>4 DEF Changed
  <2>8. GoodCounts(g)
    BY <1>4, <2>6, <2>7 DEF GoodCounts
  <2>9. NextFrame(Top, g)
    BY <2>1, <2>7, <2>8 DEF NextFrame
  <2> QED
    BY <1>1, <1>2, <1>4, <1>6, <2>5, <2>9, BuildMoves
<1>8. CASE SetTop(Done(Top))
  <2>1. NextFrame(Top, Done(Top))
    BY <1>2, <1>3, <1>5, DoneNext
  <2> QED
    BY <1>1, <1>2, <1>4, <1>6, <1>8, <2>1, BuildMoves
<1> QED
  BY <1>6, <1>7, <1>8

LEMMA LeastElement ==
    ASSUME NEW T \in SUBSET Nat, T # {}
    PROVE  \E i \in T : \A j \in T : i <= j
<1> DEFINE R == {ss \in Nat \X Nat : ss[1] < ss[2]}
<1>1. IsWellFoundedOn(R, Nat)
  BY NatLessThanWellFounded, Zenon DEF OpToRel
<1>2. PICK i \in T : \A j \in T : <<j, i>> \notin R
  BY <1>1, WFMin
<1>3. ASSUME NEW j \in T PROVE i <= j
  <2>1. ~(j < i)
    BY <1>2
  <2> QED
    BY <2>1
<1> QED
  BY <1>3

LEMMA GreatestElement ==
    ASSUME NEW m \in Nat, NEW K \in SUBSET (0 .. m), K # {}
    PROVE  \E i \in K : \A j \in K : j <= i
<1> DEFINE T == {m - i : i \in K}
<1>1. T \in SUBSET Nat /\ T # {}
  <2>1. \A i \in K : m - i \in Nat
    OBVIOUS
  <2>2. \E i \in K : m - i \in T
    OBVIOUS
  <2> HIDE DEF T
  <2>3. T # {}
    BY <2>2
  <2> QED
    BY <2>1, <2>3 DEF T
<1>2. PICK t \in T : \A u \in T : t <= u
  BY <1>1, LeastElement
<1>3. PICK i \in K : t = m - i
  BY <1>2
<1>4. ASSUME NEW j \in K PROVE j <= i
  <2>1. m - i <= m - j
    BY <1>2, <1>3
  <2> QED
    BY <2>1
<1> QED
  BY <1>4

\* How many operators are reduced.
LEMMA ReducedFacts ==
    ASSUME NEW m \in Nat, NEW ops, NEW p PROVE Reduced(m, ops, p) \in 0 .. m
<1> DEFINE stays(i) == i = 0 \/ ~HasHigherPrecedence(ops[Len(ops) - m + i], p)
           P(i) == stays(i) /\ \A j \in i + 1 .. m : ~stays(j)
           K == {i \in 0 .. m : stays(i)}
<1>1. Reduced(m, ops, p) = m - (CHOOSE i \in 0 .. m : P(i))
  BY DEF Reduced
<1>2. 0 \in K
  OBVIOUS
<1> HIDE DEF stays
<1>3. PICK i \in K : \A j \in K : j <= i
  BY <1>2, GreatestElement
<1>4. \A j \in i + 1 .. m : ~stays(j)
  BY <1>3
<1>5. \E k \in 0 .. m : P(k)
  BY <1>3, <1>4
<1> HIDE DEF P
<1>6. (CHOOSE k \in 0 .. m : P(k)) \in 0 .. m
  BY <1>5
<1> QED
  BY <1>1, <1>6

LEMMA BinaryKeeps == ASSUME ParserInv, binaryOperator \/ endBinary PROVE ParserInv'
<1>1. AtOneOf({"binaryOperator"})
  BY AtIs DEF binaryOperator, endBinary
<1>2. /\ Head(Top.todo) = "binaryOperator" /\ GoodFrame(Top) /\ Top.todo # <<>> /\ Top \in Frame
      /\ Top.fn \in Functions /\ "binaryOperator" \in Symbols /\ "binaryOperator" \in Places(Top.fn)
      /\ Now(Top.todo) = "binaryOperator" /\ nonLHS \in Nat
  BY <1>1, AtFacts DEF Registers
<1>3. "binaryOperator" \in Operations
  BY SymbolFacts
<1>4. "binaryOperator" \notin Calls /\ Top.fn = "parseBinaryExpression"
  BY <1>2, <1>3, KindFacts, OperationsAreOwned
<1>5. Put(Head(Top.todo)) = {<<>>, <<"next", "operand">>}
  BY <1>2, PutFacts
<1>6. Top.n \in Nat /\ Top.m \in Nat /\ Top.n = Top.m + 1
  <2>1. Top.n \in Nat /\ Top.m \in Nat
    BY <1>2 DEF Frame
  <2>2. Top.n = Top.m + 1
    BY <1>2, <1>4 DEF GoodFrame, GoodCounts
  <2> QED
    BY <2>1, <2>2
\* A step to the code d, with the counters n and m that fit there.
<1>7. ASSUME NEW d \in After(Top.todo), NEW n \in Nat, NEW m \in Nat, NEW g,
             Changed(g, Top, d, Top.mark, n, m, Top.took), SetTop(g), nonLHS' \in Nat,
             Now(d) = "" => n = 0 /\ m = 0, n = m,
             UNCHANGED <<text, tok, nl, lexer, tokenCount, allowsIn, error, value, status>>
      PROVE  ParserInv'
  <2>1. Goes(Top.fn, "binaryOperator", Now(d)) /\ Now(d) \in Places(Top.fn)
    BY <1>2, AfterFacts
  <2>2. Now(d) \in {"", "next"}
    BY <1>2, <1>4, <2>1, BinaryFlow
  <2>3. g \in Frame /\ g.fn = Top.fn /\ g.in = Top.in /\ g.todo = d /\ g.n = n /\ g.m = m
    BY <1>7 DEF Changed
  <2>4. GoodCounts(g)
    BY <1>4, <1>7, <2>2, <2>3 DEF GoodCounts
  <2>5. NextFrame(Top, g)
    BY <2>3, <2>4 DEF NextFrame
  <2> QED
    BY <1>1, <1>2, <1>4, <1>7, <2>5, BuildMoves
<1>8. CASE binaryOperator
  <2> DEFINE x == <<"next", "operand">>
             d == x \o Tail(Top.todo)
             precedence == isBinaryOperator(tok, allowsIn)
             k == Reduced(Top.m, Context.operators, precedence)
  <2>1. /\ nonLHS' = nonLHS + 1
        /\ SetTop([Instead(Top, x) EXCEPT !.n = @ - k, !.m = @ - k + 1])
        /\ UNCHANGED <<text, tok, nl, lexer, tokenCount, allowsIn, error, value, status>>
    BY <1>8 DEF binaryOperator, Build, lexVars
  <2>2. k \in 0 .. Top.m
    BY <1>6, ReducedFacts
  <2> HIDE DEF k
  <2>3. Top.n - k \in Nat /\ Top.m - k + 1 \in Nat /\ Top.n - k = Top.m - k + 1
    <3>1. \A a, b \in Nat : \A c \in 0 .. b : a = b + 1 =>
            a - c \in Nat /\ b - c + 1 \in Nat /\ a - c = b - c + 1
      OBVIOUS
    <3> QED
      BY <1>6, <2>2, <3>1
  <2>4. d \in After(Top.todo) /\ d \in Seq(Symbols) /\ Instead(Top, x) = [Top EXCEPT !.todo = d]
    BY <1>2, <1>5, RestFacts
  <2>5. Now(d) # ""
    <3>1. d # <<>>
      <4>1. Tail(Top.todo) \in Seq(Symbols)
        BY <1>2, CodeFacts
      <4>2. Len(d) = 2 + Len(Tail(Top.todo)) /\ Len(Tail(Top.todo)) \in Nat
        BY <4>1
      <4> QED
        BY <4>2
    <3>2. d \in Codes[Top.fn] /\ Now(d) = Head(d) /\ Head(d) \in Symbols
      <4>1. d \in Codes[Top.fn] /\ d \in Seq(Symbols)
        BY <1>2, <2>4, AfterFacts
      <4> HIDE DEF d
      <4> QED
        BY <3>1, <4>1 DEF Now
    <3> QED
      BY <3>2, SymbolsAreToldApart
  <2> HIDE DEF d, x
  <2>6. Instead(Top, x).n = Top.n /\ Instead(Top, x).m = Top.m
    <3>1. Changed(Instead(Top, x), Top, d, Top.mark, Top.n, Top.m, Top.took)
      BY <1>2, <2>4, FrameFields
    <3> QED
      BY <3>1 DEF Changed
  <2>7. SetTop([Instead(Top, x) EXCEPT !.n = Top.n - k, !.m = Top.m - k + 1])
    BY <2>1, <2>6
  <2>8. Changed([Instead(Top, x) EXCEPT !.n = Top.n - k, !.m = Top.m - k + 1], Top, d,
                Top.mark, Top.n - k, Top.m - k + 1, Top.took)
    BY <1>2, <2>3, <2>4, FrameFields
  <2>9. nonLHS' \in Nat
    BY <1>2, <2>1
  <2> QED
    BY <1>7, <2>1, <2>3, <2>4, <2>5, <2>7, <2>8, <2>9
<1>9. CASE endBinary
  <2> DEFINE d == Tail(Top.todo)
  <2>1. /\ UNCHANGED nonLHS
        /\ SetTop([Done(Top) EXCEPT !.n = @ - Top.m - 1, !.m = 0])
        /\ UNCHANGED <<text, tok, nl, lexer, tokenCount, allowsIn, error, value, status>>
    BY <1>9 DEF endBinary, Build, lexVars
  <2>2. d \in After(Top.todo) /\ d \in Seq(Symbols) /\ Done(Top) = [Top EXCEPT !.todo = d]
    BY <1>2, <1>5, RestFacts
  <2> HIDE DEF d
  <2>3. Done(Top).n = Top.n
    <3>1. Changed(Done(Top), Top, d, Top.mark, Top.n, Top.m, Top.took)
      BY <1>2, <2>2, FrameFields
    <3> QED
      BY <3>1 DEF Changed
  <2>4. Top.n - Top.m - 1 = 0
    <3>1. \A a, b \in Nat : a = b + 1 => a - b - 1 = 0
      OBVIOUS
    <3> QED
      BY <1>6, <3>1
  <2>5. SetTop([Done(Top) EXCEPT !.n = 0, !.m = 0])
    BY <2>1, <2>3, <2>4
  <2>6. Changed([Done(Top) EXCEPT !.n = 0, !.m = 0], Top, d, Top.mark, 0, 0, Top.took)
    BY <1>2, <2>2, FrameFields
  <2> QED
    BY <1>2, <1>7, <2>1, <2>2, <2>5, <2>6
<1> QED
  BY <1>8, <1>9

LEMMA DeclarationKeeps == ASSUME ParserInv, countDeclaration PROVE ParserInv'
<1>1. AtOneOf({"countDeclaration"})
  BY AtIs DEF countDeclaration
<1>2. /\ Head(Top.todo) = "countDeclaration" /\ GoodFrame(Top) /\ Top.todo # <<>> /\ Top \in Frame
      /\ Top.fn \in Functions /\ "countDeclaration" \in Symbols /\ Registers /\ Frames /\ Root
      /\ "countDeclaration" \in Places(Top.fn) /\ stack # <<>> /\ status = "parsing"
      /\ Now(Top.todo) = "countDeclaration"
  BY <1>1, AtFacts
<1>3. "countDeclaration" \in Dropped /\ "countDeclaration" \notin CountingOperations
  BY DEF Dropped, CountingOperations
<1>4. "countDeclaration" \notin Calls /\ Put("countDeclaration") = {<<>>}
  BY <1>3, DroppedFacts, KindFacts
<1>5. Top.fn = "parseVarDeclarationList"
  BY <1>2, OperationsAreOwned
<1>6. NextFrame(Top, Done(Top))
  BY <1>2, <1>3, <1>4, DoneNext
<1> SUFFICES ASSUME NEW m \in Nat, NEW n \in Nat, n = Len(stack), n = m + 1, n \in 1 .. n,
                    m \in 1 .. n
             PROVE  ParserInv'
  <2>1. Len(stack) \in Nat /\ Len(stack) # 0 /\ Len(stack) \in 1 .. Len(stack)
        /\ Top = stack[Len(stack)]
    BY <1>2, TopFacts
  <2>2. Len(stack) # 1
    BY <1>2, <1>5, <2>1 DEF Root
  <2>3. \A k \in Nat : k # 0 /\ k # 1 => k - 1 \in Nat /\ k = k - 1 + 1 /\ k - 1 \in 1 .. k
    OBVIOUS
  <2>4. Len(stack) - 1 \in Nat /\ Len(stack) = Len(stack) - 1 + 1
        /\ Len(stack) - 1 \in 1 .. Len(stack)
    BY <2>1, <2>2, <2>3
  <2> QED
    BY <2>1, <2>4
<1>7. /\ stack \in Seq(Frame) /\ Top = stack[n] /\ DOMAIN stack = 1 .. n
      /\ \A k \in 1 .. n : GoodFrame(stack[k]) /\ stack[k] \in Frame
      /\ Calling(stack[m], stack[n])
  <2>1. stack \in Seq(Frame) /\ Top = stack[n] /\ DOMAIN stack = 1 .. n
    BY <1>2, TopFacts, LenProperties
  <2>2. \A k \in 1 .. n : GoodFrame(stack[k])
    BY <1>2 DEF Frames
  <2>3. \A k \in 1 .. Len(stack) - 1 : Calling(stack[k], stack[k + 1])
    BY <1>2 DEF Frames
  <2>4. m \in 1 .. Len(stack) - 1
    OBVIOUS
  <2>5. Calling(stack[m], stack[m + 1])
    BY <2>3, <2>4
  <2> QED
    BY <2>1, <2>2, <2>5 DEF GoodFrame
<1>8. stack[m].fn \notin Tracked
  <2>1. /\ stack[m].todo # <<>> /\ Head(stack[m].todo) \in Calls
        /\ \E t \in Tokens : stack[n].fn = Callee(Head(stack[m].todo), t)
    BY <1>7 DEF Calling
  <2>2. Head(stack[m].todo) = "parseVarDeclarationList?"
    BY <1>5, <1>7, <2>1, DeclarationsAreCounted
  <2>3. GoodFrame(stack[m]) /\ stack[m].fn \in Functions
    BY <1>7 DEF GoodFrame
  <2>4. "parseVarDeclarationList?" \in Symbols /\ "parseVarDeclarationList?" \in Places(stack[m].fn)
    BY <2>1, <2>2, <2>3, CodeFacts
  <2> QED
    BY <2>3, <2>4, OperationsAreOwned DEF Tracked
<1> DEFINE c == [stack[m] EXCEPT !.n = @ + 1]
<1>9. /\ c \in Frame /\ c.fn = stack[m].fn /\ c.in = stack[m].in /\ c.todo = stack[m].todo
  <2>1. stack[m].n \in Nat
    BY <1>7 DEF Frame
  <2>2. stack[m].n + 1 \in Nat
    BY <2>1
  <2> QED
    BY <1>7, <2>2 DEF Frame
<1>10. stack' = [i \in 1 .. n |-> CASE i = Len(stack) -> Done(Top)
                                   [] i = Len(stack) - 1 -> [stack[i] EXCEPT !.n = @ + 1]
                                   [] OTHER -> stack[i]]
  BY <1>7 DEF countDeclaration
<1> HIDE DEF c
<1>11. n # m
  OBVIOUS
<1>12. /\ stack'[n] = Done(Top) /\ stack'[m] = c
       /\ \A k \in 1 .. n : k # n /\ k # m => stack'[k] = stack[k]
  <2>1. \A k \in 1 .. n : stack'[k] = CASE k = Len(stack) -> Done(Top)
                                      [] k = Len(stack) - 1 -> [stack[k] EXCEPT !.n = @ + 1]
                                      [] OTHER -> stack[k]
    BY <1>10
  <2>2. n = Len(stack) /\ m = Len(stack) - 1
    OBVIOUS
  <2> QED
    BY <1>11, <2>1, <2>2 DEF c
<1>13. stack' \in Seq(Frame) /\ Len(stack') = n
  <2>1. Done(Top) \in Frame
    BY <1>6 DEF NextFrame
  <2>2. stack' \in [1 .. n -> Frame]
    <3>1. \A k \in 1 .. n : stack'[k] \in Frame
      BY <1>7, <1>9, <1>12, <2>1
    <3> QED
      BY <1>10, <3>1
  <2> QED
    BY <2>2, SeqDef, LenProperties, IsASeq
<1>14. ASSUME NEW k \in 1 .. n
       PROVE  /\ stack'[k].fn = stack[k].fn /\ stack'[k].in = stack[k].in
              /\ GoodCounts(stack'[k]) /\ (k # n => stack'[k].todo = stack[k].todo)
  <2>1. CASE k = n
    BY <1>6, <1>7, <1>12, <2>1 DEF NextFrame
  <2>2. CASE k = m
    <3>1. GoodCounts(c)
      BY <1>8, <1>9 DEF GoodCounts, Tracked
    <3> QED
      BY <1>9, <1>12, <2>2, <3>1
  <2>3. CASE k # n /\ k # m
    BY <1>7, <1>12, <2>3 DEF GoodFrame
  <2> QED
    BY <2>1, <2>2, <2>3
<1>15. Shifted
  <2>1. stack'[n].todo \in After(Top.todo)
    BY <1>6, <1>12 DEF NextFrame
  <2>2. \A k \in 1 .. n - 1 : stack'[k].todo = stack[k].todo
    BY <1>14
  <2> QED
    BY <1>2, <1>13, <1>14, <2>1, <2>2 DEF Shifted
<1>16. UNCHANGED <<text, tok, nl, lexer, tokenCount, allowsIn, error, nonLHS, value, status>>
  BY DEF countDeclaration, lexVars
<1>17. "countDeclaration" \notin {"inOff", "inOn", "failIfError"}
  OBVIOUS
<1>18. LocalStep
  BY <1>2, <1>4, <1>15, <1>16, <1>17 DEF LocalStep
<1>19. Registers'
  BY <1>2, <1>16 DEF Registers
<1> QED
  BY <1>18, <1>19, LocalKeeps

-----------------------------------------------------------------------------
(* The invariant.                                                           *)

LEMMA InitEstablishes == ASSUME Init PROVE ParserInv
<1> DEFINE fn == "parseSourceElements"
           f == NewFrame(fn)
<1>1. Registers
  <2>1. /\ text \in Texts /\ tokenCount = 1 /\ allowsIn = TRUE /\ error = FALSE /\ nonLHS = 0
        /\ value = "null" /\ status = "parsing" /\ lexer \in LexerAfter(tok)
        /\ \E t \in TokensAfter(0), newline \in text.breaks :
             tok = Lexed("none", t, newline, TRUE) /\ nl = newline
    BY DEF Init
  <2>2. /\ tok \in Tokens /\ nl \in BOOLEAN
        /\ lexer \in {"ok", "m_error", "m_buffer16"} /\ (lexer # "ok" => tok = "ERRORTOK")
    <3>1. 0 \in Nat
      OBVIOUS
    <3>2. PICK t \in TokensAfter(0), newline \in text.breaks :
            tok = Lexed("none", t, newline, TRUE) /\ nl = newline
      BY <2>1
    <3>3. tok \in Tokens /\ nl \in BOOLEAN
      BY <2>1, <3>1, <3>2, TokensFacts
    <3>4. LexerAfter(tok) \subseteq {"ok", "m_error", "m_buffer16"}
          /\ \A l \in LexerAfter(tok) : l # "ok" => tok = "ERRORTOK"
      BY <2>1, <3>1, TokensFacts
    <3> QED
      BY <2>1, <3>3, <3>4
  <2> QED
    BY <2>1, <2>2 DEF Registers, Values
<1>2. /\ allowsIn = TRUE /\ status = "parsing" /\ stack = <<f>>
  BY DEF Init
<1>3. fn \in Functions
  BY DEF Functions
<1>4. /\ f.fn = fn /\ f.todo = Expansion[fn][tok] /\ f.in = allowsIn /\ f.n = 0 /\ f.m = 0
      /\ f.mark = 0 /\ f.took = FALSE
  BY DEF NewFrame
<1>5. tok \in Tokens /\ allowsIn \in BOOLEAN
  BY <1>1 DEF Registers
<1>6. fn \in Decisions /\ Expansion[fn][tok] \in Codes[fn] /\ Expansion[fn][tok] \in Seq(Symbols)
  BY <1>3, <1>5, CodesAreClosed
<1>7. f \in Frame
  BY <1>5, <1>6 DEF NewFrame, Frame
<1> HIDE DEF f
<1>8. GoodFrame(f)
  BY <1>3, <1>4, <1>5, <1>6, <1>7, CountsBegin DEF GoodFrame
<1>9. stack \in Seq(Frame) /\ Len(stack) = 1 /\ stack[1] = f /\ stack # <<>>
  BY <1>2, <1>7
<1>10. Frames
  BY <1>8, <1>9 DEF Frames
<1>11. Top = f
  BY <1>9, <1>10, TopFacts
<1>12. Now(f.todo) = "parseStatement*"
  <2>1. Now(f.todo) \in Starts(fn)
    BY <1>4, <1>5 DEF Starts
  <2> QED
    BY <2>1, StatementLoop
<1>13. Root
  BY <1>2, <1>4, <1>9, <1>11, <1>12 DEF Root
<1>14. ~InForHead(f)
  BY <1>4, <1>5, <1>8, HeadBegins
<1>15. AllowsIn
  <2>1. 1 .. 1 = {1}
    OBVIOUS
  <2>2. OnUpTo(1)
    BY <1>9, <1>14, <2>1 DEF OnUpTo
  <2>3. f.fn # "parseUnaryExpression"
    BY <1>4
  <2> QED
    BY <1>2, <1>9, <1>14, <2>1, <2>2, <2>3 DEF AllowsIn
<1>16. NoTreeAfterError
  BY <1>2 DEF NoTreeAfterError
<1> QED
  BY <1>1, <1>10, <1>13, <1>15, <1>16 DEF ParserInv

LEMMA NextKeeps == ASSUME ParserInv, [Next]_vars PROVE ParserInv'
<1>1. CASE UNCHANGED vars
  BY <1>1, StopKeeps DEF vars
<1>2. CASE Crash({"appendConstDecl", "createGetterOrSetterProperty"})
  <2>1. /\ UNCHANGED <<lexVars, allowsIn, error, nonLHS, stack, value>>
        /\ stack # <<>> /\ status' = "crashed"
    BY <1>2 DEF Crash, AtOneOf, Running
  <2> QED
    BY <2>1, StopKeeps
<1> QED
  BY <1>1, <1>2, CallKeeps, Decisive, TokenTaken, TokenSkipped, ChecksKeep, ReturnKeeps,
     SemicolonKeeps, SwitchKeeps, MarkKeeps, NonLHSKeeps, DeclarationKeeps, ForVarKeeps,
     CountersKeep, CallOrNewKeeps, ElseKeeps, BuilderKeeps, AssignmentKeeps, BinaryKeeps
  DEF Next

THEOREM ParserInvariant == Spec => []ParserInv
<1>1. Init => ParserInv
  BY InitEstablishes
<1>2. ParserInv /\ [Next]_vars => ParserInv'
  BY NextKeeps
<1> QED
  BY <1>1, <1>2, PTL DEF Spec

\* A tree comes out of JSParser::parse only if neither the parser nor the
\* lexer has failed: the results that parseForStatement and its kin do not
\* look at, and createSyntaxTree that never asks the lexer, lose no error.
THEOREM OnlyGoodTreesComeOut == Spec => []NoTreeAfterError
<1>1. ParserInv => NoTreeAfterError
  BY DEF ParserInv
<1> QED
  BY <1>1, ParserInvariant, PTL

\* m_allowsIn is false exactly in the heads of for loops, whatever is nested
\* in them and however a function is left.
THEOREM InIsOffInForHeads == Spec => []InIsOffExactlyInForHeads
<1>1. ASSUME ParserInv PROVE InIsOffExactlyInForHeads
  <2>1. allowsIn = OnUpTo(Len(stack)) /\ DOMAIN stack = 1 .. Len(stack)
    BY <1>1, LenProperties DEF ParserInv, Frames, AllowsIn
  <2> QED
    BY <2>1 DEF OnUpTo, InIsOffExactlyInForHeads
<1> QED
  BY <1>1, ParserInvariant, PTL

\* The two stacks of parseIfStatement fold to one statement, however many
\* else branches a chain has.
THEOREM ElseChainsFold == Spec => []ElseChainFolds
<1>1. ASSUME ParserInv, At("foldElse") PROVE Top.m = Top.n + 1
  <2>1. AtOneOf({"foldElse"})
    BY <1>1, AtIs
  <2>2. /\ Now(Top.todo) = "foldElse" /\ GoodFrame(Top) /\ Top.fn \in Functions
        /\ "foldElse" \in Symbols /\ "foldElse" \in Places(Top.fn)
    BY <1>1, <2>1, AtFacts
  <2>3. Top.fn = "parseIfStatement"
    BY <2>2, OperationsAreOwned
  <2> QED
    BY <2>2, <2>3 DEF GoodFrame, GoodCounts
<1>2. ParserInv => ElseChainFolds
  BY <1>1 DEF ElseChainFolds
<1> QED
  BY <1>2, ParserInvariant, PTL

-----------------------------------------------------------------------------
(* m_nonLHSCount.                                                           *)

CompareAt(i) == Compares(stack[i].fn, stack[i].todo)
RestoreAt(i) == Restores(stack[i].fn, stack[i].todo)
CountedAt(i) == HasCounted(stack[i].fn, stack[i].took, stack[i].todo)

\* What the functions above i return is handed down to i.
Linked(i, j) == \A k \in i + 1 .. j : stack[k].fn \in Chain

\* Saved values grow with the depth, up to m_nonLHSCount.
MarksGrow ==
    \A i \in 1 .. Len(stack) : CompareAt(i) \/ RestoreAt(i) =>
        /\ stack[i].mark <= nonLHS
        /\ \A k \in i + 1 .. Len(stack) : RestoreAt(k) => stack[i].mark <= stack[k].mark

\* Once a function has counted its operator, those it returns to will see that,
\* even after all restoring that is still to come.
CountsStay ==
    \A i \in 1 .. Len(stack) : \A j \in i + 1 .. Len(stack) :
        CompareAt(i) /\ Linked(i, j) /\ CountedAt(j) =>
            /\ stack[i].mark < nonLHS
            /\ \A k \in j + 1 .. Len(stack) : RestoreAt(k) => stack[i].mark < stack[k].mark

\* A tree that was handed down is a left-hand side, or its operator shows.
TreeIsCounted ==
    stack # <<>> /\ HasTree(Top.fn, Top.took, Top.todo) /\ value = "node" =>
        \A i \in 1 .. Len(stack) :
            CompareAt(i) /\ Linked(i, Len(stack)) => stack[i].mark < nonLHS

\* Took a token where its place says so; counted where it assigned.
GoodTaking(f) ==
    /\ HasTaken(f.fn, f.todo) => f.took
    /\ f.fn = "parseAssignmentExpression" /\ f.todo # <<>> /\ (f.took \/ Now(f.todo) = "next") =>
         f.n > 0

Takings == \A k \in 1 .. Len(stack) : GoodTaking(stack[k])

TreeAtHand ==
    stack # <<>> /\ Now(Top.todo) \in {"assignment", "forRest", "sameLHS"} => value # "null"

MarkInv == MarksGrow /\ CountsStay /\ TreeIsCounted /\ Takings /\ TreeAtHand
LHSInv == ParserInv /\ MarkInv

-----------------------------------------------------------------------------
(* A step of the innermost function.                                        *)

\* m_nonLHSCount after a step of f that leaves code with t in front.
NewCount(f, t) ==
    LET s == Now(f.todo) IN
    IF s = "restoreLHS" THEN f.mark
    ELSE IF Raises(s, t) \/ (s = "endAssignment" /\ f.n > 0) THEN nonLHS + 1
    ELSE nonLHS

MarkMove(f, g) ==
    LET s == Now(f.todo) IN
    /\ g.fn = f.fn /\ g.todo \in After(f.todo)
    /\ g.took \in TookAfter(s, f.took)
    /\ g.mark = IF s = "saveLHS" THEN nonLHS ELSE f.mark
    /\ f.fn = "parseAssignmentExpression" =>
         g.n = IF s = "endAssignment" THEN 0
               ELSE IF s = "assignment" /\ Now(g.todo) = "next" THEN f.n + 1 ELSE f.n

\* A frame below that keeps what matters here.
SameMarks(f, g) ==
    /\ g.fn = f.fn /\ g.todo = f.todo /\ g.mark = f.mark /\ g.took = f.took
    /\ f.fn = "parseAssignmentExpression" => g.n = f.n

MarkStep ==
    /\ stack # <<>> /\ Top.todo # <<>> /\ Now(Top.todo) \notin Calls
    /\ Len(stack') = Len(stack)
    /\ \A k \in 1 .. Len(stack) - 1 : SameMarks(stack[k], stack'[k])
    /\ MarkMove(Top, stack'[Len(stack)])
    /\ nonLHS' = NewCount(Top, Now(stack'[Len(stack)].todo))
    /\ value' = value /\ (Now(Top.todo) = "failIfNull" => value # "null")

LEMMA TookFacts ==
    ASSUME NEW s, NEW took \in BOOLEAN, NEW now \in TookAfter(s, took)
    PROVE  /\ now \in BOOLEAN /\ (took => now) /\ (s \in Takes => now)
           /\ s \notin Takes \cup DOMAIN Otherwise => now = took
BY DEF TookAfter

LEMMA MoveFacts ==
    ASSUME NEW f, GoodFrame(f), f.todo # <<>>, Now(f.todo) \notin Calls, GoodTaking(f),
           NEW g, GoodFrame(g), MarkMove(f, g), nonLHS \in Nat
    PROVE  LET s == Now(f.todo)
               x == NewCount(f, Now(g.todo))
           IN  /\ Compares(g.fn, g.todo) => Compares(f.fn, f.todo) \/ s = "saveLHS"
               /\ Restores(g.fn, g.todo) => Restores(f.fn, f.todo) \/ s = "saveLHS"
               /\ s = "restoreLHS" => Restores(f.fn, f.todo) /\ x = f.mark
               /\ s # "restoreLHS" => x >= nonLHS
               /\ s = "saveLHS" => x = nonLHS /\ g.mark = nonLHS
               /\ s # "saveLHS" => g.mark = f.mark
               /\ HasCounted(g.fn, g.took, g.todo) =>
                    \/ HasCounted(f.fn, f.took, f.todo) /\ s # "restoreLHS"
                    \/ x = nonLHS + 1
               /\ HasTree(g.fn, g.took, g.todo) =>
                    HasTree(f.fn, f.took, f.todo) /\ s \notin {"saveLHS", "restoreLHS"}
               /\ Now(g.todo) = "forRest" => s = "failIfNull"
               /\ Now(g.todo) = "sameLHS" => s = "forRest"
               /\ Now(g.todo) # "assignment"
               /\ GoodTaking(g)
<1> DEFINE s == Now(f.todo)
           t == Now(g.todo)
           x == NewCount(f, t)
<1>1. /\ f \in Frame /\ f.fn \in Functions /\ f.todo \in Codes[f.fn] \ {<<>>}
      /\ g.fn = f.fn /\ g.todo \in After(f.todo) /\ g.took \in TookAfter(s, f.took)
      /\ f.took \in BOOLEAN /\ f.mark \in Nat /\ f.n \in Nat /\ g.n \in Nat
  BY DEF GoodFrame, MarkMove, Frame
<1>2. /\ Compares(f.fn, g.todo) => Compares(f.fn, f.todo) \/ s = "saveLHS"
      /\ Restores(f.fn, g.todo) => Restores(f.fn, f.todo) \/ s = "saveLHS"
      /\ s = "restoreLHS" => Restores(f.fn, f.todo)
      /\ HasTaken(f.fn, g.todo) => HasTaken(f.fn, f.todo) \/ s \in Takes
  BY <1>1, MarkFlow
<1>3. HasTaken(f.fn, f.todo) => f.took
  BY DEF GoodTaking
<1>4. /\ HasCounted(f.fn, g.took, g.todo) =>
           HasCounted(f.fn, f.took, f.todo) \/ Raises(s, t) \/ (s = "endAssignment" /\ f.took)
      /\ HasTree(f.fn, g.took, g.todo) => HasTree(f.fn, f.took, f.todo) \/ s \in Calls
      /\ HasTree(f.fn, f.took, f.todo) => s \notin Calls \cup {"saveLHS", "restoreLHS"}
  BY <1>1, <1>3, CountFlow
<1>5. s \in Places(f.fn) /\ t \in Places(f.fn) /\ Goes(f.fn, s, t) /\ s \in Symbols
  BY <1>1, CodeFacts, AfterFacts
<1>6. /\ t = "forRest" => s = "failIfNull"
      /\ t = "sameLHS" => s = "forRest"
      /\ t = "assignment" => s \in Checked
  BY <1>1, <1>5, TreeFlow
<1>7. t # "assignment"
  BY <1>6, SymbolFacts
<1>8. s = "endAssignment" /\ f.took => f.n > 0
  <2>1. s = "endAssignment" => f.fn = "parseAssignmentExpression"
    BY <1>1, <1>5, OperationsAreOwned
  <2> QED
    BY <2>1 DEF GoodTaking
<1>9. /\ s = "restoreLHS" => x = f.mark
      /\ s # "restoreLHS" => x \in {nonLHS, nonLHS + 1}
      /\ s # "restoreLHS" /\ (Raises(s, t) \/ (s = "endAssignment" /\ f.n > 0)) => x = nonLHS + 1
      /\ s = "saveLHS" => x = nonLHS
  BY DEF NewCount, Raises
<1>10. HasCounted(f.fn, f.took, f.todo) => s # "restoreLHS"
  <2>1. s = "restoreLHS" => f.fn \in {"parseMemberExpression", "parsePrimaryExpression"}
    BY <1>2 DEF Restores
  <2> QED
    BY <2>1 DEF HasCounted
<1>11. Raises(s, t) \/ s = "endAssignment" => s # "restoreLHS"
  BY DEF Raises
<1>12. GoodTaking(g)
  <2>1. HasTaken(g.fn, g.todo) => g.took
    BY <1>1, <1>2, <1>3, TookFacts
  <2>2. ASSUME f.fn = "parseAssignmentExpression", g.todo # <<>>, g.took \/ t = "next"
        PROVE  g.n > 0
    <3>1. /\ t # ""
          /\ t = "" <=> s = "endAssignment"
          /\ t = "next" => s = "assignment"
          /\ s \in Takes \cup DOMAIN Otherwise => s = "next"
      <4> DEFINE fn == "parseAssignmentExpression"
      <4>1. t # ""
        BY <2>2, CodeFacts
      <4>2. s \in Places(fn) /\ t \in Places(fn) /\ Goes(fn, s, t)
        BY <1>5, <2>2
      <4>3. t = "" <=> s = "endAssignment"
        BY <4>2, AssignmentFlow
      <4>4. /\ t = "next" => s = "assignment"
            /\ s \in Takes \cup DOMAIN Otherwise => s = "next"
        BY <4>2, AssignmentTakes
      <4> QED
        BY <4>1, <4>3, <4>4
    <3>2. g.n = IF s = "assignment" /\ t = "next" THEN f.n + 1 ELSE f.n
      BY <2>2, <3>1 DEF MarkMove
    <3>3. CASE t = "next"
      BY <1>1, <3>1, <3>2, <3>3
    <3>4. CASE t # "next"
      <4>1. f.took \/ s = "next"
        BY <1>1, <2>2, <3>1, <3>4, TookFacts
      <4> QED
        BY <2>2, <3>2, <3>4, <4>1 DEF GoodTaking
    <3> QED
      BY <3>3, <3>4
  <2> QED
    BY <1>1, <2>1, <2>2 DEF GoodTaking
<1>13. s = "saveLHS" => g.mark = nonLHS
  BY DEF MarkMove
<1>14. s # "saveLHS" => g.mark = f.mark
  BY DEF MarkMove
<1>15. s # "restoreLHS" => x >= nonLHS
  BY <1>9
<1> HIDE DEF x, s, t
<1>16. HasCounted(f.fn, g.took, g.todo) => (HasCounted(f.fn, f.took, f.todo) /\ s # "restoreLHS") \/ x = nonLHS + 1
  BY <1>4, <1>8, <1>9, <1>10, <1>11
<1> QED
  BY <1>1, <1>2, <1>4, <1>6, <1>7, <1>9, <1>12, <1>13, <1>14, <1>15, <1>16 DEF s, t, x

LEMMA StepKeeps == ASSUME LHSInv, MarkStep, ParserInv' PROVE MarkInv'
<1> SUFFICES ASSUME NEW n \in Nat, n = Len(stack), n \in 1 .. n PROVE MarkInv'
  <2>1. stack # <<>> /\ Frames
    BY DEF MarkStep, LHSInv, ParserInv
  <2> QED
    BY <2>1, TopFacts
<1> DEFINE f == stack[n]
           g == stack'[n]
           s == Now(f.todo)
<1>1. /\ Len(stack') = n /\ stack' # <<>> /\ Top = f /\ Top' = g
      /\ nonLHS \in Nat /\ nonLHS' \in Nat
      /\ \A k \in 1 .. n : GoodFrame(stack[k]) /\ GoodFrame(stack'[k])
      /\ \A k \in 1 .. n : stack[k].mark \in Nat /\ stack'[k].mark \in Nat
  <2>1. Frames /\ Frames' /\ stack # <<>> /\ Len(stack') = n /\ nonLHS \in Nat /\ nonLHS' \in Nat
    BY DEF LHSInv, ParserInv, Registers, MarkStep
  <2>2. /\ \A k \in 1 .. n : GoodFrame(stack[k]) /\ GoodFrame(stack'[k])
        /\ stack' \in Seq(Frame) /\ Top = f
    BY <2>1, TopFacts DEF Frames
  <2>3. \A k \in 1 .. n : stack[k].mark \in Nat /\ stack'[k].mark \in Nat
    BY <2>2 DEF GoodFrame, Frame
  <2>4. stack' # <<>> /\ Top' = stack'[Len(stack')]
    BY <2>1, <2>2, EmptySeq DEF Top, Last
  <2> QED
    BY <2>1, <2>2, <2>3, <2>4
<1>2. /\ MarksGrow /\ CountsStay /\ TreeIsCounted /\ Takings /\ TreeAtHand
  BY DEF LHSInv, MarkInv
<1>3. /\ f.todo # <<>> /\ s \notin Calls /\ GoodTaking(f) /\ MarkMove(f, g)
      /\ nonLHS' = NewCount(f, Now(g.todo)) /\ value' = value
      /\ s = "failIfNull" => value # "null"
      /\ \A k \in 1 .. n - 1 : SameMarks(stack[k], stack'[k])
  BY <1>1, <1>2 DEF MarkStep, Takings
<1>4. /\ CompareAt(n)' => CompareAt(n) \/ s = "saveLHS"
      /\ RestoreAt(n)' => RestoreAt(n) \/ s = "saveLHS"
      /\ s = "restoreLHS" => RestoreAt(n) /\ nonLHS' = f.mark
      /\ s # "restoreLHS" => nonLHS' >= nonLHS
      /\ s = "saveLHS" => nonLHS' = nonLHS /\ g.mark = nonLHS
      /\ s # "saveLHS" => g.mark = f.mark
      /\ CountedAt(n)' => (CountedAt(n) /\ s # "restoreLHS") \/ nonLHS' = nonLHS + 1
      /\ HasTree(g.fn, g.took, g.todo) =>
           HasTree(f.fn, f.took, f.todo) /\ s \notin {"saveLHS", "restoreLHS"}
      /\ Now(g.todo) = "forRest" => s = "failIfNull"
      /\ Now(g.todo) = "sameLHS" => s = "forRest"
      /\ Now(g.todo) # "assignment"
      /\ GoodTaking(g) /\ g.fn = f.fn
  BY <1>1, <1>3, MoveFacts DEF CompareAt, RestoreAt, CountedAt, MarkMove
<1>5. ASSUME NEW k \in 1 .. n - 1
      PROVE  /\ k \in 1 .. n /\ k # n /\ stack'[k].mark = stack[k].mark /\ stack'[k].fn = stack[k].fn
             /\ CompareAt(k)' = CompareAt(k) /\ RestoreAt(k)' = RestoreAt(k)
             /\ CountedAt(k)' = CountedAt(k) /\ GoodTaking(stack'[k])
  <2>1. k \in 1 .. n /\ k # n
    OBVIOUS
  <2>2. SameMarks(stack[k], stack'[k]) /\ GoodTaking(stack[k])
    BY <1>2, <1>3, <2>1 DEF Takings
  <2> QED
    BY <2>1, <2>2 DEF SameMarks, CompareAt, RestoreAt, CountedAt, GoodTaking
<1>6. \A k \in 1 .. n : k = n \/ k \in 1 .. n - 1
  OBVIOUS
<1>7. ASSUME NEW i \in 1 .. n, NEW j \in 1 .. n, Linked(i, j)' PROVE Linked(i, j)
  <2>1. \A k \in i + 1 .. j : k \in 1 .. n
    OBVIOUS
  <2> QED
    BY <1>4, <1>5, <1>6, <1>7, <2>1 DEF Linked
<1>8. /\ \A i \in 1 .. n - 1 : \A k \in i + 1 .. n : k \in 1 .. n
      /\ \A j \in 1 .. n - 1 : n \in j + 1 .. n
      /\ \A i \in 1 .. n : \A j \in i + 1 .. n : i \in 1 .. n - 1
      /\ n + 1 .. n = {}
  OBVIOUS
\* What a value below a saved one, or the count, is below after the step.
<1>9. ASSUME NEW a \in Nat, a <= nonLHS, RestoreAt(n) => a <= f.mark
      PROVE  a <= nonLHS' /\ (RestoreAt(n)' => a <= g.mark)
  <2> HIDE DEF f, g, s
  <2>1. f.mark \in Nat /\ g.mark \in Nat
    BY <1>1 DEF f, g
  <2> QED
    BY <1>1, <1>4, <1>9, <2>1
<1>10. ASSUME NEW a \in Nat, a < nonLHS, RestoreAt(n) => a < f.mark
       PROVE  a < nonLHS' /\ (RestoreAt(n)' => a < g.mark)
  <2> HIDE DEF f, g, s
  <2>1. f.mark \in Nat /\ g.mark \in Nat
    BY <1>1 DEF f, g
  <2> QED
    BY <1>1, <1>4, <1>10, <2>1
<1>11. ASSUME NEW i \in 1 .. n, CompareAt(i)' \/ RestoreAt(i)'
       PROVE  /\ stack'[i].mark <= nonLHS'
              /\ \A k \in i + 1 .. n : RestoreAt(k)' => stack'[i].mark <= stack'[k].mark
  <2>1. CASE i = n
    <3>1. CompareAt(n) \/ RestoreAt(n) => f.mark <= nonLHS
      BY <1>2 DEF MarksGrow
    <3>2. g.mark <= nonLHS'
      <4> HIDE DEF f, g, s
      <4>1. f.mark \in Nat /\ g.mark \in Nat
        BY <1>1 DEF f, g
      <4> QED
        BY <1>1, <1>4, <1>11, <2>1, <3>1, <4>1
    <3> QED
      BY <1>8, <2>1, <3>2
  <2>2. CASE i \in 1 .. n - 1
    <3>1. CompareAt(i) \/ RestoreAt(i)
      BY <1>5, <1>11, <2>2
    <3>2. /\ stack[i].mark <= nonLHS
          /\ \A k \in i + 1 .. n : RestoreAt(k) => stack[i].mark <= stack[k].mark
      BY <1>2, <3>1 DEF MarksGrow
    <3>3. stack'[i].mark = stack[i].mark /\ stack[i].mark \in Nat /\ n \in i + 1 .. n
      BY <1>1, <1>5, <1>8, <2>2
    <3>4. stack'[i].mark <= nonLHS' /\ (RestoreAt(n)' => stack'[i].mark <= g.mark)
      BY <1>9, <3>2, <3>3
    <3>5. ASSUME NEW k \in i + 1 .. n, RestoreAt(k)' PROVE stack'[i].mark <= stack'[k].mark
      <4>1. k = n \/ k \in 1 .. n - 1
        BY <1>6, <1>8, <2>2
      <4> QED
        BY <1>5, <3>2, <3>3, <3>4, <3>5, <4>1
    <3> QED
      BY <3>4, <3>5
  <2> QED
    BY <1>6, <2>1, <2>2
<1>12. MarksGrow'
  BY <1>1, <1>11 DEF MarksGrow
<1>13. ASSUME NEW i \in 1 .. n, NEW j \in i + 1 .. n, CompareAt(i)', Linked(i, j)', CountedAt(j)'
       PROVE  /\ stack'[i].mark < nonLHS'
              /\ \A k \in j + 1 .. n : RestoreAt(k)' => stack'[i].mark < stack'[k].mark
  <2>1. i \in 1 .. n - 1 /\ j \in 1 .. n
    BY <1>8
  <2>2. /\ CompareAt(i) /\ Linked(i, j) /\ stack'[i].mark = stack[i].mark /\ stack[i].mark \in Nat
        /\ n \in i + 1 .. n
    BY <1>1, <1>5, <1>7, <1>8, <1>13, <2>1
  <2>3. CountedAt(j) => /\ stack[i].mark < nonLHS
                        /\ \A k \in j + 1 .. n : RestoreAt(k) => stack[i].mark < stack[k].mark
    BY <1>2, <2>2 DEF CountsStay
  <2>4. CASE j = n
    <3>1. stack[i].mark <= nonLHS
      BY <1>2, <2>2 DEF MarksGrow
    <3>2. stack[i].mark < nonLHS'
      <4> HIDE DEF f, g, s
      <4> QED
        BY <1>1, <1>4, <1>13, <2>2, <2>3, <2>4, <3>1
    <3> QED
      BY <1>8, <2>2, <2>4, <3>2
  <2>5. CASE j \in 1 .. n - 1
    <3>1. CountedAt(j) /\ n \in j + 1 .. n
      BY <1>5, <1>8, <1>13, <2>5
    <3>2. stack[i].mark < nonLHS' /\ (RestoreAt(n)' => stack[i].mark < g.mark)
      BY <1>10, <2>2, <2>3, <3>1
    <3>3. ASSUME NEW k \in j + 1 .. n, RestoreAt(k)' PROVE stack[i].mark < stack'[k].mark
      <4>1. k = n \/ k \in 1 .. n - 1
        BY <1>6, <1>8, <2>5
      <4> QED
        BY <1>5, <2>3, <3>1, <3>2, <3>3, <4>1
    <3> QED
      BY <2>2, <3>2, <3>3
  <2> QED
    BY <1>6, <2>1, <2>4, <2>5
<1>14. CountsStay'
  BY <1>1, <1>13 DEF CountsStay
<1>15. TreeIsCounted'
  <2> SUFFICES ASSUME HasTree(g.fn, g.took, g.todo), value' = "node",
                      NEW i \in 1 .. n, CompareAt(i)', Linked(i, n)'
               PROVE  stack'[i].mark < nonLHS'
    BY <1>1 DEF TreeIsCounted
  <2>1. /\ HasTree(f.fn, f.took, f.todo) /\ s \notin {"saveLHS", "restoreLHS"} /\ value = "node"
    BY <1>3, <1>4
  <2>2. CompareAt(i) /\ stack'[i].mark = stack[i].mark /\ Linked(i, n)
    BY <1>4, <1>5, <1>6, <1>7, <2>1
  <2>3. stack # <<>> /\ stack[i].mark < nonLHS
    <3>1. stack # <<>>
      BY DEF MarkStep
    <3> QED
      BY <1>1, <1>2, <2>1, <2>2, <3>1 DEF TreeIsCounted
  <2>4. nonLHS' >= nonLHS /\ stack[i].mark \in Nat
    BY <1>1, <1>4, <2>1
  <2> QED
    BY <1>1, <2>2, <2>3, <2>4
<1>16. Takings'
  BY <1>1, <1>4, <1>5, <1>6 DEF Takings
<1>17. TreeAtHand'
  <2>1. s = "forRest" => value # "null"
    BY <1>1, <1>2 DEF TreeAtHand, MarkStep
  <2> QED
    BY <1>1, <1>3, <1>4, <2>1 DEF TreeAtHand
<1> QED
  BY <1>12, <1>14, <1>15, <1>16, <1>17 DEF MarkInv

-----------------------------------------------------------------------------
(* Calls and returns.                                                       *)

LEMMA FreshFacts ==
    ASSUME NEW fn \in Functions, NEW t \in Tokens,
           NEW g, g.fn = fn, g.todo = Expansion[fn][t], g.took = FALSE
    PROVE  /\ ~Compares(g.fn, g.todo) /\ ~Restores(g.fn, g.todo)
           /\ ~HasCounted(g.fn, g.took, g.todo) /\ ~HasTree(g.fn, g.took, g.todo)
           /\ Now(g.todo) \notin {"assignment", "forRest", "sameLHS"}
           /\ GoodTaking(g)
<1>1. /\ ~Compares(g.fn, g.todo) /\ ~Restores(g.fn, g.todo) /\ ~HasTaken(g.fn, g.todo)
      /\ ~HasCounted(g.fn, g.took, g.todo) /\ ~HasTree(g.fn, g.took, g.todo)
      /\ Now(g.todo) \notin {"assignment", "forRest", "sameLHS"}
      /\ fn = "parseAssignmentExpression" => Now(g.todo) # "next"
  BY MarksBegin
<1> QED
  BY <1>1 DEF GoodTaking

LEMMA CallKeepsMarks == ASSUME LHSInv, Call PROVE MarkInv'
<1> DEFINE fn == Callee(Head(Top.todo), tok)
           g == NewFrame(fn)
<1>1. /\ stack # <<>> /\ Head(Top.todo) \in Calls /\ stack' = Append(stack, g)
      /\ UNCHANGED <<nonLHS, value>>
  BY DEF Call, AtOneOf, Running
<1>2. /\ Frames /\ tok \in Tokens /\ allowsIn \in BOOLEAN
      /\ MarksGrow /\ CountsStay /\ Takings
  BY DEF LHSInv, MarkInv, ParserInv, Registers
<1>3. fn \in Functions
  BY <1>1, <1>2 DEF Functions
<1> HIDE DEF fn
<1>4. fn \in Decisions /\ Expansion[fn][tok] \in Seq(Symbols)
  BY <1>2, <1>3, CodesAreClosed
<1>5. g \in Frame /\ g.fn = fn /\ g.todo = Expansion[fn][tok] /\ g.took = FALSE
  BY <1>2, <1>4 DEF NewFrame, Frame
<1> HIDE DEF g
<1> SUFFICES ASSUME NEW n \in Nat, n = Len(stack) PROVE MarkInv'
  BY <1>1, <1>2, TopFacts
<1>6. /\ stack' \in Seq(Frame) /\ stack' # <<>> /\ Len(stack') = n + 1 /\ stack'[n + 1] = g
      /\ \A k \in 1 .. n : stack'[k] = stack[k]
      /\ Top' = g
  <2>1. /\ stack' \in Seq(Frame) /\ stack' # <<>> /\ Len(stack') = n + 1 /\ stack'[n + 1] = g
        /\ \A k \in 1 .. n : stack'[k] = stack[k]
    BY <1>1, <1>2, <1>5, TopFacts, FrameAdded
  <2> QED
    BY <2>1 DEF Top, Last
<1>7. /\ ~CompareAt(n + 1)' /\ ~RestoreAt(n + 1)' /\ ~CountedAt(n + 1)' /\ GoodTaking(g)
      /\ ~HasTree(g.fn, g.took, g.todo)
      /\ Now(g.todo) \notin {"assignment", "forRest", "sameLHS"}
  BY <1>2, <1>3, <1>5, <1>6, FreshFacts DEF CompareAt, RestoreAt, CountedAt
<1>8. \A k \in 1 .. n : /\ CompareAt(k)' = CompareAt(k) /\ RestoreAt(k)' = RestoreAt(k)
                        /\ CountedAt(k)' = CountedAt(k)
  BY <1>6 DEF CompareAt, RestoreAt, CountedAt
<1>9. /\ \A k \in 1 .. n + 1 : k = n + 1 \/ k \in 1 .. n
      /\ \A i \in 1 .. n : \A k \in i + 1 .. n + 1 : k = n + 1 \/ k \in i + 1 .. n
      /\ \A i \in 1 .. n : \A k \in i + 1 .. n : k \in 1 .. n
  OBVIOUS
<1>10. MarksGrow'
  <2> SUFFICES ASSUME NEW i \in 1 .. n + 1, CompareAt(i)' \/ RestoreAt(i)'
               PROVE  /\ stack'[i].mark <= nonLHS'
                      /\ \A k \in i + 1 .. n + 1 :
                           RestoreAt(k)' => stack'[i].mark <= stack'[k].mark
    BY <1>6 DEF MarksGrow
  <2>1. i \in 1 .. n /\ (CompareAt(i) \/ RestoreAt(i))
    BY <1>7, <1>8, <1>9
  <2>2. /\ stack[i].mark <= nonLHS
        /\ \A k \in i + 1 .. n : RestoreAt(k) => stack[i].mark <= stack[k].mark
    BY <1>2, <2>1 DEF MarksGrow
  <2> QED
    BY <1>1, <1>6, <1>7, <1>8, <1>9, <2>1, <2>2
<1>11. CountsStay'
  <2> SUFFICES ASSUME NEW i \in 1 .. n + 1, NEW j \in i + 1 .. n + 1,
                      CompareAt(i)', Linked(i, j)', CountedAt(j)'
               PROVE  /\ stack'[i].mark < nonLHS'
                      /\ \A k \in j + 1 .. n + 1 :
                           RestoreAt(k)' => stack'[i].mark < stack'[k].mark
    BY <1>6 DEF CountsStay
  <2>1. i \in 1 .. n /\ j \in i + 1 .. n /\ j \in 1 .. n /\ CompareAt(i) /\ CountedAt(j)
    BY <1>7, <1>8, <1>9
  <2>2. Linked(i, j)
    <3>1. \A k \in i + 1 .. j : k \in 1 .. n
      BY <2>1
    <3> QED
      BY <1>6, <3>1 DEF Linked
  <2>3. /\ stack[i].mark < nonLHS
        /\ \A k \in j + 1 .. n : RestoreAt(k) => stack[i].mark < stack[k].mark
    BY <1>2, <2>1, <2>2 DEF CountsStay
  <2> QED
    BY <1>1, <1>6, <1>7, <1>8, <1>9, <2>1, <2>3
<1>12. TreeIsCounted' /\ TreeAtHand'
  BY <1>6, <1>7 DEF TreeIsCounted, TreeAtHand
<1>13. Takings'
  BY <1>2, <1>6, <1>7, <1>9 DEF Takings
<1> QED
  BY <1>10, <1>11, <1>12, <1>13 DEF MarkInv

\* What the caller p has become, q, when it has got v.
LEMMA BackFacts ==
    ASSUME NEW p, GoodFrame(p), NEW f, Calling(p, f), GoodTaking(p), NEW v, NEW q,
           Continues(p, v, q)
    PROVE  /\ q.fn = p.fn /\ q.mark = p.mark /\ GoodTaking(q)
           /\ Compares(q.fn, q.todo) => Compares(p.fn, p.todo)
           /\ Restores(q.fn, q.todo) => Restores(p.fn, p.todo)
           /\ HasCounted(q.fn, q.took, q.todo) => HasCounted(p.fn, p.took, p.todo)
           /\ HasTree(q.fn, q.took, q.todo) => f.fn \in Chained
           /\ Now(q.todo) \in {"assignment", "forRest", "sameLHS"} => v # "null"
<1> DEFINE s == Now(p.todo)
<1>1. /\ p.todo # <<>> /\ s \in Calls /\ Head(p.todo) = s
      /\ \E t \in Tokens : f.fn = Callee(s, t)
      /\ p.fn \in Functions /\ p.todo \in Codes[p.fn] \ {<<>>} /\ p.took \in BOOLEAN
      /\ s \in Places(p.fn)
  BY CodeFacts DEF Calling, GoodFrame, Frame
<1>2. /\ q.fn = p.fn /\ q.mark = p.mark /\ q.n = p.n /\ q.took = p.took
      /\ q.todo \in After(p.todo) \/ q.todo = p.todo
      /\ s \in Checked /\ v = "null" => q.todo = <<"fail">>
  BY <1>1 DEF Continues
<1> HIDE DEF s
<1>3. /\ s \notin Takes \cup DOMAIN Otherwise
      /\ s \notin {"saveLHS", "restoreLHS", "nonLHS", "endAssignment", "binaryOperator",
                   "assignment", "failIfNull"}
      /\ s \notin {"forRest"}
  <2>1. s \notin Operations /\ s \notin Tokens
    BY <1>1, KindFacts
  <2>2. "forRest" \notin Calls
    BY DEF Calls, Checked, Unchecked
  <2> QED
    BY <1>1, <2>1, <2>2, SymbolFacts DEF Takes, Operations
<1>4. p.took \in TookAfter(s, p.took)
  BY <1>3 DEF TookAfter
<1>5. HasTaken(p.fn, p.todo) => p.took
  BY DEF GoodTaking
<1>6. /\ Compares(p.fn, q.todo) => Compares(p.fn, p.todo)
      /\ Restores(p.fn, q.todo) => Restores(p.fn, p.todo)
      /\ HasTaken(p.fn, q.todo) => HasTaken(p.fn, p.todo)
  <2>1. CASE q.todo \in After(p.todo)
    BY <1>1, <1>3, <2>1, MarkFlow DEF s
  <2> QED
    BY <1>2, <2>1
<1>7. ~Raises(s, Now(q.todo))
  BY <1>3 DEF Raises
<1>8. /\ HasCounted(p.fn, p.took, q.todo) => HasCounted(p.fn, p.took, p.todo)
      /\ HasTree(p.fn, p.took, q.todo) => f.fn \in Chained
  <2>1. ASSUME NEW rest \in After(p.todo)
        PROVE  /\ HasCounted(p.fn, p.took, rest) =>
                    HasCounted(p.fn, p.took, p.todo) \/ Raises(s, Now(rest))
               /\ HasTree(p.fn, p.took, p.todo) => s \notin Calls
               /\ HasTree(p.fn, p.took, rest) => \A t \in Tokens : Callee(s, t) \in Chained
    <3>1. /\ HasCounted(p.fn, p.took, rest) =>
               HasCounted(p.fn, p.took, p.todo) \/ Raises(s, Now(rest))
                 \/ (s = "endAssignment" /\ p.took)
          /\ HasTree(p.fn, p.took, p.todo) => s \notin Calls \cup {"saveLHS", "restoreLHS"}
          /\ HasTree(p.fn, p.took, rest) /\ s \in Calls => \A t \in Tokens : Callee(s, t) \in Chained
      BY <1>1, <1>4, <1>5, CountFlow DEF s
    <3> QED
      BY <1>1, <1>3, <3>1
  <2>2. ~HasTree(p.fn, p.took, p.todo)
    <3>1. Tail(p.todo) \in After(p.todo)
      BY <1>1, PutFacts, SymbolsPut
    <3> QED
      BY <1>1, <2>1, <3>1
  <2>3. CASE q.todo \in After(p.todo)
    BY <1>1, <1>7, <2>1, <2>3
  <2> QED
    BY <1>2, <2>2, <2>3
<1>9. ASSUME q.todo \in After(p.todo)
      PROVE  Goes(p.fn, s, Now(q.todo)) /\ Now(q.todo) \in Places(p.fn)
  BY <1>1, <1>9, AfterFacts DEF s
<1>10. GoodTaking(q)
  <2>1. HasTaken(q.fn, q.todo) => q.took
    BY <1>2, <1>5, <1>6
  <2>2. ASSUME q.fn = "parseAssignmentExpression", q.todo # <<>>, q.took \/ Now(q.todo) = "next"
        PROVE  q.n > 0
    <3>1. Now(q.todo) # "next"
      <4>1. CASE q.todo \in After(p.todo)
        BY <1>1, <1>2, <1>3, <1>9, <2>2, <4>1, AssignmentTakes
      <4>2. CASE q.todo = p.todo
        BY <1>3, <4>2 DEF s, Takes
      <4> QED
        BY <1>2, <4>1, <4>2
    <3> QED
      BY <1>1, <1>2, <2>2, <3>1 DEF GoodTaking
  <2> QED
    BY <2>1, <2>2 DEF GoodTaking
<1>11. Now(q.todo) \in {"assignment", "forRest", "sameLHS"} => v # "null"
  <2>1. CASE q.todo = p.todo
    <3>1. "sameLHS" \notin Calls
      BY KindFacts DEF Operations
    <3> QED
      BY <1>1, <1>3, <2>1, <3>1 DEF s
  <2>2. CASE q.todo \in After(p.todo)
    <3>1. /\ Now(q.todo) = "assignment" => s \in Checked
          /\ Now(q.todo) \notin {"forRest", "sameLHS"}
      BY <1>1, <1>3, <1>9, <2>2, TreeFlow
    <3>2. Now(<<"fail">>) = "fail"
      BY DEF Now
    <3> QED
      BY <1>2, <3>1, <3>2
  <2> QED
    BY <1>2, <2>1, <2>2
<1> QED
  BY <1>2, <1>6, <1>8, <1>10, <1>11

\* v is what the innermost function makes of the tree it has.
Hands(v) ==
    /\ Top.fn = "parseMemberExpression" => v # "node"
    /\ Top.fn \in Chain /\ v # "null" => Top.todo = <<>> /\ (Top.took \/ v = value)

LEMMA LeaveKeepsMarks ==
    ASSUME LHSInv, stack # <<>>, NEW v, Leave(v), Hands(v) PROVE MarkInv'
<1>1. /\ Frames /\ MarksGrow /\ CountsStay /\ TreeIsCounted /\ Takings
      /\ value' = v /\ nonLHS' = nonLHS
  BY DEF LHSInv, MarkInv, ParserInv, Leave
<1>2. CASE Len(stack) = 1 /\ stack' = <<>>
  <2>1. Len(stack') = 0
    BY <1>2, EmptySeq
  <2>2. 1 .. 0 = {}
    OBVIOUS
  <2> QED
    BY <1>2, <2>1, <2>2 DEF MarkInv, MarksGrow, CountsStay, TreeIsCounted, Takings, TreeAtHand
<1>3. CASE Len(stack) # 1 /\ Returned(v)
  <2> SUFFICES ASSUME NEW n \in Nat, n = Len(stack), NEW m \in Nat, n = m + 1, m \in 1 .. n
               PROVE  MarkInv'
    <3>1. Len(stack) \in Nat /\ Len(stack) - 1 \in 1 .. Len(stack)
      BY <1>1, <1>3, TopFacts DEF Returned
    <3>2. Len(stack) - 1 \in Nat /\ Len(stack) = Len(stack) - 1 + 1
      BY <3>1
    <3> QED
      BY <3>1, <3>2
  <2> DEFINE p == stack[m]
             q == stack'[m]
             f == stack[n]
  <2>1. /\ n - 1 = m /\ n - 2 = m - 1 /\ n \in 1 .. n /\ n \notin 1 .. m
        /\ \A k \in 1 .. m : k \in 1 .. n /\ (k = m \/ k \in 1 .. m - 1)
        /\ \A i \in 1 .. m : /\ n \in i + 1 .. n
                             /\ \A k \in i + 1 .. m : k \in 1 .. m /\ k \in i + 1 .. n
                             /\ \A k \in i + 1 .. n : k = n \/ k \in i + 1 .. m
    OBVIOUS
  <2>2. /\ Top = f /\ stack' \in Seq(Frame) /\ stack' # <<>> /\ Len(stack') = m
        /\ \A k \in 1 .. m - 1 : stack'[k] = stack[k]
        /\ Caller = p /\ q = Resumed(v)
        /\ GoodFrame(p) /\ Calling(p, f) /\ GoodTaking(p)
    BY <1>1, <1>3, <2>1, TopFacts DEF Returned, Caller, Takings
  <2>3. Continues(p, v, q) /\ Top' = q
    <3>1. Top' = stack'[Len(stack')]
      BY DEF Top, Last
    <3> QED
      BY <2>2, <3>1, ResumedFacts
  <2>4. /\ q.fn = p.fn /\ q.mark = p.mark /\ GoodTaking(q)
        /\ Compares(q.fn, q.todo) => Compares(p.fn, p.todo)
        /\ Restores(q.fn, q.todo) => Restores(p.fn, p.todo)
        /\ HasCounted(q.fn, q.took, q.todo) => HasCounted(p.fn, p.took, p.todo)
        /\ HasTree(q.fn, q.took, q.todo) => f.fn \in Chained
        /\ Now(q.todo) \in {"assignment", "forRest", "sameLHS"} => v # "null"
    BY <2>2, <2>3, BackFacts
  <2>5. ASSUME NEW k \in 1 .. m
        PROVE  /\ k \in 1 .. n /\ stack'[k].fn = stack[k].fn /\ stack'[k].mark = stack[k].mark
               /\ CompareAt(k)' => CompareAt(k)
               /\ RestoreAt(k)' => RestoreAt(k)
               /\ CountedAt(k)' => CountedAt(k)
               /\ GoodTaking(stack'[k])
    <3>1. CASE k = m
      BY <2>1, <2>4, <3>1 DEF CompareAt, RestoreAt, CountedAt
    <3>2. CASE k \in 1 .. m - 1
      BY <1>1, <2>1, <2>2, <3>2 DEF CompareAt, RestoreAt, CountedAt, Takings
    <3> QED
      BY <2>1, <3>1, <3>2
  <2>6. ASSUME NEW i \in 1 .. m, NEW j \in 1 .. m, Linked(i, j)' PROVE Linked(i, j)
    <3>1. \A k \in i + 1 .. j : k \in 1 .. m
      OBVIOUS
    <3> QED
      BY <2>5, <2>6, <3>1 DEF Linked
  <2> HIDE DEF p, q
  <2>7. MarksGrow'
    <3> SUFFICES ASSUME NEW i \in 1 .. m, CompareAt(i)' \/ RestoreAt(i)'
                 PROVE  /\ stack'[i].mark <= nonLHS'
                        /\ \A k \in i + 1 .. m :
                             RestoreAt(k)' => stack'[i].mark <= stack'[k].mark
      BY <2>2 DEF MarksGrow
    <3>1. /\ stack[i].mark <= nonLHS
          /\ \A k \in i + 1 .. n : RestoreAt(k) => stack[i].mark <= stack[k].mark
      BY <1>1, <2>5 DEF MarksGrow
    <3> QED
      BY <1>1, <2>1, <2>5, <3>1
  <2>8. CountsStay'
    <3> SUFFICES ASSUME NEW i \in 1 .. m, NEW j \in i + 1 .. m,
                        CompareAt(i)', Linked(i, j)', CountedAt(j)'
                 PROVE  /\ stack'[i].mark < nonLHS'
                        /\ \A k \in j + 1 .. m :
                             RestoreAt(k)' => stack'[i].mark < stack'[k].mark
      BY <2>2 DEF CountsStay
    <3>1. j \in 1 .. m /\ j \in i + 1 .. n
      BY <2>1
    <3>2. /\ stack[i].mark < nonLHS
          /\ \A k \in j + 1 .. n : RestoreAt(k) => stack[i].mark < stack[k].mark
      BY <1>1, <2>5, <2>6, <3>1 DEF CountsStay
    <3> QED
      BY <1>1, <2>1, <2>5, <3>1, <3>2
  <2>9. TreeIsCounted'
    <3> SUFFICES ASSUME HasTree(q.fn, q.took, q.todo), v = "node",
                        NEW i \in 1 .. m, CompareAt(i)', Linked(i, m)'
                 PROVE  stack'[i].mark < nonLHS'
      BY <1>1, <2>2, <2>3 DEF TreeIsCounted
    <3>1. f.fn \in Chain /\ f.todo = <<>> /\ (f.took \/ value = "node")
      BY <2>2, <2>4 DEF Hands, Chained
    <3>2. CompareAt(i) /\ i \in 1 .. n /\ n \in i + 1 .. n /\ Linked(i, n)
      <4>1. Linked(i, m)
        BY <2>1, <2>6
      <4> QED
        BY <2>1, <2>5, <3>1, <4>1 DEF Linked
    <3>3. Now(f.todo) = ""
      BY <3>1 DEF Now
    <3>4. CASE f.took
      <4>1. CountedAt(n)
        BY <3>1, <3>3, <3>4 DEF CountedAt, HasCounted, Chain
      <4> QED
        BY <1>1, <2>5, <3>2, <4>1 DEF CountsStay
    <3>5. CASE ~f.took
      <4>1. HasTree(f.fn, f.took, f.todo)
        BY <3>1, <3>3, <3>5 DEF HasTree, Chain
      <4> QED
        BY <1>1, <2>2, <2>5, <3>1, <3>2, <3>5, <4>1 DEF TreeIsCounted
    <3> QED
      BY <3>4, <3>5
  <2>10. Takings'
    BY <2>2, <2>5 DEF Takings
  <2>11. TreeAtHand'
    BY <1>1, <2>2, <2>3, <2>4 DEF TreeAtHand
  <2> QED
    BY <2>7, <2>8, <2>9, <2>10, <2>11 DEF MarkInv
<1> QED
  BY <1>1, <1>2, <1>3, FramesReturned

-----------------------------------------------------------------------------
(* The actions.                                                             *)

LEMMA StopKeepsMarks == ASSUME LHSInv, UNCHANGED <<stack, nonLHS, value>> PROVE MarkInv'
BY DEF LHSInv, MarkInv, MarksGrow, CountsStay, TreeIsCounted, Takings, TreeAtHand,
       CompareAt, RestoreAt, CountedAt, Linked, Top

\* What a step makes of the frame f, as far as m_nonLHSCount goes.
Stepped(g, f, d, mark, took) ==
    g.fn = f.fn /\ g.todo = d /\ g.mark = mark /\ g.took = took

LEMMA TopMarks ==
    ASSUME LHSInv, ParserInv', NEW S, AtOneOf(S), Head(Top.todo) \notin Calls,
           NEW d \in After(Top.todo), NEW mark,
           NEW took \in TookAfter(Head(Top.todo), Top.took),
           NEW g, Stepped(g, Top, d, mark, took), SetTop(g),
           mark = IF Head(Top.todo) = "saveLHS" THEN nonLHS ELSE Top.mark,
           Top.fn = "parseAssignmentExpression" =>
             g.n = IF Head(Top.todo) = "endAssignment" THEN 0
                   ELSE IF Head(Top.todo) = "assignment" /\ Now(d) = "next" THEN Top.n + 1
                   ELSE Top.n,
           nonLHS' = NewCount(Top, Now(d)), value' = value,
           Head(Top.todo) = "failIfNull" => value # "null"
    PROVE  MarkInv'
<1>1. ParserInv
  BY DEF LHSInv
<1>2. /\ Frames /\ stack # <<>> /\ Top.todo # <<>> /\ Now(Top.todo) = Head(Top.todo)
  BY <1>1, AtFacts
<1>3. g.fn = Top.fn /\ g.todo = d /\ g.mark = mark /\ g.took = took
  BY DEF Stepped
<1>4. /\ Len(stack') = Len(stack) /\ stack'[Len(stack)] = g
      /\ \A k \in 1 .. Len(stack) - 1 : stack'[k] = stack[k]
  BY <1>2, TopSet DEF Frames
<1>5. \A k \in 1 .. Len(stack) - 1 : SameMarks(stack[k], stack'[k])
  BY <1>4 DEF SameMarks
<1>6. MarkMove(Top, g)
  BY <1>2, <1>3 DEF MarkMove
<1>7. MarkStep
  BY <1>2, <1>3, <1>4, <1>5, <1>6 DEF MarkStep
<1> QED
  BY <1>7, StepKeeps

\* The symbols that save, set or count what is compared with m_nonLHSCount.
Marking == {"saveLHS", "restoreLHS", "nonLHS", "endAssignment", "assignment", "binaryOperator"}

LEMMA PlainMarks ==
    ASSUME LHSInv, ParserInv', NEW S, AtOneOf(S), Head(Top.todo) \notin Calls \cup Marking,
           NEW d \in After(Top.todo), NEW took \in TookAfter(Head(Top.todo), Top.took),
           NEW g, Stepped(g, Top, d, Top.mark, took), SetTop(g),
           Top.fn = "parseAssignmentExpression" => g.n = Top.n,
           nonLHS' = nonLHS, value' = value,
           Head(Top.todo) = "failIfNull" => value # "null"
    PROVE  MarkInv'
<1>1. Now(Top.todo) = Head(Top.todo)
  BY AtFacts DEF LHSInv
<1>2. nonLHS' = NewCount(Top, Now(d))
  BY <1>1 DEF NewCount, Raises, Marking
<1>3. Head(Top.todo) \notin {"saveLHS", "endAssignment", "assignment"}
  BY DEF Marking
<1> QED
  BY <1>2, <1>3, TopMarks

LEMMA InsteadMarks ==
    ASSUME LHSInv, ParserInv', NEW S, AtOneOf(S), Head(Top.todo) \notin Calls \cup Marking \cup Takes,
           NEW x \in Put(Head(Top.todo)), SetTop(Instead(Top, x)),
           nonLHS' = nonLHS, value' = value,
           Head(Top.todo) = "failIfNull" => value # "null"
    PROVE  MarkInv'
<1> DEFINE d == x \o Tail(Top.todo)
<1>1. GoodFrame(Top) /\ Top \in Frame /\ Top.todo # <<>>
  BY AtFacts DEF LHSInv
<1>2. d \in After(Top.todo) /\ d \in Seq(Symbols) /\ Instead(Top, x) = [Top EXCEPT !.todo = d]
  BY <1>1, RestFacts
<1> HIDE DEF d
<1>3. Changed(Instead(Top, x), Top, d, Top.mark, Top.n, Top.m, Top.took)
  BY <1>1, <1>2, FrameFields
<1>4. /\ Stepped(Instead(Top, x), Top, d, Top.mark, Top.took) /\ Instead(Top, x).n = Top.n
      /\ Top.took \in TookAfter(Head(Top.todo), Top.took)
  BY <1>3 DEF TookAfter, Changed, Stepped
<1> QED
  BY <1>2, <1>4, PlainMarks

LEMMA DoneMarks ==
    ASSUME LHSInv, ParserInv', NEW S, AtOneOf(S), Head(Top.todo) \notin Calls \cup Marking \cup Takes,
           <<>> \in Put(Head(Top.todo)), SetTop(Done(Top)),
           nonLHS' = nonLHS, value' = value,
           Head(Top.todo) = "failIfNull" => value # "null"
    PROVE  MarkInv'
<1>1. GoodFrame(Top) /\ Top.todo # <<>>
  BY AtFacts DEF LHSInv
<1>2. Instead(Top, <<>>) = Done(Top)
  BY <1>1, CodeFacts, ConcatEmptySeq DEF Done, Instead
<1> QED
  BY <1>2, InsteadMarks

LEMMA AdvanceMarks ==
    ASSUME LHSInv, ParserInv', NEW S, AtOneOf(S), NEW r, Advance(r),
           Head(Top.todo) \in Takes \cup DOMAIN Otherwise
    PROVE  MarkInv'
<1> DEFINE d == Tail(Top.todo)
           s == Head(Top.todo)
           g == [Done(Top) EXCEPT !.took = TRUE]
<1>1. GoodFrame(Top) /\ Top \in Frame /\ Top.todo # <<>>
  BY AtFacts DEF LHSInv
<1>2. SetTop(g) /\ nonLHS' = nonLHS /\ value' = value
  BY DEF Advance
<1>3. s \notin Calls \cup Marking /\ s # "failIfNull" /\ <<>> \in Put(s)
  <2>1. {"next", "nextIgnoreReserved"} \subseteq Dropped
    BY DEF Dropped
  <2>2. <<>> \in Put(s)
    BY <2>1, DroppedFacts, PutFacts DEF Takes
  <2>3. s \in Tokens \/ s \in {"next", "nextIgnoreReserved"} \cup DOMAIN Otherwise
    BY DEF Takes
  <2>4. Marking \cup {"failIfNull"} \subseteq Operations
    BY DEF Marking, Operations
  <2>5. s \notin Marking /\ s # "failIfNull"
    <3>1. CASE s \in Tokens
      BY <2>4, <3>1, KindFacts
    <3>2. CASE s \in {"next", "nextIgnoreReserved"} \cup DOMAIN Otherwise
      BY <3>2, SymbolFacts DEF Marking
    <3> QED
      BY <2>3, <3>1, <3>2
  <2>6. s \notin Calls
    <3>1. {"next", "nextIgnoreReserved"} \cup DOMAIN Otherwise \subseteq Operations
      BY <2>1, DroppedFacts, SymbolFacts
    <3> QED
      BY <2>3, <3>1, KindFacts
  <2> QED
    BY <2>2, <2>5, <2>6
<1>4. d \in After(Top.todo) /\ d \in Seq(Symbols) /\ Done(Top) = [Top EXCEPT !.todo = d]
  BY <1>1, <1>3, RestFacts
<1> HIDE DEF d
<1>5. Changed(g, Top, d, Top.mark, Top.n, Top.m, TRUE)
  BY <1>1, <1>4, FrameFields
<1>6. TRUE \in TookAfter(s, Top.took) /\ Stepped(g, Top, d, Top.mark, TRUE) /\ g.n = Top.n
  BY <1>5 DEF TookAfter, Changed, Stepped
<1> HIDE DEF g
<1> QED
  BY <1>2, <1>3, <1>4, <1>6, PlainMarks

LEMMA FailMarks == ASSUME LHSInv, NEW S, AtOneOf(S), fail PROVE MarkInv'
<1>1. stack # <<>> /\ Leave("null")
  BY AtFacts DEF LHSInv, fail
<1>2. Hands("null")
  BY DEF Hands
<1> QED
  BY <1>1, <1>2, LeaveKeepsMarks

LEMMA TakesFacts ==
    /\ Takes \cap (Decisions \ Calls) = {}
    /\ \A s \in Operations : s \in Takes => s \in {"next", "nextIgnoreReserved"}
    /\ Marking \cap (Decisions \ Calls) = {} /\ "failIfNull" \notin Decisions \ Calls
<1>1. Marking \cup {"failIfNull", "next", "nextIgnoreReserved"} \subseteq Operations
  BY DEF Marking, Operations
<1> QED
  BY <1>1, KindFacts, SymbolsAreToldApart DEF Takes

LEMMA PlainActions ==
    ASSUME LHSInv, ParserInv',
           Decide \/ consumeOrFail \/ next \/ autoSemiColon \/ SetAllowsIn \/ forVarRest
    PROVE  MarkInv'
<1>0. ParserInv
  BY DEF LHSInv
<1>1. CASE Decide
  <2> DEFINE x == Expansion[Head(Top.todo)][tok]
  <2>1. AtOneOf(Decisions \ Calls) /\ SetTop(Instead(Top, x)) /\ UNCHANGED <<nonLHS, value>>
    BY <1>1 DEF Decide, Local
  <2>2. Registers /\ Head(Top.todo) \in Decisions \ Calls
    BY <1>0, <2>1, AtFacts
  <2>3. x \in Put(Head(Top.todo))
    BY <2>2, PutFacts DEF Registers
  <2>4. Head(Top.todo) \notin Calls \cup Marking \cup Takes /\ Head(Top.todo) # "failIfNull"
    BY <2>2, TakesFacts
  <2> HIDE DEF x
  <2> QED
    BY <2>1, <2>3, <2>4, InsteadMarks
<1>2. CASE consumeOrFail
  <2>1. AtOneOf(Tokens) /\ (Advance(TRUE) \/ fail)
    BY <1>2 DEF consumeOrFail
  <2>2. Head(Top.todo) \in Takes
    BY <1>0, <2>1, AtFacts DEF Takes
  <2> QED
    BY <2>1, <2>2, AdvanceMarks, FailMarks
<1>3. CASE next
  <2>1. AtOneOf({"next", "nextIgnoreReserved"}) /\ (Advance(TRUE) \/ Advance(FALSE))
    BY <1>3 DEF next, At, AtOneOf
  <2>2. Head(Top.todo) \in Takes
    BY <1>0, <2>1, AtFacts DEF Takes
  <2> QED
    BY <2>1, <2>2, AdvanceMarks
<1>4. CASE autoSemiColon
  <2>1. AtOneOf(DOMAIN Otherwise)
    BY <1>4 DEF autoSemiColon
  <2>2. Head(Top.todo) \in DOMAIN Otherwise
    BY <1>0, <2>1, AtFacts
  <2>3. /\ Put(Head(Top.todo)) = {<<>>, Otherwise[Head(Top.todo)]}
        /\ Head(Top.todo) \notin Calls \cup Marking \cup Takes /\ Head(Top.todo) # "failIfNull"
    <3>1. Head(Top.todo) \in Operations
      BY <2>2, SymbolFacts
    <3>2. Head(Top.todo) \notin Marking \cup {"failIfNull", "next", "nextIgnoreReserved"}
      BY <2>2, SymbolFacts DEF Marking
    <3> QED
      BY <2>2, <3>1, <3>2, KindFacts, PutFacts, TakesFacts
  <2>4. CASE Advance(TRUE)
    BY <2>1, <2>2, <2>4, AdvanceMarks
  <2>5. CASE Local(Done(Top))
    BY <2>1, <2>3, <2>5, DoneMarks DEF Local
  <2>6. CASE Local(Instead(Top, Otherwise[Head(Top.todo)]))
    BY <2>1, <2>3, <2>6, InsteadMarks DEF Local
  <2> QED
    BY <1>4, <2>4, <2>5, <2>6 DEF autoSemiColon
<1>5. CASE SetAllowsIn
  <2>1. /\ AtOneOf({"inOff", "inOn"}) /\ SetTop(Done(Top)) /\ nonLHS' = nonLHS /\ value' = value
    BY <1>5 DEF SetAllowsIn
  <2>2. Head(Top.todo) \in {"inOff", "inOn"}
    BY <1>0, <2>1, AtFacts
  <2>3. Head(Top.todo) \in Dropped /\ Head(Top.todo) \notin Marking \cup {"next", "nextIgnoreReserved"}
        /\ Head(Top.todo) # "failIfNull"
    BY <2>2 DEF Dropped, Marking
  <2>4. <<>> \in Put(Head(Top.todo)) /\ Head(Top.todo) \notin Calls \cup Marking \cup Takes
    BY <2>3, DroppedFacts, KindFacts, TakesFacts
  <2> QED
    BY <2>1, <2>3, <2>4, DoneMarks
<1>6. CASE forVarRest
  <2>1. AtOneOf({"forVarRest"})
    BY <1>6, AtIs DEF forVarRest
  <2>2. PICK x \in {<<"standardForLoop">>, <<"forVarIn">>} : Local(Instead(Top, x))
    BY <1>6 DEF forVarRest
  <2>3. Head(Top.todo) = "forVarRest"
    BY <1>0, <2>1, AtFacts
  <2>4. "forVarRest" \in Operations /\ "forVarRest" \notin Marking
    BY SymbolFacts DEF Marking
  <2>5. x \in Put(Head(Top.todo)) /\ Head(Top.todo) \notin Calls \cup Marking \cup Takes
    BY <2>3, <2>4, PutFacts, KindFacts, TakesFacts
  <2> QED
    BY <2>1, <2>2, <2>3, <2>5, InsteadMarks DEF Local
<1> QED
  BY <1>1, <1>2, <1>3, <1>4, <1>5, <1>6

LEMMA CheckMarks ==
    ASSUME LHSInv, ParserInv',
           NEW s \in {"fail", "failIfError", "failIfNull", "sameLHS", "failIfNoHandler",
                      "onlyOneToken", "scanRegExp", "accessorType"},
           NEW c \in BOOLEAN, failIf(s, c), s = "fail" => c, s = "failIfNull" => c = (value = "null")
    PROVE  MarkInv'
<1>1. AtOneOf({s}) /\ IF c THEN fail ELSE Local(Done(Top))
  BY AtIs DEF failIf
<1>2. Head(Top.todo) = s
  BY <1>1, AtFacts DEF LHSInv
<1>3. CASE c
  BY <1>1, <1>3, FailMarks
<1>4. CASE ~c
  <2>1. s \in Dropped /\ s \notin Marking \cup {"next", "nextIgnoreReserved"}
    BY <1>4 DEF Dropped, Marking
  <2>2. <<>> \in Put(s) /\ s \notin Calls \cup Marking \cup Takes
    BY <2>1, DroppedFacts, KindFacts, TakesFacts
  <2>3. s = "failIfNull" => value # "null"
    BY <1>4
  <2> QED
    BY <1>1, <1>2, <1>4, <2>2, <2>3, DoneMarks DEF Local
<1> QED
  BY <1>3, <1>4

LEMMA ChecksMarks == ASSUME LHSInv, ParserInv', Checks PROVE MarkInv'
<1>1. error \in BOOLEAN /\ (value = "null") \in BOOLEAN
  BY DEF LHSInv, ParserInv, Registers
<1>2. CASE failIf("fail", TRUE)
  BY <1>2, CheckMarks
<1>3. CASE failIf("failIfNull", value = "null")
  BY <1>1, <1>3, CheckMarks
<1>4. ASSUME NEW s \in {"failIfError", "sameLHS", "failIfNoHandler", "onlyOneToken", "scanRegExp",
                        "accessorType"},
             NEW c \in BOOLEAN, failIf(s, c)
      PROVE  MarkInv'
  BY <1>4, CheckMarks
<1>5. (Top.mark # nonLHS) \in BOOLEAN /\ (Top.n = 0) \in BOOLEAN /\ (Top.n + 1 # tokenCount) \in BOOLEAN
  OBVIOUS
<1> QED
  BY <1>1, <1>2, <1>3, <1>4, <1>5 DEF Checks

LEMMA ReturnMarks == ASSUME LHSInv, Return PROVE MarkInv'
<1>1. Running /\ stack # <<>> /\ GoodFrame(Top) /\ Top.fn \in Functions
  <2>1. Running /\ stack # <<>> /\ Frames
    BY DEF Return, At, Running, LHSInv, ParserInv
  <2> QED
    BY <2>1, TopFacts DEF GoodFrame
<1>2. PICK v : Leave(v) /\ Hands(v)
  <2>1. CASE At("returnNull") /\ Leave("null")
    BY <2>1 DEF Hands
  <2>2. CASE At("returnResult") /\ Leave(value)
    <3>1. Now(Top.todo) = "returnResult" /\ "returnResult" \in Places(Top.fn)
      <4>1. AtOneOf({"returnResult"})
        BY <2>2, AtIs
      <4> QED
        BY <4>1, AtFacts DEF LHSInv
    <3>2. Top.fn \notin Chained
      BY <1>1, <3>1, TreeFlow
    <3> QED
      BY <2>2, <3>2 DEF Hands, Chained
  <2>3. CASE Running /\ Top.todo = <<>>
    <3> DEFINE v == CASE Top.fn = "parseMemberExpression" -> "lhs"
                      [] Top.fn \in Chain /\ ~Top.took -> value
                      [] OTHER -> "node"
    <3>1. Leave(v)
      <4>1. ~At("returnNull") /\ ~At("returnResult")
        BY <2>3 DEF At
      <4> QED
        BY <4>1 DEF Return
    <3>2. "parseMemberExpression" \notin Chain
      BY DEF Chain
    <3>3. Hands(v)
      BY <2>3, <3>2 DEF Hands
    <3> QED
      BY <3>1, <3>3
  <2> QED
    BY <2>1, <2>2, <2>3 DEF Return
<1> QED
  BY <1>1, <1>2, LeaveKeepsMarks

LEMMA MarkFields ==
    ASSUME NEW f \in Frame, NEW d, NEW h, h = [f EXCEPT !.todo = d]
    PROVE  /\ Stepped(h, f, d, f.mark, f.took) /\ h.n = f.n
           /\ \A x : LET g == [h EXCEPT !.mark = x] IN Stepped(g, f, d, x, f.took) /\ g.n = f.n
           /\ \A x : LET g == [h EXCEPT !.n = x] IN Stepped(g, f, d, f.mark, f.took) /\ g.n = x
           /\ \A x : LET g == [h EXCEPT !.m = x] IN Stepped(g, f, d, f.mark, f.took)
           /\ \A x, y : LET g == [h EXCEPT !.n = x, !.m = y] IN Stepped(g, f, d, f.mark, f.took)
BY DEF Frame, Stepped

\* Functions other than parseAssignmentExpression count something else.
LEMMA CountingMarks ==
    ASSUME LHSInv, ParserInv',
           saveTokenCount \/ countHandler \/ countNew \/ elseStacks \/ newBuilder
             \/ pushOperand \/ pushUnary \/ endUnary
    PROVE  MarkInv'
<1> DEFINE S == {"saveTokenCount", "countHandler", "countNew", "pushElseIf", "pushElse",
                 "foldLastIf", "foldElse", "newBuilder", "pushOperand", "pushUnary", "endUnary"}
           s == Head(Top.todo)
           d == Tail(Top.todo)
<1>1. AtOneOf(S)
  BY DEF saveTokenCount, countHandler, countNew, elseStacks, newBuilder, pushOperand, pushUnary,
         endUnary, At, AtOneOf
<1>2. /\ GoodFrame(Top) /\ Top \in Frame /\ Top.fn \in Functions /\ Top.todo # <<>>
      /\ s \in S /\ s \in Symbols /\ s \in Places(Top.fn)
  BY <1>1, AtFacts DEF LHSInv
<1>3. /\ Top.fn # "parseAssignmentExpression" /\ s \in Dropped
      /\ s \notin Marking /\ s # "failIfNull"
  BY <1>2, OperationsAreOwned DEF Dropped, Marking
<1>4. /\ s \notin Calls /\ <<>> \in Put(s)
  BY <1>3, DroppedFacts, KindFacts
<1>5. d \in After(Top.todo) /\ Done(Top) = [Top EXCEPT !.todo = d]
  BY <1>2, <1>4, RestFacts
<1> HIDE DEF d
<1>6. UNCHANGED <<nonLHS, value>>
  BY DEF saveTokenCount, countHandler, countNew, elseStacks, newBuilder, pushOperand, pushUnary,
         endUnary, Local, Build
<1>7. \/ \E x : SetTop([Done(Top) EXCEPT !.n = x])
      \/ \E x : SetTop([Done(Top) EXCEPT !.m = x])
      \/ \E x, y : SetTop([Done(Top) EXCEPT !.n = x, !.m = y])
  <2>1. CASE saveTokenCount
    BY <2>1 DEF saveTokenCount, Local
  <2>2. CASE countHandler
    BY <2>2 DEF countHandler, Local
  <2>3. CASE countNew
    BY <2>3 DEF countNew, Local
  <2>4. CASE elseStacks
    <3>1. \/ SetTop([Done(Top) EXCEPT !.n = @ + 1, !.m = @ + 1])
          \/ SetTop([Done(Top) EXCEPT !.m = @ + 1])
          \/ SetTop([Done(Top) EXCEPT !.n = @ - 1])
          \/ SetTop([Done(Top) EXCEPT !.n = 0, !.m = @ - Top.n])
      BY <2>4 DEF elseStacks, Local
    <3> QED
      BY <3>1
  <2>5. CASE newBuilder
    BY <2>5 DEF newBuilder
  <2>6. CASE pushOperand
    BY <2>6 DEF pushOperand, Build
  <2>7. CASE pushUnary
    BY <2>7 DEF pushUnary, Build
  <2>8. CASE endUnary
    BY <2>8 DEF endUnary, Build
  <2> QED
    BY <2>1, <2>2, <2>3, <2>4, <2>5, <2>6, <2>7, <2>8
<1>8. \E g : SetTop(g) /\ Stepped(g, Top, d, Top.mark, Top.took)
  <2>1. /\ \A x : Stepped([Done(Top) EXCEPT !.n = x], Top, d, Top.mark, Top.took)
        /\ \A x : Stepped([Done(Top) EXCEPT !.m = x], Top, d, Top.mark, Top.took)
        /\ \A x, y : Stepped([Done(Top) EXCEPT !.n = x, !.m = y], Top, d, Top.mark, Top.took)
    BY <1>2, <1>5, MarkFields
  <2> QED
    BY <1>7, <2>1
<1>9. PICK g : SetTop(g) /\ Stepped(g, Top, d, Top.mark, Top.took)
  BY <1>8
<1>10. Top.took \in TookAfter(s, Top.took)
  <2>1. s \in Operations /\ s \notin {"next", "nextIgnoreReserved"}
    BY <1>2, <1>3, DroppedFacts
  <2> QED
    BY <2>1, TakesFacts DEF TookAfter
<1> QED
  BY <1>1, <1>3, <1>4, <1>5, <1>6, <1>9, <1>10, PlainMarks

LEMMA CallOrNewMarks == ASSUME LHSInv, ParserInv', callOrNew PROVE MarkInv'
<1> DEFINE x == <<"parseArguments">>
           y == <<"saveLHS", "parseArguments", "restoreLHS">>
<1>1. AtOneOf({"callOrNew"}) /\ nonLHS' = nonLHS /\ value' = value
  BY AtIs DEF callOrNew, Local
<1>2. /\ Head(Top.todo) = "callOrNew" /\ GoodFrame(Top) /\ Top \in Frame /\ Top.todo # <<>>
      /\ Top.fn \in Functions /\ "callOrNew" \in Symbols /\ "callOrNew" \in Places(Top.fn)
  BY <1>1, AtFacts DEF LHSInv
<1>3. /\ "callOrNew" \notin Calls \cup Marking \cup Takes
      /\ Top.fn # "parseAssignmentExpression"
  <2>1. "callOrNew" \in Operations /\ "callOrNew" \notin Marking
    BY SymbolFacts DEF Marking
  <2> QED
    BY <1>2, <2>1, KindFacts, TakesFacts, OperationsAreOwned
<1>4. {x, y} \subseteq Put(Head(Top.todo))
  BY <1>2, PutFacts
<1>5. SetTop([Instead(Top, x) EXCEPT !.n = @ - 1]) \/ SetTop(Instead(Top, y))
  BY DEF callOrNew, Local
<1> HIDE DEF x, y
<1>6. CASE SetTop(Instead(Top, y))
  BY <1>1, <1>2, <1>3, <1>4, <1>6, InsteadMarks
<1>7. CASE SetTop([Instead(Top, x) EXCEPT !.n = @ - 1])
  <2> DEFINE d == x \o Tail(Top.todo)
             g == [Instead(Top, x) EXCEPT !.n = @ - 1]
  <2>1. d \in After(Top.todo) /\ Instead(Top, x) = [Top EXCEPT !.todo = d]
    BY <1>2, <1>4, RestFacts
  <2> HIDE DEF d
  <2>2. Stepped(g, Top, d, Top.mark, Top.took)
    BY <1>2, <2>1, MarkFields
  <2>3. Top.took \in TookAfter(Head(Top.todo), Top.took)
    BY <1>2, <1>3 DEF TookAfter
  <2>4. SetTop(g)
    BY <1>7
  <2> HIDE DEF g
  <2> QED
    BY <1>1, <1>2, <1>3, <2>1, <2>2, <2>3, <2>4, PlainMarks
<1> QED
  BY <1>5, <1>6, <1>7

LEMMA SaveMarks == ASSUME LHSInv, ParserInv', SaveLHS \/ SetNonLHS PROVE MarkInv'
<1> DEFINE s == Head(Top.todo)
           d == Tail(Top.todo)
<1>1. AtOneOf({"saveLHS", "nonLHS", "restoreLHS"})
  BY DEF SaveLHS, SetNonLHS, At, AtOneOf
<1>2. /\ s \in {"saveLHS", "nonLHS", "restoreLHS"} /\ Now(Top.todo) = s
      /\ GoodFrame(Top) /\ Top \in Frame /\ Top.todo # <<>>
  BY <1>1, AtFacts DEF LHSInv
<1>3. s \in Dropped /\ s \notin {"failIfNull", "endAssignment", "assignment", "next", "nextIgnoreReserved"}
  BY <1>2 DEF Dropped
<1>4. /\ s \notin Calls /\ <<>> \in Put(s) /\ Top.took \in TookAfter(s, Top.took)
  BY <1>3, DroppedFacts, KindFacts, TakesFacts DEF TookAfter
<1>5. d \in After(Top.todo) /\ Done(Top) = [Top EXCEPT !.todo = d]
  BY <1>2, <1>4, RestFacts
<1> HIDE DEF d
<1>6. Stepped(Done(Top), Top, d, Top.mark, Top.took) /\ Done(Top).n = Top.n
  BY <1>2, <1>5 DEF Stepped, Frame
<1>7. CASE SaveLHS
  <2> DEFINE g == [Done(Top) EXCEPT !.mark = nonLHS]
  <2>1. s = "saveLHS" /\ SetTop(g) /\ UNCHANGED <<nonLHS, value>>
    BY <1>7 DEF SaveLHS, At, Local
  <2>2. Stepped(g, Top, d, nonLHS, Top.took) /\ g.n = Top.n
    BY <1>2, <1>5 DEF Stepped, Frame
  <2>3. nonLHS' = NewCount(Top, Now(d))
    BY <1>2, <2>1 DEF NewCount, Raises
  <2> HIDE DEF g
  <2> QED
    BY <1>1, <1>3, <1>4, <1>5, <2>1, <2>2, <2>3, TopMarks
<1>8. CASE SetNonLHS
  <2>1. /\ \/ s = "nonLHS" /\ nonLHS' = nonLHS + 1
           \/ s = "restoreLHS" /\ nonLHS' = Top.mark
        /\ SetTop(Done(Top)) /\ value' = value
    BY <1>8 DEF SetNonLHS, At
  <2>2. nonLHS' = NewCount(Top, Now(d)) /\ s # "saveLHS"
    BY <1>2, <2>1 DEF NewCount, Raises
  <2> QED
    BY <1>1, <1>3, <1>4, <1>5, <1>6, <2>1, <2>2, TopMarks
<1> QED
  BY <1>7, <1>8

LEMMA FirstOfLoop ==
    ASSUME NEW t \in Seq(Symbols), NEW x \in {<<"next", "operand">>,
                                   <<"next", "parseConditionalExpression", "assignment">>}
    PROVE  Now(x \o t) = "next"
<1>1. Len(t) \in Nat
  OBVIOUS
<1>2. CASE x = <<"next", "operand">>
  <2>1. Len(x \o t) = 2 + Len(t) /\ (x \o t)[1] = "next"
    BY <1>1, <1>2
  <2>2. x \o t # <<>>
    BY <1>1, <2>1
  <2> QED
    BY <2>1, <2>2 DEF Now
<1>3. CASE x = <<"next", "parseConditionalExpression", "assignment">>
  <2>1. Len(x \o t) = 3 + Len(t) /\ (x \o t)[1] = "next"
    BY <1>1, <1>3
  <2>2. x \o t # <<>>
    BY <1>1, <2>1
  <2> QED
    BY <2>1, <2>2 DEF Now
<1> QED
  BY <1>2, <1>3

LEMMA AssignmentMarks == ASSUME LHSInv, ParserInv', assignment PROVE MarkInv'
<1> DEFINE x == <<"next", "parseConditionalExpression", "assignment">>
           t == Tail(Top.todo)
<1>1. AtOneOf({"assignment"}) /\ nonLHS' = nonLHS /\ value' = value
  BY AtIs DEF assignment, Build
<1>2. /\ Head(Top.todo) = "assignment" /\ Now(Top.todo) = "assignment" /\ GoodFrame(Top)
      /\ Top \in Frame /\ Top.fn \in Functions /\ Top.todo \in Codes[Top.fn] \ {<<>>}
      /\ Top.todo # <<>> /\ t \in Seq(Symbols)
  <2>1. /\ Head(Top.todo) = "assignment" /\ Now(Top.todo) = "assignment" /\ GoodFrame(Top)
        /\ Top \in Frame /\ Top.fn \in Functions /\ Top.todo # <<>>
    BY <1>1, AtFacts DEF LHSInv
  <2> QED
    BY <2>1, CodeFacts DEF GoodFrame
<1>3. "assignment" \notin Calls /\ Top.took \in TookAfter("assignment", Top.took)
  BY SymbolFacts, KindFacts, TakesFacts DEF TookAfter
<1>4. Put(Head(Top.todo)) = {<<>>, x}
  BY <1>2, PutFacts
<1>5. Now(t) # "next" /\ Now(x \o t) = "next"
  BY <1>2, LoopsEnd, FirstOfLoop
<1>6. \A d : NewCount(Top, d) = nonLHS
  BY <1>2 DEF NewCount, Raises
<1>7. SetTop([Instead(Top, x) EXCEPT !.n = @ + 1]) \/ SetTop(Done(Top))
  BY DEF assignment, Build
<1> HIDE DEF x
<1>8. CASE SetTop(Done(Top))
  <2>1. t \in After(Top.todo) /\ Done(Top) = [Top EXCEPT !.todo = t]
    BY <1>2, <1>4, RestFacts
  <2> HIDE DEF t
  <2>2. Stepped(Done(Top), Top, t, Top.mark, Top.took) /\ Done(Top).n = Top.n
    BY <1>2, <2>1 DEF Stepped, Frame
  <2> QED
    BY <1>1, <1>2, <1>3, <1>5, <1>6, <1>8, <2>1, <2>2, TopMarks
<1>9. CASE SetTop([Instead(Top, x) EXCEPT !.n = @ + 1])
  <2> DEFINE d == x \o t
             g == [Instead(Top, x) EXCEPT !.n = @ + 1]
  <2>1. d \in After(Top.todo) /\ Instead(Top, x) = [Top EXCEPT !.todo = d]
    BY <1>2, <1>4, RestFacts
  <2>2. Now(d) = "next"
    BY <1>5
  <2> HIDE DEF d, t
  <2>3. Stepped(g, Top, d, Top.mark, Top.took) /\ g.n = Top.n + 1
    BY <1>2, <2>1 DEF Stepped, Frame
  <2>4. SetTop(g)
    BY <1>9
  <2> HIDE DEF g
  <2> QED
    BY <1>1, <1>2, <1>3, <1>6, <2>1, <2>2, <2>3, <2>4, TopMarks
<1> QED
  BY <1>7, <1>8, <1>9

LEMMA EndMarks == ASSUME LHSInv, ParserInv', endAssignment PROVE MarkInv'
<1> DEFINE d == Tail(Top.todo)
           g == [Done(Top) EXCEPT !.n = 0]
<1>1. /\ AtOneOf({"endAssignment"}) /\ SetTop(g) /\ value' = value
      /\ nonLHS' = IF Top.n > 0 THEN nonLHS + 1 ELSE nonLHS
  BY AtIs DEF endAssignment, Build
<1>2. /\ Head(Top.todo) = "endAssignment" /\ Now(Top.todo) = "endAssignment" /\ GoodFrame(Top)
      /\ Top \in Frame /\ Top.todo # <<>>
  BY <1>1, AtFacts DEF LHSInv
<1>3. "endAssignment" \in Dropped
  BY DEF Dropped
<1>4. /\ "endAssignment" \notin Calls /\ Top.took \in TookAfter("endAssignment", Top.took)
      /\ <<>> \in Put(Head(Top.todo))
  BY <1>2, <1>3, DroppedFacts, KindFacts, TakesFacts DEF TookAfter
<1>5. d \in After(Top.todo) /\ Done(Top) = [Top EXCEPT !.todo = d]
  BY <1>2, <1>4, RestFacts
<1> HIDE DEF d
<1>6. Stepped(g, Top, d, Top.mark, Top.took) /\ g.n = 0
  BY <1>2, <1>5 DEF Stepped, Frame
<1>7. nonLHS' = NewCount(Top, Now(d))
  BY <1>1, <1>2 DEF NewCount, Raises
<1> HIDE DEF g
<1> QED
  BY <1>1, <1>2, <1>4, <1>5, <1>6, <1>7, TopMarks

LEMMA BinaryMarks == ASSUME LHSInv, ParserInv', binaryOperator \/ endBinary PROVE MarkInv'
<1> DEFINE x == <<"next", "operand">>
           t == Tail(Top.todo)
<1>1. AtOneOf({"binaryOperator"}) /\ value' = value
  BY AtIs DEF binaryOperator, endBinary, Build
<1>2. /\ Head(Top.todo) = "binaryOperator" /\ Now(Top.todo) = "binaryOperator" /\ GoodFrame(Top)
      /\ Top \in Frame /\ Top.fn \in Functions /\ Top.todo \in Codes[Top.fn] \ {<<>>}
      /\ Top.todo # <<>> /\ t \in Seq(Symbols)
      /\ "binaryOperator" \in Symbols /\ "binaryOperator" \in Places(Top.fn)
  <2>1. /\ Head(Top.todo) = "binaryOperator" /\ Now(Top.todo) = "binaryOperator" /\ GoodFrame(Top)
        /\ Top \in Frame /\ Top.fn \in Functions /\ Top.todo # <<>>
        /\ "binaryOperator" \in Symbols /\ "binaryOperator" \in Places(Top.fn)
    BY <1>1, AtFacts DEF LHSInv
  <2> QED
    BY <2>1, CodeFacts DEF GoodFrame
<1>3. /\ "binaryOperator" \notin Calls /\ Top.took \in TookAfter("binaryOperator", Top.took)
      /\ Top.fn # "parseAssignmentExpression"
  BY <1>2, SymbolFacts, KindFacts, TakesFacts, OperationsAreOwned DEF TookAfter
<1>4. Put(Head(Top.todo)) = {<<>>, x}
  BY <1>2, PutFacts
<1>5. Now(t) # "next" /\ Now(x \o t) = "next"
  BY <1>2, LoopsEnd, FirstOfLoop
<1> HIDE DEF x
<1>6. CASE binaryOperator
  <2> DEFINE d == x \o t
             k == Reduced(Top.m, Context.operators, isBinaryOperator(tok, allowsIn))
             g == [Instead(Top, x) EXCEPT !.n = @ - k, !.m = @ - k + 1]
  <2>1. d \in After(Top.todo) /\ Instead(Top, x) = [Top EXCEPT !.todo = d]
    BY <1>2, <1>4, RestFacts
  <2>2. SetTop(g) /\ nonLHS' = nonLHS + 1
    BY <1>6 DEF binaryOperator, Build, x
  <2>3. nonLHS' = NewCount(Top, Now(d))
    BY <1>2, <1>5, <2>2 DEF NewCount, Raises
  <2> HIDE DEF d, t, k
  <2>4. Stepped(g, Top, d, Top.mark, Top.took)
    BY <1>2, <2>1 DEF Stepped, Frame
  <2> HIDE DEF g
  <2> QED
    BY <1>1, <1>2, <1>3, <2>1, <2>2, <2>3, <2>4, TopMarks
<1>7. CASE endBinary
  <2> DEFINE g == [Done(Top) EXCEPT !.n = @ - Top.m - 1, !.m = 0]
  <2>1. t \in After(Top.todo) /\ Done(Top) = [Top EXCEPT !.todo = t]
    BY <1>2, <1>4, RestFacts
  <2>2. SetTop(g) /\ nonLHS' = nonLHS
    BY <1>7 DEF endBinary, Build
  <2>3. nonLHS' = NewCount(Top, Now(t))
    BY <1>2, <1>5, <2>2 DEF NewCount, Raises
  <2> HIDE DEF t
  <2>4. Stepped(g, Top, t, Top.mark, Top.took)
    BY <1>2, <2>1 DEF Stepped, Frame
  <2> HIDE DEF g
  <2> QED
    BY <1>1, <1>2, <1>3, <2>1, <2>2, <2>3, <2>4, TopMarks
<1> QED
  BY <1>6, <1>7

\* countDeclaration counts in its caller, which is no parseAssignmentExpression.
LEMMA DeclarationMarks == ASSUME LHSInv, ParserInv', countDeclaration PROVE MarkInv'
<1>1. AtOneOf({"countDeclaration"}) /\ UNCHANGED <<nonLHS, value>>
  BY AtIs DEF countDeclaration
<1>2. /\ stack # <<>> /\ Top.todo # <<>> /\ Top.fn \in Functions /\ Now(Top.todo) = "countDeclaration"
      /\ Head(Top.todo) = "countDeclaration" /\ "countDeclaration" \in Symbols
      /\ "countDeclaration" \in Places(Top.fn) /\ Frames /\ GoodFrame(Top) /\ Top \in Frame
  BY <1>1, AtFacts DEF LHSInv
<1>3. Top.fn = "parseVarDeclarationList"
  BY <1>2, OperationsAreOwned
<1>4. /\ "countDeclaration" \in Dropped /\ "countDeclaration" \notin Marking
      /\ "countDeclaration" \notin {"next", "nextIgnoreReserved"}
  BY DEF Dropped, Marking
<1>5. /\ "countDeclaration" \notin Calls /\ <<>> \in Put(Head(Top.todo))
      /\ Top.took \in TookAfter("countDeclaration", Top.took)
  BY <1>2, <1>4, DroppedFacts, KindFacts, TakesFacts DEF TookAfter
<1> SUFFICES ASSUME NEW n \in Nat, n = Len(stack) PROVE MarkInv'
  BY <1>2, TopFacts
<1>6. /\ DOMAIN stack = 1 .. n /\ n \in 1 .. n /\ Top = stack[n]
      /\ \A k \in 1 .. n : stack[k] \in Frame /\ GoodFrame(stack[k])
  BY <1>2, TopFacts, LenProperties DEF Frames, GoodFrame
<1>7. stack' = [i \in 1 .. n |->
                  CASE i = n -> Done(Top)
                    [] i = n - 1 -> [stack[i] EXCEPT !.n = @ + 1]
                    [] OTHER -> stack[i]]
  BY <1>6 DEF countDeclaration
<1>8. Len(stack') = n /\ stack'[n] = Done(Top)
  BY <1>6, <1>7
<1>9. ASSUME NEW k \in 1 .. n - 1 PROVE SameMarks(stack[k], stack'[k])
  <2>1. k \in 1 .. n /\ k # n
    OBVIOUS
  <2>2. CASE k = n - 1
    <3>1. stack'[k] = [stack[k] EXCEPT !.n = @ + 1]
      BY <1>7, <2>1, <2>2
    <3>2. stack[k] \in Frame
      BY <1>6, <2>1
    <3>3. /\ stack'[k].fn = stack[k].fn /\ stack'[k].todo = stack[k].todo
          /\ stack'[k].mark = stack[k].mark /\ stack'[k].took = stack[k].took
      BY <3>1, <3>2 DEF Frame
    <3>4. stack[k].fn # "parseAssignmentExpression"
      <4>1. k \in 1 .. Len(stack) - 1 /\ k + 1 = n
        BY <2>2
      <4>2. /\ stack[k].todo # <<>> /\ Head(stack[k].todo) \in Calls
            /\ \E t \in Tokens : stack[n].fn = Callee(Head(stack[k].todo), t)
        BY <1>2, <4>1 DEF Frames, Calling
      <4>3. Head(stack[k].todo) = "parseVarDeclarationList?"
        BY <1>3, <1>6, <4>2, DeclarationsAreCounted
      <4>4. GoodFrame(stack[k]) /\ stack[k].fn \in Functions
        BY <1>6, <2>1 DEF GoodFrame
      <4>5. /\ "parseVarDeclarationList?" \in Symbols
            /\ "parseVarDeclarationList?" \in Places(stack[k].fn)
        BY <4>2, <4>3, <4>4, CodeFacts
      <4> QED
        BY <4>4, <4>5, OperationsAreOwned
    <3> QED
      BY <3>3, <3>4 DEF SameMarks
  <2>3. CASE k # n - 1
    <3>1. stack'[k] = stack[k]
      BY <1>7, <2>1, <2>3
    <3> QED
      BY <3>1 DEF SameMarks
  <2> QED
    BY <2>2, <2>3
<1> DEFINE d == Tail(Top.todo)
<1>10. d \in After(Top.todo) /\ Done(Top) = [Top EXCEPT !.todo = d]
  BY <1>2, <1>5, RestFacts
<1> HIDE DEF d
<1>11. /\ Done(Top).fn = Top.fn /\ Done(Top).todo = d /\ Done(Top).mark = Top.mark
       /\ Done(Top).took = Top.took
  BY <1>2, <1>10 DEF Frame
<1>12. MarkMove(Top, stack'[n])
  BY <1>2, <1>3, <1>5, <1>8, <1>10, <1>11 DEF MarkMove
<1>13. \A t : NewCount(Top, t) = nonLHS
  BY <1>2 DEF NewCount, Raises
<1>14. MarkStep
  BY <1>1, <1>2, <1>5, <1>8, <1>9, <1>12, <1>13 DEF MarkStep
<1> QED
  BY <1>14, StepKeeps

-----------------------------------------------------------------------------
(* Left-hand sides.                                                         *)

LEMMA InitMarks == ASSUME Init PROVE MarkInv
<1> DEFINE fn == "parseSourceElements"
           g == NewFrame(fn)
<1>1. ParserInv
  BY InitEstablishes
<1>2. stack = <<g>>
  BY DEF Init
<1>3. tok \in Tokens /\ fn \in Functions /\ Frames
  BY <1>1 DEF ParserInv, Registers, Functions
<1>4. g.fn = fn /\ g.todo = Expansion[fn][tok] /\ g.took = FALSE
  BY DEF NewFrame
<1> HIDE DEF g
<1>5. Len(stack) = 1 /\ stack[1] = g /\ Top = g
  BY <1>2 DEF Top, Last
<1>6. /\ ~Compares(g.fn, g.todo) /\ ~Restores(g.fn, g.todo)
      /\ ~HasTree(g.fn, g.took, g.todo) /\ GoodTaking(g)
      /\ Now(g.todo) \notin {"assignment", "forRest", "sameLHS"}
  BY <1>3, <1>4, FreshFacts
<1>7. 1 .. 1 = {1}
  OBVIOUS
<1> QED
  BY <1>5, <1>6, <1>7 DEF MarkInv, MarksGrow, CountsStay, TreeIsCounted, Takings, TreeAtHand,
                          CompareAt, RestoreAt

LEMMA NextKeepsMarks == ASSUME LHSInv, [Next]_vars PROVE LHSInv'
<1>1. ParserInv'
  BY NextKeeps DEF LHSInv
<1>2. UNCHANGED vars => MarkInv'
  BY StopKeepsMarks DEF vars
<1>3. ASSUME Crash({"appendConstDecl", "createGetterOrSetterProperty"}) PROVE MarkInv'
  BY <1>3, StopKeepsMarks DEF Crash
<1>4. MarkInv'
  BY <1>1, <1>2, <1>3, CallKeepsMarks, PlainActions, ChecksMarks, ReturnMarks, SaveMarks,
     DeclarationMarks, CountingMarks, CallOrNewMarks, AssignmentMarks, EndMarks, BinaryMarks
  DEF Next
<1> QED
  BY <1>1, <1>4 DEF LHSInv

\* What m_nonLHSCount says of the functions that will look at it holds in
\* every reachable state.
THEOREM LHSInvariant == Spec => []LHSInv
<1>1. Init => LHSInv
  BY InitEstablishes, InitMarks DEF LHSInv
<1>2. LHSInv /\ [Next]_vars => LHSInv'
  BY NextKeepsMarks
<1> QED
  BY <1>1, <1>2, PTL DEF Spec

\* Where the saved m_nonLHSCount is still the current one, what was parsed
\* is a left-hand side: no other tree is assigned to, or is the target of a
\* for-in loop, however deep the brackets and functions in it are nested.
THEOREM AssignedTreesAreLeftHandSides == Spec => []OnlyLeftHandSidesAreAssigned
<1>1. ASSUME LHSInv, NEW s \in {"assignment", "sameLHS"}, At(s), Top.mark = nonLHS
      PROVE  value = "lhs"
  <2>1. AtOneOf({s})
    BY <1>1, AtIs
  <2>2. /\ Now(Top.todo) = s /\ Top.fn \in Functions /\ s \in Symbols /\ s \in Places(Top.fn)
        /\ stack # <<>> /\ Frames /\ value \in Values /\ nonLHS \in Nat
    BY <1>1, <2>1, AtFacts DEF LHSInv, Registers
  <2>3. /\ s = "assignment" => Top.fn = "parseAssignmentExpression"
        /\ s = "sameLHS" => Top.fn = "parseForStatement"
    BY <2>2, OperationsAreOwned, TreeFlow
  <2>4. Compares(Top.fn, Top.todo) /\ HasTree(Top.fn, Top.took, Top.todo)
    BY <2>2, <2>3 DEF Compares, HasTree
  <2> SUFFICES ASSUME NEW n \in Nat, n = Len(stack), n \in 1 .. n, Top = stack[n]
               PROVE  value = "lhs"
    BY <2>2, TopFacts
  <2>5. CompareAt(n) /\ Linked(n, n)
    <3>1. n + 1 .. n = {}
      OBVIOUS
    <3> QED
      BY <2>4, <3>1 DEF CompareAt, Linked
  <2>6. value = "node" => stack[n].mark < nonLHS
    BY <1>1, <2>2, <2>4, <2>5 DEF LHSInv, MarkInv, TreeIsCounted
  <2>7. value # "node"
    BY <1>1, <2>2, <2>6
  <2>8. value # "null"
    BY <1>1, <2>2 DEF LHSInv, MarkInv, TreeAtHand
  <2> QED
    BY <2>2, <2>7, <2>8 DEF Values
<1>2. LHSInv => OnlyLeftHandSidesAreAssigned
  BY <1>1 DEF OnlyLeftHandSidesAreAssigned
<1> QED
  BY <1>2, LHSInvariant, PTL

=============================================================================
