---------------------------- MODULE BuilderProofs ----------------------------
(* Proofs about the four stacks of the tree builder in JSParser: who owns    *)
(* what is on them, for any number of nested functions and expressions.      *)
EXTENDS ParserProofs, FiniteSetTheorems

-----------------------------------------------------------------------------
(* Sums.                                                                    *)

\* f[k] is the sum of the first k counts.
IsTotal(f, c, n) ==
    f \in [0 .. n -> Nat] /\ f[0] = 0 /\ \A k \in 1 .. n : f[k] = f[k - 1] + c[k]

LEMMA TotalExtends ==
    ASSUME NEW n \in Nat, NEW c \in [1 .. n + 1 -> Nat], NEW f, IsTotal(f, c, n)
    PROVE  \E g : IsTotal(g, c, n + 1)
<1> DEFINE g == [i \in 0 .. n + 1 |-> IF i = n + 1 THEN f[n] + c[n + 1] ELSE f[i]]
<1>1. f \in [0 .. n -> Nat] /\ f[0] = 0 /\ \A k \in 1 .. n : f[k] = f[k - 1] + c[k]
  BY DEF IsTotal
<1>2. n \in 0 .. n /\ n + 1 \in 1 .. n + 1 /\ 0 # n + 1 /\ 0 \in 0 .. n + 1 /\ n + 1 \in 0 .. n + 1
  OBVIOUS
<1>3. f[n] + c[n + 1] \in Nat
  <2>1. f[n] \in Nat /\ c[n + 1] \in Nat
    BY <1>1, <1>2
  <2> QED
    BY <2>1
<1>4. ASSUME NEW i \in 0 .. n + 1 PROVE g[i] \in Nat
  <2>1. CASE i = n + 1
    BY <1>3, <2>1
  <2>2. CASE i \in 0 .. n
    BY <1>1, <2>2
  <2> QED
    BY <2>1, <2>2
<1>5. g[0] = 0
  BY <1>1, <1>2
<1>6. ASSUME NEW k \in 1 .. n + 1 PROVE g[k] = g[k - 1] + c[k]
  <2>1. k - 1 \in 0 .. n /\ k - 1 # n + 1 /\ k \in 0 .. n + 1 /\ k - 1 \in 0 .. n + 1
    OBVIOUS
  <2>2. g[k - 1] = f[k - 1]
    BY <2>1
  <2>3. CASE k = n + 1
    <3>1. k - 1 = n /\ g[k] = f[n] + c[n + 1]
      BY <2>1, <2>3
    <3> QED
      BY <2>2, <2>3, <3>1
  <2>4. CASE k \in 1 .. n
    <3>1. k # n + 1
      BY <2>4
    <3>2. g[k] = f[k]
      BY <2>1, <3>1
    <3>3. f[k] = f[k - 1] + c[k]
      BY <1>1, <2>4
    <3> QED
      BY <2>2, <3>2, <3>3
  <2> QED
    BY <2>3, <2>4
<1>7. g \in [0 .. n + 1 -> Nat]
  BY <1>4
<1> HIDE DEF g
<1> QED
  BY <1>5, <1>6, <1>7 DEF IsTotal

LEMMA TotalsExist ==
    ASSUME NEW n \in Nat, NEW c \in [1 .. n -> Nat]
    PROVE  \E f : IsTotal(f, c, n)
<1> DEFINE Bad == {k \in 0 .. n : ~ \E f : IsTotal(f, c, k)}
<1>1. SUFFICES ASSUME Bad # {} PROVE FALSE
  <2>1. n \in 0 .. n
    OBVIOUS
  <2> QED
    BY <2>1
<1>2. Bad \in SUBSET Nat
  OBVIOUS
<1>3. PICK k \in Bad : \A j \in Bad : k <= j
  BY <1>1, <1>2, LeastElement
<1>4. k # 0
  <2>1. IsTotal([i \in 0 .. 0 |-> 0], c, 0)
    <3>1. 0 .. 0 = {0} /\ 1 .. 0 = {}
      OBVIOUS
    <3> QED
      BY <3>1 DEF IsTotal
  <2> QED
    BY <1>3, <2>1
<1>5. k - 1 \in Nat /\ k - 1 \in 0 .. n /\ k - 1 + 1 = k /\ ~(k <= k - 1)
  BY <1>4
<1>6. PICK f : IsTotal(f, c, k - 1)
  BY <1>3, <1>5
<1> DEFINE d == [i \in 1 .. k |-> c[i]]
<1>7. d \in [1 .. k -> Nat] /\ \A i \in 1 .. k : d[i] = c[i]
  OBVIOUS
<1> HIDE DEF d
<1>8. IsTotal(f, d, k - 1)
  <2>1. \A i \in 1 .. k - 1 : i \in 1 .. k
    BY <1>5
  <2> QED
    BY <1>6, <1>7, <2>1 DEF IsTotal
<1>9. PICK g : IsTotal(g, d, k - 1 + 1)
  <2>1. d \in [1 .. k - 1 + 1 -> Nat]
    BY <1>5, <1>7
  <2> QED
    BY <1>5, <1>8, <2>1, TotalExtends
<1>10. IsTotal(g, c, k)
  BY <1>5, <1>7, <1>9 DEF IsTotal
<1> QED
  BY <1>3, <1>10

LEMMA TotalsAgree ==
    ASSUME NEW n \in Nat, NEW c, NEW f, NEW g, IsTotal(f, c, n), IsTotal(g, c, n)
    PROVE  \A k \in 0 .. n : f[k] = g[k]
<1> DEFINE Bad == {k \in 0 .. n : f[k] # g[k]}
<1>1. SUFFICES ASSUME Bad # {} PROVE FALSE
  OBVIOUS
<1>2. Bad \in SUBSET Nat
  OBVIOUS
<1>3. PICK k \in Bad : \A j \in Bad : k <= j
  BY <1>1, <1>2, LeastElement
<1>4. k # 0
  BY <1>3 DEF IsTotal
<1>5. k - 1 \in 0 .. n /\ k \in 1 .. n /\ ~(k <= k - 1)
  BY <1>4
<1>6. f[k - 1] = g[k - 1]
  BY <1>3, <1>5
<1>7. f[k] = f[k - 1] + c[k] /\ g[k] = g[k - 1] + c[k]
  BY <1>5 DEF IsTotal
<1> QED
  BY <1>3, <1>6, <1>7

LEMMA TotalIs ==
    ASSUME NEW n \in Nat, NEW c \in [1 .. n -> Nat], NEW f, IsTotal(f, c, n)
    PROVE  Total(c) = f[n]
<1> DEFINE P(g) == g = [k \in 0 .. Len(c) |-> IF k = 0 THEN 0 ELSE g[k - 1] + c[k]]
           sum == CHOOSE g : P(g)
<1>1. Len(c) = n
  OBVIOUS
<1>2. Total(c) = sum[n]
  BY <1>1 DEF Total
<1>3. f = [k \in 0 .. n |-> IF k = 0 THEN 0 ELSE f[k - 1] + c[k]]
  <2>1. f = [k \in 0 .. n |-> f[k]]
    BY DEF IsTotal
  <2>2. \A k \in 0 .. n : f[k] = IF k = 0 THEN 0 ELSE f[k - 1] + c[k]
    <3>1. \A k \in 0 .. n : k = 0 \/ k \in 1 .. n
      OBVIOUS
    <3> QED
      BY <3>1 DEF IsTotal
  <2> QED
    BY <2>1, <2>2
<1>4. P(f)
  BY <1>1, <1>3
<1>5. P(sum)
  <2> HIDE DEF P
  <2> QED
    BY <1>4
<1>6. sum = [k \in 0 .. n |-> IF k = 0 THEN 0 ELSE sum[k - 1] + c[k]]
  BY <1>1, <1>5
<1> HIDE DEF sum
<1> DEFINE Bad == {k \in 0 .. n : sum[k] # f[k]}
<1>7. ASSUME Bad # {} PROVE FALSE
  <2>1. PICK k \in Bad : \A j \in Bad : k <= j
    <3>1. Bad \in SUBSET Nat
      OBVIOUS
    <3> QED
      BY <1>7, <3>1, LeastElement
  <2>2. sum[0] = 0 /\ \A j \in 1 .. n : sum[j] = sum[j - 1] + c[j]
    <3>1. 0 \in 0 .. n /\ \A j \in 1 .. n : j \in 0 .. n /\ j # 0
      OBVIOUS
    <3> QED
      BY <1>6, <3>1
  <2>3. k # 0
    BY <2>1, <2>2 DEF IsTotal
  <2>4. k - 1 \in 0 .. n /\ k \in 1 .. n /\ ~(k <= k - 1)
    BY <2>3
  <2>5. sum[k - 1] = f[k - 1]
    BY <2>1, <2>4
  <2>6. f[k] = f[k - 1] + c[k]
    BY <2>4 DEF IsTotal
  <2> QED
    BY <2>1, <2>2, <2>4, <2>5, <2>6
<1>8. n \in 0 .. n
  OBVIOUS
<1> QED
  BY <1>2, <1>7, <1>8

\* What the sum of a sequence is, from the sum of its front.
LEMMA TotalFacts ==
    ASSUME NEW n \in Nat, NEW c \in [1 .. n -> Nat]
    PROVE  /\ Total(c) \in Nat
           /\ n = 0 => Total(c) = 0
           /\ n # 0 => Total(c) = Total([i \in 1 .. n - 1 |-> c[i]]) + c[n]
<1>1. PICK f : IsTotal(f, c, n)
  BY TotalsExist
<1>2. Total(c) = f[n]
  BY <1>1, TotalIs
<1>3. Total(c) \in Nat /\ (n = 0 => Total(c) = 0)
  <2>1. n \in 0 .. n
    OBVIOUS
  <2> QED
    BY <1>1, <1>2, <2>1 DEF IsTotal
<1>4. ASSUME n # 0 PROVE Total(c) = Total([i \in 1 .. n - 1 |-> c[i]]) + c[n]
  <2> DEFINE m == n - 1
             d == [i \in 1 .. m |-> c[i]]
             g == [k \in 0 .. m |-> f[k]]
  <2>1. m \in Nat /\ n = m + 1 /\ n \in 1 .. n
    BY <1>4
  <2> HIDE DEF m
  <2>2. d \in [1 .. m -> Nat] /\ \A i \in 1 .. m : d[i] = c[i]
    BY <2>1
  <2>3. f \in [0 .. n -> Nat] /\ f[0] = 0 /\ \A k \in 1 .. n : f[k] = f[k - 1] + c[k]
    BY <1>1 DEF IsTotal
  <2>4. g \in [0 .. m -> Nat] /\ \A k \in 0 .. m : g[k] = f[k]
    BY <2>1, <2>3
  <2> HIDE DEF d, g
  <2>5. \A k \in 1 .. m : k - 1 \in 0 .. m /\ k \in 0 .. m /\ k \in 1 .. n
    BY <2>1
  <2>6. 0 \in 0 .. m /\ m \in 0 .. m
    BY <2>1
  <2>7. IsTotal(g, d, m)
    BY <2>2, <2>3, <2>4, <2>5, <2>6 DEF IsTotal
  <2>8. Total(d) = f[m]
    BY <2>1, <2>2, <2>4, <2>6, <2>7, TotalIs
  <2>9. f[n] = f[m] + c[n]
    BY <2>1, <2>3
  <2> QED
    BY <1>2, <2>8, <2>9 DEF d, m
<1> QED
  BY <1>3, <1>4

-----------------------------------------------------------------------------
(* Which builder a function works on.                                       *)

Body(f) == f.fn = "parseFunctionBody" /\ f.n = 1

LEMMA LevelSteps ==
    ASSUME NEW i \in Nat, i # 0
    PROVE  /\ Level(i) \in Nat /\ Level(i) >= 1 /\ Level(1) = 1
           /\ Level(i + 1) = Level(i) + (IF Body(stack[i]) THEN 1 ELSE 0)
<1> DEFINE B(k) == {j \in 1 .. k - 1 : Body(stack[j])}
<1>1. \A k : Level(k) = 1 + Cardinality(B(k))
  BY DEF Level, Body
<1>2. ASSUME NEW k \in Nat PROVE IsFiniteSet(B(k)) /\ Cardinality(B(k)) \in Nat
  <2>1. IsFiniteSet(1 .. k - 1)
    BY FS_Interval
  <2>2. B(k) \subseteq 1 .. k - 1
    OBVIOUS
  <2> HIDE DEF B
  <2> QED
    BY <2>1, <2>2, FS_Subset, FS_CardinalityType
<1>3. Level(1) = 1
  <2>1. B(1) = {}
    OBVIOUS
  <2> HIDE DEF B
  <2> QED
    BY <1>1, <2>1, FS_EmptySet
<1>4. Level(i) \in Nat /\ Level(i) >= 1
  <2> HIDE DEF B
  <2> QED
    BY <1>1, <1>2
<1>5. Level(i + 1) = Level(i) + (IF Body(stack[i]) THEN 1 ELSE 0)
  <2>1. i \notin B(i)
    OBVIOUS
  <2>2. i + 1 - 1 = i /\ 1 .. i = (1 .. i - 1) \cup {i}
    OBVIOUS
  <2>3. B(i + 1) = IF Body(stack[i]) THEN B(i) \cup {i} ELSE B(i)
    BY <2>2
  <2> HIDE DEF B
  <2>4. Cardinality(B(i) \cup {i}) = Cardinality(B(i)) + 1
    BY <1>2, <2>1, FS_AddElement
  <2>5. Cardinality(B(i)) \in Nat
    BY <1>2
  <2> QED
    BY <1>1, <2>3, <2>4, <2>5
<1> QED
  BY <1>3, <1>4, <1>5

LEMMA LevelMonotone ==
    ASSUME NEW j \in Nat, NEW i \in 1 .. j
    PROVE  Level(i) \in 1 .. Level(j) /\ Level(j) \in Nat
<1> DEFINE B(k) == {x \in 1 .. k - 1 : Body(stack[x])}
<1>1. \A k : Level(k) = 1 + Cardinality(B(k))
  BY DEF Level, Body
<1>2. IsFiniteSet(B(j))
  <2>1. IsFiniteSet(1 .. j - 1)
    BY FS_Interval
  <2>2. B(j) \subseteq 1 .. j - 1
    OBVIOUS
  <2> HIDE DEF B
  <2> QED
    BY <2>1, <2>2, FS_Subset
<1>3. B(i) \subseteq B(j)
  OBVIOUS
<1> HIDE DEF B
<1>4. /\ Cardinality(B(i)) <= Cardinality(B(j))
      /\ Cardinality(B(i)) \in Nat /\ Cardinality(B(j)) \in Nat
  BY <1>2, <1>3, FS_Subset, FS_CardinalityType
<1> QED
  BY <1>1, <1>4

LEMMA LevelSame ==
    ASSUME NEW i, \A j \in 1 .. i - 1 : Body(stack'[j]) <=> Body(stack[j])
    PROVE  Level(i)' = Level(i)
<1>1. {j \in 1 .. i - 1 : Body(stack'[j])} = {j \in 1 .. i - 1 : Body(stack[j])}
  OBVIOUS
<1> QED
  BY <1>1 DEF Level, Body

-----------------------------------------------------------------------------
(* What is on the stacks, and whose it is.                                  *)

Kinds == {"operands", "operators", "unary", "assignments"}

\* What a function has on a stack; what a builder has on it.
Weight(kind, f) ==
    CASE kind = "operands" /\ f.fn = "parseBinaryExpression" -> f.n
      [] kind = "operators" /\ f.fn = "parseBinaryExpression" -> f.m
      [] kind = "unary" /\ f.fn = "parseUnaryExpression" -> f.n
      [] kind = "assignments" /\ f.fn = "parseAssignmentExpression" -> f.n
      [] OTHER -> 0
Size(kind, b) ==
    CASE kind = "operands" -> b.operands
      [] kind = "operators" -> Len(b.operators)
      [] kind = "unary" -> b.unary
      [] kind = "assignments" -> b.assignments

\* What the first k functions have on a stack of builder b.
Counts(kind, b, k) == [i \in 1 .. k |-> IF Level(i) = b THEN Weight(kind, stack[i]) ELSE 0]
Share(kind, b, k) == Total(Counts(kind, b, k))

LEMMA WeightIs ==
    ASSUME NEW f
    PROVE  /\ Weight("operands", f) = IF f.fn = "parseBinaryExpression" THEN f.n ELSE 0
           /\ Weight("operators", f) = IF f.fn = "parseBinaryExpression" THEN f.m ELSE 0
           /\ Weight("unary", f) = IF f.fn = "parseUnaryExpression" THEN f.n ELSE 0
           /\ Weight("assignments", f) = IF f.fn = "parseAssignmentExpression" THEN f.n ELSE 0
BY DEF Weight

LEMMA WeightType == ASSUME NEW f \in Frame, NEW kind PROVE Weight(kind, f) \in Nat
<1>1. f.n \in Nat /\ f.m \in Nat
  BY DEF Frame
<1> QED
  BY <1>1 DEF Weight

LEMMA SizeIs ==
    ASSUME NEW b
    PROVE  /\ Size("operands", b) = b.operands /\ Size("operators", b) = Len(b.operators)
           /\ Size("unary", b) = b.unary /\ Size("assignments", b) = b.assignments
BY DEF Size

LEMMA ShareFacts ==
    ASSUME NEW n \in Nat, \A i \in 1 .. n : stack[i] \in Frame, NEW kind, NEW b
    PROVE  /\ \A k \in 0 .. n : Share(kind, b, k) \in Nat
           /\ Share(kind, b, 0) = 0
           /\ \A k \in 1 .. n : Share(kind, b, k) = Share(kind, b, k - 1)
                + (IF Level(k) = b THEN Weight(kind, stack[k]) ELSE 0)
<1>1. \A k \in 0 .. n : Counts(kind, b, k) \in [1 .. k -> Nat]
  <2> SUFFICES ASSUME NEW k \in 0 .. n PROVE Counts(kind, b, k) \in [1 .. k -> Nat]
    OBVIOUS
  <2>1. \A i \in 1 .. k : Weight(kind, stack[i]) \in Nat
    <3>1. \A i \in 1 .. k : i \in 1 .. n
      OBVIOUS
    <3> QED
      BY <3>1, WeightType
  <2> QED
    BY <2>1 DEF Counts
<1>2. \A k \in 0 .. n : k \in Nat
  OBVIOUS
<1>3. \A k \in 0 .. n : Share(kind, b, k) \in Nat
  BY <1>1, <1>2, TotalFacts DEF Share
<1>4. Share(kind, b, 0) = 0
  <2>1. 0 \in 0 .. n
    OBVIOUS
  <2> QED
    BY <1>1, <1>2, <2>1, TotalFacts DEF Share
<1>5. ASSUME NEW k \in 1 .. n
      PROVE  Share(kind, b, k) = Share(kind, b, k - 1)
                + (IF Level(k) = b THEN Weight(kind, stack[k]) ELSE 0)
  <2> DEFINE c == Counts(kind, b, k)
             m == k - 1
  <2>1. k \in 0 .. n /\ k \in Nat /\ k # 0 /\ k \in 1 .. k
    OBVIOUS
  <2>2. c \in [1 .. k -> Nat]
    BY <1>1, <2>1
  <2>3. c[k] = IF Level(k) = b THEN Weight(kind, stack[k]) ELSE 0
    BY <2>1 DEF Counts
  <2>4. [i \in 1 .. m |-> c[i]] = Counts(kind, b, m)
    <3>1. \A i \in 1 .. m : i \in 1 .. k
      OBVIOUS
    <3>2. \A i \in 1 .. m : c[i] = IF Level(i) = b THEN Weight(kind, stack[i]) ELSE 0
      BY <3>1 DEF Counts
    <3> HIDE DEF c, m
    <3> QED
      BY <3>2 DEF Counts
  <2>5. Total(c) = Total([i \in 1 .. m |-> c[i]]) + c[k]
    <3> HIDE DEF c
    <3> QED
      BY <2>1, <2>2, TotalFacts
  <2> QED
    BY <2>3, <2>4, <2>5 DEF Share
<1> QED
  BY <1>3, <1>4, <1>5

LEMMA ShareSame ==
    ASSUME NEW k, NEW kind, NEW b,
           \A i \in 1 .. k : /\ Level(i)' = Level(i)
                             /\ Weight(kind, stack'[i]) = Weight(kind, stack[i])
    PROVE  Share(kind, b, k)' = Share(kind, b, k)
<1>1. Counts(kind, b, k)' = Counts(kind, b, k)
  BY DEF Counts
<1> QED
  BY <1>1 DEF Share

LEMMA ShareMonotone ==
    ASSUME NEW n \in Nat, \A i \in 1 .. n : stack[i] \in Frame, NEW kind, NEW b, NEW i \in 0 .. n
    PROVE  \A k \in i .. n : Share(kind, b, i) <= Share(kind, b, k)
<1> DEFINE Bad == {k \in i .. n : ~(Share(kind, b, i) <= Share(kind, b, k))}
<1>1. SUFFICES ASSUME Bad # {} PROVE FALSE
  OBVIOUS
<1>2. Bad \in SUBSET Nat
  OBVIOUS
<1>3. PICK k \in Bad : \A j \in Bad : k <= j
  BY <1>1, <1>2, LeastElement
<1>4. Share(kind, b, i) \in Nat
  BY ShareFacts
<1>5. k # i
  BY <1>3, <1>4
<1>6. k - 1 \in i .. n /\ k \in 1 .. n /\ k - 1 \in 0 .. n /\ ~(k <= k - 1)
  BY <1>5
<1>7. Share(kind, b, i) <= Share(kind, b, k - 1)
  BY <1>3, <1>6
<1>8. /\ Share(kind, b, k) = Share(kind, b, k - 1)
           + (IF Level(k) = b THEN Weight(kind, stack[k]) ELSE 0)
      /\ Share(kind, b, k - 1) \in Nat
  BY <1>6, ShareFacts
<1>9. Weight(kind, stack[k]) \in Nat
  BY <1>6, WeightType
<1>10. Share(kind, b, i) <= Share(kind, b, k)
  BY <1>4, <1>7, <1>8, <1>9
<1> QED
  BY <1>3, <1>10

-----------------------------------------------------------------------------
(* The inductive invariant.                                                 *)

\* Every builder has its type and holds at least what its functions own; and
\* exactly that, as long as nothing has failed.
Balanced ==
    /\ builders \in Seq(Builder)
    /\ Len(builders) = Level(Len(stack) + 1)
    /\ \A b \in 1 .. Len(builders), kind \in Kinds :
         /\ Size(kind, builders[b]) >= Share(kind, b, Len(stack))
         /\ ~error => Size(kind, builders[b]) = Share(kind, b, Len(stack))

\* The operators a function has on the stack bind tighter and tighter.
Ascending(ops, from, to) == \A p \in from + 1 .. to - 1 : ops[p] < ops[p + 1]

Ordered ==
    ~error => \A i \in 1 .. Len(stack), b \in 1 .. Len(builders) :
        stack[i].fn = "parseBinaryExpression" /\ Level(i) = b =>
            Ascending(builders[b].operators,
                      Share("operators", b, i - 1), Share("operators", b, i))

Stacks == Balanced /\ Ordered
BuilderInv == ParserInv /\ Stacks


-----------------------------------------------------------------------------
(* Frames, functions on the stack and the builder they work on.             *)

Counting == {"parseBinaryExpression", "parseUnaryExpression", "parseAssignmentExpression"}

\* g is f as far as the stacks of the builder are concerned.
Alike(f, g) ==
    g.fn = f.fn /\ ((g.n = f.n /\ g.m = f.m) \/ f.fn \notin Counting \cup {"parseFunctionBody"})

LEMMA AlikeFacts ==
    ASSUME NEW f, NEW g, Alike(f, g)
    PROVE  /\ g.fn = f.fn /\ (Body(g) <=> Body(f))
           /\ \A kind \in Kinds : Weight(kind, g) = Weight(kind, f)
<1>1. g.fn = f.fn /\ ((g.n = f.n /\ g.m = f.m) \/ f.fn \notin Counting \cup {"parseFunctionBody"})
  BY DEF Alike
<1>2. Body(g) <=> Body(f)
  BY <1>1 DEF Body
<1>3. ASSUME NEW kind \in Kinds PROVE Weight(kind, g) = Weight(kind, f)
  <2>1. CASE g.n = f.n /\ g.m = f.m
    BY <1>1, <2>1, <1>3, WeightIs DEF Kinds
  <2>2. CASE f.fn \notin Counting
    BY <1>1, <2>2, <1>3, WeightIs DEF Kinds, Counting
  <2> QED
    BY <1>1, <2>1, <2>2
<1> QED
  BY <1>1, <1>2, <1>3

LEMMA NoWeight ==
    ASSUME NEW f, f.fn \notin Counting \/ (f.n = 0 /\ f.m = 0)
    PROVE  \A kind \in Kinds : Weight(kind, f) = 0
BY WeightIs DEF Kinds, Counting

\* What is set at the end of the stack, whatever it is.
\* The builder of the innermost function is the last one.
LEMMA InUse ==
    ASSUME Frames, stack # <<>>, Balanced
    PROVE  /\ Len(builders) \in Nat /\ Len(builders) >= 1
           /\ Len(builders) \in 1 .. Len(builders)
           /\ Context = builders[Len(builders)] /\ Context \in Builder
           /\ Len(builders) = Level(Len(stack)) + (IF Body(Top) THEN 1 ELSE 0)
           /\ \A i \in 1 .. Len(stack) : Level(i) \in 1 .. Len(builders) /\ Level(i) \in Nat
           /\ Level(Len(stack)) \in Nat /\ Level(Len(stack)) >= 1
<1>1. /\ Len(stack) \in Nat /\ Len(stack) # 0 /\ Top = stack[Len(stack)]
      /\ Len(stack) + 1 \in Nat /\ Len(stack) + 1 # 0
  BY TopFacts
<1>2. builders \in Seq(Builder) /\ Len(builders) = Level(Len(stack) + 1)
  BY DEF Balanced
<1>3. /\ Level(Len(stack)) \in Nat /\ Level(Len(stack)) >= 1
      /\ Level(Len(stack) + 1) = Level(Len(stack)) + (IF Body(Top) THEN 1 ELSE 0)
  BY <1>1, LevelSteps
<1>4. Len(builders) >= 1 /\ Len(builders) \in Nat
  BY <1>2, <1>3
<1>5. Len(builders) \in 1 .. Len(builders) /\ builders # <<>>
  BY <1>2, <1>4, EmptySeq
<1>6. Context = builders[Len(builders)] /\ Context \in Builder
  BY <1>2, <1>5, ElementOfSeq DEF Context, Last
<1>7. ASSUME NEW i \in 1 .. Len(stack) PROVE Level(i) \in 1 .. Len(builders) /\ Level(i) \in Nat
  <2>1. i \in 1 .. Len(stack) + 1
    BY <1>1
  <2>2. Level(i) \in 1 .. Level(Len(stack) + 1)
    BY <1>1, <2>1, LevelMonotone
  <2> QED
    BY <1>2, <2>2
<1> QED
  BY <1>2, <1>3, <1>4, <1>5, <1>6, <1>7

\* Sums over functions that work on other builders.
LEMMA ShareNone ==
    ASSUME NEW n \in Nat, \A i \in 1 .. n : stack[i] \in Frame, NEW kind, NEW b,
           \A i \in 1 .. n : Level(i) # b
    PROVE  Share(kind, b, n) = 0
<1> DEFINE Bad == {k \in 0 .. n : Share(kind, b, k) # 0}
<1>1. SUFFICES ASSUME Bad # {} PROVE FALSE
  <2>1. n \in 0 .. n
    OBVIOUS
  <2> QED
    BY <2>1
<1>2. Bad \in SUBSET Nat
  OBVIOUS
<1>3. PICK k \in Bad : \A j \in Bad : k <= j
  BY <1>1, <1>2, LeastElement
<1>4. k # 0
  BY <1>3, ShareFacts
<1>5. k - 1 \in 0 .. n /\ k \in 1 .. n /\ ~(k <= k - 1)
  BY <1>4
<1>6. Share(kind, b, k - 1) = 0
  BY <1>3, <1>5
<1>7. Share(kind, b, k) = Share(kind, b, k - 1) + 0
  BY <1>5, ShareFacts
<1> QED
  BY <1>3, <1>6, <1>7

-----------------------------------------------------------------------------
(* The same for the next state: what is true in every state is true in it.  *)

Sums(n) ==
    \A kind, b :
        /\ \A k \in 0 .. n : Share(kind, b, k) \in Nat
        /\ Share(kind, b, 0) = 0
        /\ \A k \in 1 .. n : Share(kind, b, k) = Share(kind, b, k - 1)
             + (IF Level(k) = b THEN Weight(kind, stack[k]) ELSE 0)
        /\ (\A i \in 1 .. n : Level(i) # b) => Share(kind, b, n) = 0

Levels(n) ==
    /\ Level(n) \in Nat /\ Level(n) >= 1 /\ Level(1) = 1
    /\ Level(n + 1) = Level(n) + (IF Body(stack[n]) THEN 1 ELSE 0)

SumRules ==
    \A n \in Nat : /\ n # 0 => Levels(n)
                   /\ (\A i \in 1 .. n : stack[i] \in Frame) => Sums(n)

LEMMA SumRulesHold == SumRules
<1>1. ASSUME NEW n \in Nat, \A i \in 1 .. n : stack[i] \in Frame PROVE Sums(n)
  <2>1. ASSUME NEW kind, NEW b
        PROVE  /\ \A k \in 0 .. n : Share(kind, b, k) \in Nat
               /\ Share(kind, b, 0) = 0
               /\ \A k \in 1 .. n : Share(kind, b, k) = Share(kind, b, k - 1)
                    + (IF Level(k) = b THEN Weight(kind, stack[k]) ELSE 0)
               /\ (\A i \in 1 .. n : Level(i) # b) => Share(kind, b, n) = 0
    BY <1>1, ShareFacts, ShareNone
  <2> QED
    BY <2>1 DEF Sums
<1>2. ASSUME NEW n \in Nat, n # 0 PROVE Levels(n)
  BY <1>2, LevelSteps DEF Levels
<1> QED
  BY <1>1, <1>2 DEF SumRules

LEMMA SumRulesGoOn == SumRules'
BY SumRulesHold, PTL

LEMMA NextRules ==
    \A n \in Nat : /\ n # 0 => Levels(n)'
                   /\ (\A i \in 1 .. n : stack'[i] \in Frame) => Sums(n)'
BY SumRulesGoOn DEF SumRules

LEMMA NowRules ==
    \A n \in Nat : /\ n # 0 => Levels(n)
                   /\ (\A i \in 1 .. n : stack[i] \in Frame) => Sums(n)
BY SumRulesHold DEF SumRules

-----------------------------------------------------------------------------
(* What the kinds of steps keep.                                            *)

\* The first n functions have kept what they have on the stacks.
Kept(n) == \A i \in 1 .. n : Alike(stack[i], stack'[i])

LEMMA KeptFacts ==
    ASSUME NEW n \in Nat, Kept(n)
    PROVE  /\ \A i \in 1 .. n : stack'[i].fn = stack[i].fn /\ (Body(stack'[i]) <=> Body(stack[i]))
           /\ \A i \in 1 .. n + 1 : Level(i)' = Level(i)
           /\ \A b : \A kind \in Kinds, k \in 0 .. n : Share(kind, b, k)' = Share(kind, b, k)
<1>1. \A i \in 1 .. n : /\ stack'[i].fn = stack[i].fn /\ (Body(stack'[i]) <=> Body(stack[i]))
                        /\ \A kind \in Kinds : Weight(kind, stack'[i]) = Weight(kind, stack[i])
  BY AlikeFacts DEF Kept
<1>2. ASSUME NEW i \in 1 .. n + 1 PROVE Level(i)' = Level(i)
  <2>1. \A j \in 1 .. i - 1 : j \in 1 .. n
    OBVIOUS
  <2> QED
    BY <1>1, <2>1, LevelSame
<1>3. ASSUME NEW kind \in Kinds, NEW b, NEW k \in 0 .. n
      PROVE  Share(kind, b, k)' = Share(kind, b, k)
  <2>1. \A i \in 1 .. k : i \in 1 .. n /\ i \in 1 .. n + 1
    OBVIOUS
  <2> QED
    BY <1>1, <1>2, <2>1, ShareSame
<1> QED
  BY <1>1, <1>2, <1>3

LEMMA AlikeIsRefl == \A f : Alike(f, f)
BY DEF Alike

\* The order of the operators of the first n functions, where those are kept
\* and the lists below them too.
LEMMA OrderKept ==
    ASSUME Frames, Balanced, Ordered, ~error,
           NEW n \in Nat, n <= Len(stack), Kept(n), NEW i \in 1 .. n, NEW b,
           stack'[i].fn = "parseBinaryExpression", Level(i)' = b,
           \A p \in 1 .. Share("operators", b, n) :
             builders'[b].operators[p] = builders[b].operators[p]
    PROVE  Ascending(builders'[b].operators,
                     Share("operators", b, i - 1)', Share("operators", b, i)')
<1>1. /\ i \in 1 .. Len(stack) /\ i \in 1 .. n + 1 /\ i \in 0 .. n /\ i - 1 \in 0 .. n
      /\ n \in i .. n /\ n \in 0 .. n /\ "operators" \in Kinds
  BY StackFacts DEF Kinds, Frames
<1> DEFINE from == Share("operators", b, i - 1)
           to == Share("operators", b, i)
<1>2. stack'[i].fn = stack[i].fn /\ Level(i) = b
  BY <1>1, KeptFacts
<1>3. Share("operators", b, i - 1)' = from /\ Share("operators", b, i)' = to
  BY <1>1, KeptFacts
<1>4. b \in 1 .. Len(builders)
  <2>1. stack # <<>>
    BY <1>1, StackFacts DEF Frames
  <2> QED
    BY <1>1, <1>2, <2>1, InUse
<1>5. Ascending(builders[b].operators, from, to)
  BY <1>1, <1>2, <1>4 DEF Ordered
<1>6. \A j \in 1 .. n : stack[j] \in Frame
  <2>1. \A j \in 1 .. n : j \in 1 .. Len(stack)
    BY StackFacts DEF Frames
  <2> QED
    BY <2>1 DEF Frames, GoodFrame
<1>7. /\ from \in Nat /\ to \in Nat /\ Share("operators", b, n) \in Nat
      /\ to <= Share("operators", b, n)
  <2>1. from \in Nat /\ to \in Nat /\ Share("operators", b, n) \in Nat
    BY <1>1, <1>6, ShareFacts
  <2>2. to <= Share("operators", b, n)
    BY <1>1, <1>6, ShareMonotone
  <2> QED
    BY <2>1, <2>2
<1> HIDE DEF from, to
<1>8. \A p \in from + 1 .. to - 1 : /\ p \in 1 .. Share("operators", b, n)
                                    /\ p + 1 \in 1 .. Share("operators", b, n)
  BY <1>7
<1>9. Ascending(builders'[b].operators, from, to)
  BY <1>5, <1>8 DEF Ascending
<1> QED
  BY <1>3, <1>9

\* A step in which no function changes what it has on the stacks.
LEMMA SteadyKeeps ==
    ASSUME Frames, Balanced, Ordered, Frames', Len(stack') = Len(stack), Kept(Len(stack)),
           UNCHANGED builders, ~error' => ~error
    PROVE  Balanced' /\ Ordered'
<1> DEFINE n == Len(stack)
<1>1. n \in Nat /\ n + 1 \in 1 .. n + 1 /\ n \in 0 .. n /\ n <= n
  BY StackFacts DEF Frames
<1>2. Balanced'
  <2>1. Level(n + 1)' = Level(n + 1)
    BY <1>1, KeptFacts
  <2>2. \A b : \A kind \in Kinds : Share(kind, b, n)' = Share(kind, b, n)
    BY <1>1, KeptFacts
  <2> QED
    BY <2>1, <2>2 DEF Balanced
<1>3. ASSUME ~error', NEW i \in 1 .. n, NEW b \in 1 .. Len(builders),
             stack'[i].fn = "parseBinaryExpression", Level(i)' = b
      PROVE  Ascending(builders'[b].operators,
                       Share("operators", b, i - 1)', Share("operators", b, i)')
  BY <1>1, <1>3, OrderKept
<1>4. Ordered'
  BY <1>3 DEF Ordered
<1> QED
  BY <1>2, <1>4

\* A call: the new function has nothing on the stacks yet.
LEMMA CalledKeeps ==
    ASSUME Frames, Balanced, Ordered, Frames', stack # <<>>, NEW g, g.n = 0, g.m = 0,
           stack' = Append(stack, g), g \in Frame, UNCHANGED <<builders, error>>
    PROVE  Balanced' /\ Ordered'
<1> SUFFICES ASSUME NEW n \in Nat, n = Len(stack), n # 0
             PROVE  Balanced' /\ Ordered'
  BY TopFacts
<1>1. /\ n \in Nat /\ n # 0 /\ n + 1 \in 1 .. n + 1 /\ n \in 0 .. n /\ n <= n
      /\ n + 1 \in Nat /\ n + 1 # 0 /\ n + 1 - 1 = n /\ n \in 1 .. n
      /\ n \in 0 .. n + 1 /\ n + 1 \in 1 .. n + 1
  OBVIOUS
<1>2. /\ Len(stack') = n + 1 /\ stack'[n + 1] = g
      /\ \A k \in 1 .. n : stack'[k] = stack[k]
  BY FrameAdded DEF Frames
<1>3. Kept(n)
  BY <1>2, AlikeIsRefl DEF Kept
<1>4. ~Body(g) /\ \A kind \in Kinds : Weight(kind, g) = 0
  BY NoWeight DEF Body
<1>5. \A i \in 1 .. n + 1 : stack'[i] \in Frame
  <2>1. Frames' => \A i \in 1 .. Len(stack') : stack'[i] \in Frame
    BY DEF Frames, GoodFrame
  <2> QED
    BY <1>2, <2>1
<1>6. Level(n + 1)' = Level(n + 1) /\ Level(n + 1 + 1)' = Level(n + 1)' + 0 /\ Level(n + 1)' \in Nat
  <2>1. Levels(n + 1)'
    BY <1>1, NextRules
  <2>2. Level(n + 1)' = Level(n + 1)
    BY <1>1, <1>3, KeptFacts
  <2> QED
    BY <1>2, <1>4, <2>1, <2>2 DEF Levels
<1>7. ASSUME NEW kind \in Kinds, NEW b
      PROVE  Share(kind, b, n + 1)' = Share(kind, b, n) /\ Share(kind, b, n)' = Share(kind, b, n)
  <2>1. Share(kind, b, n)' = Share(kind, b, n)
    BY <1>1, <1>3, KeptFacts
  <2>2. Sums(n + 1)'
    BY <1>1, <1>5, NextRules
  <2>3. Share(kind, b, n)' \in Nat
    BY <1>1, <2>2 DEF Sums
  <2>4. Share(kind, b, n + 1)' = Share(kind, b, n + 1 - 1)'
          + (IF Level(n + 1)' = b THEN Weight(kind, stack'[n + 1]) ELSE 0)
    BY <1>1, <2>2 DEF Sums
  <2> QED
    BY <1>1, <1>2, <1>4, <2>1, <2>3, <2>4
<1>8. Balanced'
  <2>2. Level(n + 1 + 1)' = Level(n + 1)
    BY <1>6
  <2> QED
    BY <1>2, <1>7, <2>2 DEF Balanced
<1>9. ASSUME ~error', NEW i \in 1 .. n + 1, NEW b \in 1 .. Len(builders),
             stack'[i].fn = "parseBinaryExpression", Level(i)' = b
      PROVE  Ascending(builders'[b].operators,
                       Share("operators", b, i - 1)', Share("operators", b, i)')
  <2>1. CASE i \in 1 .. n
    BY <1>1, <1>3, <1>9, <2>1, OrderKept
  <2>2. CASE i = n + 1
    <3> DEFINE x == Share("operators", b, n)
    <3>1. "operators" \in Kinds /\ \A j \in 1 .. n : stack[j] \in Frame
      BY StackFacts DEF Frames, Kinds
    <3>2. /\ Share("operators", b, i - 1)' = x /\ Share("operators", b, i)' = x
      BY <1>1, <1>7, <2>2, <3>1
    <3>3. x \in Nat
      BY <1>1, <3>1, ShareFacts
    <3> HIDE DEF x
    <3>4. Ascending(builders'[b].operators, x, x)
      BY <3>3 DEF Ascending
    <3> QED
      BY <3>2, <3>4
  <2> QED
    BY <1>1, <2>1, <2>2
<1>10. Ordered'
  BY <1>2, <1>9 DEF Ordered
<1> QED
  BY <1>8, <1>10

\* A return: what the function leaves behind is forgotten where nothing has
\* failed, for then it leaves nothing.
LEMMA LeftKeeps ==
    ASSUME Frames, Balanced, Ordered, Frames', stack # <<>>, NEW v, Leave(v),
           error' \/ (~error /\ \A kind \in Kinds : Weight(kind, Top) = 0)
    PROVE  Balanced' /\ Ordered'
<1> SUFFICES ASSUME NEW m \in Nat, Len(stack) = m + 1
             PROVE  Balanced' /\ Ordered'
  <2>1. Len(stack) - 1 \in Nat /\ Len(stack) = Len(stack) - 1 + 1
    BY TopFacts
  <2> QED
    BY <2>1
<1>1. /\ m <= Len(stack) /\ m + 1 \in 1 .. m + 1 /\ m \in 0 .. m /\ m + 1 \in Nat
      /\ m + 1 # 0 /\ m + 1 - 1 = m /\ m \in 0 .. m + 1 /\ m + 1 \in 0 .. m + 1
      /\ m + 1 \in 1 .. Len(stack)
  OBVIOUS
<1>2. Len(stack') = m /\ Kept(m)
  <2>1. CASE Len(stack) = 1 /\ stack' = <<>>
    <3>1. m = 0
      <4>1. \A k \in Nat : k + 1 = 1 => k = 0
        OBVIOUS
      <4> QED
        BY <2>1, <4>1
    <3>2. Len(<<>>) = 0
      BY EmptySeq
    <3> QED
      BY <2>1, <3>1, <3>2 DEF Kept
  <2>2. CASE Len(stack) # 1 /\ Returned(v)
    <3>1. /\ Len(stack) - 1 = m /\ Len(stack) - 2 = m - 1 /\ m \in 1 .. m /\ m # 0
      BY <2>2
    <3>2. /\ Len(stack') = m /\ stack'[m] = Resumed(v) /\ Caller = stack[m]
          /\ GoodFrame(Caller) /\ Calling(Caller, Top)
          /\ \A k \in 1 .. m - 1 : stack'[k] = stack[k]
      BY <2>2, <3>1 DEF Returned, Caller
    <3>3. Alike(stack[m], stack'[m])
      BY <3>2, ResumedFacts DEF Continues, Alike
    <3>4. ASSUME NEW k \in 1 .. m PROVE Alike(stack[k], stack'[k])
      <4>1. k = m \/ k \in 1 .. m - 1
        OBVIOUS
      <4> QED
        BY <3>2, <3>3, <4>1, AlikeIsRefl
    <3> QED
      BY <3>2, <3>4 DEF Kept
  <2> QED
    BY <2>1, <2>2, FramesReturned
<1>3. /\ \A i \in 1 .. m + 1 : stack[i] \in Frame
      /\ Top = stack[m + 1]
  BY StackFacts, TopFacts DEF Frames
<1>4. /\ Level(m + 1)' = Level(m + 1)
      /\ \A b : \A kind \in Kinds : Share(kind, b, m)' = Share(kind, b, m)
  BY <1>1, <1>2, KeptFacts
<1>5. ASSUME NEW kind \in Kinds, NEW b
      PROVE  /\ Share(kind, b, m) \in Nat /\ Share(kind, b, m + 1) \in Nat
             /\ Share(kind, b, m + 1) >= Share(kind, b, m)
             /\ ~error' => Share(kind, b, m + 1) = Share(kind, b, m)
  <2>0. m + 1 \in 1 .. m + 1
    OBVIOUS
  <2>1. /\ Share(kind, b, m) \in Nat /\ Share(kind, b, m + 1) \in Nat
        /\ Share(kind, b, m + 1) = Share(kind, b, m + 1 - 1)
             + (IF Level(m + 1) = b THEN Weight(kind, stack[m + 1]) ELSE 0)
    <3>1. m + 1 \in Nat /\ m \in 0 .. m + 1 /\ m + 1 \in 0 .. m + 1
      OBVIOUS
    <3>2. Sums(m + 1)
      BY <1>3, <3>1, NowRules
    <3> QED
      BY <2>0, <3>1, <3>2 DEF Sums
  <2>2. Weight(kind, Top) \in Nat
    BY <1>1, <1>3, WeightType
  <2>3. Share(kind, b, m + 1) = Share(kind, b, m)
          + (IF Level(m + 1) = b THEN Weight(kind, Top) ELSE 0)
    BY <1>1, <1>3, <2>1
  <2>4. ~error' => Weight(kind, Top) = 0
    OBVIOUS
  <2> QED
    BY <2>1, <2>2, <2>3, <2>4
<1>6. /\ builders' \in Seq(Builder) /\ Len(builders') = Level(m + 1)
      /\ Len(builders') <= Len(builders)
      /\ \A b \in 1 .. Len(builders') : builders'[b] = builders[b]
  <2> DEFINE w == Len(builders) - 1
  <2>1. /\ builders \in Seq(Builder) /\ Len(builders) \in Nat /\ Len(builders) >= 1
        /\ Len(builders) = Level(m + 1) + (IF Body(Top) THEN 1 ELSE 0)
        /\ Level(m + 1) \in Nat /\ Level(m + 1) >= 1
    BY InUse DEF Balanced
  <2>2. builders' = IF Body(Top) THEN Front(builders) ELSE builders
    BY DEF Leave, Body
  <2>3. CASE Body(Top)
    <3>1. w \in Nat /\ 1 \in Int /\ Len(builders) = w + 1 /\ w = Level(m + 1)
      BY <2>1, <2>3
    <3>2. builders' = SubSeq(builders, 1, w)
      BY <2>2, <2>3 DEF Front
    <3>3. \A k \in 1 .. w : builders[k] \in Builder
      <4>1. \A k \in 1 .. w : k \in 1 .. Len(builders)
        BY <3>1
      <4> QED
        BY <2>1, <4>1, ElementOfSeq
    <3> HIDE DEF w
    <3>4. /\ builders' \in Seq(Builder)
          /\ Len(builders') = IF 1 <= w THEN w - 1 + 1 ELSE 0
          /\ \A k \in 1 .. w - 1 + 1 : builders'[k] = builders[1 + k - 1]
      BY <2>1, <3>1, <3>2, <3>3, SubSeqProperties
    <3>5. Len(builders') = w /\ \A k \in 1 .. w : builders'[k] = builders[k]
      BY <3>1, <3>4
    <3> QED
      BY <3>1, <3>4, <3>5
  <2>4. CASE ~Body(Top)
    BY <2>1, <2>2, <2>4
  <2> QED
    BY <2>3, <2>4
<1>7. Balanced'
  <2>1. ASSUME NEW b \in 1 .. Len(builders'), NEW kind \in Kinds
        PROVE  /\ Size(kind, builders'[b]) >= Share(kind, b, m)'
               /\ ~error' => Size(kind, builders'[b]) = Share(kind, b, m)'
    <3>1. b \in 1 .. Len(builders) /\ builders'[b] = builders[b]
      <4>1. Len(builders) \in Nat /\ Len(builders') \in Nat
        BY <1>6, InUse, LenProperties DEF Balanced
      <4> QED
        BY <1>6, <4>1
    <3>2. /\ Size(kind, builders[b]) >= Share(kind, b, m + 1)
          /\ ~error => Size(kind, builders[b]) = Share(kind, b, m + 1)
      BY <3>1 DEF Balanced
    <3>3. Share(kind, b, m)' = Share(kind, b, m)
      BY <1>4
    <3>4. Size(kind, builders[b]) \in Nat
      <4>1. builders[b] \in Builder
        BY <3>1, ElementOfSeq DEF Balanced
      <4>2. builders[b].operators \in Seq(1 .. 10)
        BY <4>1 DEF Builder
      <4>3. Len(builders[b].operators) \in Nat
        BY <4>2, LenProperties
      <4> QED
        BY <4>1, <4>3, SizeIs DEF Builder, Kinds
    <3> QED
      BY <1>5, <3>1, <3>2, <3>3, <3>4
  <2> QED
    BY <1>2, <1>4, <1>6, <2>1 DEF Balanced
<1>8. ASSUME ~error', NEW i \in 1 .. m, NEW b \in 1 .. Len(builders'),
             stack'[i].fn = "parseBinaryExpression", Level(i)' = b
      PROVE  Ascending(builders'[b].operators,
                       Share("operators", b, i - 1)', Share("operators", b, i)')
  BY <1>1, <1>2, <1>6, <1>8, OrderKept
<1>9. Ordered'
  BY <1>2, <1>8 DEF Ordered
<1> QED
  BY <1>7, <1>9

LEMMA SizeType == ASSUME NEW b \in Builder, NEW kind \in Kinds PROVE Size(kind, b) \in Nat
<1>1. b.operators \in Seq(1 .. 10)
  BY DEF Builder
<1>2. Len(b.operators) \in Nat
  BY <1>1, LenProperties
<1> QED
  BY <1>2, SizeIs DEF Builder, Kinds

\* What the innermost function changes alone.
LEMMA TopAlone ==
    ASSUME Frames, Frames', Balanced, stack # <<>>, NEW g, SetTop(g), g.fn = Top.fn,
           NEW n \in Nat, NEW m \in Nat, n = Len(stack), n = m + 1
    PROVE  /\ Len(stack') = n /\ stack'[n] = g /\ stack[n] = Top /\ Kept(m) /\ Level(n)' = Level(n)
           /\ \A i \in 1 .. n : Level(i)' = Level(i)
           /\ Level(n + 1)' = Level(n) + (IF Body(g) THEN 1 ELSE 0)
           /\ Sums(n)' /\ Sums(n)
           /\ \A b : \A kind \in Kinds :
                /\ Share(kind, b, m) \in Nat
                /\ Share(kind, b, n) = Share(kind, b, m)
                     + (IF Level(n) = b THEN Weight(kind, Top) ELSE 0)
                /\ Share(kind, b, n)' = Share(kind, b, m)
                     + (IF Level(n) = b THEN Weight(kind, g) ELSE 0)
<1>1. /\ n # 0 /\ m \in 0 .. m /\ m \in 0 .. n /\ n \in 1 .. n /\ n - 1 = m /\ n \in 1 .. m + 1
  OBVIOUS
<1>2. /\ Len(stack') = n /\ stack'[n] = g /\ \A k \in 1 .. n - 1 : stack'[k] = stack[k]
      /\ stack[n] = Top
  BY TopFacts, TopSet
<1>3. Kept(m)
  BY <1>1, <1>2, AlikeIsRefl DEF Kept
<1>4. /\ \A i \in 1 .. n : Level(i)' = Level(i)
      /\ \A b : \A kind \in Kinds : Share(kind, b, m)' = Share(kind, b, m)
  BY <1>1, <1>3, KeptFacts
<1>5. Levels(n)' /\ Level(n)' = Level(n)
  BY <1>1, <1>4, NextRules
<1>6. Level(n + 1)' = Level(n) + (IF Body(g) THEN 1 ELSE 0)
  BY <1>2, <1>5 DEF Levels
<1>7. \A i \in 1 .. n : stack[i] \in Frame /\ stack'[i] \in Frame
  <2>1. \A i \in 1 .. Len(stack) : stack[i] \in Frame
    BY DEF Frames, GoodFrame
  <2>2. Frames' => \A i \in 1 .. Len(stack') : stack'[i] \in Frame
    BY DEF Frames, GoodFrame
  <2> QED
    BY <1>2, <2>1, <2>2
<1>8. Sums(n) /\ Sums(n)'
  BY <1>7, NowRules, NextRules
<1>9. ASSUME NEW kind \in Kinds, NEW b
      PROVE  /\ Share(kind, b, m) \in Nat
             /\ Share(kind, b, n) = Share(kind, b, m)
                  + (IF Level(n) = b THEN Weight(kind, Top) ELSE 0)
             /\ Share(kind, b, n)' = Share(kind, b, m)
                  + (IF Level(n) = b THEN Weight(kind, g) ELSE 0)
  <2>1. /\ Share(kind, b, m) \in Nat
        /\ Share(kind, b, n) = Share(kind, b, n - 1)
             + (IF Level(n) = b THEN Weight(kind, stack[n]) ELSE 0)
    BY <1>1, <1>8 DEF Sums
  <2>2. Share(kind, b, n)' = Share(kind, b, n - 1)'
          + (IF Level(n)' = b THEN Weight(kind, stack'[n]) ELSE 0)
    BY <1>1, <1>8 DEF Sums
  <2> QED
    BY <1>1, <1>2, <1>4, <1>5, <2>1, <2>2
<1> QED
  BY <1>2, <1>3, <1>4, <1>5, <1>6, <1>8, <1>9

\* The body of a function gets a builder of its own.
LEMMA BodyKeeps ==
    ASSUME Frames, Frames', Balanced, Ordered, stack # <<>>, NEW g, SetTop(g),
           Top.fn = "parseFunctionBody", Top.n = 0, g.fn = Top.fn, g.n = 1,
           builders' = Append(builders, NoOperands), UNCHANGED error
    PROVE  Balanced' /\ Ordered'
<1> SUFFICES ASSUME NEW n \in Nat, NEW m \in Nat, n = Len(stack), n = m + 1
             PROVE  Balanced' /\ Ordered'
  <2>1. Len(stack) \in Nat /\ Len(stack) - 1 \in Nat /\ Len(stack) = Len(stack) - 1 + 1
    BY TopFacts
  <2> QED
    BY <2>1
<1>1. ~Body(Top) /\ Body(g) /\ \A kind \in Kinds : Weight(kind, Top) = 0 /\ Weight(kind, g) = 0
  BY NoWeight DEF Body, Counting
<1>2. /\ Len(stack') = n /\ stack'[n] = g /\ Kept(m)
      /\ \A i \in 1 .. n : Level(i)' = Level(i)
      /\ Level(n + 1)' = Level(n) + 1 /\ Sums(n)'
      /\ \A b : \A kind \in Kinds : Share(kind, b, n)' = Share(kind, b, n)
  BY <1>1, TopAlone
<1>3. /\ Len(builders) \in Nat /\ Len(builders) = Level(n) + 0 /\ Level(n) \in Nat
      /\ \A i \in 1 .. n : Level(i) \in 1 .. Len(builders)
  BY <1>1, InUse
<1>4. /\ builders' \in Seq(Builder) /\ Len(builders') = Len(builders) + 1
      /\ \A b \in 1 .. Len(builders) : builders'[b] = builders[b]
      /\ builders'[Len(builders) + 1] = NoOperands
  <2>1. NoOperands \in Builder
    BY DEF NoOperands, Builder
  <2> QED
    BY <2>1, AppendProperties DEF Balanced
<1>5. \A kind \in Kinds : Size(kind, NoOperands) = 0
  <2>1. /\ NoOperands.operands = 0 /\ NoOperands.operators = <<>> /\ NoOperands.unary = 0
        /\ NoOperands.assignments = 0 /\ Len(<<>>) = 0
    BY DEF NoOperands
  <2> QED
    BY <2>1, SizeIs DEF Kinds
<1>6. ASSUME NEW b \in 1 .. Len(builders'), NEW kind \in Kinds
      PROVE  /\ Size(kind, builders'[b]) >= Share(kind, b, n)'
             /\ ~error' => Size(kind, builders'[b]) = Share(kind, b, n)'
  <2>1. CASE b \in 1 .. Len(builders)
    BY <1>2, <1>4, <2>1 DEF Balanced
  <2>2. CASE b = Len(builders) + 1
    <3>1. \A i \in 1 .. n : Level(i)' # b
      BY <1>2, <1>3, <2>2
    <3>2. Share(kind, b, n)' = 0
      BY <1>2, <3>1 DEF Sums
    <3> QED
      BY <1>4, <1>5, <2>2, <3>2
  <2> QED
    BY <1>3, <1>4, <2>1, <2>2
<1>7. Balanced'
  <2>1. Level(n + 1)' = Len(builders')
    BY <1>2, <1>3, <1>4
  <2> QED
    BY <1>2, <1>4, <1>6, <2>1 DEF Balanced
<1>8. ASSUME ~error', NEW i \in 1 .. n, NEW b,
             stack'[i].fn = "parseBinaryExpression", Level(i)' = b
      PROVE  Ascending(builders'[b].operators,
                       Share("operators", b, i - 1)', Share("operators", b, i)')
  <2>1. i # n
    BY <1>2, <1>8
  <2>2. i \in 1 .. m /\ m <= Len(stack)
    BY <2>1
  <2>3. b \in 1 .. Len(builders)
    BY <1>2, <1>3, <1>8
  <2> QED
    BY <1>2, <1>4, <1>8, <2>2, <2>3, OrderKept
<1>9. Ordered'
  BY <1>2, <1>8 DEF Ordered
<1> QED
  BY <1>7, <1>9

\* The innermost function works on the stacks: what it has on them changes
\* by what they change, and everything below stays where it is.
Below == Share("operators", Len(builders), Len(stack) - 1)

LEMMA BuiltKeeps ==
    ASSUME Frames, Frames', Balanced, Ordered, stack # <<>>, NEW g, SetTop(g),
           Top.fn \in Counting, g.fn = Top.fn, NEW c \in Builder,
           builders' = Append(Front(builders), c), UNCHANGED error,
           \A kind \in Kinds :
             Size(kind, c) + Weight(kind, Top) = Size(kind, Context) + Weight(kind, g),
           \A p \in 1 .. Below : c.operators[p] = Context.operators[p],
           ~error /\ g.fn = "parseBinaryExpression" =>
             Ascending(c.operators, Below, Below + Weight("operators", g))
    PROVE  Balanced' /\ Ordered'
<1> SUFFICES ASSUME NEW n \in Nat, NEW m \in Nat, n = Len(stack), n = m + 1
             PROVE  Balanced' /\ Ordered'
  <2>1. Len(stack) \in Nat /\ Len(stack) - 1 \in Nat /\ Len(stack) = Len(stack) - 1 + 1
    BY TopFacts
  <2> QED
    BY <2>1
<1> SUFFICES ASSUME NEW w \in Nat, w = Len(builders) PROVE Balanced' /\ Ordered'
  BY InUse
<1>1. ~Body(Top) /\ ~Body(g)
  BY DEF Body, Counting
<1>2. /\ Len(stack') = n /\ stack'[n] = g /\ stack[n] = Top /\ Kept(m)
      /\ \A i \in 1 .. n : Level(i)' = Level(i)
      /\ Level(n + 1)' = Level(n) + 0
      /\ \A b : \A kind \in Kinds :
           /\ Share(kind, b, m) \in Nat
           /\ Share(kind, b, n) = Share(kind, b, m)
                + (IF Level(n) = b THEN Weight(kind, Top) ELSE 0)
           /\ Share(kind, b, n)' = Share(kind, b, m)
                + (IF Level(n) = b THEN Weight(kind, g) ELSE 0)
  BY <1>1, TopAlone
<1>3. /\ w >= 1 /\ w = Level(n) /\ w \in 1 .. w /\ Context = builders[w] /\ Context \in Builder
      /\ \A i \in 1 .. n : Level(i) \in 1 .. w
  BY <1>1, InUse
<1>4. /\ builders' \in Seq(Builder) /\ Len(builders') = w /\ builders'[w] = c
      /\ \A b \in 1 .. w - 1 : builders'[b] = builders[b]
  <2> DEFINE u == w - 1
  <2>1. u \in Nat /\ 1 \in Int /\ Len(builders) = u + 1 /\ \A k \in 1 .. u : builders[k] \in Builder
    <3>1. \A k \in 1 .. u : k \in 1 .. Len(builders)
      OBVIOUS
    <3>2. builders \in Seq(Builder)
      BY DEF Balanced
    <3>3. \A k \in 1 .. u : builders[k] \in Builder
      BY <3>1, <3>2, ElementOfSeq
    <3>4. u \in Nat /\ Len(builders) = u + 1
      BY <1>3
    <3> QED
      BY <3>3, <3>4
  <2>2. Front(builders) = SubSeq(builders, 1, u)
    BY DEF Front
  <2> HIDE DEF u
  <2>3. /\ Front(builders) \in Seq(Builder)
        /\ Len(Front(builders)) = IF 1 <= u THEN u - 1 + 1 ELSE 0
        /\ \A k \in 1 .. u - 1 + 1 : Front(builders)[k] = builders[1 + k - 1]
    BY <2>1, <2>2, SubSeqProperties DEF Balanced
  <2>4. Len(Front(builders)) = u /\ \A k \in 1 .. u : Front(builders)[k] = builders[k]
    BY <2>1, <2>3
  <2>5. /\ builders' \in Seq(Builder) /\ Len(builders') = u + 1
        /\ \A k \in 1 .. u : builders'[k] = Front(builders)[k]
        /\ builders'[u + 1] = c
    BY <2>3, <2>4, AppendProperties
  <2>6. u + 1 = w /\ u = w - 1
    BY DEF u
  <2> QED
    BY <2>4, <2>5, <2>6
<1>5. ASSUME NEW b \in 1 .. w, NEW kind \in Kinds
      PROVE  /\ Size(kind, builders'[b]) >= Share(kind, b, n)'
             /\ ~error' => Size(kind, builders'[b]) = Share(kind, b, n)'
  <2>1. /\ Size(kind, builders[b]) >= Share(kind, b, n)
        /\ ~error => Size(kind, builders[b]) = Share(kind, b, n)
    BY DEF Balanced
  <2>2. CASE b = w
    <3>1. /\ Share(kind, b, m) \in Nat
          /\ Share(kind, b, n) = Share(kind, b, m) + Weight(kind, Top)
          /\ Share(kind, b, n)' = Share(kind, b, m) + Weight(kind, g)
      BY <1>2, <1>3, <2>2
    <3>2. Size(kind, c) \in Nat /\ Size(kind, Context) \in Nat
      BY <1>3, SizeType
    <3>3. Weight(kind, Top) \in Nat /\ Weight(kind, g) \in Nat
      <4>1. n \in 1 .. n
        OBVIOUS
      <4>2. stack[n] \in Frame /\ stack'[n] \in Frame
        <5>1. stack[n] \in Frame
          BY <1>2, <4>1 DEF Frames, GoodFrame
        <5>2. Frames' => \A i \in 1 .. Len(stack') : stack'[i] \in Frame
          BY DEF Frames, GoodFrame
        <5> QED
          BY <1>2, <4>1, <5>1, <5>2
      <4> QED
        BY <1>2, <4>2, WeightType
    <3>4. Size(kind, c) + Weight(kind, Top) = Size(kind, Context) + Weight(kind, g)
      OBVIOUS
    <3>5. /\ Size(kind, c) >= Share(kind, b, n)'
          /\ ~error => Size(kind, c) = Share(kind, b, n)'
      <4> DEFINE a == Share(kind, b, m)
                 f == Weight(kind, Top)
                 h == Weight(kind, g)
                 x == Size(kind, Context)
                 y == Size(kind, c)
      <4>1. x >= a + f /\ (~error => x = a + f)
        BY <1>3, <2>1, <2>2, <3>1
      <4>2. a \in Nat /\ f \in Nat /\ h \in Nat /\ x \in Nat /\ y \in Nat /\ y + f = x + h
        BY <3>1, <3>2, <3>3, <3>4
      <4>3. Share(kind, b, n)' = a + h
        BY <3>1
      <4> HIDE DEF a, f, h, x, y
      <4>4. y >= a + h
        BY <4>1, <4>2
      <4>5. ASSUME ~error PROVE y = a + h
        BY <4>1, <4>2, <4>5
      <4> QED
        BY <4>3, <4>4, <4>5 DEF y
    <3> QED
      BY <1>4, <2>2, <3>5
  <2>3. CASE b # w
    <3>1. builders'[b] = builders[b]
      BY <1>4, <2>3
    <3>2. Share(kind, b, n)' = Share(kind, b, n)
      BY <1>2, <1>3, <2>3
    <3> QED
      BY <2>1, <3>1, <3>2
  <2> QED
    BY <2>2, <2>3
<1>6. Balanced'
  <2>1. Level(n + 1)' = w
    BY <1>2, <1>3
  <2> QED
    BY <1>2, <1>4, <1>5, <2>1 DEF Balanced
<1>7. Below = Share("operators", w, m) /\ "operators" \in Kinds
  <2>1. Len(stack) - 1 = m
    OBVIOUS
  <2> QED
    BY <2>1 DEF Below, Kinds
<1>8. ASSUME ~error', NEW i \in 1 .. n, NEW b \in 1 .. w,
             stack'[i].fn = "parseBinaryExpression", Level(i)' = b
      PROVE  Ascending(builders'[b].operators,
                       Share("operators", b, i - 1)', Share("operators", b, i)')
  <2>1. CASE i = n
    <3>1. b = w /\ i - 1 = m /\ g.fn = "parseBinaryExpression" /\ ~error
      BY <1>2, <1>3, <1>8, <2>1
    <3>2. Share("operators", b, m)' = Share("operators", b, m)
      <4>1. m \in 0 .. m
        OBVIOUS
      <4> QED
        BY <1>2, <1>7, <4>1, KeptFacts
    <3>3. Share("operators", b, n)' = Share("operators", b, m) + Weight("operators", g)
      BY <1>2, <1>3, <1>7, <3>1
    <3>4. Ascending(c.operators, Below, Below + Weight("operators", g))
      BY <3>1
    <3> QED
      BY <1>4, <1>7, <2>1, <3>1, <3>2, <3>3, <3>4
  <2>2. CASE i # n
    <3>1. i \in 1 .. m /\ m <= Len(stack)
      BY <2>2
    <3>2. \A p \in 1 .. Share("operators", b, m) :
            builders'[b].operators[p] = builders[b].operators[p]
      <4>1. CASE b = w
        BY <1>3, <1>4, <1>7, <4>1
      <4>2. CASE b # w
        BY <1>4, <4>2
      <4> QED
        BY <4>1, <4>2
    <3> QED
      BY <1>2, <1>8, <3>1, <3>2, OrderKept
  <2> QED
    BY <2>1, <2>2
<1>9. Ordered'
  BY <1>2, <1>4, <1>8 DEF Ordered
<1> QED
  BY <1>6, <1>9

-----------------------------------------------------------------------------
(* The steps that leave the stacks of the builder alone.                    *)

LEMMA FieldFacts ==
    ASSUME NEW f \in Frame
    PROVE  /\ Done(f).fn = f.fn /\ Done(f).n = f.n /\ Done(f).m = f.m
           /\ \A x : LET g == [Done(f) EXCEPT !.mark = x] IN g.fn = f.fn /\ g.n = f.n /\ g.m = f.m
           /\ \A x : LET g == [Done(f) EXCEPT !.took = x] IN g.fn = f.fn /\ g.n = f.n /\ g.m = f.m
           /\ \A x : LET g == [Done(f) EXCEPT !.n = x] IN g.fn = f.fn /\ g.n = x /\ g.m = f.m
           /\ \A x : LET g == Instead(f, x) IN g.fn = f.fn /\ g.n = f.n /\ g.m = f.m
           /\ \A x, y : LET g == [Instead(f, x) EXCEPT !.n = y]
                        IN  g.fn = f.fn /\ g.n = y /\ g.m = f.m
           /\ \A y, z : LET g == [Done(f) EXCEPT !.n = y, !.m = z]
                        IN  g.fn = f.fn /\ g.n = y /\ g.m = z
           /\ \A x, y, z : LET g == [Instead(f, x) EXCEPT !.n = y, !.m = z]
                           IN  g.fn = f.fn /\ g.n = y /\ g.m = z
BY DEF Frame, Done, Instead

LEMMA TopSteady ==
    ASSUME BuilderInv, ParserInv', stack # <<>>, NEW g, SetTop(g), Alike(Top, g),
           UNCHANGED builders, ~error' => ~error
    PROVE  Stacks'
<1>1. Frames /\ Frames' /\ Balanced /\ Ordered
  BY DEF BuilderInv, Stacks, ParserInv
<1>2. /\ Len(stack') = Len(stack) /\ stack'[Len(stack)] = g /\ Top = stack[Len(stack)]
      /\ \A k \in 1 .. Len(stack) - 1 : stack'[k] = stack[k]
      /\ Len(stack) \in Nat
  BY <1>1, TopFacts, TopSet
<1>3. ASSUME NEW k \in 1 .. Len(stack) PROVE Alike(stack[k], stack'[k])
  <2>1. k = Len(stack) \/ k \in 1 .. Len(stack) - 1
    BY <1>2
  <2> QED
    BY <1>2, <2>1, AlikeIsRefl
<1>4. Kept(Len(stack))
  BY <1>3 DEF Kept
<1> QED
  BY <1>1, <1>2, <1>4, SteadyKeeps DEF Stacks

\* What is known where the innermost function is at one of some symbols.
LEMMA HereFacts ==
    ASSUME BuilderInv, NEW S, AtOneOf(S)
    PROVE  /\ stack # <<>> /\ Top \in Frame /\ Top.fn \in Functions /\ GoodFrame(Top)
           /\ Head(Top.todo) \in S /\ Head(Top.todo) \in Symbols
           /\ Head(Top.todo) \in Places(Top.fn) /\ Now(Top.todo) = Head(Top.todo)
           /\ Frames /\ Balanced /\ Ordered
BY AtFacts DEF BuilderInv, Stacks

LEMMA LocalSteady ==
    ASSUME BuilderInv, ParserInv', NEW S, AtOneOf(S), NEW g, Local(g), Alike(Top, g)
    PROVE  Stacks'
BY HereFacts, TopSteady DEF Local

LEMMA AdvanceSteady ==
    ASSUME BuilderInv, ParserInv', NEW S, AtOneOf(S), NEW r, Advance(r)
    PROVE  Stacks'
<1>1. stack # <<>> /\ Top \in Frame
  BY HereFacts
<1>2. SetTop([Done(Top) EXCEPT !.took = TRUE]) /\ UNCHANGED <<error, builders>>
  BY DEF Advance
<1>3. Alike(Top, [Done(Top) EXCEPT !.took = TRUE])
  BY <1>1, FieldFacts DEF Alike
<1> QED
  BY <1>1, <1>2, <1>3, TopSteady

LEMMA FailLeaves ==
    ASSUME BuilderInv, ParserInv', NEW S, AtOneOf(S), fail
    PROVE  Stacks'
<1>1. stack # <<>> /\ Frames /\ Frames' /\ Balanced /\ Ordered
  BY HereFacts DEF ParserInv
<1>2. error' /\ Leave("null")
  BY DEF fail
<1> QED
  BY <1>1, <1>2, LeftKeeps DEF Stacks

LEMMA DoneIsAlike == ASSUME NEW f \in Frame PROVE Alike(f, Done(f)) /\ \A x : Alike(f, Instead(f, x))
BY FieldFacts DEF Alike

LEMMA PlainSteps ==
    ASSUME BuilderInv, ParserInv',
           Decide \/ consumeOrFail \/ next \/ autoSemiColon \/ SaveLHS \/ SetAllowsIn \/ SetNonLHS
             \/ forVarRest
    PROVE  Stacks'
<1>1. CASE Decide
  <2>1. PICK x : AtOneOf(Decisions \ Calls) /\ Local(Instead(Top, x))
    BY <1>1 DEF Decide
  <2> QED
    BY <2>1, HereFacts, DoneIsAlike, LocalSteady
<1>2. CASE consumeOrFail
  <2>1. AtOneOf(Tokens) /\ (Advance(TRUE) \/ fail)
    BY <1>2 DEF consumeOrFail
  <2> QED
    BY <2>1, AdvanceSteady, FailLeaves
<1>3. CASE next
  <2>1. AtOneOf({"next", "nextIgnoreReserved"}) /\ (Advance(TRUE) \/ Advance(FALSE))
    BY <1>3 DEF next, At, AtOneOf
  <2> QED
    BY <2>1, AdvanceSteady
<1>4. CASE autoSemiColon
  <2>1. AtOneOf(DOMAIN Otherwise)
    BY <1>4 DEF autoSemiColon
  <2>2. \/ Advance(TRUE) \/ Local(Done(Top))
        \/ Local(Instead(Top, Otherwise[Head(Top.todo)]))
    BY <1>4 DEF autoSemiColon
  <2> QED
    BY <2>1, <2>2, HereFacts, DoneIsAlike, LocalSteady, AdvanceSteady
<1>5. CASE SaveLHS
  <2>1. AtOneOf({"saveLHS"}) /\ Local([Done(Top) EXCEPT !.mark = nonLHS])
    BY <1>5, AtIs DEF SaveLHS
  <2>2. Alike(Top, [Done(Top) EXCEPT !.mark = nonLHS])
    BY <2>1, HereFacts, FieldFacts DEF Alike
  <2> QED
    BY <2>1, <2>2, LocalSteady
<1>6. CASE SetAllowsIn \/ SetNonLHS
  <2>1. AtOneOf({"inOff", "inOn", "nonLHS", "restoreLHS"})
    BY <1>6 DEF SetAllowsIn, SetNonLHS, At, AtOneOf
  <2>2. SetTop(Done(Top)) /\ UNCHANGED <<builders, error>>
    BY <1>6 DEF SetAllowsIn, SetNonLHS
  <2> QED
    BY <2>1, <2>2, HereFacts, DoneIsAlike, TopSteady
<1>7. CASE forVarRest
  <2>1. PICK x : AtOneOf({"forVarRest"}) /\ Local(Instead(Top, x))
    BY <1>7, AtIs DEF forVarRest
  <2> QED
    BY <2>1, HereFacts, DoneIsAlike, LocalSteady
<1> QED
  BY <1>1, <1>2, <1>3, <1>4, <1>5, <1>6, <1>7

LEMMA CheckSteps == ASSUME BuilderInv, ParserInv', Checks PROVE Stacks'
<1>1. PICK s, c : failIf(s, c)
  BY DEF Checks
<1>2. AtOneOf({s}) /\ (fail \/ Local(Done(Top)))
  BY <1>1, AtIs DEF failIf
<1> QED
  BY <1>2, HereFacts, DoneIsAlike, LocalSteady, FailLeaves

\* The counters of other functions.
LEMMA OtherCounters ==
    ASSUME BuilderInv, ParserInv',
           saveTokenCount \/ countHandler \/ countNew \/ callOrNew \/ elseStacks
    PROVE  Stacks'
<1> DEFINE S == {"saveTokenCount", "countHandler", "countNew", "callOrNew", "pushElseIf",
                 "pushElse", "foldLastIf", "foldElse"}
<1>1. AtOneOf(S)
  BY DEF saveTokenCount, countHandler, countNew, callOrNew, elseStacks, At, AtOneOf
<1>2. Top.fn \notin Counting \cup {"parseFunctionBody"}
  <2>1. /\ Top.fn \in Functions /\ Head(Top.todo) \in S
        /\ Head(Top.todo) \in Symbols /\ Head(Top.todo) \in Places(Top.fn)
    BY <1>1, HereFacts
  <2> QED
    BY <2>1, OperationsAreOwned DEF Counting
<1>3. Top \in Frame
  BY <1>1, HereFacts
<1>4. \E g : Local(g) /\ g.fn = Top.fn
  <2>1. CASE saveTokenCount
    <3> DEFINE g == [Done(Top) EXCEPT !.n = tokenCount]
    <3>1. Local(g)
      BY <2>1 DEF saveTokenCount
    <3>2. g.fn = Top.fn
      BY <1>3 DEF Frame, Done
    <3> QED
      BY <3>1, <3>2
  <2>2. CASE countHandler \/ countNew
    <3>1. Local([Done(Top) EXCEPT !.n = @ + 1])
      BY <2>2 DEF countHandler, countNew
    <3> DEFINE g == [Done(Top) EXCEPT !.n = @ + 1]
    <3>2. g.fn = Top.fn
      BY <1>3 DEF Frame, Done
    <3> QED
      BY <3>1, <3>2
  <2>3. CASE callOrNew
    <3> DEFINE g == [Instead(Top, <<"parseArguments">>) EXCEPT !.n = @ - 1]
               h == Instead(Top, <<"saveLHS", "parseArguments", "restoreLHS">>)
    <3>1. Local(g) \/ Local(h)
      BY <2>3 DEF callOrNew
    <3>2. g.fn = Top.fn /\ h.fn = Top.fn
      BY <1>3 DEF Frame, Instead
    <3> QED
      BY <3>1, <3>2
  <2>4. CASE elseStacks
    <3> DEFINE g1 == [Done(Top) EXCEPT !.n = @ + 1, !.m = @ + 1]
               g2 == [Done(Top) EXCEPT !.m = @ + 1]
               g3 == [Done(Top) EXCEPT !.n = @ - 1]
               g4 == [Done(Top) EXCEPT !.n = 0, !.m = @ - Top.n]
    <3>1. Local(g1) \/ Local(g2) \/ Local(g3) \/ Local(g4)
      BY <2>4 DEF elseStacks
    <3>2. g1.fn = Top.fn /\ g2.fn = Top.fn /\ g3.fn = Top.fn /\ g4.fn = Top.fn
      BY <1>3 DEF Frame, Done
    <3> QED
      BY <3>1, <3>2
  <2> QED
    BY <2>1, <2>2, <2>3, <2>4
<1>5. PICK g : Local(g) /\ g.fn = Top.fn
  BY <1>4
<1>6. Alike(Top, g)
  BY <1>2, <1>5 DEF Alike
<1> QED
  BY <1>1, <1>5, <1>6, LocalSteady

\* countDeclaration counts in its caller, which has nothing on the stacks.
LEMMA DeclarationSteady == ASSUME BuilderInv, ParserInv', countDeclaration PROVE Stacks'
<1>1. AtOneOf({"countDeclaration"})
  BY AtIs DEF countDeclaration
<1>2. /\ stack # <<>> /\ Top.fn \in Functions /\ "countDeclaration" \in Symbols
      /\ "countDeclaration" \in Places(Top.fn) /\ Frames /\ Balanced /\ Ordered /\ Top \in Frame
      /\ Head(Top.todo) = "countDeclaration"
  BY <1>1, HereFacts
<1>3. Top.fn = "parseVarDeclarationList"
  BY <1>2, OperationsAreOwned
<1> SUFFICES ASSUME NEW n \in Nat, n = Len(stack) PROVE Stacks'
  BY <1>2, TopFacts
<1>4. /\ DOMAIN stack = 1 .. n /\ n \in 1 .. n /\ Top = stack[n]
      /\ \A k \in 1 .. n : stack[k] \in Frame /\ GoodFrame(stack[k])
  BY <1>2, TopFacts, LenProperties DEF Frames, GoodFrame
<1>5. stack' = [i \in 1 .. n |->
                  CASE i = n -> Done(Top)
                    [] i = n - 1 -> [stack[i] EXCEPT !.n = @ + 1]
                    [] OTHER -> stack[i]]
  BY <1>4 DEF countDeclaration
<1>6. Len(stack') = n
  BY <1>5
<1>7. ASSUME NEW k \in 1 .. n PROVE Alike(stack[k], stack'[k])
  <2>1. CASE k = n
    <3>1. stack'[k] = Done(Top)
      BY <1>5, <2>1
    <3> QED
      BY <1>2, <1>4, <2>1, <3>1, DoneIsAlike
  <2>2. CASE k = n - 1
    <3>1. stack'[k] = [stack[k] EXCEPT !.n = @ + 1]
      BY <1>5, <2>2
    <3>2. stack'[k].fn = stack[k].fn
      <4> HIDE <1>5
      <4> QED
        BY <1>4, <3>1 DEF Frame
    <3>3. stack[k].fn \notin Counting \cup {"parseFunctionBody"}
      <4>1. k \in 1 .. Len(stack) - 1 /\ k + 1 = n
        BY <2>2
      <4>2. /\ stack[k].todo # <<>> /\ Head(stack[k].todo) \in Calls
            /\ \E t \in Tokens : stack[n].fn = Callee(Head(stack[k].todo), t)
        BY <1>2, <4>1 DEF Frames, Calling
      <4>3. Head(stack[k].todo) = "parseVarDeclarationList?"
        BY <1>3, <1>4, <4>2, DeclarationsAreCounted
      <4>4. GoodFrame(stack[k]) /\ stack[k].fn \in Functions
        BY <1>4 DEF GoodFrame
      <4>5. /\ "parseVarDeclarationList?" \in Symbols
            /\ "parseVarDeclarationList?" \in Places(stack[k].fn)
        BY <4>2, <4>3, <4>4, CodeFacts
      <4> QED
        BY <4>4, <4>5, OperationsAreOwned DEF Counting
    <3> QED
      BY <3>2, <3>3 DEF Alike
  <2>3. CASE k # n /\ k # n - 1
    <3>1. stack'[k] = stack[k]
      BY <1>5, <2>3
    <3> QED
      BY <3>1, AlikeIsRefl
  <2> QED
    BY <2>1, <2>2, <2>3
<1>8. Kept(Len(stack))
  BY <1>7 DEF Kept
<1>9. Frames' /\ UNCHANGED <<builders, error>>
  BY DEF ParserInv, countDeclaration
<1> QED
  BY <1>2, <1>6, <1>8, <1>9, SteadyKeeps DEF Stacks

-----------------------------------------------------------------------------
(* Calls and returns.                                                       *)

LEMMA CallSteps == ASSUME BuilderInv, ParserInv', Call PROVE Stacks'
<1> DEFINE g == NewFrame(Callee(Head(Top.todo), tok))
<1>1. AtOneOf(Calls) /\ stack' = Append(stack, g) /\ UNCHANGED <<error, builders>>
  BY DEF Call
<1>2. g.n = 0 /\ g.m = 0
  BY DEF NewFrame
<1>3. stack # <<>> /\ Frames /\ Frames' /\ Balanced /\ Ordered
  BY <1>1, HereFacts DEF ParserInv
<1>4. g \in Frame
  <2>1. tok \in Tokens /\ allowsIn \in BOOLEAN
    BY DEF BuilderInv, ParserInv, Registers
  <2>2. Callee(Head(Top.todo), tok) \in Functions
    BY <1>1, <2>1 DEF Functions, AtOneOf
  <2>3. /\ Callee(Head(Top.todo), tok) \in Decisions
        /\ Expansion[Callee(Head(Top.todo), tok)][tok] \in Seq(Symbols)
    BY <2>1, <2>2, CodesAreClosed
  <2> QED
    BY <2>1, <2>3 DEF NewFrame, Frame
<1> HIDE DEF g
<1> QED
  BY <1>1, <1>2, <1>3, <1>4, CalledKeeps DEF Stacks

\* A function that returns a tree has taken its entries off the stacks.
LEMMA ReturnSteps == ASSUME BuilderInv, ParserInv', Return PROVE Stacks'
<1>1. Running /\ UNCHANGED error /\ \E v : Leave(v)
  BY DEF Return, At
<1>2. /\ stack # <<>> /\ Frames /\ Frames' /\ Balanced /\ Ordered
      /\ GoodFrame(Top) /\ Top \in Frame /\ Top.fn \in Functions
  BY <1>1, TopFacts DEF BuilderInv, Stacks, ParserInv, Running, GoodFrame
<1>3. Now(Top.todo) \in {"", "returnNull", "returnResult"}
  BY DEF Return, At, Now
<1>4. Now(Top.todo) \in Places(Top.fn)
  BY <1>2, CodeFacts
<1>5. \A kind \in Kinds : Weight(kind, Top) = 0
  <2>1. Top.fn \in Counting => Now(Top.todo) = ""
    BY <1>3, <1>4, StacksAreLeftAtTheEnd DEF Counting
  <2>2. /\ Top.fn = "parseBinaryExpression" => Top.n = 0 /\ Top.m = 0
        /\ Top.fn \in {"parseUnaryExpression", "parseAssignmentExpression"} => Top.n = 0
    BY <1>2, <2>1 DEF GoodFrame, GoodCounts, Counting
  <2> QED
    BY <2>2, WeightIs DEF Kinds
<1>6. error \in BOOLEAN
  BY DEF BuilderInv, ParserInv, Registers
<1> QED
  BY <1>1, <1>2, <1>5, <1>6, LeftKeeps DEF Stacks

LEMMA BodySteps == ASSUME BuilderInv, ParserInv', newBuilder PROVE Stacks'
<1> DEFINE g == [Done(Top) EXCEPT !.n = 1]
<1>1. /\ AtOneOf({"newBuilder"}) /\ SetTop(g) /\ builders' = Append(builders, NoOperands)
      /\ UNCHANGED error
  BY AtIs DEF newBuilder
<1>2. /\ stack # <<>> /\ Frames /\ Frames' /\ Balanced /\ Ordered /\ Top \in Frame
      /\ GoodFrame(Top) /\ Top.fn \in Functions /\ Now(Top.todo) = "newBuilder"
      /\ "newBuilder" \in Symbols /\ "newBuilder" \in Places(Top.fn)
  BY <1>1, HereFacts DEF ParserInv
<1>3. Top.fn = "parseFunctionBody"
  BY <1>2, OperationsAreOwned
<1>4. Top.n = 0
  BY <1>2, <1>3 DEF GoodFrame, GoodCounts
<1>5. g.fn = Top.fn /\ g.n = 1
  BY <1>2, FieldFacts
<1> HIDE DEF g
<1> QED
  BY <1>1, <1>2, <1>3, <1>4, <1>5, BodyKeeps DEF Stacks

-----------------------------------------------------------------------------
(* The steps that work on the stacks.                                       *)

\* What the innermost function finds: its own entries on top of the others'.
LEMMA RoomFacts ==
    ASSUME Frames, Balanced, Ordered, stack # <<>>, Top.fn \in Counting
    PROVE  /\ Below \in Nat /\ Context \in Builder
           /\ \A kind \in Kinds : /\ Weight(kind, Top) \in Nat
                                  /\ Size(kind, Context) >= Weight(kind, Top)
           /\ Len(Context.operators) >= Below + Weight("operators", Top)
           /\ ~error => Len(Context.operators) = Below + Weight("operators", Top)
           /\ ~error /\ Top.fn = "parseBinaryExpression" =>
                Ascending(Context.operators, Below, Below + Weight("operators", Top))
<1> SUFFICES ASSUME NEW n \in Nat, NEW m \in Nat, n = Len(stack), n = m + 1,
                    NEW w \in Nat, w = Len(builders)
             PROVE  /\ Below \in Nat /\ Context \in Builder
                    /\ \A kind \in Kinds : /\ Weight(kind, Top) \in Nat
                                           /\ Size(kind, Context) >= Weight(kind, Top)
                    /\ Len(Context.operators) >= Below + Weight("operators", Top)
                    /\ ~error => Len(Context.operators) = Below + Weight("operators", Top)
                    /\ ~error /\ Top.fn = "parseBinaryExpression" =>
                         Ascending(Context.operators, Below, Below + Weight("operators", Top))
  <2>1. Len(stack) \in Nat /\ Len(stack) - 1 \in Nat /\ Len(stack) = Len(stack) - 1 + 1
    BY TopFacts
  <2>2. Len(builders) \in Nat
    BY InUse
  <2> QED
    BY <2>1, <2>2
<1>1. /\ n \in 1 .. n /\ n - 1 = m /\ m \in 0 .. n /\ Top = stack[n] /\ Top \in Frame
      /\ \A i \in 1 .. n : stack[i] \in Frame
  BY TopFacts DEF Frames, GoodFrame
<1>2. ~Body(Top)
  BY DEF Body, Counting
<1>3. /\ w = Level(n) /\ w \in 1 .. w /\ Context = builders[w] /\ Context \in Builder
  BY <1>2, InUse
<1>4. Sums(n)
  BY <1>1, NowRules
<1>5. ASSUME NEW kind \in Kinds
      PROVE  /\ Share(kind, w, m) \in Nat /\ Weight(kind, Top) \in Nat
             /\ Size(kind, Context) >= Share(kind, w, m) + Weight(kind, Top)
             /\ ~error => Size(kind, Context) = Share(kind, w, m) + Weight(kind, Top)
             /\ Share(kind, w, n) = Share(kind, w, m) + Weight(kind, Top)
             /\ Size(kind, Context) \in Nat
  <2>1. /\ Share(kind, w, m) \in Nat
        /\ Share(kind, w, n) = Share(kind, w, n - 1)
             + (IF Level(n) = w THEN Weight(kind, stack[n]) ELSE 0)
    BY <1>1, <1>4 DEF Sums
  <2>2. Share(kind, w, n) = Share(kind, w, m) + Weight(kind, Top)
    BY <1>1, <1>3, <2>1
  <2>3. /\ Size(kind, Context) >= Share(kind, w, n)
        /\ ~error => Size(kind, Context) = Share(kind, w, n)
    BY <1>3 DEF Balanced
  <2>4. Weight(kind, Top) \in Nat /\ Size(kind, Context) \in Nat
    BY <1>1, <1>3, WeightType, SizeType
  <2> QED
    BY <2>1, <2>2, <2>3, <2>4
<1>6. "operators" \in Kinds /\ Below = Share("operators", w, m)
  <2>1. Len(stack) - 1 = m
    BY <1>1
  <2> QED
    BY <2>1 DEF Below, Kinds
<1>7. Size("operators", Context) = Len(Context.operators)
  BY SizeIs
<1>8. ASSUME ~error, Top.fn = "parseBinaryExpression"
      PROVE  Ascending(Context.operators, Below, Below + Weight("operators", Top))
  <2>1. Ascending(builders[w].operators, Share("operators", w, n - 1), Share("operators", w, n))
    BY <1>1, <1>3, <1>8 DEF Ordered
  <2> QED
    BY <1>1, <1>3, <1>5, <1>6, <2>1
<1>9. ASSUME NEW kind \in Kinds
      PROVE  Weight(kind, Top) \in Nat /\ Size(kind, Context) >= Weight(kind, Top)
  <2>1. \A s, f, x \in Nat : x >= s + f => x >= f
    OBVIOUS
  <2> QED
    BY <1>5, <2>1
<1> QED
  BY <1>3, <1>5, <1>6, <1>7, <1>8, <1>9

LEMMA BuildSteps ==
    ASSUME BuilderInv, ParserInv', NEW S, AtOneOf(S), Top.fn \in Counting, NEW g, NEW c, Build(g, c),
           g.fn = Top.fn, c \in Builder,
           \A kind \in Kinds :
             Size(kind, c) + Weight(kind, Top) = Size(kind, Context) + Weight(kind, g),
           \A p \in 1 .. Below : c.operators[p] = Context.operators[p],
           ~error /\ g.fn = "parseBinaryExpression" =>
             Ascending(c.operators, Below, Below + Weight("operators", g))
    PROVE  Stacks'
<1>1. stack # <<>> /\ Frames /\ Frames' /\ Balanced /\ Ordered
  BY HereFacts DEF ParserInv
<1>2. SetTop(g) /\ builders' = Append(Front(builders), c) /\ UNCHANGED error
  BY DEF Build
<1>3. Balanced' /\ Ordered'
  BY <1>1, <1>2, BuiltKeeps
<1> QED
  BY <1>3 DEF Stacks

\* The order of the operators is looked at by two actions only.
LEMMA BuildCounts ==
    ASSUME BuilderInv, ParserInv', NEW S, AtOneOf(S), Top.fn \in Counting, NEW g, NEW c, Build(g, c),
           g.fn = Top.fn, g.m = Top.m, c \in Builder, c.operators = Context.operators,
           \A kind \in Kinds :
             Size(kind, c) + Weight(kind, Top) = Size(kind, Context) + Weight(kind, g)
    PROVE  Stacks'
<1>1. stack # <<>> /\ Frames /\ Balanced /\ Ordered
  BY HereFacts
<1>2. Weight("operators", g) = Weight("operators", Top)
  BY WeightIs
<1>3. ~error /\ g.fn = "parseBinaryExpression" =>
         Ascending(c.operators, Below, Below + Weight("operators", g))
  BY <1>1, <1>2, RoomFacts
<1> QED
  BY <1>3, BuildSteps

LEMMA BuilderFields ==
    ASSUME NEW b \in Builder
    PROVE  /\ b.assignments \in Nat /\ b.operands \in Nat /\ b.unary \in Nat
           /\ b.operators \in Seq(1 .. 10) /\ Len(b.operators) \in Nat
<1>1. b.operators \in Seq(1 .. 10)
  BY DEF Builder
<1>2. Len(b.operators) \in Nat
  BY <1>1, LenProperties
<1> QED
  BY <1>1, <1>2 DEF Builder

\* A counter of a builder and the counter of a function change alike.
Matched(f, g, b, c) ==
    /\ c \in Builder /\ c.operators = b.operators
    /\ \A kind \in Kinds : Size(kind, c) + Weight(kind, f) = Size(kind, b) + Weight(kind, g)

LEMMA AssignmentsMatch ==
    ASSUME NEW b \in Builder, NEW f, NEW g, f.fn = "parseAssignmentExpression", g.fn = f.fn,
           NEW x \in Nat, x + f.n = b.assignments + g.n, f.n \in Nat, g.n \in Nat
    PROVE  Matched(f, g, b, [b EXCEPT !.assignments = x])
<1> DEFINE c == [b EXCEPT !.assignments = x]
<1>1. /\ c \in Builder /\ c.assignments = x /\ c.operands = b.operands /\ c.unary = b.unary
      /\ c.operators = b.operators
  BY DEF Builder
<1>2. /\ b.operands \in Nat /\ b.unary \in Nat /\ Len(b.operators) \in Nat
  BY BuilderFields
<1> HIDE DEF c
<1>3. \A kind \in Kinds : Size(kind, c) + Weight(kind, f) = Size(kind, b) + Weight(kind, g)
  BY <1>1, <1>2, SizeIs, WeightIs DEF Kinds
<1>4. Matched(f, g, b, c)
  BY <1>1, <1>3 DEF Matched
<1> QED
  BY <1>4 DEF c

LEMMA OperandsMatch ==
    ASSUME NEW b \in Builder, NEW f, NEW g, f.fn = "parseBinaryExpression", g.fn = f.fn,
           NEW x \in Nat, x + f.n = b.operands + g.n, f.n \in Nat, g.n \in Nat,
           f.m \in Nat, g.m = f.m
    PROVE  Matched(f, g, b, [b EXCEPT !.operands = x])
<1> DEFINE c == [b EXCEPT !.operands = x]
<1>1. /\ c \in Builder /\ c.assignments = b.assignments /\ c.operands = x /\ c.unary = b.unary
      /\ c.operators = b.operators
  BY DEF Builder
<1>2. /\ b.assignments \in Nat /\ b.unary \in Nat /\ Len(b.operators) \in Nat
  BY BuilderFields
<1> HIDE DEF c
<1>3. \A kind \in Kinds : Size(kind, c) + Weight(kind, f) = Size(kind, b) + Weight(kind, g)
  BY <1>1, <1>2, SizeIs, WeightIs DEF Kinds
<1>4. Matched(f, g, b, c)
  BY <1>1, <1>3 DEF Matched
<1> QED
  BY <1>4 DEF c

LEMMA UnaryMatch ==
    ASSUME NEW b \in Builder, NEW f, NEW g, f.fn = "parseUnaryExpression", g.fn = f.fn,
           NEW x \in Nat, x + f.n = b.unary + g.n, f.n \in Nat, g.n \in Nat
    PROVE  Matched(f, g, b, [b EXCEPT !.unary = x])
<1> DEFINE c == [b EXCEPT !.unary = x]
<1>1. /\ c \in Builder /\ c.assignments = b.assignments /\ c.operands = b.operands
      /\ c.unary = x /\ c.operators = b.operators
  BY DEF Builder
<1>2. /\ b.operands \in Nat /\ b.assignments \in Nat /\ Len(b.operators) \in Nat
  BY BuilderFields
<1> HIDE DEF c
<1>3. \A kind \in Kinds : Size(kind, c) + Weight(kind, f) = Size(kind, b) + Weight(kind, g)
  BY <1>1, <1>2, SizeIs, WeightIs DEF Kinds
<1>4. Matched(f, g, b, c)
  BY <1>1, <1>3 DEF Matched
<1> QED
  BY <1>4 DEF c

\* The two loops that count: what is pushed, and what is popped at the end.
LEMMA CountingSteps ==
    ASSUME BuilderInv, ParserInv',
           assignment \/ endAssignment \/ pushOperand \/ pushUnary \/ endUnary
    PROVE  Stacks'
<1> DEFINE S == {"assignment", "endAssignment", "pushOperand", "pushUnary", "endUnary"}
<1>1. AtOneOf(S)
  BY DEF assignment, endAssignment, pushOperand, pushUnary, endUnary, At, AtOneOf
<1>2. /\ stack # <<>> /\ Frames /\ Balanced /\ Ordered /\ Top \in Frame /\ Top.fn \in Functions
      /\ Head(Top.todo) \in S /\ Head(Top.todo) \in Symbols /\ Head(Top.todo) \in Places(Top.fn)
  BY <1>1, HereFacts
<1>3. /\ Head(Top.todo) \in {"assignment", "endAssignment"} => Top.fn = "parseAssignmentExpression"
      /\ Head(Top.todo) = "pushOperand" => Top.fn = "parseBinaryExpression"
      /\ Head(Top.todo) \in {"pushUnary", "endUnary"} => Top.fn = "parseUnaryExpression"
  BY <1>2, OperationsAreOwned
<1>4. Top.fn \in Counting
  BY <1>2, <1>3 DEF Counting
<1>5. /\ Top.n \in Nat /\ Context \in Builder
      /\ \A kind \in Kinds : Weight(kind, Top) \in Nat /\ Size(kind, Context) >= Weight(kind, Top)
      /\ Context.assignments \in Nat /\ Context.operands \in Nat /\ Context.unary \in Nat
      /\ Len(Context.operators) \in Nat
  BY <1>2, <1>4, RoomFacts, BuilderFields DEF Frame
<1>6. /\ Top.n \in Nat /\ Context.assignments \in Nat
      /\ Context.operands \in Nat /\ Context.unary \in Nat
  BY <1>5
<1>7. ASSUME NEW g, NEW c, Build(g, c), g.fn = Top.fn, g.m = Top.m, Matched(Top, g, Context, c)
      PROVE  Stacks'
  BY <1>1, <1>4, <1>7, BuildCounts DEF Matched
<1>8. CASE assignment
  <2> DEFINE x == <<"next", "parseConditionalExpression", "assignment">>
             g == [Instead(Top, x) EXCEPT !.n = Top.n + 1]
             v == Context.assignments + 1
             c == [Context EXCEPT !.assignments = v]
  <2>1. Top.fn = "parseAssignmentExpression"
    <3>1. Head(Top.todo) = "assignment"
      BY <1>8 DEF assignment, At
    <3> QED
      BY <1>3, <3>1
  <2>2. Build(g, c) \/ Build(Done(Top), Context)
    <3>1. [Context EXCEPT !.assignments = @ + 1] = c
      OBVIOUS
    <3>2. [Instead(Top, x) EXCEPT !.n = @ + 1] = g
      <4>1. Instead(Top, x).n = Top.n
        BY <1>2, FieldFacts
      <4> QED
        BY <4>1
    <3> QED
      BY <1>8, <3>1, <3>2 DEF assignment
  <2>3. CASE Build(g, c)
    <3>1. g.fn = Top.fn /\ g.n = Top.n + 1 /\ g.m = Top.m
      BY <1>2, FieldFacts
    <3> HIDE DEF g
    <3>2. v \in Nat /\ v + Top.n = Context.assignments + g.n /\ g.n \in Nat
      BY <1>6, <3>1
    <3> HIDE DEF v
    <3>3. Matched(Top, g, Context, c)
      BY <1>5, <2>1, <3>1, <3>2, AssignmentsMatch
    <3> QED
      BY <1>7, <2>3, <3>1, <3>3
  <2>4. CASE Build(Done(Top), Context)
    <3>1. Done(Top).fn = Top.fn /\ Done(Top).n = Top.n /\ Done(Top).m = Top.m
      BY <1>2, FieldFacts
    <3>2. \A kind \in Kinds : Weight(kind, Done(Top)) = Weight(kind, Top)
      BY <3>1, WeightIs DEF Kinds
    <3> QED
      BY <1>5, <1>7, <2>4, <3>1, <3>2 DEF Matched
  <2> QED
    BY <2>2, <2>3, <2>4
<1>9. CASE endAssignment
  <2> DEFINE g == [Done(Top) EXCEPT !.n = 0]
             v == Context.assignments - Top.n
             c == [Context EXCEPT !.assignments = v]
  <2>1. Top.fn = "parseAssignmentExpression" /\ Build(g, c)
    <3>1. Head(Top.todo) = "endAssignment" /\ Build(g, c)
      BY <1>9 DEF endAssignment, At
    <3> QED
      BY <1>3, <3>1
  <2>2. g.fn = Top.fn /\ g.n = 0 /\ g.m = Top.m
    BY <1>2, FieldFacts
  <2>3. Context.assignments >= Top.n
    BY <1>5, <2>1, WeightIs, SizeIs DEF Kinds
  <2>4. v \in Nat /\ v + Top.n = Context.assignments + g.n /\ g.n \in Nat
    BY <1>5, <2>2, <2>3
  <2> HIDE DEF g, v
  <2>5. Matched(Top, g, Context, c)
    BY <1>5, <2>1, <2>2, <2>4, AssignmentsMatch
  <2> QED
    BY <1>7, <2>1, <2>2, <2>5
<1>10. CASE pushOperand
  <2> DEFINE g == [Done(Top) EXCEPT !.n = Top.n + 1]
             v == Context.operands + 1
             c == [Context EXCEPT !.operands = v]
  <2>1. Top.fn = "parseBinaryExpression" /\ Build(g, c)
    <3>1. Head(Top.todo) = "pushOperand" /\ Build([Done(Top) EXCEPT !.n = @ + 1], c)
      BY <1>10 DEF pushOperand, At
    <3>2. [Done(Top) EXCEPT !.n = @ + 1] = g
      <4>1. Done(Top).n = Top.n
        BY <1>2, FieldFacts
      <4> QED
        BY <4>1
    <3> QED
      BY <1>3, <3>1, <3>2
  <2>2. g.fn = Top.fn /\ g.n = Top.n + 1 /\ g.m = Top.m /\ Top.m \in Nat
    BY <1>2, FieldFacts DEF Frame
  <2>3. v \in Nat /\ v + Top.n = Context.operands + g.n /\ g.n \in Nat
    <3> HIDE DEF g
    <3> QED
      BY <1>6, <2>2
  <2> HIDE DEF g, v
  <2>4. Matched(Top, g, Context, c)
    BY <1>5, <2>1, <2>2, <2>3, OperandsMatch
  <2> QED
    BY <1>7, <2>1, <2>2, <2>4
<1>11. CASE pushUnary
  <2> DEFINE g == [Done(Top) EXCEPT !.n = Top.n + 1]
             v == Context.unary + 1
             c == [Context EXCEPT !.unary = v]
  <2>1. Top.fn = "parseUnaryExpression" /\ Build(g, c)
    <3>1. Head(Top.todo) = "pushUnary" /\ Build([Done(Top) EXCEPT !.n = @ + 1], c)
      BY <1>11 DEF pushUnary, At
    <3>2. [Done(Top) EXCEPT !.n = @ + 1] = g
      <4>1. Done(Top).n = Top.n
        BY <1>2, FieldFacts
      <4> QED
        BY <4>1
    <3> QED
      BY <1>3, <3>1, <3>2
  <2>2. g.fn = Top.fn /\ g.n = Top.n + 1 /\ g.m = Top.m
    BY <1>2, FieldFacts
  <2>3. v \in Nat /\ v + Top.n = Context.unary + g.n /\ g.n \in Nat
    <3> HIDE DEF g
    <3> QED
      BY <1>6, <2>2
  <2> HIDE DEF g, v
  <2>4. Matched(Top, g, Context, c)
    BY <1>5, <2>1, <2>2, <2>3, UnaryMatch
  <2> QED
    BY <1>7, <2>1, <2>2, <2>4
<1>12. CASE endUnary
  <2> DEFINE g == [Done(Top) EXCEPT !.n = 0]
             v == Context.unary - Top.n
             c == [Context EXCEPT !.unary = v]
  <2>1. Top.fn = "parseUnaryExpression" /\ Build(g, c)
    <3>1. Head(Top.todo) = "endUnary" /\ Build(g, c)
      BY <1>12 DEF endUnary, At
    <3> QED
      BY <1>3, <3>1
  <2>2. g.fn = Top.fn /\ g.n = 0 /\ g.m = Top.m
    BY <1>2, FieldFacts
  <2>3. Context.unary >= Top.n
    BY <1>5, <2>1, WeightIs, SizeIs DEF Kinds
  <2>4. v \in Nat /\ v + Top.n = Context.unary + g.n /\ g.n \in Nat
    BY <1>5, <2>2, <2>3
  <2> HIDE DEF g, v
  <2>5. Matched(Top, g, Context, c)
    BY <1>5, <2>1, <2>2, <2>4, UnaryMatch
  <2> QED
    BY <1>7, <2>1, <2>2, <2>5
<1> QED
  BY <1>8, <1>9, <1>10, <1>11, <1>12

\* The operators that stay bind less tightly than the one that is pushed.
LEMMA ReducedStops ==
    ASSUME NEW m \in Nat, NEW ops, NEW p
    PROVE  \E i \in 0 .. m : /\ Reduced(m, ops, p) = m - i
                             /\ i = 0 \/ ~HasHigherPrecedence(ops[Len(ops) - m + i], p)
<1> DEFINE stays(i) == i = 0 \/ ~HasHigherPrecedence(ops[Len(ops) - m + i], p)
           P(i) == stays(i) /\ \A j \in i + 1 .. m : ~stays(j)
           K == {i \in 0 .. m : stays(i)}
<1>1. Reduced(m, ops, p) = m - (CHOOSE i \in 0 .. m : P(i))
  BY DEF Reduced
<1>2. 0 \in K
  OBVIOUS
<1> SUFFICES \E i \in 0 .. m : Reduced(m, ops, p) = m - i /\ stays(i)
  OBVIOUS
<1> HIDE DEF stays
<1>3. PICK i \in K : \A j \in K : j <= i
  BY <1>2, GreatestElement
<1>4. \A j \in i + 1 .. m : ~stays(j)
  BY <1>3
<1>5. \E k \in 0 .. m : P(k)
  BY <1>3, <1>4
<1>6. \A k : P(k) => stays(k)
  OBVIOUS
<1> HIDE DEF P
<1>7. (CHOOSE k \in 0 .. m : P(k)) \in 0 .. m /\ P(CHOOSE k \in 0 .. m : P(k))
  BY <1>5
<1> QED
  BY <1>1, <1>6, <1>7

\* A list without its last operators.
LEMMA PoppedOperators ==
    ASSUME NEW ops \in Seq(1 .. 10), NEW base \in Nat, NEW k \in Nat, Len(ops) >= base + k
    PROVE  LET rest == SubSeq(ops, 1, Len(ops) - k)
           IN  /\ rest \in Seq(1 .. 10) /\ Len(rest) = Len(ops) - k
               /\ \A q \in 1 .. Len(ops) - k : rest[q] = ops[q]
               /\ \A q \in 1 .. base : q \in 1 .. Len(ops) - k
<1> DEFINE u == Len(ops) - k
           rest == SubSeq(ops, 1, u)
<1>1. Len(ops) \in Nat
  BY LenProperties
<1>2. u \in Nat /\ 1 \in Int /\ u >= base /\ u <= Len(ops)
  BY <1>1
<1>3. \A q \in 1 .. u : ops[q] \in 1 .. 10
  <2>1. \A q \in 1 .. u : q \in 1 .. Len(ops)
    BY <1>1, <1>2
  <2> QED
    BY <2>1, ElementOfSeq
<1>4. \A q \in 1 .. base : q \in 1 .. u
  BY <1>2
<1> HIDE DEF u
<1>5. /\ rest \in Seq(1 .. 10)
      /\ Len(rest) = IF 1 <= u THEN u - 1 + 1 ELSE 0
      /\ \A q \in 1 .. u - 1 + 1 : rest[q] = ops[1 + q - 1]
  BY <1>2, <1>3, SubSeqProperties
<1> HIDE DEF rest
<1>6. Len(rest) = u /\ \A q \in 1 .. u : rest[q] = ops[q]
  BY <1>2, <1>5
<1> QED
  BY <1>4, <1>5, <1>6 DEF u, rest

\* A list with room for a function's operators; one with an operator pushed.
Fits(ops, base, m) ==
    ops \in Seq(1 .. 10) /\ base \in Nat /\ m \in Nat /\ Len(ops) >= base + m
Pushed(new, ops, k, p) == new = Append(SubSeq(ops, 1, Len(ops) - k), p)

\* An operator on top of those that stay.
LEMMA PushedOperator ==
    ASSUME NEW ops, NEW base, NEW m, Fits(ops, base, m), NEW i \in 0 .. m, NEW p \in 1 .. 10,
           i = 0 \/ ops[Len(ops) - m + i] < p, NEW new, Pushed(new, ops, m - i, p)
    PROVE  /\ new \in Seq(1 .. 10) /\ Len(new) = Len(ops) - (m - i) + 1
           /\ \A q \in 1 .. base : new[q] = ops[q]
           /\ Len(ops) = base + m /\ Ascending(ops, base, base + m) =>
                Ascending(new, base, base + i + 1)
<1> DEFINE k == m - i
           rest == SubSeq(ops, 1, Len(ops) - k)
           u == Len(ops) - k
<1>1. /\ ops \in Seq(1 .. 10) /\ base \in Nat /\ m \in Nat /\ Len(ops) >= base + m
      /\ new = Append(rest, p) /\ Len(ops) \in Nat
  <2>1. ops \in Seq(1 .. 10) /\ base \in Nat /\ m \in Nat /\ Len(ops) >= base + m
    BY DEF Fits
  <2> QED
    BY <2>1, LenProperties DEF Pushed
<1>2. k \in Nat /\ k <= m /\ Len(ops) >= base + k /\ u \in Nat /\ u >= base + i
  BY <1>1
<1> HIDE DEF k
<1>3. /\ rest \in Seq(1 .. 10) /\ Len(rest) = u
      /\ \A q \in 1 .. u : rest[q] = ops[q]
      /\ \A q \in 1 .. base : q \in 1 .. u
  BY <1>1, <1>2, PoppedOperators
<1> HIDE DEF rest
<1>4. /\ new \in Seq(1 .. 10) /\ Len(new) = u + 1
      /\ \A q \in 1 .. u : new[q] = rest[q]
      /\ new[u + 1] = p
  BY <1>1, <1>3, AppendProperties
<1>5. \A q \in 1 .. u : new[q] = ops[q]
  BY <1>3, <1>4
<1>6. ASSUME Len(ops) = base + m, Ascending(ops, base, base + m)
      PROVE  Ascending(new, base, base + i + 1)
  <2>1. u = base + i /\ Len(ops) - m + i = u
    BY <1>1, <1>2, <1>6 DEF k
  <2>2. ASSUME NEW q \in base + 1 .. (base + i + 1) - 1 PROVE new[q] < new[q + 1]
    <3>1. i # 0 /\ q \in 1 .. u
      BY <1>1, <1>2, <2>1
    <3>2. CASE q = u
      <4>1. new[q] = ops[u] /\ new[q + 1] = p
        BY <1>4, <1>5, <3>1, <3>2
      <4>2. ops[u] < p
        BY <2>1, <3>1
      <4> QED
        BY <4>1, <4>2
    <3>3. CASE q # u
      <4>1. q + 1 \in 1 .. u /\ q \in base + 1 .. base + m - 1
        BY <1>1, <2>1, <3>1, <3>3
      <4>2. ops[q] < ops[q + 1]
        BY <1>1, <1>6, <4>1 DEF Ascending
      <4> QED
        BY <1>5, <3>1, <4>1, <4>2
    <3> QED
      BY <3>2, <3>3
  <2> QED
    BY <2>2 DEF Ascending
<1> QED
  BY <1>3, <1>4, <1>5, <1>6 DEF rest, k

LEMMA PrecedenceType ==
    ASSUME NEW t, NEW a, isBinaryOperator(t, a) # 0 PROVE isBinaryOperator(t, a) \in 1 .. 10
<1> DEFINE ps == {p \in 1 .. 10 : t \in BinaryOpsByPrecedence[p]}
<1>1. isBinaryOperator(t, a) = CHOOSE p \in ps : TRUE
  BY DEF isBinaryOperator
<1>2. ps # {} /\ ps \subseteq 1 .. 10
  BY DEF isBinaryOperator
<1> HIDE DEF ps
<1>3. (CHOOSE p \in ps : TRUE) \in ps
  BY <1>2
<1> QED
  BY <1>1, <1>2, <1>3

\* Builder c is b with other operands and operators.
Swapped(b, c, x, s) == c = [b EXCEPT !.operands = x, !.operators = s]

LEMMA BinaryMatch ==
    ASSUME NEW b \in Builder, NEW f, NEW g, f.fn = "parseBinaryExpression", g.fn = f.fn,
           NEW x \in Nat, NEW s \in Seq(1 .. 10), x + f.n = b.operands + g.n,
           Len(s) + f.m = Len(b.operators) + g.m,
           NEW c, Swapped(b, c, x, s)
    PROVE  /\ c \in Builder /\ c.operators = s
           /\ \A kind \in Kinds :
                Size(kind, c) + Weight(kind, f) = Size(kind, b) + Weight(kind, g)
<1>1. /\ c \in Builder /\ c.assignments = b.assignments /\ c.operands = x /\ c.unary = b.unary
      /\ c.operators = s
  BY DEF Builder, Swapped
<1>2. b.unary \in Nat /\ b.assignments \in Nat
  BY BuilderFields
<1>3. \A kind \in Kinds : Size(kind, c) + Weight(kind, f) = Size(kind, b) + Weight(kind, g)
  BY <1>1, <1>2, SizeIs, WeightIs DEF Kinds
<1> QED
  BY <1>1, <1>3

\* What pushing an operator does to the operators.
LEMMA PushMatch ==
    ASSUME NEW ops, NEW base, NEW m, Fits(ops, base, m), NEW p \in 1 .. 10,
           NEW k, k = Reduced(m, ops, p), NEW new, Pushed(new, ops, k, p)
    PROVE  /\ k \in Nat /\ k <= m
           /\ new \in Seq(1 .. 10) /\ Len(new) + m = Len(ops) + (m - k + 1)
           /\ \A q \in 1 .. base : new[q] = ops[q]
           /\ Len(ops) = base + m /\ Ascending(ops, base, base + m) =>
                Ascending(new, base, base + (m - k + 1))
<1>1. ops \in Seq(1 .. 10) /\ base \in Nat /\ m \in Nat /\ Len(ops) >= base + m
  BY DEF Fits
<1>2. PICK i \in 0 .. m : k = m - i /\ (i = 0 \/ ~HasHigherPrecedence(ops[Len(ops) - m + i], p))
  BY <1>1, ReducedStops
<1>3. Len(ops) \in Nat
  BY <1>1, LenProperties
<1>4. i = 0 \/ ops[Len(ops) - m + i] < p
  <2>1. ASSUME i # 0 PROVE ops[Len(ops) - m + i] < p
    <3> DEFINE at == Len(ops) - m + i
    <3>1. at \in 1 .. Len(ops)
      BY <1>1, <1>2, <1>3, <2>1
    <3>2. ~HasHigherPrecedence(ops[at], p)
      BY <1>2, <2>1
    <3> HIDE DEF at
    <3>3. ops[at] \in 1 .. 10
      BY <1>1, <3>1, ElementOfSeq
    <3>4. ~(p <= ops[at])
      BY <3>2 DEF HasHigherPrecedence
    <3>5. \A y \in 1 .. 10 : ~(p <= y) => y < p
      OBVIOUS
    <3>6. ops[at] < p
      BY <3>3, <3>4, <3>5
    <3> QED
      BY <3>6 DEF at
  <2> QED
    BY <2>1
<1>5. Pushed(new, ops, m - i, p)
  BY <1>2
<1>6. /\ new \in Seq(1 .. 10) /\ Len(new) = Len(ops) - (m - i) + 1
      /\ \A q \in 1 .. base : new[q] = ops[q]
      /\ Len(ops) = base + m /\ Ascending(ops, base, base + m) =>
           Ascending(new, base, base + i + 1)
  BY <1>2, <1>4, <1>5, PushedOperator
<1>7. Len(new) + m = Len(ops) + (m - k + 1) /\ base + i + 1 = base + (m - k + 1)
  BY <1>1, <1>2, <1>3, <1>6
<1>8. k \in Nat /\ k <= m
  BY <1>1, <1>2
<1> QED
  BY <1>6, <1>7, <1>8

\* What popping all of a function's operators does to them and to the operands.
LEMMA PopMatch ==
    ASSUME NEW ops \in Seq(1 .. 10), NEW base \in Nat, NEW m \in Nat, NEW o \in Nat,
           o >= m + 1, Len(ops) >= base + m
    PROVE  LET rest == SubSeq(ops, 1, Len(ops) - m)
           IN  /\ o - m - 1 \in Nat /\ o - m - 1 + (m + 1) = o + 0
               /\ rest \in Seq(1 .. 10) /\ Len(rest) + m = Len(ops) + 0
               /\ \A q \in 1 .. base : rest[q] = ops[q]
               /\ Ascending(rest, base, base + 0)
<1> DEFINE rest == SubSeq(ops, 1, Len(ops) - m)
<1>1. Len(ops) \in Nat
  BY LenProperties
<1>2. /\ rest \in Seq(1 .. 10) /\ Len(rest) = Len(ops) - m
      /\ \A q \in 1 .. Len(ops) - m : rest[q] = ops[q]
      /\ \A q \in 1 .. base : q \in 1 .. Len(ops) - m
  BY PoppedOperators
<1> HIDE DEF rest
<1>3. Len(rest) + m = Len(ops) + 0
  BY <1>1, <1>2
<1>4. base + 1 .. base + 0 - 1 = {}
  OBVIOUS
<1>5. Ascending(rest, base, base + 0)
  BY <1>4 DEF Ascending
<1>6. \A q \in 1 .. base : rest[q] = ops[q]
  BY <1>2
<1>7. o - m - 1 \in Nat /\ o - m - 1 + (m + 1) = o + 0
  OBVIOUS
<1> QED
  BY <1>2, <1>3, <1>5, <1>6, <1>7 DEF rest

LEMMA BinarySteps == ASSUME BuilderInv, ParserInv', binaryOperator \/ endBinary PROVE Stacks'
<1>1. AtOneOf({"binaryOperator"})
  BY AtIs DEF binaryOperator, endBinary
<1>2. /\ stack # <<>> /\ Frames /\ Balanced /\ Ordered /\ Top \in Frame /\ Top.fn \in Functions
      /\ "binaryOperator" \in Symbols /\ "binaryOperator" \in Places(Top.fn)
      /\ Now(Top.todo) = "binaryOperator" /\ GoodFrame(Top)
  BY <1>1, HereFacts
<1>3. Top.fn = "parseBinaryExpression" /\ Top.fn \in Counting
  BY <1>2, OperationsAreOwned DEF Counting
<1>4. Top.n \in Nat /\ Top.m \in Nat /\ Top.n = Top.m + 1
  <2>1. Top.n \in Nat /\ Top.m \in Nat
    BY <1>2 DEF Frame
  <2>2. Top.n = Top.m + 1
    BY <1>2, <1>3 DEF GoodFrame, GoodCounts
  <2> QED
    BY <2>1, <2>2
<1> DEFINE ops == Context.operators
           o == Context.operands
           m == Top.m
           base == Below
<1>5. /\ Context \in Builder /\ o \in Nat /\ ops \in Seq(1 .. 10)
      /\ Len(ops) \in Nat /\ base \in Nat /\ Weight("operators", Top) = m /\ m \in Nat
  BY <1>2, <1>3, <1>4, RoomFacts, BuilderFields, WeightIs
<1>6. /\ o >= m + 1 /\ Len(ops) >= base + m
      /\ ~error => Len(ops) = base + m /\ Ascending(ops, base, base + m)
  <2>1. Size("operands", Context) >= Weight("operands", Top)
    BY <1>2, <1>3, RoomFacts DEF Kinds
  <2>2. o >= m + 1
    BY <1>3, <1>4, <2>1, SizeIs, WeightIs
  <2> QED
    BY <1>2, <1>3, <1>5, <2>2, RoomFacts
<1>7. ASSUME NEW g, NEW v \in Nat, NEW s \in Seq(1 .. 10), g.fn = Top.fn,
             Build(g, [Context EXCEPT !.operands = v, !.operators = s]),
             v + (m + 1) = o + g.n, Len(s) + m = Len(ops) + g.m,
             \A q \in 1 .. base : s[q] = ops[q],
             ~error => Ascending(s, base, base + g.m)
      PROVE  Stacks'
  <2> DEFINE c == [Context EXCEPT !.operands = v, !.operators = s]
  <2>1. v + Top.n = Context.operands + g.n /\ Len(s) + Top.m = Len(Context.operators) + g.m
    BY <1>4, <1>7
  <2>2. Swapped(Context, c, v, s)
    BY DEF Swapped
  <2>3. Context \in Builder /\ Top.fn = "parseBinaryExpression" /\ g.fn = Top.fn
    BY <1>3, <1>5, <1>7
  <2>4. Weight("operators", g) = g.m
    BY <1>3, <1>7, WeightIs
  <2>5. Build(g, c)
    BY <1>7
  <2> HIDE DEF c
  <2>6. /\ c \in Builder /\ c.operators = s
        /\ \A kind \in Kinds :
             Size(kind, c) + Weight(kind, Top) = Size(kind, Context) + Weight(kind, g)
    BY <2>1, <2>2, <2>3, BinaryMatch
  <2>7. /\ \A q \in 1 .. Below : c.operators[q] = Context.operators[q]
        /\ ~error => Ascending(c.operators, Below, Below + Weight("operators", g))
    BY <1>7, <2>6, <2>4
  <2> QED
    BY <1>1, <1>3, <1>7, <2>6, <2>5, <2>7, BuildSteps
<1> HIDE DEF ops, o, m, base
<1>8. CASE binaryOperator
  <2> DEFINE p == isBinaryOperator(tok, allowsIn)
             k == Reduced(m, ops, p)
             x == <<"next", "operand">>
             v == o - k
             s == Append(SubSeq(ops, 1, Len(ops) - k), p)
             g == [Instead(Top, x) EXCEPT !.n = m + 1 - k, !.m = m - k + 1]
  <2>1. p # 0
    BY <1>8 DEF binaryOperator
  <2>2. p \in 1 .. 10
    BY <2>1, PrecedenceType
  <2>3. k \in Nat
    <3>1. \A i \in 0 .. m : m - i \in Nat
      BY <1>5
    <3> QED
      BY <1>5, <3>1, ReducedStops
  <2>4. Build(g, [Context EXCEPT !.operands = v, !.operators = s])
    <3>1. Build([Instead(Top, x) EXCEPT !.n = @ - k, !.m = @ - k + 1],
                [Context EXCEPT !.operands = @ - k,
                    !.operators = Append(SubSeq(@, 1, Len(@) - k), p)])
      BY <1>8 DEF binaryOperator, m, ops
    <3> HIDE DEF k, p
    <3>2. [Instead(Top, x) EXCEPT !.n = @ - k, !.m = @ - k + 1] = g
      <4> DEFINE h == Instead(Top, x)
      <4>1. h.n = m + 1 /\ h.m = m
        BY <1>2, <1>4, FieldFacts DEF m
      <4>2. g = [h EXCEPT !.n = m + 1 - k, !.m = m - k + 1]
        OBVIOUS
      <4> HIDE DEF h, g, x
      <4>3. h.n - k = m + 1 - k /\ h.m - k + 1 = m - k + 1
        BY <1>5, <2>3, <4>1
      <4>4. [h EXCEPT !.n = h.n - k, !.m = h.m - k + 1] = g
        BY <4>2, <4>3
      <4> QED
        BY <4>4 DEF h
    <3>3. [Context EXCEPT !.operands = @ - k, !.operators = Append(SubSeq(@, 1, Len(@) - k), p)]
            = [Context EXCEPT !.operands = v, !.operators = s]
      BY DEF o, ops
    <3> QED
      BY <3>1, <3>2, <3>3
  <2>5. g.fn = Top.fn /\ g.n = m + 1 - k /\ g.m = m - k + 1
    BY <1>2, FieldFacts
  <2> HIDE DEF g, p
  <2>6. k = Reduced(m, ops, p) /\ v = o - k /\ Pushed(s, ops, k, p)
    BY DEF Pushed
  <2> HIDE DEF k, v, s
  <2>7. Fits(ops, base, m)
    BY <1>5, <1>6 DEF Fits
  <2>8. /\ k \in Nat /\ k <= m
        /\ s \in Seq(1 .. 10) /\ Len(s) + m = Len(ops) + (m - k + 1)
        /\ \A q \in 1 .. base : s[q] = ops[q]
        /\ Len(ops) = base + m /\ Ascending(ops, base, base + m) =>
             Ascending(s, base, base + (m - k + 1))
    BY <2>2, <2>6, <2>7, PushMatch
  <2>9. v \in Nat /\ v + (m + 1) = o + (m + 1 - k)
    <3>1. /\ o \in Nat /\ m \in Nat /\ k \in Nat
          /\ o >= m + 1 /\ k <= m /\ v = o - k
      BY <1>5, <1>6, <2>6, <2>8
    <3>2. v \in Nat
      BY <3>1
    <3>3. v + (m + 1) = o + (m + 1 - k)
      BY <3>1
    <3> QED
      BY <3>2, <3>3
  <2>10. /\ v + (m + 1) = o + g.n /\ Len(s) + m = Len(ops) + g.m
        /\ ~error => Ascending(s, base, base + g.m)
    BY <1>6, <2>5, <2>8, <2>9
  <2> QED
    BY <1>7, <2>4, <2>5, <2>8, <2>9, <2>10
<1>9. CASE endBinary
  <2> DEFINE v == o - m - 1
             s == SubSeq(ops, 1, Len(ops) - m)
             g == [Done(Top) EXCEPT !.n = 0, !.m = 0]
  <2>1. Build(g, [Context EXCEPT !.operands = v, !.operators = s])
    <3>1. Build([Done(Top) EXCEPT !.n = @ - Top.m - 1, !.m = 0],
                [Context EXCEPT !.operands = @ - Top.m - 1,
                                !.operators = SubSeq(@, 1, Len(@) - Top.m)])
      BY <1>9 DEF endBinary
    <3>2. [Done(Top) EXCEPT !.n = @ - Top.m - 1, !.m = 0] = g
      <4>1. Done(Top).n - Top.m - 1 = 0
        BY <1>2, <1>4, FieldFacts
      <4> QED
        BY <4>1
    <3>3. [Context EXCEPT !.operands = @ - Top.m - 1, !.operators = SubSeq(@, 1, Len(@) - Top.m)]
            = [Context EXCEPT !.operands = v, !.operators = s]
      BY DEF o, ops, m
    <3> QED
      BY <3>1, <3>2, <3>3
  <2>2. g.fn = Top.fn /\ g.n = 0 /\ g.m = 0
    BY <1>2, FieldFacts
  <2> HIDE DEF g
  <2>3. /\ v \in Nat /\ v + (m + 1) = o + 0
        /\ s \in Seq(1 .. 10) /\ Len(s) + m = Len(ops) + 0
        /\ \A q \in 1 .. base : s[q] = ops[q]
        /\ Ascending(s, base, base + 0)
    BY <1>5, <1>6, PopMatch
  <2> HIDE DEF v, s
  <2> QED
    BY <1>7, <2>1, <2>2, <2>3
<1> QED
  BY <1>8, <1>9

-----------------------------------------------------------------------------
(* The invariant.                                                           *)

\* A step that leaves functions and builders alone, the crash among them.
LEMMA StopSteps ==
    ASSUME BuilderInv, ParserInv', UNCHANGED <<error, stack, builders>>
    PROVE  Stacks'
<1>1. Frames /\ Frames' /\ Balanced /\ Ordered
  BY DEF BuilderInv, Stacks, ParserInv
<1>2. Len(stack') = Len(stack) /\ Kept(Len(stack))
  BY AlikeIsRefl DEF Kept
<1> QED
  BY <1>1, <1>2, SteadyKeeps DEF Stacks

\* One function, that has nothing on the stacks of one builder.
LEMMA InitStacks == ASSUME Init, ParserInv PROVE Stacks
<1>1. Frames /\ builders = <<NoOperands>> /\ stack = <<NewFrame("parseSourceElements")>>
  BY DEF ParserInv, Init
<1>2. /\ Len(stack) = 1 /\ Len(builders) = 1 /\ builders[1] = NoOperands
      /\ stack[1].fn = "parseSourceElements"
  BY <1>1 DEF NewFrame
<1>3. /\ NoOperands \in Builder /\ NoOperands.operands = 0 /\ NoOperands.operators = <<>>
      /\ NoOperands.unary = 0 /\ NoOperands.assignments = 0
  BY DEF NoOperands, Builder
<1>4. builders \in Seq(Builder)
  BY <1>1, <1>3
<1>5. Levels(1) /\ Sums(1)
  <2>1. \A i \in 1 .. 1 : stack[i] \in Frame
    BY <1>1, <1>2 DEF Frames, GoodFrame
  <2> QED
    BY <2>1, NowRules
<1>6. Level(1) = 1 /\ Level(2) = 1
  BY <1>2, <1>5 DEF Levels, Body
<1>7. ASSUME NEW kind \in Kinds PROVE Share(kind, 1, 1) = 0 /\ Size(kind, NoOperands) = 0
  <2>1. Weight(kind, stack[1]) = 0
    BY <1>2, NoWeight DEF Counting
  <2>2. 1 \in 1 .. 1 /\ 1 - 1 = 0
    OBVIOUS
  <2>3. /\ Share(kind, 1, 0) = 0
        /\ Share(kind, 1, 1) = Share(kind, 1, 1 - 1)
             + (IF Level(1) = 1 THEN Weight(kind, stack[1]) ELSE 0)
    BY <1>5, <2>2 DEF Sums
  <2>4. Share(kind, 1, 1) = 0
    BY <1>6, <2>1, <2>2, <2>3
  <2>5. Len(<<>>) = 0
    OBVIOUS
  <2> QED
    BY <1>3, <2>4, <2>5, SizeIs DEF Kinds
<1>8. Balanced
  <2>1. ASSUME NEW b \in 1 .. Len(builders), NEW kind \in Kinds
        PROVE  Size(kind, builders[b]) = 0 /\ Share(kind, b, Len(stack)) = 0
    <3>1. b = 1
      BY <1>2
    <3> QED
      BY <1>2, <1>7, <3>1
  <2>2. Len(builders) = Level(Len(stack) + 1)
    BY <1>2, <1>6
  <2> QED
    BY <1>4, <2>1, <2>2 DEF Balanced
<1>9. Ordered
  <2>1. \A i \in 1 .. Len(stack) : stack[i].fn # "parseBinaryExpression"
    BY <1>2
  <2> QED
    BY <2>1 DEF Ordered
<1> QED
  BY <1>8, <1>9 DEF Stacks

\* One case for every handler of the parser.
LEMMA NextStacks == ASSUME BuilderInv, [Next]_vars PROVE BuilderInv'
<1>1. ParserInv'
  BY NextKeeps DEF BuilderInv
<1>2. CASE UNCHANGED vars \/ Crash({"appendConstDecl", "createGetterOrSetterProperty"})
  <2>1. UNCHANGED <<error, stack, builders>>
    BY <1>2 DEF vars, Crash
  <2>2. Stacks'
    BY <1>1, <2>1, StopSteps
  <2> QED
    BY <1>1, <2>2 DEF BuilderInv
<1>3. CASE Call \/ Return \/ newBuilder \/ countDeclaration
  BY <1>1, <1>3, CallSteps, ReturnSteps, BodySteps, DeclarationSteady DEF BuilderInv
<1>4. CASE \/ Decide \/ consumeOrFail \/ next \/ autoSemiColon \/ SaveLHS \/ SetAllowsIn
           \/ SetNonLHS \/ forVarRest \/ Checks
  BY <1>1, <1>4, PlainSteps, CheckSteps DEF BuilderInv
<1>5. CASE saveTokenCount \/ countHandler \/ countNew \/ callOrNew \/ elseStacks
  BY <1>1, <1>5, OtherCounters DEF BuilderInv
<1>6. CASE \/ assignment \/ endAssignment \/ pushOperand \/ pushUnary \/ endUnary
           \/ binaryOperator \/ endBinary
  BY <1>1, <1>6, CountingSteps, BinarySteps DEF BuilderInv
<1> QED
  BY <1>2, <1>3, <1>4, <1>5, <1>6 DEF Next

\* Every reachable state has the builders' stacks balanced and their
\* operators ordered: what createBinary and its kin rely on when they pop.
THEOREM BuilderInvariant == Spec => []BuilderInv
<1>1. Init => BuilderInv
  BY InitEstablishes, InitStacks DEF BuilderInv
<1>2. BuilderInv /\ [Next]_vars => BuilderInv'
  BY NextStacks
<1> QED
  BY <1>1, <1>2, PTL DEF Spec

-----------------------------------------------------------------------------
(* What follows from it.                                                    *)

\* No counter of a function or of a builder goes below zero, at any depth:
\* what createBinary, createUnary and createAssignment pop has been pushed.
THEOREM CountersStayNatural == Spec => []TypeOK
<1>1. BuilderInv => TypeOK
  BY DEF BuilderInv, ParserInv, Registers, Frames, Stacks, Balanced, TypeOK
<1> QED
  BY <1>1, BuilderInvariant, PTL

\* The sums of the property are those of the invariant.
LEMMA OwnedIsShare ==
    ASSUME Frames, NEW b
    PROVE  LET n == [i \in DOMAIN stack |-> stack[i].n]
               m == [i \in DOMAIN stack |-> stack[i].m]
           IN  /\ Owned(b, "parseBinaryExpression", n) = Share("operands", b, Len(stack))
               /\ Owned(b, "parseBinaryExpression", m) = Share("operators", b, Len(stack))
               /\ Owned(b, "parseUnaryExpression", n) = Share("unary", b, Len(stack))
               /\ Owned(b, "parseAssignmentExpression", n) = Share("assignments", b, Len(stack))
<1> DEFINE n == [i \in DOMAIN stack |-> stack[i].n]
           m == [i \in DOMAIN stack |-> stack[i].m]
           what(fn, count) ==
               [i \in DOMAIN stack |-> IF Level(i) = b /\ stack[i].fn = fn THEN count[i] ELSE 0]
           N == Len(stack)
<1>1. DOMAIN stack = 1 .. N
  BY LenProperties DEF Frames
<1>2. \A i \in 1 .. N : n[i] = stack[i].n /\ m[i] = stack[i].m
  BY <1>1
<1> HIDE DEF n, m
<1>3. what("parseBinaryExpression", n) = Counts("operands", b, N)
  BY <1>1, <1>2, WeightIs DEF Counts
<1>4. what("parseBinaryExpression", m) = Counts("operators", b, N)
  BY <1>1, <1>2, WeightIs DEF Counts
<1>5. what("parseUnaryExpression", n) = Counts("unary", b, N)
  BY <1>1, <1>2, WeightIs DEF Counts
<1>6. what("parseAssignmentExpression", n) = Counts("assignments", b, N)
  BY <1>1, <1>2, WeightIs DEF Counts
<1>7. \A fn, count : Owned(b, fn, count) = Total(what(fn, count))
  BY DEF Owned
<1> HIDE DEF what
<1>8. /\ Owned(b, "parseBinaryExpression", n) = Share("operands", b, N)
      /\ Owned(b, "parseBinaryExpression", m) = Share("operators", b, N)
      /\ Owned(b, "parseUnaryExpression", n) = Share("unary", b, N)
      /\ Owned(b, "parseAssignmentExpression", n) = Share("assignments", b, N)
  BY <1>3, <1>4, <1>5, <1>6, <1>7 DEF Share
<1> QED
  BY <1>8 DEF n, m

\* The functions of a body share the stacks of its builder, and none of them
\* pops what another one pushed, however deeply they are nested and whichever
\* of them fail.
THEOREM StacksAreOwned == Spec => []BuilderStacksAreOwned
<1>1. ASSUME BuilderInv PROVE BuilderStacksAreOwned
  <2>1. Frames /\ Balanced
    BY <1>1 DEF BuilderInv, ParserInv, Stacks
  <2>2. Len(builders) = Level(Len(stack) + 1) /\ DOMAIN builders = 1 .. Len(builders)
    BY <2>1, LenProperties DEF Balanced
  <2>3. ASSUME NEW b \in 1 .. Len(builders)
        PROVE  LET n == [i \in DOMAIN stack |-> stack[i].n]
                   m == [i \in DOMAIN stack |-> stack[i].m]
                   operands == Owned(b, "parseBinaryExpression", n)
                   operators == Owned(b, "parseBinaryExpression", m)
                   unary == Owned(b, "parseUnaryExpression", n)
                   assignments == Owned(b, "parseAssignmentExpression", n)
               IN  /\ builders[b].operands >= operands
                   /\ Len(builders[b].operators) >= operators
                   /\ builders[b].unary >= unary
                   /\ builders[b].assignments >= assignments
                   /\ ~error => /\ builders[b].operands = operands
                                /\ Len(builders[b].operators) = operators
                                /\ builders[b].unary = unary
                                /\ builders[b].assignments = assignments
    <3> DEFINE n == [i \in DOMAIN stack |-> stack[i].n]
               m == [i \in DOMAIN stack |-> stack[i].m]
    <3>1. /\ Owned(b, "parseBinaryExpression", n) = Share("operands", b, Len(stack))
          /\ Owned(b, "parseBinaryExpression", m) = Share("operators", b, Len(stack))
          /\ Owned(b, "parseUnaryExpression", n) = Share("unary", b, Len(stack))
          /\ Owned(b, "parseAssignmentExpression", n) = Share("assignments", b, Len(stack))
      BY <2>1, OwnedIsShare
    <3>2. \A kind \in Kinds :
            /\ Size(kind, builders[b]) >= Share(kind, b, Len(stack))
            /\ ~error => Size(kind, builders[b]) = Share(kind, b, Len(stack))
      BY <2>1 DEF Balanced
    <3> HIDE DEF n, m
    <3>3. /\ builders[b].operands >= Owned(b, "parseBinaryExpression", n)
          /\ ~error => builders[b].operands = Owned(b, "parseBinaryExpression", n)
      BY <3>1, <3>2, SizeIs DEF Kinds
    <3>4. /\ Len(builders[b].operators) >= Owned(b, "parseBinaryExpression", m)
          /\ ~error => Len(builders[b].operators) = Owned(b, "parseBinaryExpression", m)
      BY <3>1, <3>2, SizeIs DEF Kinds
    <3>5. /\ builders[b].unary >= Owned(b, "parseUnaryExpression", n)
          /\ ~error => builders[b].unary = Owned(b, "parseUnaryExpression", n)
      BY <3>1, <3>2, SizeIs DEF Kinds
    <3>6. /\ builders[b].assignments >= Owned(b, "parseAssignmentExpression", n)
          /\ ~error => builders[b].assignments = Owned(b, "parseAssignmentExpression", n)
      BY <3>1, <3>2, SizeIs DEF Kinds
    <3> QED
      BY <3>3, <3>4, <3>5, <3>6 DEF n, m
  <2> QED
    BY <2>2, <2>3 DEF BuilderStacksAreOwned
<1>2. BuilderInv => BuilderStacksAreOwned
  BY <1>1
<1> QED
  BY <1>2, BuilderInvariant, PTL

\* ASSERT(operandStackDepth > 1) of parseBinaryExpression: whatever reduces
\* finds two operands; and while nothing has failed, the operators that wait
\* are in the order operatorStackHasHigherPrecedence is there to keep.
THEOREM OperatorsFindOperands == Spec => []OperatorsHaveOperands
<1>1. ASSUME BuilderInv, At("binaryOperator") PROVE Top.n = Top.m + 1
  <2>1. AtOneOf({"binaryOperator"})
    BY <1>1, AtIs
  <2>2. /\ Now(Top.todo) = "binaryOperator" /\ GoodFrame(Top) /\ Top.fn \in Functions
        /\ "binaryOperator" \in Symbols /\ "binaryOperator" \in Places(Top.fn)
    BY <1>1, <2>1, HereFacts
  <2>3. Top.fn = "parseBinaryExpression"
    BY <2>2, OperationsAreOwned
  <2> QED
    BY <2>2, <2>3 DEF GoodFrame, GoodCounts
<1>2. ASSUME BuilderInv, ~error, AtOneOf({"binaryOperator", "parseUnaryExpression", "pushOperand"}),
             NEW i \in Len(Context.operators) - Top.m + 1 .. Len(Context.operators) - 1
      PROVE  Context.operators[i] < Context.operators[i + 1]
  <2> DEFINE ops == Context.operators
  <2>1. /\ stack # <<>> /\ Frames /\ Balanced /\ Ordered /\ Top \in Frame /\ Top.fn \in Functions
        /\ Head(Top.todo) \in {"binaryOperator", "parseUnaryExpression", "pushOperand"}
        /\ Head(Top.todo) \in Symbols /\ Head(Top.todo) \in Places(Top.fn)
    BY <1>2, HereFacts
  <2>2. Top.fn = "parseBinaryExpression" /\ Top.fn \in Counting
    BY <2>1, OperationsAreOwned, StacksAreLeftAtTheEnd DEF Counting
  <2>3. /\ Below \in Nat /\ Weight("operators", Top) = Top.m /\ Top.m \in Nat
        /\ Len(ops) = Below + Top.m /\ Ascending(ops, Below, Below + Top.m)
    <3>1. Weight("operators", Top) = Top.m /\ Top.m \in Nat
      BY <2>1, <2>2, WeightIs DEF Frame
    <3> QED
      BY <1>2, <2>1, <2>2, <3>1, RoomFacts
  <2> HIDE DEF ops
  <2>4. i \in Len(ops) - Top.m + 1 .. Len(ops) - 1
    BY DEF ops
  <2>5. i \in Below + 1 .. Below + Top.m - 1
    BY <2>3, <2>4
  <2>6. ops[i] < ops[i + 1]
    BY <2>3, <2>5 DEF Ascending
  <2> QED
    BY <2>6 DEF ops
<1>3. BuilderInv => OperatorsHaveOperands
  BY <1>1, <1>2 DEF OperatorsHaveOperands
<1> QED
  BY <1>3, BuilderInvariant, PTL
=============================================================================
