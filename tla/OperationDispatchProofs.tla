----------------------- MODULE OperationDispatchProofs -----------------------
(* Proofs about OperationIndex and OperationDispatch for every schema whose  *)
(* names are distinct: sorting, sanitising, stringifying and searching.      *)
EXTENDS OperationDispatch, FiniteSetTheorems, SequenceTheorems, WellFoundedInduction, TLAPS

\* Every nonempty set of naturals has a least element, which Min is.
LEMMA LeastNat ==
    ASSUME NEW T \in SUBSET Nat, T # {}
    PROVE  Min(T) \in T /\ \A y \in T : Min(T) <= y
<1>1. \E x \in T : \A y \in T : <<y, x>> \notin OpToRel(<, Nat)
    BY NatLessThanWellFounded, WFMin, Zenon
<1>2. \A x, y \in Nat : <<y, x>> \notin OpToRel(<, Nat) => x <= y
    BY DEF OpToRel
<1>3. \E x \in T : \A y \in T : x <= y
    BY <1>1, <1>2
<1> QED
    BY <1>3, Zenon DEF Min

\* Induction, for a set in place of a predicate.
LEMMA SetInduction ==
    ASSUME NEW N \in Nat, NEW T, 0 \in T,
           \A n \in 0 .. N : n \in T /\ n < N => n + 1 \in T
    PROVE  0 .. N \subseteq T
<1> DEFINE U == {n \in 0 .. N : n \notin T}
<1> SUFFICES ASSUME U # {} PROVE FALSE
    OBVIOUS
<1>1. Min(U) \in U /\ \A y \in U : Min(U) <= y
    BY LeastNat
<1>2. PICK m \in U : \A y \in U : m <= y
    BY <1>1
<1>3. m # 0 /\ m - 1 \in 0 .. N /\ m - 1 < N
    BY <1>2
<1>4. m - 1 \notin U
    BY <1>2, <1>3
<1>5. m - 1 \in T
    BY <1>3, <1>4
<1>6. (m - 1) + 1 \in T
    BY <1>3, <1>5
<1> QED
    BY <1>2, <1>6

\* g is what a loop from base has after each of its N steps F.
Iterates(g, N, V, base, F) ==
    /\ g \in [0 .. N -> V]
    /\ g[0] = base
    /\ \A n \in 1 .. N : g[n] = F[<<n, g[n - 1]>>]

\* Every loop with a bound has such a function.
LEMMA Iteration ==
    ASSUME NEW N \in Nat, NEW V, NEW base \in V, NEW F \in [(1 .. N) \X V -> V]
    PROVE  \E g : Iterates(g, N, V, base, F)
<1> DEFINE T == {n \in 0 .. N : \E g : Iterates(g, n, V, base, F)}
<1>1. 0 \in T
    <2>1. Iterates([m \in 0 .. 0 |-> base], 0, V, base, F)
        BY DEF Iterates
    <2> QED
        BY <2>1
<1>2. ASSUME NEW n \in 0 .. N, n \in T, n < N PROVE n + 1 \in T
    <2>1. PICK g : Iterates(g, n, V, base, F)
        BY <1>2
    <2> DEFINE h == [m \in 0 .. n + 1 |-> IF m <= n THEN g[m] ELSE F[<<n + 1, g[n]>>]]
    <2>2. F[<<n + 1, g[n]>>] \in V
        BY <1>2, <2>1 DEF Iterates
    <2>3. h \in [0 .. n + 1 -> V]
        BY <2>1, <2>2 DEF Iterates
    <2>4. h[0] = base
        BY <2>1 DEF Iterates
    <2>5. ASSUME NEW m \in 1 .. n + 1 PROVE h[m] = F[<<m, h[m - 1]>>]
        <3>1. CASE m <= n
            BY <2>1, <3>1 DEF Iterates
        <3>2. CASE m = n + 1
            BY <3>2
        <3> QED
            BY <3>1, <3>2
    <2>6. Iterates(h, n + 1, V, base, F)
        BY <2>3, <2>4, <2>5 DEF Iterates
    <2> QED
        BY <2>6, <1>2
<1>3. 0 .. N \subseteq T
    BY <1>1, <1>2, SetInduction
<1> QED
    BY <1>3

-----------------------------------------------------------------------------
\* Sorting

\* R orders S strictly and totally.
Orders(R, S) ==
    /\ \A x \in S : <<x, x>> \notin R
    /\ \A x, y, z \in S : <<x, y>> \in R /\ <<y, z>> \in R => <<x, z>> \in R
    /\ \A x, y \in S : x = y \/ <<x, y>> \in R \/ <<y, x>> \in R

Below(x, R, S) == {y \in S : <<y, x>> \in R}

\* What is greater has more below it.
LEMMA BelowGrows ==
    ASSUME NEW S, IsFiniteSet(S), NEW R, Orders(R, S),
           NEW x \in S, NEW y \in S, <<x, y>> \in R
    PROVE  Cardinality(Below(x, R, S)) < Cardinality(Below(y, R, S))
<1>1. Below(x, R, S) \in SUBSET Below(y, R, S) /\ Below(y, R, S) \in SUBSET S
    BY DEF Below, Orders
<1>2. x \in Below(y, R, S) /\ x \notin Below(x, R, S)
    BY DEF Below, Orders
<1>3. IsFiniteSet(Below(x, R, S)) /\ IsFiniteSet(Below(y, R, S))
    BY <1>1, FS_Subset
<1>4. /\ Cardinality(Below(x, R, S)) <= Cardinality(Below(y, R, S))
      /\ Cardinality(Below(x, R, S)) = Cardinality(Below(y, R, S))
            => Below(x, R, S) = Below(y, R, S)
    BY <1>1, <1>3, FS_Subset
<1>5. Cardinality(Below(x, R, S)) \in Nat /\ Cardinality(Below(y, R, S)) \in Nat
    BY <1>3, FS_CardinalityType
<1> QED
    BY <1>2, <1>4, <1>5

\* Whatever the order, each place has an element: those below it are one fewer.
LEMMA EveryPlaceIsTaken ==
    ASSUME NEW S, IsFiniteSet(S), NEW R, Orders(R, S), NEW n \in 1 .. Cardinality(S)
    PROVE  \E x \in S : Cardinality(Below(x, R, S)) = n - 1
<1> DEFINE place == [x \in S |-> Cardinality(Below(x, R, S)) + 1]
           places == 1 .. Cardinality(S)
<1>0. Cardinality(S) \in Nat
    BY FS_CardinalityType
<1>1. ASSUME NEW x \in S
      PROVE  Cardinality(Below(x, R, S)) \in Nat /\ Cardinality(Below(x, R, S)) < Cardinality(S)
    <2>1. Below(x, R, S) \in SUBSET S /\ x \notin Below(x, R, S)
        BY DEF Below, Orders
    <2>2. /\ IsFiniteSet(Below(x, R, S))
          /\ Cardinality(Below(x, R, S)) <= Cardinality(S)
          /\ Cardinality(S) = Cardinality(Below(x, R, S)) => S = Below(x, R, S)
        BY <2>1, FS_Subset
    <2> QED
        BY <2>1, <2>2, <1>0, FS_CardinalityType
<1>2. place \in [S -> places]
    BY <1>0, <1>1
<1>3. \A x, y \in S : place[x] = place[y] => x = y
    <2> SUFFICES ASSUME NEW x \in S, NEW y \in S, place[x] = place[y], x # y PROVE FALSE
        OBVIOUS
    <2>1. <<x, y>> \in R \/ <<y, x>> \in R
        BY DEF Orders
    <2>2. place[x] < place[y] \/ place[y] < place[x]
        BY <2>1, <1>1, BelowGrows
    <2> QED
        BY <2>2, <1>2
<1>4. place \in Injection(S, places)
    BY <1>2, <1>3 DEF Injection, IsInjective
<1>5. IsFiniteSet(places) /\ Cardinality(places) = Cardinality(S)
    BY <1>0, FS_Interval
<1>6. place \in Surjection(S, places)
    BY <1>4, <1>5, FS_Injection
<1>7. \E x \in S : place[x] = n
    BY <1>6 DEF Surjection
<1> QED
    BY <1>1, <1>7

\* A sequence whose n-th element has n - 1 below it holds all of S, each once,
\* in order.
LEMMA PlacesSort ==
    ASSUME NEW S, IsFiniteSet(S), NEW R, Orders(R, S),
           NEW s \in [1 .. Cardinality(S) -> S],
           \A n \in 1 .. Cardinality(S) : Cardinality(Below(s[n], R, S)) = n - 1
    PROVE  /\ \A i, j \in 1 .. Cardinality(S) : i < j => <<s[i], s[j]>> \in R
           /\ \A i, j \in 1 .. Cardinality(S) : s[i] = s[j] => i = j
           /\ \A x \in S : \E i \in 1 .. Cardinality(S) : s[i] = x
<1> DEFINE places == 1 .. Cardinality(S)
<1>0. Cardinality(S) \in Nat
    BY FS_CardinalityType
<1>1. \A i, j \in places : s[i] = s[j] => i = j
    BY <1>0
<1>2. ASSUME NEW i \in places, NEW j \in places, i < j PROVE <<s[i], s[j]>> \in R
    <2>1. s[i] # s[j] /\ s[i] \in S /\ s[j] \in S
        BY <1>0, <1>1, <1>2
    <2>2. ASSUME <<s[j], s[i]>> \in R PROVE FALSE
        <3>1. Cardinality(Below(s[j], R, S)) < Cardinality(Below(s[i], R, S))
            BY <2>1, <2>2, BelowGrows
        <3> QED
            BY <3>1, <1>0, <1>2
    <2> QED
        BY <2>1, <2>2 DEF Orders
<1>3. IsFiniteSet(places) /\ Cardinality(places) = Cardinality(S)
    BY <1>0, FS_Interval
<1>4. s \in Injection(places, S)
    BY <1>1 DEF Injection, IsInjective
<1>5. s \in Surjection(places, S)
    BY <1>3, <1>4, FS_Injection
<1>6. \A x \in S : \E i \in places : s[i] = x
    BY <1>5 DEF Surjection
<1> QED
    BY <1>1, <1>2, <1>6
-----------------------------------------------------------------------------
\* The operations of a schema

Operations(s) == UNION {{BuildOperation(k, f) : f \in s[k]} : k \in Kinds}

\* The order of the index, as a relation.
BeforeIn(S) == {p \in S \X S : Before(p[1], p[2])}

\* An operation is of a field of its kind and has the field's name.
LEMMA OperationOfField ==
    ASSUME NEW s, IsSchema(s)
    PROVE  /\ \A op \in Operations(s) :
                /\ op.kind \in Kinds
                /\ \E f \in s[op.kind] : op = BuildOperation(op.kind, f)
           /\ \A k \in Kinds : \A f \in s[k] :
                /\ BuildOperation(k, f) \in Operations(s)
                /\ BuildOperation(k, f).kind = k
                /\ BuildOperation(k, f).name = f.name
                /\ BuildOperation(k, f).args = f.args
                /\ BuildOperation(k, f).returnType = f.type
                /\ BuildOperation(k, f).jsName = SanitizeIdentifier(f.name)
<1>1. \A k, f : /\ BuildOperation(k, f).kind = k
                /\ BuildOperation(k, f).name = f.name
                /\ BuildOperation(k, f).args = f.args
                /\ BuildOperation(k, f).returnType = f.type
                /\ BuildOperation(k, f).jsName = SanitizeIdentifier(f.name)
    BY DEF BuildOperation
<1>2. \A op \in Operations(s) : \E k \in Kinds : \E f \in s[k] : op = BuildOperation(k, f)
    BY DEF Operations
<1>3. \A k \in Kinds : \A f \in s[k] : BuildOperation(k, f) \in Operations(s)
    BY DEF Operations
<1> QED
    BY <1>1, <1>2, <1>3

\* There is a finite number of operations, told apart by kind and name.
LEMMA OperationsAreDistinct ==
    ASSUME NEW s, IsSchema(s)
    PROVE  /\ IsFiniteSet(Operations(s))
           /\ \A a, b \in Operations(s) : a.kind = b.kind /\ a.name = b.name => a = b
           /\ \A a \in Operations(s) : a.name \in DOMAIN NameRank
<1> DEFINE ofKind(k) == {BuildOperation(k, f) : f \in s[k]}
<1>1. ASSUME NEW k \in Kinds PROVE IsFiniteSet(ofKind(k))
    <2> DEFINE build == [f \in s[k] |-> BuildOperation(k, f)]
    <2>1. build \in Surjection(s[k], ofKind(k))
        BY DEF Surjection
    <2>2. IsFiniteSet(s[k])
        BY DEF IsSchema
    <2> QED
        BY <2>1, <2>2, FS_Surjection
<1>2. Operations(s) = ofKind("query") \cup ofKind("mutation")
    BY DEF Operations, Kinds
<1>3. IsFiniteSet(Operations(s))
    BY <1>1, <1>2, FS_Union DEF Kinds
<1>4. ASSUME NEW a \in Operations(s), NEW b \in Operations(s),
             a.kind = b.kind, a.name = b.name
      PROVE  a = b
    <2>1. PICK f \in s[a.kind] : a = BuildOperation(a.kind, f)
        BY OperationOfField
    <2>2. PICK g \in s[a.kind] : b = BuildOperation(a.kind, g)
        BY OperationOfField, <1>4
    <2>3. f.name = g.name /\ a.kind \in Kinds
        BY <2>1, <2>2, <1>4, OperationOfField
    <2>4. f = g
        BY <2>3 DEF IsSchema
    <2> QED
        BY <2>1, <2>2, <2>4
<1>5. \A a \in Operations(s) : a.name \in DOMAIN NameRank
    BY OperationOfField DEF IsSchema
<1> QED
    BY <1>3, <1>4, <1>5

\* Array.prototype.sort has a total order to sort by.
LEMMA BeforeOrders ==
    ASSUME NEW s, IsSchema(s)
    PROVE  Orders(BeforeIn(Operations(s)), Operations(s))
<1> DEFINE O == Operations(s)
<1>1. \A a \in O : a.kind \in {"query", "mutation"} /\ a.name \in DOMAIN NameRank
    BY OperationOfField, OperationsAreDistinct DEF Kinds
<1>2. \A a, b \in O : a.kind = b.kind /\ a.name = b.name => a = b
    BY OperationsAreDistinct
<1>3. \A a \in O : NameRank[a.name] \in Nat
    BY <1>1, NameRankAssumption
<1>4. \A a, b \in O : a.kind = b.kind /\ NameRank[a.name] = NameRank[b.name] => a = b
    BY <1>1, <1>2, NameRankAssumption
<1>5. \A a, b \in O : <<a, b>> \in BeforeIn(O) <=> Before(a, b)
    BY DEF BeforeIn
<1>6. \A a \in O : ~Before(a, a)
    BY <1>1, <1>3 DEF Before
<1>7. \A a, b, c \in O : Before(a, b) /\ Before(b, c) => Before(a, c)
    BY <1>1, <1>3 DEF Before
<1>8. \A a, b \in O : a = b \/ Before(a, b) \/ Before(b, a)
    BY <1>1, <1>3, <1>4 DEF Before
<1> QED
    BY <1>5, <1>6, <1>7, <1>8 DEF Orders

\* The index holds every operation of the schema once, in its order.
THEOREM IndexIsComplete ==
    ASSUME NEW s, IsSchema(s)
    PROVE  LET ops == BuildOperationIndex(s)
               n == Cardinality(Operations(s))
           IN  /\ n \in Nat
               /\ ops \in [1 .. n -> Operations(s)]
               /\ Len(ops) = n
               /\ \A i, j \in 1 .. n : i < j => Before(ops[i], ops[j])
               /\ \A i, j \in 1 .. n : ops[i] = ops[j] => i = j
               /\ \A op \in Operations(s) : \E i \in 1 .. n : ops[i] = op
<1> DEFINE O == Operations(s)
           n == Cardinality(O)
           ops == BuildOperationIndex(s)
           R == BeforeIn(O)
<1>1. IsFiniteSet(O) /\ n \in Nat /\ Orders(R, O)
    BY OperationsAreDistinct, BeforeOrders, FS_CardinalityType
<1>2. \A x \in O : Below(x, R, O) = {y \in O : Before(y, x)}
    BY DEF Below, BeforeIn
<1>3. ops = [i \in 1 .. n |-> CHOOSE x \in O : Cardinality({y \in O : Before(y, x)}) = i - 1]
    BY DEF BuildOperationIndex, Sorted, Operations
<1>4. ASSUME NEW i \in 1 .. n
      PROVE  ops[i] \in O /\ Cardinality(Below(ops[i], R, O)) = i - 1
    <2>1. \E x \in O : Cardinality({y \in O : Before(y, x)}) = i - 1
        <3>1. PICK x \in O : Cardinality(Below(x, R, O)) = i - 1
            BY <1>1, EveryPlaceIsTaken
        <3> QED
            BY <3>1, <1>2
    <2>2. ops[i] = CHOOSE x \in O : Cardinality({y \in O : Before(y, x)}) = i - 1
        BY <1>3
    <2>3. ops[i] \in O /\ Cardinality({y \in O : Before(y, ops[i])}) = i - 1
        BY <2>1, <2>2, Zenon
    <2> QED
        BY <2>3, <1>2
<1>5. ops \in [1 .. n -> O]
    BY <1>3, <1>4
<1>6. /\ \A i, j \in 1 .. n : i < j => <<ops[i], ops[j]>> \in R
      /\ \A i, j \in 1 .. n : ops[i] = ops[j] => i = j
      /\ \A x \in O : \E i \in 1 .. n : ops[i] = x
    <2>1. \A i \in 1 .. n : Cardinality(Below(ops[i], R, O)) = i - 1
        BY <1>4
    <2>2. n = Cardinality(O)
        OBVIOUS
    <2> HIDE DEF n, R, O, ops
    <2> QED
        BY <2>1, <2>2, <1>1, <1>5, PlacesSort
<1>7. \A i, j \in 1 .. n : i < j => Before(ops[i], ops[j])
    BY <1>6 DEF BeforeIn
<1>8. Len(ops) = n
    BY <1>1, <1>5
<1> QED
    BY <1>1, <1>5, <1>6, <1>7, <1>8

\* An operation is found by the name and the kind of its field, whatever the
\* other kind has under that name.
THEOREM GetOperationFinds ==
    ASSUME NEW s, IsSchema(s), NEW k \in Kinds, NEW f \in s[k]
    PROVE  GetOperation(BuildOperationIndex(s), f.name, k) = BuildOperation(k, f)
<1> DEFINE ops == BuildOperationIndex(s)
           n == Cardinality(Operations(s))
           I == {i \in 1 .. Len(ops) : ops[i].name = f.name /\ k \in {ops[i].kind, "any"}}
           first == SelectInSeq(ops, LAMBDA op : op.name = f.name /\ k \in {op.kind, "any"})
           op == BuildOperation(k, f)
<1>1. op \in Operations(s) /\ op.kind = k /\ op.name = f.name
    BY OperationOfField
<1>2. /\ n \in Nat /\ Len(ops) = n
      /\ ops \in [1 .. n -> Operations(s)]
      /\ \E i \in 1 .. n : ops[i] = op
    BY <1>1, IndexIsComplete
<1>3. I # {} /\ I \in SUBSET Nat
    BY <1>1, <1>2
<1>4. Min(I) \in I
    BY <1>3, LeastNat
<1>5. first = Min(I) /\ first # 0 /\ first \in I
    BY <1>3, <1>4 DEF SelectInSeq
<1>6. ops[first] \in Operations(s) /\ ops[first].name = f.name /\ ops[first].kind = k
    BY <1>2, <1>5 DEF Kinds
<1>7. ops[first] = op
    BY <1>1, <1>6, OperationsAreDistinct
<1> QED
    BY <1>5, <1>7 DEF GetOperation

\* Without a kind, as the helper of a search looks up, a mutation hides the query
\* that has its name, and nothing else is hidden.
THEOREM LookUpPrefersMutations ==
    ASSUME NEW s, IsSchema(s), NEW k \in Kinds, NEW f \in s[k],
           k = "mutation" \/ \A g \in s["mutation"] : g.name # f.name
    PROVE  GetOperation(BuildOperationIndex(s), f.name, "any") = BuildOperation(k, f)
<1> DEFINE ops == BuildOperationIndex(s)
           n == Cardinality(Operations(s))
           I == {i \in 1 .. Len(ops) : ops[i].name = f.name /\ "any" \in {ops[i].kind, "any"}}
           first == SelectInSeq(ops, LAMBDA op : op.name = f.name /\ "any" \in {op.kind, "any"})
           op == BuildOperation(k, f)
<1>1. op \in Operations(s) /\ op.kind = k /\ op.name = f.name
    BY OperationOfField
<1>2. /\ n \in Nat /\ Len(ops) = n
      /\ ops \in [1 .. n -> Operations(s)]
      /\ \A i, j \in 1 .. n : i < j => Before(ops[i], ops[j])
    BY IndexIsComplete
<1>3. PICK p \in 1 .. n : ops[p] = op
    BY <1>1, IndexIsComplete
<1>4. p \in I /\ I # {} /\ I \in SUBSET Nat
    BY <1>1, <1>2, <1>3
<1>5. Min(I) \in I /\ Min(I) <= p
    BY <1>4, LeastNat
<1>6. first = Min(I) /\ first # 0 /\ first \in I /\ first <= p
    BY <1>4, <1>5 DEF SelectInSeq
<1>7. /\ first \in 1 .. n /\ ops[first] \in Operations(s)
      /\ ops[first].name = f.name /\ ops[first].kind \in Kinds
    BY <1>2, <1>6, OperationOfField
<1>8. ops[first].kind = k
    <2>1. CASE k = "mutation"
        <3>1. CASE first = p
            BY <3>1, <1>1, <1>3
        <3>2. CASE first # p
            <4>1. Before(ops[first], op)
                BY <3>2, <1>2, <1>3, <1>6, <1>7
            <4> QED
                BY <4>1, <2>1, <1>1 DEF Before
        <3> QED
            BY <3>1, <3>2
    <2>2. CASE k # "mutation"
        <3> HIDE DEF ops, first
        <3>1. PICK g \in s[ops[first].kind] : ops[first] = BuildOperation(ops[first].kind, g)
            BY <1>7, OperationOfField
        <3>2. g.name = f.name
            BY <3>1, <1>7, OperationOfField
        <3> QED
            BY <2>2, <3>2, <1>7 DEF Kinds
    <2> QED
        BY <2>1, <2>2
<1>9. ops[first] = op
    BY <1>1, <1>7, <1>8, OperationsAreDistinct
<1> QED
    BY <1>6, <1>9 DEF GetOperation

\* The loop through the wrappers ends at the named type.
LEMMA UnwrapToNamedEnds ==
    ASSUME NEW type, IsTypeRef(type)
    PROVE  UnwrapToNamed(type) = type[Len(type)]
<1> DEFINE I == {i \in 1 .. Len(type) : ~IsWrapper(type[i])}
<1>1. Len(type) \in Nat /\ Len(type) > 0 /\ DOMAIN type = 1 .. Len(type)
    BY DEF IsTypeRef
<1>2. I = {Len(type)}
    BY <1>1 DEF IsTypeRef
<1>3. Min(I) = Len(type)
    BY <1>1, <1>2, LeastNat
<1>4. SelectInSeq(type, LAMBDA kind : ~IsWrapper(kind)) = Len(type)
    BY <1>1, <1>2, <1>3 DEF SelectInSeq
<1> QED
    BY <1>4 DEF UnwrapToNamed

-----------------------------------------------------------------------------
\* The text of a type

TextPieces == TypeKinds \cup {"!", "[", "]"}

\* What the recursion of StringifyTypeRef makes of a kind and the text inside.
Around(kind, text) ==
    CASE kind = "NON_NULL" -> text \o <<"!">>
      [] kind = "LIST"     -> <<"[">> \o text \o <<"]">>
      [] OTHER             -> <<kind>>

\* The recursion has a solution, from the named type outwards.
LEMMA TextExists ==
    ASSUME NEW type, IsTypeRef(type)
    PROVE  \E T \in [1 .. Len(type) -> Seq(TextPieces)] :
            /\ \A i \in 1 .. Len(type) - 1 : T[i] = Around(type[i], T[i + 1])
            /\ T[Len(type)] = <<type[Len(type)]>>
            /\ StringifyTypeRef(type) = T[1]
<1> DEFINE N == Len(type)
<1>0. DOMAIN type = 1 .. N /\ type \in [1 .. N -> TypeKinds] /\ N = Len(type)
    BY DEF IsTypeRef
<1>1. N \in Nat /\ N > 0
    BY DEF IsTypeRef
<1> HIDE DEF N
<1> DEFINE F == [p \in (1 .. N) \X Seq(TextPieces) |-> Around(type[N + 1 - p[1]], p[2])]
<1>2. F \in [(1 .. N) \X Seq(TextPieces) -> Seq(TextPieces)]
    <2> SUFFICES ASSUME NEW n \in 1 .. N, NEW text \in Seq(TextPieces)
                 PROVE  Around(type[N + 1 - n], text) \in Seq(TextPieces)
        BY <1>1
    <2>1. type[N + 1 - n] \in TypeKinds
        BY <1>0, <1>1
    <2>2. <<"!">> \in Seq(TextPieces) /\ <<"[">> \in Seq(TextPieces) /\ <<"]">> \in Seq(TextPieces)
        BY DEF TextPieces
    <2>3. text \o <<"!">> \in Seq(TextPieces) /\ <<"[">> \o text \o <<"]">> \in Seq(TextPieces)
        BY <2>2
    <2>4. <<type[N + 1 - n]>> \in Seq(TextPieces)
        BY <2>1 DEF TextPieces
    <2> QED
        BY <2>3, <2>4 DEF Around
<1>3. PICK g : Iterates(g, N, Seq(TextPieces), << >>, F)
    <2>1. << >> \in Seq(TextPieces)
        OBVIOUS
    <2> HIDE DEF F
    <2> QED
        BY <1>1, <1>2, <2>1, Iteration
<1>3a. g \in [0 .. N -> Seq(TextPieces)] /\ \A n \in 1 .. N : g[n] = F[<<n, g[n - 1]>>]
    BY <1>3 DEF Iterates
<1> DEFINE T == [i \in 1 .. N |-> g[N + 1 - i]]
<1>4. T \in [1 .. N -> Seq(TextPieces)]
    BY <1>1, <1>3a
<1>5. ASSUME NEW i \in 1 .. N PROVE T[i] = Around(type[i], g[N - i])
    <2> DEFINE n == N + 1 - i
    <2>1. n \in 1 .. N /\ n - 1 = N - i /\ N + 1 - n = i /\ n - 1 \in 0 .. N
        BY <1>1
    <2>2. T[i] = g[n] /\ g[n] = F[<<n, g[n - 1]>>]
        BY <1>3a, <2>1
    <2>3. g[n - 1] \in Seq(TextPieces)
        BY <1>3a, <2>1
    <2>4. F[<<n, g[n - 1]>>] = Around(type[N + 1 - n], g[n - 1])
        BY <2>1, <2>3
    <2> QED
        BY <2>1, <2>2, <2>4
<1>6. \A i \in 1 .. N - 1 : T[i] = Around(type[i], T[i + 1])
    BY <1>1, <1>5
<1>7. ~IsWrapper(type[N]) /\ \A i \in 1 .. N - 1 : IsWrapper(type[i])
    <2>1. \A i \in 1 .. N : (type[i] \in {"NON_NULL", "LIST"}) <=> (i # N)
        BY <1>0 DEF IsTypeRef, IsWrapper
    <2>2. N \in 1 .. N /\ \A i \in 1 .. N - 1 : i \in 1 .. N /\ i # N
        BY <1>1
    <2> QED
        BY <2>1, <2>2 DEF IsWrapper
<1>8. T[N] = <<type[N]>>
    <2>1. T[N] = Around(type[N], g[N - N])
        BY <1>1, <1>5
    <2>2. type[N] # "NON_NULL" /\ type[N] # "LIST"
        BY <1>7 DEF IsWrapper
    <2> QED
        BY <2>1, <2>2 DEF Around
<1> DEFINE Step(U) == [i \in DOMAIN type |->
            CASE type[i] = "NON_NULL" -> U[i + 1] \o <<"!">>
              [] type[i] = "LIST"     -> <<"[">> \o U[i + 1] \o <<"]">>
              [] OTHER                -> <<type[i]>>]
<1>9. \A U : \A i \in 1 .. N - 1 : Step(U)[i] = Around(type[i], U[i + 1])
    BY <1>0, <1>1 DEF Around
<1>10. \A U : Step(U)[N] = <<type[N]>>
    BY <1>0, <1>1, <1>7 DEF IsWrapper
<1>11. T = Step(T)
    <2>1. ASSUME NEW i \in 1 .. N PROVE T[i] = Step(T)[i]
        <3>1. i = N \/ i \in 1 .. N - 1
            BY <1>1
        <3> HIDE DEF T, Step
        <3> QED
            BY <3>1, <1>6, <1>8, <1>9, <1>10
    <2>2. \A U : Step(U) = [i \in 1 .. N |-> Step(U)[i]]
        BY <1>0
    <2>3. T = [i \in 1 .. N |-> T[i]]
        OBVIOUS
    <2> HIDE DEF T, Step
    <2> QED
        BY <2>1, <2>2, <2>3
<1> DEFINE C == CHOOSE U : U = Step(U)
<1>12. C = Step(C)
    <2> HIDE DEF Step, T
    <2> QED
        BY <1>11, Zenon
<1>13. StringifyTypeRef(type) = C[1]
    BY DEF StringifyTypeRef
<1>14. T[1] = C[1]
    <2> HIDE DEF T, Step, C
    <2> DEFINE A == {n \in 0 .. N - 1 : C[N - n] = T[N - n]}
    <2>1. 0 \in A
        BY <1>1, <1>8, <1>10, <1>12
    <2>2. ASSUME NEW n \in 0 .. N - 1, n \in A, n < N - 1 PROVE n + 1 \in A
        <3>1. /\ N - (n + 1) \in 1 .. N - 1 /\ (N - (n + 1)) + 1 = N - n
              /\ C[N - n] = T[N - n]
            BY <1>1, <2>2
        <3>2. C[N - (n + 1)] = T[N - (n + 1)]
            BY <3>1, <1>6, <1>9, <1>12
        <3>3. n + 1 \in 0 .. N - 1
            BY <1>1, <2>2
        <3> QED
            BY <3>2, <3>3
    <2>3. 0 .. N - 1 \subseteq A
        <3>1. N - 1 \in Nat
            BY <1>1
        <3> HIDE DEF A
        <3> QED
            BY <3>1, <2>1, <2>2, SetInduction
    <2>4. N - 1 \in A
        BY <1>1, <2>3
    <2> QED
        BY <1>1, <2>4
<1> QED
    BY <1>0, <1>4, <1>6, <1>8, <1>13, <1>14

ListsFrom(type, i) == {j \in i .. Len(type) : type[j] = "LIST"}

\* What can be read off the text of a type without its first i - 1 kinds.
ReadsFrom(text, type, i) ==
    LET brackets == Cardinality(ListsFrom(type, i))
    IN  /\ text \in Seq(TextPieces)
        /\ Len(text) = Len(type) + 1 - i + brackets
        /\ \A j \in i .. Len(type) : text[Len(text) - (j - i)] = Ending(type[j])
        /\ \A j \in 1 .. brackets : text[j] = "["

\* One kind more, one list more at most.
LEMMA ListsGrow ==
    ASSUME NEW type, NEW N \in Nat, N = Len(type), NEW i \in 1 .. N
    PROVE  /\ IsFiniteSet(ListsFrom(type, i))
           /\ Cardinality(ListsFrom(type, i)) \in Nat
           /\ Cardinality(ListsFrom(type, i)) =
                Cardinality(ListsFrom(type, i + 1)) + (IF type[i] = "LIST" THEN 1 ELSE 0)
           /\ Cardinality(ListsFrom(type, i + 1)) \in Nat
           /\ Cardinality(ListsFrom(type, N + 1)) = 0
<1> DEFINE L == ListsFrom(type, i)
           M == ListsFrom(type, i + 1)
<1>1. L = IF type[i] = "LIST" THEN M \cup {i} ELSE M
    BY DEF ListsFrom
<1>2. i \notin M /\ M \in SUBSET (i + 1 .. N)
    BY DEF ListsFrom
<1>3. IsFiniteSet(i + 1 .. N)
    BY FS_Interval
<1>4. IsFiniteSet(M) /\ Cardinality(M) \in Nat
    BY <1>2, <1>3, FS_Subset, FS_CardinalityType
<1>5. ListsFrom(type, N + 1) = {}
    BY DEF ListsFrom
<1>6. Cardinality(ListsFrom(type, N + 1)) = 0
    BY <1>5, FS_EmptySet
<1>7. /\ IsFiniteSet(M \cup {i})
      /\ Cardinality(M \cup {i}) = Cardinality(M) + 1
    BY <1>2, <1>4, FS_AddElement
<1> QED
    BY <1>1, <1>4, <1>6, <1>7

\* Concatenation, by position.
LEMMA Concatenation ==
    ASSUME NEW S, NEW s \in Seq(S), NEW t \in Seq(S)
    PROVE  /\ s \o t \in Seq(S)
           /\ Len(s) \in Nat /\ Len(t) \in Nat
           /\ Len(s \o t) = Len(s) + Len(t)
           /\ \A j \in 1 .. Len(s) : (s \o t)[j] = s[j]
           /\ \A j \in 1 .. Len(t) : (s \o t)[Len(s) + j] = t[j]
    OBVIOUS

\* A wrapper puts its ending last and, if it is a list, a bracket first.
LEMMA AroundReads ==
    ASSUME NEW type, NEW N \in Nat, N = Len(type), NEW i \in 1 .. N, IsWrapper(type[i]),
           NEW text, ReadsFrom(text, type, i + 1)
    PROVE  ReadsFrom(Around(type[i], text), type, i)
<1> DEFINE b == Cardinality(ListsFrom(type, i + 1))
           c == Cardinality(ListsFrom(type, i))
           whole == Around(type[i], text)
<1>1. b \in Nat /\ c = b + (IF type[i] = "LIST" THEN 1 ELSE 0)
    BY ListsGrow
<1>2. /\ text \in Seq(TextPieces)
      /\ Len(text) = N - i + b
      /\ \A j \in i + 1 .. N : text[Len(text) - (j - (i + 1))] = Ending(type[j])
      /\ \A j \in 1 .. b : text[j] = "["
    BY DEF ReadsFrom
<1>3. <<"!">> \in Seq(TextPieces) /\ <<"[">> \in Seq(TextPieces) /\ <<"]">> \in Seq(TextPieces)
    BY DEF TextPieces
<1> DEFINE m == Len(text)
<1>4. m \in Nat
    BY <1>2
<1>4a. m = N - i + b
    BY <1>2
<1>5. CASE type[i] = "NON_NULL"
    <2>1. whole = text \o <<"!">> /\ c = b /\ Ending(type[i]) = "!"
        BY <1>5, <1>1 DEF Around, Ending
    <2>2. /\ whole \in Seq(TextPieces) /\ Len(whole) = m + 1 /\ whole[m + 1] = "!"
          /\ \A j \in 1 .. m : whole[j] = text[j]
        BY <2>1, <1>2, <1>3, Concatenation
    <2> HIDE DEF whole, b, c, m
    <2>3. ASSUME NEW j \in i .. N PROVE whole[m + 1 - (j - i)] = Ending(type[j])
        <3>1. CASE j = i
            BY <3>1, <2>1, <2>2, <1>4
        <3>2. CASE j # i
            <4>1. j \in i + 1 .. N /\ m + 1 - (j - i) = m - (j - (i + 1))
                BY <3>2, <1>4
            <4>2. m - (j - (i + 1)) \in 1 .. m
                BY <4>1, <1>1, <1>2, <1>4 DEF m
            <4> QED
                BY <4>1, <4>2, <2>2, <1>2 DEF m
        <3> QED
            BY <3>1, <3>2
    <2>4. ASSUME NEW j \in 1 .. c PROVE whole[j] = "["
        <3>1. j \in 1 .. b /\ j \in 1 .. m
            BY <2>1, <1>1, <1>2 DEF m
        <3> QED
            BY <3>1, <2>2, <1>2
    <2>5. Len(whole) = N + 1 - i + c
        <3>1. c = b /\ Len(whole) = m + 1
            BY <2>1, <2>2
        <3> QED
            BY <3>1, <1>1, <1>4a
    <2>6. ASSUME NEW j \in i .. N PROVE whole[Len(whole) - (j - i)] = Ending(type[j])
        <3>1. Len(whole) - (j - i) = m + 1 - (j - i)
            BY <2>2, <1>4
        <3> QED
            BY <3>1, <2>3
    <2>7. ReadsFrom(whole, type, i)
        BY <2>2, <2>4, <2>5, <2>6 DEF ReadsFrom, c
    <2> QED
        BY <2>7 DEF whole
<1>6. CASE type[i] = "LIST"
    <2>1. whole = (<<"[">> \o text) \o <<"]">> /\ c = b + 1 /\ Ending(type[i]) = "]"
        BY <1>6, <1>1 DEF Around, Ending
    <2>2. /\ <<"[">> \o text \in Seq(TextPieces)
          /\ Len(<<"[">> \o text) = m + 1
          /\ (<<"[">> \o text)[1] = "["
          /\ \A j \in 1 .. m : (<<"[">> \o text)[1 + j] = text[j]
        BY <1>2, <1>3, Concatenation
    <2>3. /\ whole \in Seq(TextPieces) /\ Len(whole) = m + 2
          /\ whole[1] = "[" /\ whole[m + 2] = "]"
          /\ \A j \in 1 .. m : whole[1 + j] = text[j]
        BY <2>1, <2>2, <1>3, <1>4, Concatenation
    <2> HIDE DEF whole, b, c, m
    <2>4. ASSUME NEW j \in i .. N PROVE whole[m + 2 - (j - i)] = Ending(type[j])
        <3>1. CASE j = i
            BY <3>1, <2>1, <2>3, <1>4
        <3>2. CASE j # i
            <4>1. j \in i + 1 .. N /\ m + 2 - (j - i) = 1 + (m - (j - (i + 1)))
                BY <3>2, <1>4
            <4>2. m - (j - (i + 1)) \in 1 .. m
                BY <4>1, <1>1, <1>2, <1>4 DEF m
            <4> QED
                BY <4>1, <4>2, <2>3, <1>2 DEF m
        <3> QED
            BY <3>1, <3>2
    <2>5. ASSUME NEW j \in 1 .. c PROVE whole[j] = "["
        <3>1. CASE j = 1
            BY <3>1, <2>3
        <3>2. CASE j # 1
            <4>1. j - 1 \in 1 .. b /\ j - 1 \in 1 .. m /\ j = 1 + (j - 1)
                BY <3>2, <2>1, <1>1, <1>2, <1>4 DEF m
            <4> QED
                BY <4>1, <2>3, <1>2
        <3> QED
            BY <3>1, <3>2
    <2>6. Len(whole) = N + 1 - i + c
        BY <2>1, <2>3, <1>1, <1>4a
    <2>7. ASSUME NEW j \in i .. N PROVE whole[Len(whole) - (j - i)] = Ending(type[j])
        <3>1. Len(whole) - (j - i) = m + 2 - (j - i)
            BY <2>3, <1>4
        <3> QED
            BY <3>1, <2>4
    <2>8. ReadsFrom(whole, type, i)
        BY <2>3, <2>5, <2>6, <2>7 DEF ReadsFrom, c
    <2> QED
        BY <2>8 DEF whole
<1> QED
    BY <1>5, <1>6 DEF IsWrapper

\* What the prelude and the document say of a type is the type: each wrapper in
\* its place around the name.
THEOREM StringifyTypeRefReads ==
    ASSUME NEW type, IsTypeRef(type)
    PROVE  DeclaredAs(StringifyTypeRef(type), type)
<1> DEFINE N == Len(type)
<1>0. DOMAIN type = 1 .. N /\ N = Len(type) /\ type \in [1 .. N -> TypeKinds]
    BY DEF IsTypeRef
<1>1. N \in Nat /\ N > 0
    BY DEF IsTypeRef
<1> HIDE DEF N
<1>2. ~IsWrapper(type[N]) /\ \A i \in 1 .. N - 1 : IsWrapper(type[i])
    <2>1. \A i \in 1 .. N : (type[i] \in {"NON_NULL", "LIST"}) <=> (i # N)
        BY <1>0 DEF IsTypeRef, IsWrapper
    <2>2. N \in 1 .. N /\ \A i \in 1 .. N - 1 : i \in 1 .. N /\ i # N
        BY <1>1
    <2> QED
        BY <2>1, <2>2 DEF IsWrapper
<1>3. PICK T \in [1 .. N -> Seq(TextPieces)] :
            /\ \A i \in 1 .. N - 1 : T[i] = Around(type[i], T[i + 1])
            /\ T[N] = <<type[N]>>
            /\ StringifyTypeRef(type) = T[1]
    BY TextExists DEF N
<1> DEFINE A == {n \in 0 .. N - 1 : ReadsFrom(T[N - n], type, N - n)}
<1>4. 0 \in A
    <2>1. type[N] \in TypeKinds
        BY <1>0, <1>1
    <2>2. /\ T[N] \in Seq(TextPieces) /\ Len(T[N]) = 1 /\ T[N][1] = type[N]
        BY <2>1, <1>3 DEF TextPieces
    <2>3. Ending(type[N]) = type[N] /\ type[N] # "LIST"
        BY <1>2 DEF Ending, IsWrapper
    <2>4. Cardinality(ListsFrom(type, N)) = 0
        <3>1. N \in 1 .. N
            BY <1>1
        <3>2. /\ Cardinality(ListsFrom(type, N)) =
                    Cardinality(ListsFrom(type, N + 1)) + (IF type[N] = "LIST" THEN 1 ELSE 0)
              /\ Cardinality(ListsFrom(type, N + 1)) = 0
            BY <3>1, <1>1, <1>0, ListsGrow
        <3> QED
            BY <3>2, <2>3
    <2>5. ReadsFrom(T[N], type, N)
        BY <2>2, <2>3, <2>4, <1>0, <1>1 DEF ReadsFrom
    <2> QED
        BY <2>5, <1>1
<1>5. ASSUME NEW n \in 0 .. N - 1, n \in A, n < N - 1 PROVE n + 1 \in A
    <2> DEFINE i == N - (n + 1)
    <2>1. i \in 1 .. N - 1 /\ i \in 1 .. N /\ i + 1 = N - n /\ n + 1 \in 0 .. N - 1
        <3> HIDE DEF A
        <3> QED
            BY <1>1, <1>5
    <2>2. ReadsFrom(T[i + 1], type, i + 1)
        BY <1>5, <2>1
    <2>3. IsWrapper(type[i]) /\ T[i] = Around(type[i], T[i + 1])
        BY <1>2, <1>3, <2>1
    <2>4. ReadsFrom(T[i], type, i)
        BY <1>0, <1>1, <2>1, <2>2, <2>3, AroundReads
    <2> QED
        BY <2>1, <2>4
<1>6. 0 .. N - 1 \subseteq A
    <2>1. N - 1 \in Nat
        BY <1>1
    <2> HIDE DEF A
    <2> QED
        BY <2>1, <1>4, <1>5, SetInduction
<1>7. ReadsFrom(T[1], type, 1)
    <2>1. N - 1 \in A /\ N - (N - 1) = 1
        BY <1>1, <1>6
    <2> QED
        BY <2>1
<1> DEFINE text == StringifyTypeRef(type)
           brackets == Cardinality(ListsFrom(type, 1))
<1>8. /\ Len(text) \in Nat
      /\ Len(text) = N + brackets
      /\ \A j \in 1 .. N : text[Len(text) - (j - 1)] = Ending(type[j])
      /\ \A j \in 1 .. brackets : text[j] = "["
    <2>1. brackets \in Nat
        BY <1>0, <1>1, ListsGrow
    <2> QED
        BY <1>0, <1>1, <1>3, <1>7, <2>1 DEF ReadsFrom
<1>9. ListsFrom(type, 1) = {j \in DOMAIN type : type[j] = "LIST"}
    BY <1>0 DEF ListsFrom
<1> HIDE DEF text
<1>10. Len(text) - N = brackets
    BY <1>0, <1>1, <1>8, ListsGrow
<1>11. ASSUME NEW j \in DOMAIN type PROVE text[Len(text) + 1 - j] = Ending(type[j])
    <2>1. j \in 1 .. N /\ Len(text) + 1 - j = Len(text) - (j - 1)
        BY <1>0, <1>1, <1>8
    <2> QED
        BY <2>1, <1>8
<1> QED
    BY <1>0, <1>8, <1>9, <1>10, <1>11 DEF DeclaredAs, text

-----------------------------------------------------------------------------
\* The prelude

\* What names are made of, their suffixes included.
Pieces == STRING \cup {"_", "1"}
Names == Seq(Pieces)

\* More pieces make more names.
LEMMA MorePieces ==
    ASSUME NEW S, NEW T, S \subseteq T, NEW name \in Seq(S)
    PROVE  name \in Seq(T)
<1>1. Len(name) \in Nat /\ name \in [1 .. Len(name) -> S]
    OBVIOUS
<1>2. name \in [1 .. Len(name) -> T]
    BY <1>1
<1> QED
    BY <1>1, <1>2

\* A piece by itself is a name.
LEMMA Single ==
    ASSUME NEW S, NEW piece \in S
    PROVE  <<piece>> \in Seq(S) /\ Len(<<piece>>) = 1
OBVIOUS

\* What a suffix is made of.
LEMMA SuffixPieces ==
    "_" \in Pieces /\ "1" \in Pieces
BY Zenon DEF Pieces

\* A field's name and what it is called in a script are such names.
LEMMA NamesAreNames ==
    ASSUME NEW name \in DOMAIN NameRank
    PROVE  name \in Names /\ SanitizeIdentifier(name) \in Names
<1>1. name \in Seq(STRING)
    BY NameRankAssumption, Zenon
<1>2. name \in Names
    <2>1. STRING \subseteq Pieces
        BY Zenon DEF Pieces
    <2> QED
        BY <1>1, <2>1, MorePieces, Zenon DEF Names
<1>3. <<"_">> \in Names
    BY SuffixPieces, Single, Zenon DEF Names
<1>4. name \o <<"_">> \in Names
    BY <1>2, <1>3, Concatenation, Zenon DEF Names
<1> QED
    BY <1>2, <1>4 DEF SanitizeIdentifier

\* Numerals that differ make names that differ.
LEMMA SuffixesDiffer ==
    ASSUME NEW base \in Names, NEW i \in Nat
    PROVE  /\ Suffixed(base, i) \in Names
           /\ Len(Suffixed(base, i)) = Len(base) + 1 + i
           /\ Len(base) \in Nat
<1> DEFINE tallies == [n \in 1 .. i |-> "1"]
<1>0. tallies \in [1 .. i -> Pieces]
    BY SuffixPieces
<1>1. tallies \in Seq(Pieces) /\ Len(tallies) = i
    <2> HIDE DEF tallies
    <2> QED
        BY <1>0
<1>2. <<"_">> \in Seq(Pieces) /\ Len(<<"_">>) = 1
    BY SuffixPieces, Single, Zenon
<1> HIDE DEF tallies
<1> DEFINE joined == base \o <<"_">>
<1>3. base \in Seq(Pieces)
    BY DEF Names
<1>4. /\ joined \in Seq(Pieces)
      /\ Len(joined) = Len(base) + Len(<<"_">>)
      /\ Len(base) \in Nat
    <2> DEFINE mark == <<"_">>
    <2>1. mark \in Seq(Pieces)
        BY <1>2
    <2> HIDE DEF mark
    <2>2. /\ base \o mark \in Seq(Pieces)
          /\ Len(base \o mark) = Len(base) + Len(mark)
          /\ Len(base) \in Nat
        BY <1>3, <2>1, Concatenation
    <2> QED
        BY <2>2 DEF mark
<1> HIDE DEF joined
<1>5. /\ joined \o tallies \in Seq(Pieces)
      /\ Len(joined \o tallies) = Len(joined) + Len(tallies)
    BY <1>1, <1>4, Concatenation, Zenon
<1> QED
    BY <1>1, <1>2, <1>4, <1>5 DEF Suffixed, tallies, Names, joined

\* The loop of uniqueIdentifier ends, at a name that is not in use.
THEOREM UniqueIdentifierIsNew ==
    ASSUME NEW base \in Names, NEW used, IsFiniteSet(used)
    PROVE  UniqueIdentifier(base, used) \in Names \ used
<1>1. CASE base \notin used
    BY <1>1 DEF UniqueIdentifier
<1>2. CASE base \in used
    <2> DEFINE c == Cardinality(used)
               D == 2 .. c + 2
               free == {i \in D : Suffixed(base, i) \notin used}
    <2>1. c \in Nat
        BY FS_CardinalityType
    <2>2. free # {}
        <3> SUFFICES ASSUME free = {} PROVE FALSE
            OBVIOUS
        <3> DEFINE f == [i \in D |-> Suffixed(base, i)]
        <3>1. f \in [D -> used]
            OBVIOUS
        <3>2. IsFiniteSet(D) /\ Cardinality(D) = c + 1
            BY <2>1, FS_Interval
        <3>3. c < Cardinality(D)
            BY <2>1, <3>2
        <3>4. \E i, j \in D : i # j /\ f[i] = f[j]
            <4> HIDE DEF f, D
            <4> QED
                BY <3>1, <3>2, <3>3, FS_PigeonHole
        <3>5. \A i, j \in D : f[i] = f[j] => i = j
            <4> SUFFICES ASSUME NEW i \in D, NEW j \in D, Suffixed(base, i) = Suffixed(base, j)
                         PROVE  i = j
                OBVIOUS
            <4>1. i \in Nat /\ j \in Nat
                BY <2>1
            <4> QED
                BY <4>1, SuffixesDiffer
        <3> QED
            BY <3>4, <3>5
    <2>3. free \in SUBSET Nat
        BY <2>1
    <2>4. Min(free) \in free
        BY <2>2, <2>3, LeastNat
    <2>5. Suffixed(base, Min(free)) \in Names \ used
        BY <2>1, <2>4, SuffixesDiffer
    <2> QED
        BY <1>2, <2>5 DEF UniqueIdentifier
<1> QED
    BY <1>1, <1>2

Positions(ops, kind, n) == {i \in 1 .. n : ops[i].kind = kind}

\* The methods after n operations: as many as operations of the kind, each for
\* one of them.
Covers(methodsOf, ops, kind, n) ==
    /\ IsFiniteSet(DOMAIN methodsOf)
    /\ Cardinality(DOMAIN methodsOf) = Cardinality(Positions(ops, kind, n))
    /\ \A m \in DOMAIN methodsOf : \E i \in Positions(ops, kind, n) : methodsOf[m] = ops[i].name
    /\ \A i \in Positions(ops, kind, n) : \E m \in DOMAIN methodsOf : methodsOf[m] = ops[i].name

\* One method more keeps the others.
LEMMA DefineMethodAdds ==
    ASSUME NEW defined, NEW op, op.jsName \in Names, IsFiniteSet(DOMAIN defined)
    PROVE  \E js \in Names \ DOMAIN defined :
            /\ DOMAIN DefineMethod(defined, op) = DOMAIN defined \cup {js}
            /\ DefineMethod(defined, op)[js] = op.name
            /\ \A m \in DOMAIN defined : DefineMethod(defined, op)[m] = defined[m]
<1> DEFINE js == UniqueIdentifier(op.jsName, DOMAIN defined)
<1>1. js \in Names \ DOMAIN defined
    BY UniqueIdentifierIsNew
<1>2. DefineMethod(defined, op) =
        [m \in DOMAIN defined \cup {js} |-> IF m = js THEN op.name ELSE defined[m]]
    BY DEF DefineMethod
<1> HIDE DEF js
<1> QED
    BY <1>1, <1>2

\* The n-th operation of the kind has a method of its own.
LEMMA CoversNext ==
    ASSUME NEW ops, NEW kind, NEW n \in Nat, NEW defined, Covers(defined, ops, kind, n),
           ops[n + 1].jsName \in Names
    PROVE  Covers(IF ops[n + 1].kind = kind THEN DefineMethod(defined, ops[n + 1]) ELSE defined,
                  ops, kind, n + 1)
<1> DEFINE P == Positions(ops, kind, n)
           Q == Positions(ops, kind, n + 1)
<1>0. 1 .. n + 1 = (1 .. n) \cup {n + 1} /\ n + 1 \notin 1 .. n
    OBVIOUS
<1>1. Q = IF ops[n + 1].kind = kind THEN P \cup {n + 1} ELSE P
    BY <1>0 DEF Positions
<1>2. n + 1 \notin P /\ P \in SUBSET (1 .. n)
    <2>1. \A i \in P : i \in 1 .. n
        BY DEF Positions
    <2> QED
        BY <2>1, <1>0
<1>3. IsFiniteSet(P)
    <2>1. IsFiniteSet(1 .. n)
        BY FS_Interval
    <2> QED
        BY <1>2, <2>1, FS_Subset
<1>4. CASE ops[n + 1].kind # kind
    <2>1. Q = P
        BY <1>1, <1>4
    <2>2. Covers(defined, ops, kind, n + 1)
        BY <2>1 DEF Covers
    <2> QED
        BY <1>4, <2>2
<1>5. CASE ops[n + 1].kind = kind
    <2> DEFINE next == DefineMethod(defined, ops[n + 1])
    <2>1. PICK js \in Names \ DOMAIN defined :
            /\ DOMAIN next = DOMAIN defined \cup {js}
            /\ next[js] = ops[n + 1].name
            /\ \A m \in DOMAIN defined : next[m] = defined[m]
        BY DefineMethodAdds DEF Covers
    <2> HIDE DEF next
    <2>2. /\ IsFiniteSet(DOMAIN next)
          /\ Cardinality(DOMAIN next) = Cardinality(DOMAIN defined) + 1
        BY <2>1, FS_AddElement DEF Covers
    <2>3. Cardinality(Q) = Cardinality(P) + 1
        BY <1>1, <1>2, <1>3, <1>5, FS_AddElement
    <2>4. \A m \in DOMAIN next : \E i \in Q : next[m] = ops[i].name
        BY <1>1, <1>5, <2>1 DEF Covers
    <2>5. \A i \in Q : \E m \in DOMAIN next : next[m] = ops[i].name
        BY <1>1, <1>5, <2>1 DEF Covers
    <2>6. Covers(next, ops, kind, n + 1)
        BY <2>2, <2>3, <2>4, <2>5 DEF Covers
    <2> QED
        BY <1>5, <2>6 DEF next
<1> QED
    BY <1>4, <1>5

\* Methods with any names, each for a field.
MethodSets == {d \in UNION {[S -> DOMAIN NameRank] : S \in SUBSET Names} : IsFiniteSet(DOMAIN d)}

\* Operations as an index may list them.
Listed(ops, N) ==
    /\ Len(ops) = N
    /\ \A n \in 1 .. N : ops[n].jsName \in Names /\ ops[n].name \in DOMAIN NameRank

\* A method more makes such methods again.
LEMMA MethodSetsGrow ==
    ASSUME NEW defined \in MethodSets, NEW op,
           op.jsName \in Names, op.name \in DOMAIN NameRank
    PROVE  DefineMethod(defined, op) \in MethodSets
<1>1. PICK S \in SUBSET Names : defined \in [S -> DOMAIN NameRank]
    BY DEF MethodSets
<1>2. DOMAIN defined = S /\ IsFiniteSet(S)
    BY <1>1 DEF MethodSets
<1> DEFINE js == UniqueIdentifier(op.jsName, DOMAIN defined)
<1>3. js \in Names
    BY <1>2, UniqueIdentifierIsNew
<1>4. DefineMethod(defined, op) =
        [m \in S \cup {js} |-> IF m = js THEN op.name ELSE defined[m]]
    BY <1>2 DEF DefineMethod
<1> HIDE DEF js
<1>5. /\ DefineMethod(defined, op) \in [S \cup {js} -> DOMAIN NameRank]
      /\ DOMAIN DefineMethod(defined, op) = S \cup {js}
    BY <1>1, <1>4
<1>6. IsFiniteSet(S \cup {js})
    BY <1>2, FS_AddElement
<1>7. S \cup {js} \in SUBSET Names
    BY <1>3
<1> QED
    BY <1>5, <1>6, <1>7 DEF MethodSets

\* The loop over the operations defines a method for each of the kind.
LEMMA MethodsCover ==
    ASSUME NEW N \in Nat, NEW ops, Listed(ops, N), NEW kind
    PROVE  Covers(MethodsOf(ops, kind), ops, kind, N)
<1> DEFINE F == [p \in (1 .. N) \X MethodSets |->
                    IF ops[p[1]].kind = kind THEN DefineMethod(p[2], ops[p[1]]) ELSE p[2]]
           Step(U) == [n \in 0 .. Len(ops) |->
                    IF n = 0 THEN << >>
                    ELSE IF ops[n].kind = kind THEN DefineMethod(U[n - 1], ops[n])
                    ELSE U[n - 1]]
           C == CHOOSE U : U = Step(U)
<1>1. F \in [(1 .. N) \X MethodSets -> MethodSets]
    BY MethodSetsGrow DEF Listed
<1>2. << >> \in MethodSets
    <2>1. << >> \in [{} -> DOMAIN NameRank] /\ DOMAIN << >> = {}
        OBVIOUS
    <2>2. IsFiniteSet({}) /\ {} \in SUBSET Names
        BY FS_EmptySet
    <2> QED
        BY <2>1, <2>2 DEF MethodSets
<1>3. PICK g : Iterates(g, N, MethodSets, << >>, F)
    <2> HIDE DEF F
    <2> QED
        BY <1>1, <1>2, Iteration
<1>4. g = Step(g)
    <2>1. ASSUME NEW n \in 0 .. N PROVE g[n] = Step(g)[n]
        <3>1. CASE n = 0
            BY <3>1, <1>3 DEF Iterates, Listed
        <3>2. CASE n # 0
            <4>1. n \in 1 .. N /\ n - 1 \in 0 .. N
                BY <3>2
            <4>2. g[n - 1] \in MethodSets /\ g[n] = F[<<n, g[n - 1]>>]
                BY <4>1, <1>3 DEF Iterates
            <4> QED
                BY <4>1, <4>2, <3>2 DEF Listed
        <3> QED
            BY <3>1, <3>2
    <2>2. \A U : Step(U) = [n \in 0 .. N |-> Step(U)[n]]
        BY DEF Listed
    <2>3. g = [n \in 0 .. N |-> g[n]]
        BY <1>3 DEF Iterates
    <2> HIDE DEF Step
    <2> QED
        BY <2>1, <2>2, <2>3
<1>5. C = Step(C)
    <2> HIDE DEF Step
    <2> QED
        BY <1>4, Zenon
<1>6. MethodsOf(ops, kind) = C[N]
    BY DEF MethodsOf, Listed
<1>7. C[0] = << >>
    <2>1. \A U : Step(U)[0] = << >>
        BY DEF Listed
    <2> HIDE DEF Step, C
    <2> QED
        BY <1>5, <2>1
<1>8. ASSUME NEW n \in 0 .. N, n < N
      PROVE  C[n + 1] = IF ops[n + 1].kind = kind THEN DefineMethod(C[n], ops[n + 1]) ELSE C[n]
    <2>1. n + 1 \in 0 .. Len(ops) /\ n + 1 # 0 /\ (n + 1) - 1 = n
        BY <1>8 DEF Listed
    <2>2. \A U : Step(U)[n + 1] =
            IF ops[n + 1].kind = kind THEN DefineMethod(U[n], ops[n + 1]) ELSE U[n]
        BY <2>1
    <2> HIDE DEF Step, C
    <2> QED
        BY <1>5, <2>2
<1> HIDE DEF C
<1> DEFINE A == {n \in 0 .. N : Covers(C[n], ops, kind, n)}
<1>9. 0 \in A
    <2>1. DOMAIN C[0] = {} /\ Positions(ops, kind, 0) = {}
        BY <1>7 DEF Positions
    <2> QED
        BY <2>1, FS_EmptySet DEF Covers
<1>10. ASSUME NEW n \in 0 .. N, n \in A, n < N PROVE n + 1 \in A
    <2>1. n + 1 \in 1 .. N /\ n \in Nat /\ Covers(C[n], ops, kind, n)
        BY <1>10
    <2>2. Covers(C[n + 1], ops, kind, n + 1)
        BY <2>1, <1>8, <1>10, CoversNext DEF Listed
    <2> QED
        BY <2>1, <2>2
<1>11. N \in A
    <2> HIDE DEF A
    <2> QED
        BY <1>9, <1>10, SetInduction
<1> QED
    BY <1>6, <1>11

\* The operations of a kind are its fields.
LEMMA PositionsAreFields ==
    ASSUME NEW s, IsSchema(s), NEW k \in Kinds, NEW N \in Nat, NEW ops,
           ops = BuildOperationIndex(s), N = Len(ops)
    PROVE  /\ Listed(ops, N)
           /\ Cardinality(Positions(ops, k, N)) = Cardinality(s[k])
           /\ \A i \in Positions(ops, k, N) : \E f \in s[k] :
                f.name = ops[i].name /\ ops[i] = BuildOperation(k, f)
           /\ \A f \in s[k] : \E i \in Positions(ops, k, N) : ops[i].name = f.name
<1> DEFINE P == Positions(ops, k, N)
<1>1. /\ ops \in [1 .. N -> Operations(s)]
      /\ \A i, j \in 1 .. N : ops[i] = ops[j] => i = j
      /\ \A op \in Operations(s) : \E i \in 1 .. N : ops[i] = op
    BY IndexIsComplete
<1>2. \A i \in P : i \in 1 .. N /\ ops[i] \in Operations(s) /\ ops[i].kind = k
    BY <1>1 DEF Positions
<1>3. \A i \in P : \E f \in s[k] : f.name = ops[i].name /\ ops[i] = BuildOperation(k, f)
    BY <1>2, OperationOfField
<1>4. ASSUME NEW f \in s[k]
      PROVE  \E i \in P : ops[i] = BuildOperation(k, f) /\ ops[i].name = f.name
    <2>1. PICK i \in 1 .. N : ops[i] = BuildOperation(k, f)
        BY <1>1, OperationOfField
    <2>2. ops[i].kind = k /\ ops[i].name = f.name
        BY <2>1, OperationOfField
    <2> QED
        BY <2>1, <2>2 DEF Positions
<1>5. Listed(ops, N)
    <2> SUFFICES ASSUME NEW n \in 1 .. N
                 PROVE  ops[n].jsName \in Names /\ ops[n].name \in DOMAIN NameRank
        BY DEF Listed
    <2>1. PICK f \in s[ops[n].kind] : ops[n] = BuildOperation(ops[n].kind, f)
        BY <1>1, OperationOfField
    <2>2. ops[n].name = f.name /\ ops[n].jsName = SanitizeIdentifier(f.name)
        BY <2>1 DEF BuildOperation
    <2>3. f.name \in DOMAIN NameRank
        BY <1>1, <2>2, OperationsAreDistinct
    <2> QED
        BY <2>2, <2>3, NamesAreNames
<1> DEFINE fieldAt == [i \in P |-> CHOOSE f \in s[k] : f.name = ops[i].name]
<1>6. \A i \in P : fieldAt[i] \in s[k] /\ fieldAt[i].name = ops[i].name
    BY <1>3
<1>7. \A i, j \in P : fieldAt[i] = fieldAt[j] => i = j
    <2> SUFFICES ASSUME NEW i \in P, NEW j \in P, fieldAt[i] = fieldAt[j] PROVE i = j
        OBVIOUS
    <2>1. ops[i].name = ops[j].name /\ ops[i].kind = ops[j].kind
        BY <1>6, <1>2
    <2>2. ops[i] = ops[j]
        BY <2>1, <1>2, OperationsAreDistinct
    <2> QED
        BY <2>2, <1>1, <1>2
<1>8. \A f \in s[k] : \E i \in P : fieldAt[i] = f
    <2> SUFFICES ASSUME NEW f \in s[k] PROVE \E i \in P : fieldAt[i] = f
        OBVIOUS
    <2>1. PICK i \in P : ops[i].name = f.name
        BY <1>4
    <2>2. fieldAt[i] \in s[k] /\ fieldAt[i].name = f.name
        BY <2>1, <1>6
    <2> QED
        BY <2>2 DEF IsSchema
<1>9. fieldAt \in Surjection(P, s[k]) /\ fieldAt \in Injection(P, s[k])
    <2>1. fieldAt \in [P -> s[k]]
        BY <1>6
    <2> HIDE DEF P, fieldAt
    <2> QED
        BY <2>1, <1>7, <1>8 DEF Injection, Surjection, IsInjective
<1>10. Cardinality(P) = Cardinality(s[k])
    <2>1. IsFiniteSet(1 .. N)
        BY FS_Interval
    <2>2. IsFiniteSet(P)
        BY <1>2, <2>1, FS_Subset
    <2> HIDE DEF P, fieldAt
    <2> QED
        BY <2>2, <1>9, FS_Surjection
<1> QED
    BY <1>3, <1>4, <1>5, <1>10

\* Every field of a kind has a method of its own, whatever names collide once
\* they are sanitised.
THEOREM MethodsAreFields ==
    ASSUME NEW s, IsSchema(s), NEW k \in Kinds
    PROVE  LET methodsOf == MethodsOf(BuildOperationIndex(s), k)
           IN  /\ {methodsOf[m] : m \in DOMAIN methodsOf} = {f.name : f \in s[k]}
               /\ Cardinality(DOMAIN methodsOf) = Cardinality(s[k])
<1> DEFINE ops == BuildOperationIndex(s)
           N == Len(ops)
<1>1. N \in Nat
    BY IndexIsComplete
<1> HIDE DEF ops, N
<1>2. /\ Listed(ops, N)
      /\ Cardinality(Positions(ops, k, N)) = Cardinality(s[k])
      /\ \A i \in Positions(ops, k, N) : \E f \in s[k] : f.name = ops[i].name
      /\ \A f \in s[k] : \E i \in Positions(ops, k, N) : ops[i].name = f.name
    BY <1>1, PositionsAreFields DEF ops, N
<1>3. Covers(MethodsOf(ops, k), ops, k, N)
    BY <1>1, <1>2, MethodsCover
<1> DEFINE methodsOf == MethodsOf(ops, k)
<1> HIDE DEF methodsOf
<1>4. {methodsOf[m] : m \in DOMAIN methodsOf} = {f.name : f \in s[k]}
    BY <1>2, <1>3 DEF Covers, methodsOf
<1>5. Cardinality(DOMAIN methodsOf) = Cardinality(s[k])
    BY <1>2, <1>3 DEF Covers, methodsOf
<1> QED
    BY <1>4, <1>5 DEF methodsOf, ops

-----------------------------------------------------------------------------
\* Searching

\* A match scores, and none of the other places together outweighs the name.
LEMMA ScoreOf ==
    ASSUME NEW places \in SUBSET Places
    PROVE  /\ Score(places) \in Nat
           /\ Score(places) > 0 <=> places # {}
           /\ "exact" \in places => Score(places) >= 100
           /\ "exact" \notin places => Score(places) < 100
<1>1. places # {} <=> \E place \in {"exact", "name", "description", "args", "type", "tags"} : place \in places
    BY DEF Places
<1> QED
    BY <1>1 DEF Score, Points

\* The lesser of two.
LEMMA LesserOf ==
    ASSUME NEW a \in Nat, NEW b \in Nat
    PROVE  Min({a, b}) = IF a <= b THEN a ELSE b
<1>1. {a, b} \in SUBSET Nat /\ {a, b} # {}
    OBVIOUS
<1>2. Min({a, b}) \in {a, b} /\ \A y \in {a, b} : Min({a, b}) <= y
    BY <1>1, LeastNat
<1> QED
    BY <1>2

\* The first elements of a list.
LEMMA Prefix ==
    ASSUME NEW T, NEW n \in Nat, NEW s \in [1 .. n -> T], NEW m \in 0 .. n
    PROVE  /\ SubSeq(s, 1, m) \in [1 .. m -> T]
           /\ Len(SubSeq(s, 1, m)) = m
           /\ \A i \in 1 .. m : SubSeq(s, 1, m)[i] = s[i]
<1> DEFINE t == SubSeq(s, 1, m)
<1>1. \A i \in 1 .. m : s[i] \in T
    OBVIOUS
<1>2. /\ t \in Seq(T)
      /\ Len(t) = (IF 1 <= m THEN m - 1 + 1 ELSE 0)
      /\ \A i \in 1 .. m - 1 + 1 : t[i] = s[1 + i - 1]
    BY <1>1, SubSeqProperties
<1> HIDE DEF t
<1>3. Len(t) = m
    BY <1>2
<1>4. \A i \in 1 .. m : i \in 1 .. m - 1 + 1 /\ 1 + i - 1 = i
    OBVIOUS
<1>5. t \in [1 .. m -> T] /\ \A i \in 1 .. m : t[i] = s[i]
    BY <1>2, <1>3, <1>4
<1> QED
    BY <1>3, <1>5 DEF t

\* slice(0, limit) of a list has as many of its first elements as there are.
LEMMA SliceIsPrefix ==
    ASSUME NEW T, NEW n \in Nat, NEW s \in [1 .. n -> T], NEW limit \in Nat
    PROVE  Min({limit, n}) \in 0 .. n /\ Slice(s, limit) = SubSeq(s, 1, Min({limit, n}))
<1>1. Min({limit, n}) \in 0 .. n
    BY LesserOf
<1>2. Len(s) = n /\ ~(limit < 0)
    OBVIOUS
<1> QED
    BY <1>1, <1>2 DEF Slice

\* The scores and then the places order what matches.
LEMMA BetterOrders ==
    ASSUME NEW n \in Nat, NEW hits \in [1 .. n -> SUBSET Places], NEW M \in SUBSET (1 .. n)
    PROVE  Orders({p \in M \X M : Better(hits, p[1], p[2])}, M)
<1> DEFINE R == {p \in M \X M : Better(hits, p[1], p[2])}
<1>1. \A i \in M : i \in Nat /\ Score(hits[i]) \in Nat
    BY ScoreOf
<1>2. \A i, j \in M : <<i, j>> \in R <=> Better(hits, i, j)
    OBVIOUS
<1>3. \A i \in M : ~Better(hits, i, i)
    BY <1>1 DEF Better
<1>4. \A i, j, k \in M : Better(hits, i, j) /\ Better(hits, j, k) => Better(hits, i, k)
    BY <1>1 DEF Better
<1>5. \A i, j \in M : i = j \/ Better(hits, i, j) \/ Better(hits, j, i)
    BY <1>1 DEF Better
<1> HIDE DEF R
<1>6. Orders(R, M)
    BY <1>2, <1>3, <1>4, <1>5 DEF Orders
<1> QED
    BY <1>6 DEF R

\* Nothing that is left out of a result scores better, and what is named by the
\* text comes first.
IsBest(result, n, hits, limit) ==
    LET returned == ToSet(result)
    IN  /\ \A i \in returned, j \in (1 .. n) \ returned : Score(hits[i]) >= Score(hits[j])
        /\ Len(result) = Min({limit, Cardinality({i \in 1 .. n : hits[i] # {}})})
        /\ \A i, j \in DOMAIN result :
            "exact" \in hits[result[i]] /\ "exact" \notin hits[result[j]] => i < j

\* A search returns the best of what matches, and the operations of that very
\* name first.
THEOREM SearchReturnsTheBest ==
    ASSUME NEW n \in Nat, NEW ops, DOMAIN ops = 1 .. n,
           NEW hits \in [1 .. n -> SUBSET Places], NEW limit \in Nat
    PROVE  IsBest(SearchOperations(ops, hits, limit), n, hits, limit)
<1> DEFINE M == Matching(ops, hits)
           R == {p \in M \X M : Better(hits, p[1], p[2])}
           c == Cardinality(M)
           list == Sorted(M, LAMBDA i, j : Better(hits, i, j))
           result == SearchOperations(ops, hits, limit)
           m == Min({limit, c})
<1>1. M = {i \in 1 .. n : hits[i] # {}} /\ M \in SUBSET (1 .. n)
    BY ScoreOf DEF Matching
<1>2. IsFiniteSet(M) /\ c \in Nat
    <2>1. IsFiniteSet(1 .. n)
        BY FS_Interval
    <2> QED
        BY <1>1, <2>1, FS_Subset, FS_CardinalityType
<1>3. Orders(R, M)
    <2> HIDE DEF M
    <2> QED
        BY <1>1, BetterOrders
<1>4. \A x \in M : Below(x, R, M) = {y \in M : Better(hits, y, x)}
    BY DEF Below
<1>5. list = [i \in 1 .. c |-> CHOOSE x \in M : Cardinality({y \in M : Better(hits, y, x)}) = i - 1]
    BY DEF Sorted
<1>6. result = Slice(list, limit)
    BY DEF SearchOperations
<1> HIDE DEF R, result, list
<1>7. ASSUME NEW i \in 1 .. c
      PROVE  list[i] \in M /\ Cardinality(Below(list[i], R, M)) = i - 1
    <2>1. \E x \in M : Cardinality({y \in M : Better(hits, y, x)}) = i - 1
        <3>1. PICK x \in M : Cardinality(Below(x, R, M)) = i - 1
            <4> HIDE DEF M
            <4> QED
                BY <1>2, <1>3, EveryPlaceIsTaken
        <3> QED
            BY <3>1, <1>4
    <2>2. list[i] = CHOOSE x \in M : Cardinality({y \in M : Better(hits, y, x)}) = i - 1
        BY <1>5
    <2>3. list[i] \in M /\ Cardinality({y \in M : Better(hits, y, list[i])}) = i - 1
        <3> HIDE DEF M
        <3> QED
            BY <2>1, <2>2, Zenon
    <2> QED
        BY <2>3, <1>4
<1>8. list \in [1 .. c -> M]
    BY <1>5, <1>7
<1>9. /\ \A i, j \in 1 .. c : i < j => <<list[i], list[j]>> \in R
      /\ \A x \in M : \E i \in 1 .. c : list[i] = x
    <2>1. c = Cardinality(M)
        OBVIOUS
    <2>2. \A i \in 1 .. c : Cardinality(Below(list[i], R, M)) = i - 1
        BY <1>7
    <2> HIDE DEF M, c
    <2> QED
        BY <2>1, <2>2, <1>2, <1>3, <1>8, PlacesSort
<1>10. \A i, j \in 1 .. c : i < j => Score(hits[list[i]]) >= Score(hits[list[j]])
    <2> SUFFICES ASSUME NEW i \in 1 .. c, NEW j \in 1 .. c, i < j
                 PROVE  Score(hits[list[i]]) >= Score(hits[list[j]])
        OBVIOUS
    <2>1. list[i] \in 1 .. n /\ list[j] \in 1 .. n /\ Better(hits, list[i], list[j])
        BY <1>1, <1>8, <1>9 DEF R
    <2>2. Score(hits[list[i]]) \in Nat /\ Score(hits[list[j]]) \in Nat
        BY <2>1, ScoreOf
    <2> QED
        BY <2>1, <2>2 DEF Better
<1> HIDE DEF c
<1>11. /\ m \in 0 .. c
       /\ result \in [1 .. m -> M]
       /\ Len(result) = m
       /\ \A i \in 1 .. m : result[i] = list[i]
    <2> HIDE DEF M
    <2>1. m \in 0 .. c /\ Slice(list, limit) = SubSeq(list, 1, m)
        BY <1>2, <1>8, SliceIsPrefix
    <2> HIDE DEF m
    <2>2. /\ SubSeq(list, 1, m) \in [1 .. m -> M]
          /\ Len(SubSeq(list, 1, m)) = m
          /\ \A i \in 1 .. m : SubSeq(list, 1, m)[i] = list[i]
        BY <2>1, <1>2, <1>8, Prefix
    <2> QED
        BY <2>1, <2>2, <1>6
<1> HIDE DEF m
<1> DEFINE returned == ToSet(result)
<1>12. returned = {list[i] : i \in 1 .. m}
    BY <1>11 DEF ToSet
<1>13. ASSUME NEW i \in returned, NEW j \in (1 .. n) \ returned
       PROVE  Score(hits[i]) >= Score(hits[j])
    <2>1. PICK p \in 1 .. m : i = list[p]
        BY <1>12
    <2>2. p \in 1 .. c /\ i \in 1 .. n
        BY <2>1, <1>1, <1>2, <1>8, <1>11
    <2>3. Score(hits[i]) \in Nat /\ Score(hits[j]) \in Nat
        BY <2>2, ScoreOf
    <2>4. CASE j \notin M
        <3>1. hits[j] = {}
            BY <2>4, <1>1
        <3>2. ~(Score(hits[j]) > 0)
            BY <3>1, ScoreOf
        <3> QED
            BY <3>2, <2>3
    <2>5. CASE j \in M
        <3>1. PICK q \in 1 .. c : list[q] = j
            BY <2>5, <1>9
        <3>2. q \notin 1 .. m
            BY <3>1, <1>12
        <3>3. p < q
            BY <2>2, <3>2, <1>2, <1>11
        <3> QED
            BY <2>1, <2>2, <3>1, <3>3, <1>10
    <2> QED
        BY <2>4, <2>5
<1>14. ASSUME NEW i \in DOMAIN result, NEW j \in DOMAIN result,
              "exact" \in hits[result[i]], "exact" \notin hits[result[j]]
       PROVE  i < j
    <2>1. i \in 1 .. m /\ j \in 1 .. m /\ i \in 1 .. c /\ j \in 1 .. c
        BY <1>2, <1>11
    <2>2. result[i] = list[i] /\ result[j] = list[j] /\ list[i] \in 1 .. n /\ list[j] \in 1 .. n
        BY <2>1, <1>1, <1>8, <1>11
    <2>3. /\ Score(hits[list[i]]) \in Nat /\ Score(hits[list[j]]) \in Nat
          /\ Score(hits[list[i]]) >= 100 /\ Score(hits[list[j]]) < 100
        BY <1>14, <2>2, ScoreOf
    <2>4. ~(j < i) /\ i # j
        BY <2>1, <2>3, <1>10
    <2> QED
        BY <2>1, <2>4
<1>15. Len(result) = Min({limit, Cardinality({i \in 1 .. n : hits[i] # {}})})
    BY <1>1, <1>11 DEF m, c
<1> QED
    BY <1>13, <1>14, <1>15 DEF result, IsBest
-----------------------------------------------------------------------------
\* The inductive invariant

\* What a process serves, and the methods that a script has of it.
ServesSchema ==
    /\ schema \in Schemas
    /\ phase \in {"loading", "idle", "script", "sent", "told"}
    /\ hasSpec \in BOOLEAN /\ hasCreds \in BOOLEAN
    /\ index = IF hasSpec THEN BuildOperationIndex(schema) ELSE << >>
    /\ phase = "loading" => ~hasSpec
    /\ phase = "script" => methods = [k \in Kinds |-> MethodsOf(index, k)]

\* A call by method c that became the request r.
MethodCall(c, r) ==
    \E k \in Kinds, args \in ArgChoices \cup {NotAnObject}, fields \in FieldChoices :
        \E m \in DOMAIN methods[k] :
            /\ c = [kind |-> k, method |-> m, args |-> args, fields |-> fields]
            /\ r = Dispatch(methods[k][m], k, args, fields)

DirectCall(c, r) ==
    \E helper \in {"graphql", "request"}, wellFormed \in BOOLEAN :
        /\ c = [helper |-> helper]
        /\ r = DispatchDirect(wellFormed)

\* The request is what the dispatcher makes of the call, and the answer is what
\* it makes of the data of the box.
CallIsDispatched ==
    /\ \/ called = Nothing /\ request = Nothing
       \/ /\ phase \in {"sent", "told"}
          /\ methods = [k \in Kinds |-> MethodsOf(index, k)]
          /\ MethodCall(called, request) \/ DirectCall(called, request)
    /\ phase = "sent" => Sent(request)
    /\ \/ data = Nothing /\ answer = Nothing
       \/ /\ phase = "told"
          /\ data \in Answers
          /\ Sent(request)
          /\ answer = Unwrap(request, data)

\* A search has what the index held when it ran, which is what it holds.
SearchIsAnswered ==
    \/ asked = Nothing
    \/ phase = "told" /\ asked.helper # "searchOperations"
    \/ /\ phase = "told"
       /\ \E limit \in Limits : \E hits \in [DOMAIN index -> HitSets] :
            /\ asked = [helper |-> "searchOperations", hits |-> hits, limit |-> limit]
            /\ found = SearchOperations(index, hits, limit)

IInv == ServesSchema /\ CallIsDispatched /\ SearchIsAnswered

\* The schema that a process serves is one.
LEMMA SchemaServed ==
    ServesSchema => IsSchema(schema)
BY SchemasAssumption DEF ServesSchema

\* Nothing is served before a spec is loaded.
THEOREM InitInv == Init => IInv
BY DEF Init, IInv, ServesSchema, CallIsDispatched, SearchIsAnswered

\* The script's method of an operation is for a field of the schema.
LEMMA MethodsHaveFields ==
    ASSUME ServesSchema, methods = [k \in Kinds |-> MethodsOf(index, k)],
           NEW k \in Kinds, NEW m \in DOMAIN methods[k]
    PROVE  hasSpec /\ \E f \in schema[k] : f.name = methods[k][m]
<1>1. methods[k] = MethodsOf(index, k)
    OBVIOUS
<1>2. CASE hasSpec
    <2>1. index = BuildOperationIndex(schema) /\ IsSchema(schema)
        BY <1>2, SchemaServed DEF ServesSchema
    <2>2. {methods[k][n] : n \in DOMAIN methods[k]} = {f.name : f \in schema[k]}
        BY <1>1, <2>1, MethodsAreFields
    <2>3. methods[k][m] \in {f.name : f \in schema[k]}
        BY <2>2
    <2> QED
        BY <1>2, <2>3
<1>3. CASE ~hasSpec
    <2>1. index = << >> /\ Len(index) = 0 /\ 1 .. 0 = {}
        BY <1>3 DEF ServesSchema
    <2>2. Listed(index, 0)
        BY <2>1 DEF Listed
    <2>3. Covers(methods[k], index, k, 0)
        BY <1>1, <2>2, MethodsCover
    <2>4. Positions(index, k, 0) = {}
        BY DEF Positions
    <2> QED
        BY <2>3, <2>4 DEF Covers
<1> QED
    BY <1>2, <1>3

\* The type of a field under its wrappers.
IsLeafType(type) == \E i \in DOMAIN type : type[i] \in {"SCALAR", "ENUM"}

\* A type is a leaf if its named type is.
LEMMA LeafIsNamedType ==
    ASSUME NEW type, IsTypeRef(type)
    PROVE  UnwrapToNamed(type) \in {"SCALAR", "ENUM"} <=> IsLeafType(type)
<1>1. UnwrapToNamed(type) = type[Len(type)]
    BY UnwrapToNamedEnds
<1>2. Len(type) \in DOMAIN type
    BY DEF IsTypeRef
<1>3. \A i \in DOMAIN type : type[i] \in {"SCALAR", "ENUM"} => i = Len(type)
    BY DEF IsTypeRef, IsWrapper
<1> QED
    BY <1>1, <1>2, <1>3 DEF IsLeafType

\* What the dispatcher makes of a call for a field: its own operation is found
\* under the kind, so that only the credentials, the selection and the type of
\* the arguments can be missing.
THEOREM DispatchOfField ==
    ASSUME ServesSchema, hasSpec, NEW k \in Kinds, NEW f \in schema[k], NEW args, NEW fields
    PROVE  Dispatch(f.name, k, args, fields) =
             IF ~hasCreds THEN Failed("missing_credentials")
             ELSE IF ~IsLeafType(f.type) /\ ~Selects(fields) THEN Failed("selection_required")
             ELSE IF ~(args # NotAnObject \/ DOMAIN f.args = {}) THEN Failed("bad_args")
             ELSE [outcome |-> "sent", kind |-> k, field |-> f.name,
                   declared |-> [a \in DOMAIN f.args |-> StringifyTypeRef(f.args[a])],
                   variables |-> DOMAIN f.args \cap args,
                   selection |-> ~IsLeafType(f.type)]
<1> DEFINE op == BuildOperation(k, f)
<1>1. IsSchema(schema) /\ index = BuildOperationIndex(schema)
    BY SchemaServed DEF ServesSchema
<1>2. GetOperation(index, f.name, k) = op
    BY <1>1, GetOperationFinds
<1>3. op.kind = k /\ op.name = f.name /\ op.args = f.args /\ op.returnType = f.type
    BY DEF BuildOperation
<1>4. op # NoOperation
    BY <1>3 DEF NoOperation, Kinds
<1>5. IsLeaf(op) <=> IsLeafType(f.type)
    <2>1. IsTypeRef(f.type)
        BY <1>1 DEF IsSchema
    <2> QED
        BY <1>3, <2>1, LeafIsNamedType DEF IsLeaf
<1> HIDE DEF op
<1> QED
    BY <1>2, <1>3, <1>4, <1>5 DEF Dispatch, ArgsFit, BuildVariables

\* A step that leaves what is served leaves what the dispatcher makes of calls.
LEMMA DispatchKeeps ==
    ASSUME UNCHANGED <<server, script>>
    PROVE  /\ ServesSchema /\ phase' \in {"idle", "script", "sent", "told"}
                /\ (phase' = "script" => phase = "script") => ServesSchema'
           /\ MethodCall(called, request) /\ UNCHANGED <<called, request>>
                => MethodCall(called, request)'
           /\ DirectCall(called, request) /\ UNCHANGED <<called, request>>
                => DirectCall(called, request)'
<1>1. UNCHANGED <<schema, index, hasSpec, hasCreds, methods>>
    BY DEF server, script
<1>2. \A name, k, args, fields : Dispatch(name, k, args, fields)' = Dispatch(name, k, args, fields)
    BY <1>1 DEF Dispatch
<1>3. \A wellFormed : DispatchDirect(wellFormed)' = DispatchDirect(wellFormed)
    BY <1>1 DEF DispatchDirect
<1> QED
    BY <1>1, <1>2, <1>3 DEF ServesSchema, MethodCall, DirectCall

\* Every step keeps what is served, asked and answered together.
THEOREM NextInv == IInv /\ [Next]_vars => IInv'
<1> SUFFICES ASSUME IInv, [Next]_vars PROVE IInv'
    OBVIOUS
<1> USE DEF IInv
<1>1. CASE LoadSpec
    <2>1. ServesSchema'
        BY <1>1 DEF LoadSpec, ServesSchema, script
    <2>2. CallIsDispatched' /\ SearchIsAnswered'
        BY <1>1 DEF LoadSpec, CallIsDispatched, SearchIsAnswered, call, search
    <2> QED
        BY <2>1, <2>2
<1>2. CASE StartWithoutSpec
    <2>1. ServesSchema'
        BY <1>2 DEF StartWithoutSpec, ServesSchema, server, script
    <2>2. CallIsDispatched' /\ SearchIsAnswered'
        BY <1>2 DEF StartWithoutSpec, CallIsDispatched, SearchIsAnswered, call, search
    <2> QED
        BY <2>1, <2>2
<1>3. ASSUME NEW creds \in BOOLEAN, BuildPrelude(creds) PROVE IInv'
    <2>1. ServesSchema'
        BY <1>3 DEF BuildPrelude, ServesSchema, server
    <2>2. CallIsDispatched' /\ SearchIsAnswered'
        BY <1>3 DEF BuildPrelude, CallIsDispatched, SearchIsAnswered, call, search
    <2> QED
        BY <2>1, <2>2
<1>4. ASSUME NEW c, NEW r, Issue(c, r), MethodCall(c, r) \/ DirectCall(c, r) PROVE IInv'
    <2>1. /\ phase = "script" /\ phase' \in {"sent", "told"}
          /\ phase' = "sent" => Sent(r)
          /\ called' = c /\ request' = r
          /\ UNCHANGED <<schema, index, hasSpec, hasCreds, methods, data, answer, asked, found>>
        BY <1>4 DEF Issue, server, script, search
    <2>2. ServesSchema'
        BY <2>1, DispatchKeeps DEF server, script
    <2>3. MethodCall(c, r) => MethodCall(called, request)'
        <3>1. \A name, k, args, fields : Dispatch(name, k, args, fields)' = Dispatch(name, k, args, fields)
            BY <2>1 DEF Dispatch
        <3> QED
            BY <2>1, <3>1 DEF MethodCall
    <2>4. DirectCall(c, r) => DirectCall(called, request)'
        <3>1. \A wellFormed : DispatchDirect(wellFormed)' = DispatchDirect(wellFormed)
            BY <2>1 DEF DispatchDirect
        <3> QED
            BY <2>1, <3>1 DEF DirectCall
    <2>5. methods' = [k \in Kinds |-> MethodsOf(index', k)]
        BY <2>1 DEF ServesSchema
    <2>6. Sent(r) => Sent(request')
        BY <2>1
    <2>7. data' = Nothing /\ answer' = Nothing
        BY <2>1 DEF CallIsDispatched
    <2>8. CallIsDispatched'
        BY <1>4, <2>1, <2>3, <2>4, <2>5, <2>6, <2>7 DEF CallIsDispatched, Sent
    <2>9. SearchIsAnswered'
        BY <2>1 DEF SearchIsAnswered
    <2> QED
        BY <2>2, <2>8, <2>9
<1>5. ASSUME NEW k \in Kinds, NEW args \in ArgChoices \cup {NotAnObject},
             NEW fields \in FieldChoices, NEW m \in DOMAIN methods[k],
             CallMethod(k, m, args, fields)
      PROVE  IInv'
    <2> DEFINE c == [kind |-> k, method |-> m, args |-> args, fields |-> fields]
               r == Dispatch(methods[k][m], k, args, fields)
    <2>1. Issue(c, r) /\ MethodCall(c, r)
        BY <1>5 DEF CallMethod, MethodCall
    <2> HIDE DEF c, r
    <2> QED
        BY <2>1, <1>4
<1>6. ASSUME NEW helper \in {"graphql", "request"}, NEW wellFormed \in BOOLEAN,
             CallDirect(helper, wellFormed)
      PROVE  IInv'
    <2> DEFINE c == [helper |-> helper]
               r == DispatchDirect(wellFormed)
    <2>1. Issue(c, r) /\ DirectCall(c, r)
        BY <1>6 DEF CallDirect, DirectCall
    <2> HIDE DEF c, r
    <2> QED
        BY <2>1, <1>4
<1>7. ASSUME NEW d \in Answers, BoxAnswers(d) PROVE IInv'
    <2>1. /\ phase = "sent" /\ phase' = "told" /\ data' = d /\ answer' = Unwrap(request, d)
          /\ UNCHANGED <<schema, index, hasSpec, hasCreds, methods, called, request, asked, found>>
        BY <1>7 DEF BoxAnswers, server, script, search
    <2>2. ServesSchema'
        BY <2>1, DispatchKeeps DEF server, script
    <2>3. /\ methods = [k \in Kinds |-> MethodsOf(index, k)]
          /\ MethodCall(called, request) \/ DirectCall(called, request)
        BY <2>1 DEF CallIsDispatched, Sent, Nothing
    <2>4. (MethodCall(called, request) \/ DirectCall(called, request))'
        BY <2>1, <2>3, DispatchKeeps DEF server, script
    <2>5. Sent(request) /\ (Sent(request))' /\ data' \in Answers'
        BY <1>7, <2>1 DEF CallIsDispatched, Answers, Sent
    <2>6. answer' = Unwrap(request', data')
        BY <2>1 DEF Unwrap
    <2>7. methods' = [k \in Kinds |-> MethodsOf(index', k)]
        BY <2>1, <2>3
    <2>8. CallIsDispatched'
        BY <2>1, <2>4, <2>5, <2>6, <2>7 DEF CallIsDispatched
    <2>9. SearchIsAnswered'
        BY <2>1 DEF SearchIsAnswered
    <2> QED
        BY <2>2, <2>8, <2>9
<1>8. ASSUME NEW question, NEW result, Asked(question, result),
             \/ question.helper # "searchOperations"
             \/ \E limit \in Limits : \E hits \in [DOMAIN index -> HitSets] :
                    /\ question = [helper |-> "searchOperations", hits |-> hits, limit |-> limit]
                    /\ result = SearchOperations(index, hits, limit)
      PROVE  IInv'
    <2>1. /\ phase = "idle" /\ phase' = "told" /\ asked' = question /\ found' = result
          /\ UNCHANGED <<schema, index, hasSpec, hasCreds, methods, called, request, data, answer>>
        BY <1>8 DEF Asked, server, script, call
    <2>2. ServesSchema'
        BY <2>1, DispatchKeeps DEF server, script
    <2>3. called' = Nothing /\ request' = Nothing /\ data' = Nothing /\ answer' = Nothing
        BY <2>1 DEF CallIsDispatched
    <2>4. CallIsDispatched'
        BY <2>1, <2>3 DEF CallIsDispatched
    <2>5. SearchIsAnswered'
        BY <1>8, <2>1 DEF SearchIsAnswered
    <2> QED
        BY <2>2, <2>4, <2>5
<1>9. ASSUME NEW limit \in Limits, NEW hits \in [DOMAIN index -> HitSets], Search(hits, limit)
      PROVE  IInv'
    <2> DEFINE question == [helper |-> "searchOperations", hits |-> hits, limit |-> limit]
               result == SearchOperations(index, hits, limit)
    <2>1. Asked(question, result)
        BY <1>9 DEF Search
    <2>2. \E l \in Limits : \E h \in [DOMAIN index -> HitSets] :
            /\ question = [helper |-> "searchOperations", hits |-> h, limit |-> l]
            /\ result = SearchOperations(index, h, l)
        OBVIOUS
    <2> HIDE DEF question, result
    <2> QED
        BY <2>1, <2>2, <1>8
<1>10. ASSUME NEW limit \in Limits, SearchAll(limit) PROVE IInv'
    BY <1>8, <1>10 DEF SearchAll
<1>11. ASSUME NEW hits \in [DOMAIN index -> HitSets], FindByName(hits) PROVE IInv'
    BY <1>8, <1>11 DEF FindByName
<1>12. ASSUME NEW name \in DOMAIN NameRank, NEW k \in Kinds, LookUp(name, k) PROVE IInv'
    BY <1>8, <1>12 DEF LookUp
<1>13. CASE EndInvocation
    <2>1. ServesSchema'
        BY <1>13 DEF EndInvocation, ServesSchema, server
    <2>2. CallIsDispatched' /\ SearchIsAnswered'
        BY <1>13 DEF EndInvocation, CallIsDispatched, SearchIsAnswered
    <2> QED
        BY <2>1, <2>2
<1>14. CASE UNCHANGED vars
    <2>1. UNCHANGED <<phase, schema, index, hasSpec, hasCreds, methods, called, request, data, answer, asked, found>>
        BY <1>14 DEF vars, server, script, call, search
    <2>2. ServesSchema'
        BY <2>1 DEF ServesSchema
    <2>3. /\ MethodCall(called, request) => MethodCall(called, request)'
          /\ DirectCall(called, request) => DirectCall(called, request)'
        BY <2>1, DispatchKeeps DEF server, script
    <2>4. CallIsDispatched'
        BY <2>1, <2>3 DEF CallIsDispatched, Sent, Unwrap, Answers
    <2>5. SearchIsAnswered'
        BY <2>1 DEF SearchIsAnswered
    <2> QED
        BY <2>2, <2>4, <2>5
<1> QED
    BY <1>1, <1>2, <1>3, <1>5, <1>6, <1>7, <1>9, <1>10, <1>11, <1>12, <1>13, <1>14 DEF Next

\* The invariant holds of every script and of every search.
THEOREM Invariance == Spec => []IInv
BY InitInv, NextInv, PTL DEF Spec

-----------------------------------------------------------------------------
\* What follows from it

\* The methods of a script are the fields of the schema.
LEMMA MethodsFollow == IInv => EveryFieldHasItsMethod
<1> SUFFICES ASSUME IInv, phase = "script", hasSpec, NEW k \in Kinds
             PROVE  /\ {methods[k][m] : m \in DOMAIN methods[k]} = {f.name : f \in schema[k]}
                    /\ Cardinality(DOMAIN methods[k]) = Cardinality(schema[k])
    BY DEF EveryFieldHasItsMethod
<1>1. methods[k] = MethodsOf(BuildOperationIndex(schema), k) /\ IsSchema(schema)
    BY SchemaServed DEF IInv, ServesSchema
<1> QED
    BY <1>1, MethodsAreFields

\* What a search found is the best of the index.
LEMMA SearchFollows == IInv => SearchKeepsTheBest
<1> SUFFICES ASSUME IInv, asked # Nothing, asked.helper = "searchOperations", asked.limit >= 0
             PROVE  SearchKeepsTheBest
    BY DEF SearchKeepsTheBest
<1>1. PICK limit \in Limits, hits \in [DOMAIN index -> HitSets] :
            /\ asked = [helper |-> "searchOperations", hits |-> hits, limit |-> limit]
            /\ found = SearchOperations(index, hits, limit)
    BY DEF IInv, SearchIsAnswered
<1>2. asked.limit = limit /\ asked.hits = hits /\ limit \in Nat
    BY <1>1, SearchAssumption
<1>3. PICK n \in Nat : DOMAIN index = 1 .. n
    <2>1. CASE hasSpec
        <3>1. index = BuildOperationIndex(schema) /\ IsSchema(schema)
            BY <2>1, SchemaServed DEF IInv, ServesSchema
        <3>2. PICK n \in Nat : index \in [1 .. n -> Operations(schema)]
            BY <3>1, IndexIsComplete
        <3> QED
            BY <3>2
    <2>2. CASE ~hasSpec
        <3>1. index = << >>
            BY <2>2 DEF IInv, ServesSchema
        <3> QED
            BY <3>1
    <2> QED
        BY <2>1, <2>2
<1>4. hits \in [1 .. n -> SUBSET Places]
    BY <1>3, SearchAssumption
<1>5. IsBest(found, n, hits, limit)
    BY <1>1, <1>2, <1>3, <1>4, SearchReturnsTheBest
<1> QED
    BY <1>2, <1>3, <1>5 DEF SearchKeepsTheBest, IsBest

\* What the dispatcher made of a call by method, and the field it is for.
LEMMA MethodIsDispatched ==
    ASSUME IInv, MethodCall(called, request)
    PROVE  \E f \in schema[called.kind] :
            /\ called.kind \in Kinds
            /\ called.fields \in FieldChoices
            /\ called # Nothing /\ "method" \in DOMAIN called
            /\ f.name = methods[called.kind][called.method]
            /\ IsTypeRef(f.type) /\ \A a \in DOMAIN f.args : IsTypeRef(f.args[a])
            /\ \/ request.outcome \in {"missing_credentials", "bad_args"}
               \/ /\ request.outcome = "selection_required"
                  /\ ~IsLeafType(f.type) /\ ~Selects(called.fields)
               \/ /\ request.outcome = "sent"
                  /\ IsLeafType(f.type) \/ Selects(called.fields)
                  /\ request.kind = called.kind
                  /\ request.field = f.name
                  /\ request.declared = [a \in DOMAIN f.args |-> StringifyTypeRef(f.args[a])]
                  /\ request.selection = ~IsLeafType(f.type)
<1>1. PICK k \in Kinds, args \in ArgChoices \cup {NotAnObject}, fields \in FieldChoices :
        \E m \in DOMAIN methods[k] :
            /\ called = [kind |-> k, method |-> m, args |-> args, fields |-> fields]
            /\ request = Dispatch(methods[k][m], k, args, fields)
    BY DEF MethodCall
<1>2. PICK m \in DOMAIN methods[k] :
            /\ called = [kind |-> k, method |-> m, args |-> args, fields |-> fields]
            /\ request = Dispatch(methods[k][m], k, args, fields)
    BY <1>1
<1>3. /\ called.kind = k /\ called.method = m /\ called.fields = fields
      /\ "method" \in DOMAIN called /\ called # Nothing
    BY <1>2 DEF Nothing
<1>4. methods = [l \in Kinds |-> MethodsOf(index, l)]
    BY <1>3 DEF IInv, CallIsDispatched
<1>5. hasSpec /\ \E f \in schema[k] : f.name = methods[k][m]
    BY <1>4, MethodsHaveFields DEF IInv
<1>6. PICK f \in schema[k] : f.name = methods[k][m]
    BY <1>5
<1>7. IsTypeRef(f.type) /\ \A a \in DOMAIN f.args : IsTypeRef(f.args[a])
    BY SchemaServed DEF IInv, IsSchema
<1>8. request =
        IF ~hasCreds THEN Failed("missing_credentials")
        ELSE IF ~IsLeafType(f.type) /\ ~Selects(fields) THEN Failed("selection_required")
        ELSE IF ~(args # NotAnObject \/ DOMAIN f.args = {}) THEN Failed("bad_args")
        ELSE [outcome |-> "sent", kind |-> k, field |-> f.name,
              declared |-> [a \in DOMAIN f.args |-> StringifyTypeRef(f.args[a])],
              variables |-> DOMAIN f.args \cap args,
              selection |-> ~IsLeafType(f.type)]
    BY <1>2, <1>5, <1>6, DispatchOfField DEF IInv
<1>9. \/ request.outcome \in {"missing_credentials", "bad_args"}
      \/ /\ request.outcome = "selection_required"
         /\ ~IsLeafType(f.type) /\ ~Selects(fields)
      \/ /\ request.outcome = "sent"
         /\ IsLeafType(f.type) \/ Selects(fields)
         /\ request.kind = k
         /\ request.field = f.name
         /\ request.declared = [a \in DOMAIN f.args |-> StringifyTypeRef(f.args[a])]
         /\ request.selection = ~IsLeafType(f.type)
    BY <1>8 DEF Failed
<1> QED
    BY <1>3, <1>6, <1>7, <1>9

\* A call of graphql() or request() has no method and is sent as it is.
LEMMA DirectIsDispatched ==
    ASSUME DirectCall(called, request)
    PROVE  /\ called # Nothing /\ "method" \notin DOMAIN called
           /\ request.outcome \in {"not_configured", "missing_credentials", "bad_payload", "sent_as_given"}
<1>1. PICK helper \in {"graphql", "request"}, wellFormed \in BOOLEAN :
            called = [helper |-> helper] /\ request = DispatchDirect(wellFormed)
    BY DEF DirectCall
<1>2. called # Nothing /\ "method" \notin DOMAIN called
    BY <1>1 DEF Nothing
<1> QED
    BY <1>1, <1>2 DEF DispatchDirect, Failed

\* A selection is asked for and sent as the type of the field has it.
LEMMA SelectionFollows == IInv => SelectionFitsType
<1> SUFFICES ASSUME IInv, ByMethod, request.outcome \notin {"missing_credentials", "bad_args"}
             PROVE  SelectionFitsType
    BY DEF SelectionFitsType
<1>1. MethodCall(called, request)
    BY DirectIsDispatched DEF IInv, CallIsDispatched, ByMethod
<1>2. PICK f \in schema[called.kind] :
            /\ called.fields \in FieldChoices
            /\ f.name = methods[called.kind][called.method]
            /\ \/ /\ request.outcome = "selection_required"
                  /\ ~IsLeafType(f.type) /\ ~Selects(called.fields)
               \/ /\ request.outcome = "sent"
                  /\ IsLeafType(f.type) \/ Selects(called.fields)
                  /\ request.selection = ~IsLeafType(f.type)
    BY <1>1, MethodIsDispatched
<1>3. Selects(called.fields) <=> called.fields \notin {"absent", "blank", "empty_array"}
    BY <1>2 DEF Selects, FieldChoices
<1>4. IF IsLeafType(f.type) THEN request.outcome = "sent" /\ ~request.selection
      ELSE IF called.fields \in {"absent", "blank", "empty_array"}
           THEN request.outcome = "selection_required"
           ELSE request.outcome = "sent" /\ request.selection
    BY <1>2, <1>3
<1> QED
    BY <1>2, <1>4 DEF SelectionFitsType, IsLeafType

\* A method's request and its answer are about its own field.
LEMMA MethodFollows == IInv => MethodCallsItsOperation
<1> SUFFICES ASSUME IInv PROVE MethodCallsItsOperation
    OBVIOUS
<1>0. \/ request.outcome = "nothing"
      \/ /\ MethodCall(called, request)
         /\ request.outcome \in {"missing_credentials", "bad_args", "selection_required", "sent"}
      \/ /\ DirectCall(called, request)
         /\ request.outcome # "unknown_operation"
    <2>1. CASE called = Nothing /\ request = Nothing
        BY <2>1 DEF Nothing
    <2>2. CASE MethodCall(called, request)
        BY <2>2, MethodIsDispatched
    <2>3. CASE DirectCall(called, request)
        BY <2>3, DirectIsDispatched
    <2> QED
        BY <2>1, <2>2, <2>3 DEF IInv, CallIsDispatched
<1>1. request.outcome # "unknown_operation"
    BY <1>0
<1>2. ASSUME request.outcome = "sent"
      PROVE  /\ MethodCall(called, request)
             /\ request.kind = called.kind
             /\ request.field = methods[called.kind][called.method]
             /\ \E f \in schema[called.kind] :
                    /\ f.name = request.field
                    /\ DOMAIN request.declared = DOMAIN f.args
                    /\ \A a \in DOMAIN f.args : DeclaredAs(request.declared[a], f.args[a])
    <2>1. MethodCall(called, request)
        BY <1>2, DirectIsDispatched DEF IInv, CallIsDispatched, Nothing
    <2>2. PICK f \in schema[called.kind] :
            /\ f.name = methods[called.kind][called.method]
            /\ \A a \in DOMAIN f.args : IsTypeRef(f.args[a])
            /\ request.kind = called.kind
            /\ request.field = f.name
            /\ request.declared = [a \in DOMAIN f.args |-> StringifyTypeRef(f.args[a])]
        BY <1>2, <2>1, MethodIsDispatched
    <2>3. \A a \in DOMAIN f.args : DeclaredAs(request.declared[a], f.args[a])
        BY <2>2, StringifyTypeRefReads
    <2> QED
        BY <2>1, <2>2, <2>3
<1>3. ASSUME answer # Nothing
      PROVE  answer = IF ByMethod /\ data.outcome = "object" /\ DOMAIN data.fields # {}
                      THEN FieldValue(data.fields[methods[called.kind][called.method]])
                      ELSE data
    <2>1. data \in Answers /\ Sent(request) /\ answer = Unwrap(request, data)
        BY <1>3 DEF IInv, CallIsDispatched
    <2>2. CASE request.outcome = "sent"
        <3>1. ByMethod /\ request.field = methods[called.kind][called.method]
            BY <1>2, <2>2, MethodIsDispatched DEF ByMethod
        <3>2. CASE data = NullData
            BY <3>2, <2>1 DEF Unwrap, NullData
        <3>3. CASE data = Object(<< >>)
            BY <3>3, <2>1 DEF Unwrap, Object
        <3>4. CASE \E v \in {"null", "value"} : data = Object([f \in {request.field} |-> v])
            BY <3>1, <3>4, <2>1, <2>2 DEF Unwrap, Object
        <3> QED
            BY <2>1, <2>2, <3>2, <3>3, <3>4 DEF Answers
    <2>3. CASE request.outcome # "sent"
        <3>1. DirectCall(called, request)
            <4>1. request.outcome = "sent_as_given"
                BY <2>1, <2>3 DEF Sent
            <4> QED
                BY <1>0, <4>1
        <3>2. ~ByMethod
            BY <3>1, DirectIsDispatched DEF ByMethod
        <3> QED
            BY <3>2, <2>1, <2>3 DEF Unwrap
    <2> QED
        BY <2>2, <2>3
<1> QED
    BY <1>1, <1>2, <1>3 DEF MethodCallsItsOperation

\* A script can call every field of a loaded spec, whatever names collide.
THEOREM EveryFieldHasItsMethodHolds == Spec => []EveryFieldHasItsMethod
BY Invariance, MethodsFollow, PTL

\* A method sends the field it was defined for, and its script gets what the
\* box holds for that field.
THEOREM MethodCallsItsOperationHolds == Spec => []MethodCallsItsOperation
BY Invariance, MethodFollows, PTL

\* A field is sent with a selection exactly if its type needs one.
THEOREM SelectionFitsTypeHolds == Spec => []SelectionFitsType
BY Invariance, SelectionFollows, PTL

\* A search leaves nothing out that scores better than what it returns.
THEOREM SearchKeepsTheBestHolds == Spec => []SearchKeepsTheBest
BY Invariance, SearchFollows, PTL
=============================================================================
