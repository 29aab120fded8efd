--------------------------- MODULE OperationIndex ---------------------------
(* From a GraphQL schema to the indexed operations and back:                 *)
(* spec/index-builder.ts and spec/index.ts.                                  *)
(*                                                                           *)
(* A name is a sequence of pieces, so that two names made in different ways  *)
(* can be the same. A type is the sequence of its kinds, outermost first:    *)
(* wrappers and then the kind of the named type.                             *)
EXTENDS Integers, Sequences, SequencesExt, FiniteSets, FiniteSetsExt

CONSTANTS
    ReservedWords, \* RESERVED_WORDS, as names
    NameRank       \* the place of each field name in the order of localeCompare

\* A name is in that order at one place, which no other name has.
ASSUME NameRankAssumption ==
    \A n \in DOMAIN NameRank :
        /\ n \in Seq(STRING)
        /\ NameRank[n] \in Nat
        /\ \A o \in DOMAIN NameRank : NameRank[n] = NameRank[o] => n = o

Kinds == {"query", "mutation"}

TypeKinds == {"SCALAR", "OBJECT", "INTERFACE", "UNION", "ENUM", "INPUT_OBJECT", "LIST", "NON_NULL"}

IsWrapper(kind) == kind \in {"NON_NULL", "LIST"}

\* A named type under its wrappers.
IsTypeRef(type) ==
    /\ type \in Seq(TypeKinds)
    /\ type # << >>
    /\ \A i \in DOMAIN type : IsWrapper(type[i]) <=> i # Len(type)

\* The fields of the Query and of the Mutation type, with distinct names:
\* [name, args, type], args a function from names to types.
IsSchema(schema) ==
    \A k \in Kinds :
        /\ IsFiniteSet(schema[k])
        /\ \A f \in schema[k] :
            /\ f.name \in DOMAIN NameRank
            /\ \A g \in schema[k] : f.name = g.name => f = g
            /\ IsTypeRef(f.type)
            /\ \A a \in DOMAIN f.args : IsTypeRef(f.args[a])

\* Array.prototype.sort of what S holds, no two of which are equal in the order:
\* the n-th has n - 1 others before it.
Sorted(S, before(_, _)) ==
    [n \in 1 .. Cardinality(S) |->
        CHOOSE x \in S : Cardinality({y \in S : before(y, x)}) = n - 1]

-----------------------------------------------------------------------------
\* GraphQL names hold nothing else that JavaScript would refuse.
SanitizeIdentifier(name) ==
    IF name \in ReservedWords THEN name \o <<"_">> ELSE name

\* Mutated form: the outermost kind is taken for the named one.
OutermostKind(type) == type[1]

UnwrapToNamed(type) == type[SelectInSeq(type, LAMBDA kind : ~IsWrapper(kind))]

BuildOperation(kind, field) ==
    [kind |-> kind, name |-> field.name, jsName |-> SanitizeIdentifier(field.name),
     args |-> field.args, returnType |-> field.type]

\* "mutation" sorts before "query".
Before(a, b) ==
    \/ a.kind = "mutation" /\ b.kind = "query"
    \/ a.kind = b.kind /\ NameRank[a.name] < NameRank[b.name]

BuildOperationIndex(schema) ==
    Sorted(UNION {{BuildOperation(k, f) : f \in schema[k]} : k \in Kinds}, Before)

\* "[String!]!" as the pieces [ String ! ] !, a named type being its kind:
\* Text[i] is the text of what is left of a type without its first i - 1 kinds.
StringifyTypeRef(type) ==
    LET Text[i \in DOMAIN type] ==
            CASE type[i] = "NON_NULL" -> Text[i + 1] \o <<"!">>
              [] type[i] = "LIST"     -> <<"[">> \o Text[i + 1] \o <<"]">>
              [] OTHER                -> <<type[i]>>
    IN  Text[1]

-----------------------------------------------------------------------------
NoOperation == [kind |-> "none"]

\* Mutated form: the kind is not looked at.
FirstOfName(ops, name, kind) ==
    LET first == SelectInSeq(ops, LAMBDA op : op.name = name)
    IN  IF first = 0 THEN NoOperation ELSE ops[first]

\* kind is "any" if the caller gives none.
GetOperation(ops, name, kind) ==
    LET first == SelectInSeq(ops, LAMBDA op : op.name = name /\ kind \in {op.kind, "any"})
    IN  IF first = 0 THEN NoOperation ELSE ops[first]

\* Array.prototype.slice(0, limit): a negative limit counts from the end.
Slice(s, limit) ==
    SubSeq(s, 1, IF limit < 0 THEN Max({0, Len(s) + limit}) ELSE Min({limit, Len(s)}))

\* Where the query text of a search occurs in an operation: "exact" if it is
\* the name, "name" if it is within it.
Places == {"exact", "name", "description", "args", "type", "tags"}

Points(places, place, points) == IF place \in places THEN points ELSE 0

Score(places) ==
    (IF "exact" \in places THEN 100 ELSE Points(places, "name", 30))
        + Points(places, "description", 10) + Points(places, "args", 8)
        + Points(places, "tags", 5) + Points(places, "type", 6)

\* The order of positions in a result; equal scores keep the order of ops.
Better(hits, i, j) ==
    \/ Score(hits[i]) > Score(hits[j])
    \/ Score(hits[i]) = Score(hits[j]) /\ i < j

Matching(ops, hits) == {i \in DOMAIN ops : Score(hits[i]) > 0}

\* The operations whose name contains a text, in the order of ops.
FindOperationsByName(ops, hits) ==
    SelectSeq([i \in DOMAIN ops |-> i], LAMBDA i : hits[i] \cap {"exact", "name"} # {})

\* Mutated form: the list is cut before it is sorted.
CutThenSort(ops, hits, limit) ==
    Sorted(ToSet(Slice(Sorted(Matching(ops, hits), <), limit)),
           LAMBDA i, j : Better(hits, i, j))

\* The positions in ops that a search with a text returns, where hits has the
\* places of each.
SearchOperations(ops, hits, limit) ==
    Slice(Sorted(Matching(ops, hits), LAMBDA i, j : Better(hits, i, j)), limit)
=============================================================================
