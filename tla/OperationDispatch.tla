-------------------------- MODULE OperationDispatch --------------------------
(* How a script reaches a GraphQL field: the methods that the prelude of an  *)
(* execute defines (buildUnraidPrelude), the request each causes and what    *)
(* becomes of its answer (sandbox/dispatch.ts), and what the helpers of a    *)
(* search script return (sandbox/search-executor.ts). A process serves one   *)
(* schema, or none; each invocation of a tool starts afresh.                 *)
EXTENDS OperationIndex

CONSTANTS
    Schemas,    \* schemas a box may have
    ArgChoices, \* sets of argument names a script may pass
    NotAnObject, \* args that hold no names: a string or a number
    HitSets,    \* places where the text of a search may occur in an operation
    Limits      \* limits a search may ask for

ASSUME SchemasAssumption == \A s \in Schemas : IsSchema(s)
ASSUME SearchAssumption == HitSets \subseteq SUBSET Places /\ Limits \subseteq Int

VARIABLES
    schema,  \* of the box, fixed
    phase,   \* "loading", "idle", "script" while a tool runs one, "sent" while
             \* the box has a request, "told" when the script has an answer
    index,   \* spec.operations
    hasSpec, \* the process found a spec to serve
    hasCreds, \* tenant.local is there
    methods, \* per kind, the methods of unraid.local and the names they pass on
    called,  \* the method a script called, and with what
    request, \* what the dispatcher made of it
    data,    \* what the box answered
    answer,  \* what the script was given
    asked,   \* the helper a search script called
    found    \* what it returned

server == <<schema, index, hasSpec>>
script == <<hasCreds, methods>>
call == <<called, request, data, answer>>
search == <<asked, found>>
vars == <<phase, server, script, call, search>>

Nothing == [outcome |-> "nothing"]
NoMethods == [k \in Kinds |-> << >>]

Init ==
    /\ schema \in Schemas
    /\ phase = "loading"
    /\ index = << >> /\ hasSpec = FALSE
    /\ hasCreds = FALSE /\ methods = NoMethods
    /\ called = Nothing /\ request = Nothing /\ data = Nothing /\ answer = Nothing
    /\ asked = Nothing /\ found = << >>

LoadSpec ==
    /\ phase = "loading"
    /\ phase' = "idle"
    /\ index' = BuildOperationIndex(schema)
    /\ hasSpec' = TRUE
    /\ UNCHANGED <<schema, script, call, search>>

\* Neither the box nor the bundled schema could be read.
StartWithoutSpec ==
    /\ phase = "loading"
    /\ phase' = "idle"
    /\ UNCHANGED <<server, script, call, search>>

-----------------------------------------------------------------------------
\* The prelude

\* base_<i>. A numeral is as many tallies as it says.
Suffixed(base, i) == base \o <<"_">> \o [n \in 1 .. i |-> "1"]

\* Mutated form: sanitised names are taken to be distinct.
AsItIs(base, used) == base

UniqueIdentifier(base, used) ==
    IF base \notin used THEN base
    ELSE Suffixed(base, Min({i \in 2 .. Cardinality(used) + 2 : Suffixed(base, i) \notin used}))

\* ns.<kind>.<jsName> = __wrapOp(name, kind)
DefineMethod(defined, op) ==
    LET jsName == UniqueIdentifier(op.jsName, DOMAIN defined)
    IN  [m \in DOMAIN defined \cup {jsName} |-> IF m = jsName THEN op.name ELSE defined[m]]

\* Defined[n] are the methods after the first n operations of ops.
MethodsOf(ops, kind) ==
    LET Defined[n \in 0 .. Len(ops)] ==
            IF n = 0 THEN << >>
            ELSE IF ops[n].kind = kind THEN DefineMethod(Defined[n - 1], ops[n])
            ELSE Defined[n - 1]
    IN  Defined[Len(ops)]

BuildPrelude(creds) ==
    /\ phase = "idle"
    /\ phase' = "script"
    /\ hasCreds' = creds
    /\ methods' = [k \in Kinds |-> MethodsOf(index, k)]
    /\ UNCHANGED <<server, call, search>>

-----------------------------------------------------------------------------
\* dispatchOperation

\* What a script may pass as fields: nothing or a value of another type, a
\* blank or another string, an array with no members, with blank ones, or with
\* others. Blank members count as a selection.
FieldChoices == {"absent", "blank", "text", "empty_array", "blank_array", "array"}
Selects(fields) == fields \in {"text", "blank_array", "array"}

IsLeaf(op) == UnwrapToNamed(op.returnType) \in {"SCALAR", "ENUM"}

\* The argument names for which variables are sent.
BuildVariables(op, args) == DOMAIN op.args \cap args

\* `name in args` throws for what is not an object, if there is a name to look for.
ArgsFit(op, args) == args # NotAnObject \/ DOMAIN op.args = {}

Failed(outcome) == [outcome |-> outcome]

\* The document declares a variable for each argument, of its type, and
\* applies it; a leaf has no selection.
Dispatch(name, kind, args, fields) ==
    LET op == GetOperation(index, name, kind)
    IN  IF ~hasCreds THEN Failed("missing_credentials")
        ELSE IF op = NoOperation THEN Failed("unknown_operation")
        ELSE IF ~IsLeaf(op) /\ ~Selects(fields) THEN Failed("selection_required")
        ELSE IF ~ArgsFit(op, args) THEN Failed("bad_args")
        ELSE [outcome |-> "sent", kind |-> op.kind, field |-> op.name,
              declared |-> [a \in DOMAIN op.args |-> StringifyTypeRef(op.args[a])],
              variables |-> BuildVariables(op, args),
              selection |-> ~IsLeaf(op)]

\* graphql() and request() send what they are given, once it has the string
\* that each needs.
DispatchDirect(wellFormed) ==
    IF ~hasSpec THEN Failed("not_configured")
    ELSE IF ~hasCreds THEN Failed("missing_credentials")
    ELSE IF ~wellFormed THEN Failed("bad_payload")
    ELSE [outcome |-> "sent_as_given"]

Sent(r) == r.outcome \in {"sent", "sent_as_given"}

\* A request that cannot be made rejects the script's promise.
Issue(c, r) ==
    /\ phase = "script"
    /\ phase' = IF Sent(r) THEN "sent" ELSE "told"
    /\ called' = c
    /\ request' = r
    /\ UNCHANGED <<server, script, data, answer, search>>

CallMethod(kind, method, args, fields) ==
    /\ method \in DOMAIN methods[kind]
    /\ Issue([kind |-> kind, method |-> method, args |-> args, fields |-> fields],
             Dispatch(methods[kind][method], kind, args, fields))

CallDirect(helper, wellFormed) ==
    Issue([helper |-> helper], DispatchDirect(wellFormed))

\* The data of an answer without errors: null, or values of fields.
NullData == [outcome |-> "null"]
Object(fields) == [outcome |-> "object", fields |-> fields]
FieldValue(value) == [outcome |-> "field", value |-> value]

Answers ==
    {NullData, Object(<< >>)} \cup
    (IF request.outcome = "sent" THEN {Object([f \in {request.field} |-> v]) : v \in {"null", "value"}} ELSE {})

\* Mutated form: a null field is taken for a missing one.
UnwrapUnlessNull(r, d) ==
    IF r.outcome = "sent" /\ d.outcome = "object" /\ r.field \in DOMAIN d.fields
       /\ d.fields[r.field] # "null"
    THEN FieldValue(d.fields[r.field]) ELSE d

Unwrap(r, d) ==
    IF r.outcome = "sent" /\ d.outcome = "object" /\ r.field \in DOMAIN d.fields
    THEN FieldValue(d.fields[r.field]) ELSE d

BoxAnswers(d) ==
    /\ phase = "sent"
    /\ phase' = "told"
    /\ data' = d
    /\ answer' = Unwrap(request, d)
    /\ UNCHANGED <<server, script, called, request, search>>

-----------------------------------------------------------------------------
\* A search script. Without a spec the index is empty and its helpers find
\* nothing.

Asked(question, result) ==
    /\ phase = "idle"
    /\ phase' = "told"
    /\ asked' = question
    /\ found' = result
    /\ UNCHANGED <<server, script, call>>

Search(hits, limit) ==
    Asked([helper |-> "searchOperations", hits |-> hits, limit |-> limit],
          SearchOperations(index, hits, limit))

\* The empty text: the index as it is.
SearchAll(limit) ==
    Asked([helper |-> "searchOperations('')", limit |-> limit],
          Slice([i \in DOMAIN index |-> i], limit))

FindByName(hits) ==
    Asked([helper |-> "findOperationsByName", hits |-> hits],
          FindOperationsByName(index, hits))

\* getOperation(name, kind): the helper takes its first argument only.
LookUp(name, kind) ==
    Asked([helper |-> "getOperation", name |-> name, kind |-> kind],
          <<GetOperation(index, name, "any")>>)

-----------------------------------------------------------------------------
\* The tool returns; the next invocation has a context of its own.
EndInvocation ==
    /\ phase = "told"
    /\ phase' = "idle"
    /\ hasCreds' = FALSE /\ methods' = NoMethods
    /\ called' = Nothing /\ request' = Nothing /\ data' = Nothing /\ answer' = Nothing
    /\ asked' = Nothing /\ found' = << >>
    /\ UNCHANGED server

Next ==
    \/ LoadSpec
    \/ StartWithoutSpec
    \/ \E creds \in BOOLEAN : BuildPrelude(creds)
    \/ \E k \in Kinds, args \in ArgChoices \cup {NotAnObject}, fields \in FieldChoices :
        \E m \in DOMAIN methods[k] : CallMethod(k, m, args, fields)
    \/ \E helper \in {"graphql", "request"}, wellFormed \in BOOLEAN : CallDirect(helper, wellFormed)
    \/ \E d \in Answers : BoxAnswers(d)
    \/ \E limit \in Limits : \E hits \in [DOMAIN index -> HitSets] : Search(hits, limit)
    \/ \E limit \in Limits : SearchAll(limit)
    \/ \E hits \in [DOMAIN index -> HitSets] : FindByName(hits)
    \/ \E name \in DOMAIN NameRank, k \in Kinds : LookUp(name, k)
    \/ EndInvocation

Spec == Init /\ [][Next]_vars

-----------------------------------------------------------------------------
\* A script can call every query and every mutation of a loaded spec by a
\* method of its own, whatever names collide once they are sanitised.
EveryFieldHasItsMethod ==
    phase = "script" /\ hasSpec => \A k \in Kinds :
        /\ {methods[k][m] : m \in DOMAIN methods[k]} = {f.name : f \in schema[k]}
        /\ Cardinality(DOMAIN methods[k]) = Cardinality(schema[k])

ByMethod == called # Nothing /\ "method" \in DOMAIN called

\* How the text of a type of a kind ends.
Ending(kind) ==
    CASE kind = "NON_NULL" -> "!"
      [] kind = "LIST"     -> "]"
      [] OTHER             -> kind

\* A text such as [ String ! ] ! is read from its end: first what its wrappers
\* are, outermost first, then the name, then a bracket for each list.
DeclaredAs(text, type) ==
    LET brackets == Len(text) - Len(type)
    IN  /\ \A i \in DOMAIN type : text[Len(text) + 1 - i] = Ending(type[i])
        /\ brackets = Cardinality({i \in DOMAIN type : type[i] = "LIST"})
        /\ \A i \in 1 .. brackets : text[i] = "["

\* A method sends the field it was defined for under the kind it was called
\* by, although a query and a mutation may share a name, declares a variable
\* of the right type for each of its arguments, and its script gets
\* what the box holds for that field, null included; it never fails to find
\* its operation, and what graphql() and request() are answered is left whole.
MethodCallsItsOperation ==
    /\ request.outcome # "unknown_operation"
    /\ request.outcome = "sent" =>
        /\ request.kind = called.kind
        /\ request.field = methods[called.kind][called.method]
        /\ \E f \in schema[called.kind] :
            /\ f.name = request.field
            /\ DOMAIN request.declared = DOMAIN f.args
            /\ \A a \in DOMAIN f.args : DeclaredAs(request.declared[a], f.args[a])
    /\ answer # Nothing =>
        answer = IF ByMethod /\ data.outcome = "object" /\ DOMAIN data.fields # {}
                 THEN FieldValue(data.fields[methods[called.kind][called.method]])
                 ELSE data

\* However its type is wrapped, a field of object type is sent exactly if the
\* script selects something, with a selection; one of scalar type always is,
\* without one. (An array of blank strings passes for a selection.)
SelectionFitsType ==
    ByMethod /\ request.outcome \notin {"missing_credentials", "bad_args"} =>
        \E f \in schema[called.kind] :
            /\ f.name = methods[called.kind][called.method]
            /\ LET leaf == \E i \in DOMAIN f.type : f.type[i] \in {"SCALAR", "ENUM"}
               IN  IF leaf THEN request.outcome = "sent" /\ ~request.selection
                   ELSE IF called.fields \in {"absent", "blank", "empty_array"}
                        THEN request.outcome = "selection_required"
                        ELSE request.outcome = "sent" /\ request.selection

\* A search with a limit that is not negative leaves nothing out that scores
\* better than what it returns, and an operation named by the query text comes
\* before all others, whatever else they contain.
SearchKeepsTheBest ==
    asked # Nothing /\ asked.helper = "searchOperations" /\ asked.limit >= 0 =>
        LET returned == ToSet(found)
            hits == asked.hits
        IN  /\ \A i \in returned, j \in DOMAIN index \ returned :
                Score(hits[i]) >= Score(hits[j])
            /\ Len(found) = Min({asked.limit, Cardinality({i \in DOMAIN index : hits[i] # {}})})
            /\ \A i, j \in DOMAIN found :
                "exact" \in hits[found[i]] /\ "exact" \notin hits[found[j]] => i < j

\* examples/unraid-expert-agent/SAMPLE_PROMPTS.md:122 has a search script that
\* "calls `getOperation(name, 'mutation')`", and spec/index.ts:24-25 says that
\* "it can pass `kind` to disambiguate": an operation that the index lists would
\* be found by its name and kind.
LookUpHonoursKind ==
    asked # Nothing /\ asked.helper = "getOperation" =>
        \A i \in DOMAIN index :
            index[i].name = asked.name /\ index[i].kind = asked.kind => found = <<index[i]>>
=============================================================================
