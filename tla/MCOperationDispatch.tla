------------------------ MODULE MCOperationDispatch ------------------------
(* Schemas made of a query and a mutation that share the name array, of      *)
(* fields whose sanitised names collide, and of leaf and composite types     *)
(* under different wrappers.                                                 *)
EXTENDS OperationDispatch, TLC

Array == <<"array">>
Delete == <<"delete">>
Delete_ == <<"delete", "_">>
Delete__2 == <<"delete", "_", "_", "1", "1">>

MCReservedWords == {Delete}
MCNameRank == Array :> 1 @@ Delete :> 2 @@ Delete_ :> 3 @@ Delete__2 :> 4

Field(name, args, type) == [name |-> name, args |-> args, type |-> type]

NoArgs == << >>
ById == [id |-> <<"NON_NULL", "SCALAR">>]
ByIdsAndLimit == [ids |-> <<"NON_NULL", "LIST", "NON_NULL", "SCALAR">>, limit |-> <<"SCALAR">>]

QueryFields ==
    { Field(Array, NoArgs, <<"NON_NULL", "OBJECT">>),
      Field(Delete, ById, <<"NON_NULL", "LIST", "NON_NULL", "SCALAR">>),
      Field(Delete_, ByIdsAndLimit, <<"LIST", "UNION">>),
      Field(Delete__2, NoArgs, <<"ENUM">>) }
MutationFields ==
    { Field(Array, ById, <<"SCALAR">>),
      Field(Delete, NoArgs, <<"INTERFACE">>) }

MCSchemas == {s \in [query : SUBSET QueryFields, mutation : SUBSET MutationFields] :
                s.query # {} /\ Cardinality(s.query) + Cardinality(s.mutation) <= 5}

MCArgChoices == {{}, {"id"}, {"ids", "limit", "other"}}
MCHitSets == {{}, {"exact"}, {"tags"}, {"name", "description", "args", "type", "tags"}}
MCLimits == {-1, 0, 1, 3, 25}
=============================================================================
