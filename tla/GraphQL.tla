------------------------------ MODULE GraphQL ------------------------------
(***************************************************************************)
(* The executor that gqlgen generated from the GraphQL schema: which       *)
(* fields every type has, which of them must not be null, and how an       *)
(* object or a list becomes null when a part of it must not be.            *)
(*                                                                         *)
(* A marshalled value is a sequence: <<v>>, or Null for graphql.Null.  The *)
(* selection sel of a request gives the selected fields of every type.     *)
(* Introspection and @defer (nothing generated here defers) are left out.  *)
(***************************************************************************)

Null == <<>>

----------------------------------------------------------------------------
(* The fields: the generated function of a "required" field reports an     *)
(* error for nil ("must not be null"), that of an "optional" one does not. *)

ChainFields ==
  [network |-> "required", address |-> "required", name |-> "required",
   blockNumber |-> "required", blockHash |-> "required", transactionHash |-> "required"]

SourceFields ==
  [standards |-> "optional", license |-> "optional", optimized |-> "required",
   optimizationRuns |-> "required", proxy |-> "required", implementations |-> "optional",
   abi |-> "optional", executionBytecode |-> "optional", bytecode |-> "optional",
   evmVersion |-> "optional"]

VerificationFields ==
  [verified |-> "required", sourceAvailable |-> "required", sourcesProvider |-> "optional",
   verificationProvider |-> "optional", selfDestructed |-> "required",
   compilerVersion |-> "optional", solgoVersion |-> "optional"]

ProgressFields ==
  [currentState |-> "required", nextState |-> "required", completedStates |-> "required",
   failedStates |-> "required", completed |-> "required", partial |-> "required",
   createdAt |-> "required", updatedAt |-> "required"]

ContractConnectionFields == [edges |-> "required", pageInfo |-> "required"]

ContractEdgeFields == [node |-> "required", cursor |-> "required"]

NetworkFields ==
  [networkId |-> "required", name |-> "required", canonicalName |-> "required",
   symbol |-> "required", website |-> "required", suspended |-> "required",
   maintenance |-> "required"]

PageInfoFields ==
  [hasNextPage |-> "required", hasPreviousPage |-> "required",
   startCursor |-> "required", endCursor |-> "required"]

QueryFields == [networks |-> "required", contracts |-> "required"]

Required(fields) == {f \in DOMAIN fields : fields[f] = "required"}

ContractRequired ==
  Required(ChainFields) \cup Required(SourceFields)
    \cup Required(VerificationFields) \cup Required(ProgressFields)

----------------------------------------------------------------------------
(* The objects and lists.                                                  *)

\* graphql.FieldSet: an object one of whose required fields is null is null.
FieldSet(required, values) ==
  IF \E f \in required \cap DOMAIN values : values[f] = Null THEN Null ELSE <<values>>

\* A list of required elements, once the goroutines of all of them are done.
MarshalList(ret) == IF \E i \in DOMAIN ret : ret[i] = Null THEN Null ELSE <<ret>>

_Network(sel, network) ==
  FieldSet(Required(NetworkFields), [f \in sel.Network |-> <<network>>])

marshalNNetwork(sel, v) == IF v = Null THEN Null ELSE _Network(sel, v[1])

\* MarshalTime gives null for the zero time, and so does a missing network.
_Contract(sel, obj) ==
  FieldSet(ContractRequired,
    [f \in sel.Contract |->
       CASE f = "network"         -> marshalNNetwork(sel, obj.network)
         [] f = "implementations" -> obj.implementations
         [] f = "updatedAt"       -> obj.updatedAt
         [] OTHER                 -> <<obj.id>>])

_ContractEdge(sel, edge) ==
  FieldSet(Required(ContractEdgeFields),
    [f \in sel.ContractEdge |-> IF f = "node" THEN _Contract(sel, edge.node) ELSE <<edge.cursor>>])

_PageInfo(sel, pageInfo) ==
  FieldSet(Required(PageInfoFields), [f \in sel.PageInfo |-> <<pageInfo[f]>>])

\* edges are marshalled by then, in goroutines.
_ContractConnection(sel, edges, pageInfo) ==
  FieldSet(Required(ContractConnectionFields),
    [f \in sel.ContractConnection |-> IF f = "edges" THEN edges ELSE _PageInfo(sel, pageInfo)])

\* values: the root fields that were asked for, resolved in goroutines.
_Query(values) == FieldSet(Required(QueryFields), values)

----------------------------------------------------------------------------

\* GetPreloads: the paths that are selected below the contracts field.
GetPreloads(sel) ==
  {<<f>> : f \in sel.ContractConnection}
    \cup {<<"edges", f>> : f \in sel.ContractEdge}
    \cup {<<"edges", "node", f>> : f \in sel.Contract}
    \cup {<<"edges", "node", "network", f>> : f \in sel.Network}
    \cup {<<"pageInfo", f>> : f \in sel.PageInfo}
=============================================================================
