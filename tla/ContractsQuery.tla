--------------------------- MODULE ContractsQuery ---------------------------
(***************************************************************************)
(* The queries of the GraphQL service.  A client crawls the contracts page *)
(* by page: it follows endCursor for as long as hasNextPage says so, and   *)
(* asks again for a page that could not be answered.  Jobs of the syncer   *)
(* insert and update rows meanwhile.  A request resolves its root fields   *)
(* in goroutines, and marshals the elements of their lists in more of      *)
(* them.                                                                   *)
(*                                                                         *)
(* Rows are never deleted, so a row is its position in the table: its id.  *)
(* An update keeps the columns of the unique index; it may change the      *)
(* hashes, which filters look at too, and it sets updated_at.              *)
(***************************************************************************)
EXTENDS GraphQL, Naturals, Sequences, FiniteSets

CONSTANTS Rows,      \* the columns of each row: those of the filters, proxy, and
                     \* updated, whether updated_at is other than the zero time
          Networks,  \* networks in the options of the service
          Plans,     \* what each kind of client asks for, page by page
          MaxRows    \* bound on the rows of the table

Columns == {"network_id", "address", "block_number", "block_hash", "transaction_hash"}
Key     == {"network_id", "address", "block_number"}   \* the unique index
Roots   == DOMAIN QueryFields

\* Cursors: what clients pass for one, by the kind of text and the id in it.
Cursors == [text : {"", "encoded", "garbage"}, id : Nat]

\* Arguments that are not given are empty sequences.  A client that crawls
\* selects what it needs for it.
ASSUME PlansAssumption ==
  \A p \in DOMAIN Plans :
    /\ Plans[p].roots \subseteq Roots
    /\ Plans[p].after \in Seq(Cursors) /\ Len(Plans[p].after) <= 1
    /\ Plans[p].limit \in Seq(Nat) /\ Len(Plans[p].limit) <= 1
    /\ {"edges", "pageInfo"} \subseteq Plans[p].sel.ContractConnection
    /\ {"hasNextPage", "endCursor"} \subseteq Plans[p].sel.PageInfo
\* No address is the id of a network.
ASSUME AddressAssumption ==
  \A p \in DOMAIN Plans, r \in DOMAIN Rows :
    Rows[r]["address"] \notin Plans[p].filter["network_id"]
ASSUME MaxRowsAssumption == MaxRows \in Nat

VARIABLES table,     \* the rows, in the order of their ids
          plan,      \* the kind of client
          after,     \* the cursor it has reached, in a sequence
          got,       \* ids of the contracts it has received
          seen,      \* rows that there were when the last page was read
          finished,  \* the last page said that there is no next one
          running,   \* a request is being executed
          root,      \* where each root field is
          list,      \* the elements that its resolver returned
          pageInfo,  \* and the PageInfo of the contracts
          ret,       \* the elements that are marshalled
          value,     \* the marshalled root fields
          errors,    \* paths of the errors of the request
          response   \* the last response, in a sequence

client  == <<plan, after, got, finished>>
request == <<running, root, list, pageInfo, ret, value, errors>>
vars    == <<table, client, seen, request, response>>

Row(i)  == Rows[table[i]]
Request == Plans[plan]

----------------------------------------------------------------------------
(* Cursors and pages.                                                      *)

\* The text of an id.
EncodeCursor(id) == [text |-> "encoded", id |-> id]

\* The cursor of no row: the empty text.
NoCursor == [text |-> "", id |-> 0]

\* The empty text decodes to 0, as the zero value of big.Int.
DecodeCursor(c) == IF c.text = "garbage" THEN Null ELSE <<c.id>>

\* The id after which a page starts: an after argument that is not given is 0.
Position(a) == IF a = <<>> THEN 0 ELSE a[1].id

\* The WHERE clause.  An empty list is no filter, and the addresses are
\* compared with the network ids.
Where(filter, row) ==
  \A c \in Columns : filter[c] # {} =>
    row[c] \in (IF c = "address" THEN filter["network_id"] ELSE filter[c])

Limit(p) == IF p.limit = <<>> THEN 10 ELSE p.limit[1]

\* Mutant: the row of the cursor is selected again.
CandidatesWithCursor(start) ==
  {i \in 1..Len(table) : i >= start /\ Where(Request.filter, Row(i))}

\* The rows that a page after id start is taken from.
Candidates(start) == {i \in 1..Len(table) : i > start /\ Where(Request.filter, Row(i))}

\* ORDER BY id LIMIT n, which goqu drops when n is 0.
IsPage(page, candidates, n) ==
  /\ page \subseteq candidates
  /\ \A i \in page, j \in candidates \ page : i < j
  /\ n = 0 => page = candidates
  /\ n > 0 => Cardinality(page) <= n
  /\ n > 0 /\ page # candidates => Cardinality(page) = n

\* Mutant: off by one.
HasNextPageLess(page, n) == Cardinality(page) > n

HasNextPage(page, n) == page # {} /\ Cardinality(page) = n

PageInfoOf(page, n) ==
  IF page = {}
    THEN [hasNextPage |-> FALSE, hasPreviousPage |-> FALSE,
          startCursor |-> NoCursor, endCursor |-> NoCursor]
    ELSE [hasNextPage |-> HasNextPage(page, n), hasPreviousPage |-> FALSE,
          startCursor |-> EncodeCursor(CHOOSE i \in page : \A j \in page : i <= j),
          endCursor   |-> EncodeCursor(CHOOSE i \in page : \A j \in page : j <= i)]

\* Mutant: the path of the network is mistaken.
NetworkAskedWrongPath(sel) == <<"node", "network">> \in GetPreloads(sel)

\* The network of a contract is filled in only if it was asked for.
NetworkAsked(sel) == <<"edges", "node", "network">> \in GetPreloads(sel)

\* The edge of row i.
Edge(i) ==
  [cursor |-> EncodeCursor(i),
   node   |-> [id |-> i,
               network |-> IF NetworkAsked(Request.sel) THEN <<Row(i).network_id>> ELSE Null,
               implementations |-> IF Row(i).proxy THEN <<i>> ELSE Null,
               updatedAt |-> IF Row(i).updated THEN <<i>> ELSE Null]]

\* GetNetworkById finds the network of a row.
Configured(row) == \E n \in Networks : n.networkId = row.network_id

\* resolveNetworks: an argument that is not given admits all.  The names that
\* contain the text asked for, in lower case, stand for it.
NetworkMatches(n, args) ==
  /\ args.networkId # <<>>   => n.networkId = args.networkId[1]
  /\ args.name # <<>>        => n.name \in args.name[1]
  /\ args.symbol # <<>>      => n.symbol \in args.symbol[1]
  /\ args.suspended # <<>>   => n.suspended = args.suspended[1]
  /\ args.maintenance # <<>> => n.maintenance = args.maintenance[1]

----------------------------------------------------------------------------

NoList  == [f \in Roots |-> <<>>]
NoValue == [f \in Roots |-> Null]

Init ==
  /\ table = <<>>
  /\ plan \in DOMAIN Plans /\ after = Request.after
  /\ got = {} /\ seen = 0 /\ finished = FALSE
  /\ running = FALSE /\ root = [f \in Roots |-> "off"]
  /\ list = NoList /\ pageInfo = PageInfoOf({}, 0) /\ ret = NoList
  /\ value = NoValue /\ errors = {} /\ response = <<>>

\* A job stores a contract that has no row yet, with the zero time for updated_at.
Insert(row) ==
  /\ Len(table) < MaxRows
  /\ ~Rows[row].updated
  /\ \A i \in 1..Len(table) : \E c \in Key : Row(i)[c] # Rows[row][c]
  /\ table' = Append(table, row)
  /\ UNCHANGED <<client, seen, request, response>>

\* A job that has found the row of its contract writes it again.
Update(i, row) ==
  /\ Rows[row].updated
  /\ \A c \in Key : Rows[row][c] = Row(i)[c]
  /\ table' = [table EXCEPT ![i] = row]
  /\ UNCHANGED <<client, seen, request, response>>

\* A client starts a crawl, whether or not the one before has ended.
NewCrawl(p) ==
  /\ ~running
  /\ plan' = p /\ after' = Plans[p].after /\ got' = {} /\ finished' = FALSE
  /\ seen' = 0 /\ response' = <<>>
  /\ UNCHANGED <<table, request>>

\* The next page is asked for, or the same one again.
Exec ==
  /\ ~running /\ ~finished
  /\ running' = TRUE
  /\ root' = [f \in Roots |-> IF f \in Request.roots THEN "resolve" ELSE "off"]
  /\ list' = NoList /\ ret' = NoList /\ value' = NoValue
  /\ errors' = {} /\ response' = <<>>
  /\ UNCHANGED <<table, client, seen, pageInfo>>

----------------------------------------------------------------------------
(* The root fields, each in a goroutine of its own.                        *)

\* A root field is null, with an error.
FieldFails(f) ==
  /\ root' = [root EXCEPT ![f] = "done"]
  /\ errors' = errors \cup {<<f>>}
  /\ UNCHANGED <<table, client, seen, running, list, pageInfo, ret, value, response>>

\* An argument of a root field cannot be converted to its type.
ArgumentsFail(f) ==
  /\ root[f] = "resolve"
  /\ FieldFails(f)

\* The query of the contracts, the scan of a row or the iteration fails.
QueryFails ==
  /\ root["contracts"] = "resolve"
  /\ FieldFails("contracts")

\* resolveContracts.  An after argument that cannot be decoded is an error,
\* and a network that the options do not know a panic that becomes one.
ResolveContracts ==
  /\ root["contracts"] = "resolve"
  /\ \/ after # <<>> /\ DecodeCursor(after[1]) = Null /\ FieldFails("contracts")
     \/ /\ after # <<>> => DecodeCursor(after[1]) # Null
        /\ \E page \in SUBSET Candidates(Position(after)) :
             /\ IsPage(page, Candidates(Position(after)), Limit(Request))
             /\ IF NetworkAsked(Request.sel) /\ \E i \in page : ~Configured(Row(i))
                  THEN FieldFails("contracts")
                  ELSE /\ root' = [root EXCEPT !["contracts"] = "marshal"]
                       /\ list' = [list EXCEPT !["contracts"] = [i \in page |-> Edge(i)]]
                       /\ pageInfo' = PageInfoOf(page, Limit(Request))
                       /\ seen' = Len(table)
                       /\ UNCHANGED <<table, client, running, ret, value, errors, response>>

ResolveNetworks ==
  /\ root["networks"] = "resolve"
  /\ root' = [root EXCEPT !["networks"] = "marshal"]
  /\ list' = [list EXCEPT !["networks"] =
       [n \in {m \in Networks : NetworkMatches(m, Request.networks)} |-> n.networkId]]
  /\ UNCHANGED <<table, client, seen, running, pageInfo, ret, value, errors, response>>

----------------------------------------------------------------------------
(* Marshalling.                                                            *)

\* Mutant: the value of the only element of a list is lost.
MarshalElementLost(f, i) ==
  LET v == IF f = "contracts" THEN _ContractEdge(Request.sel, list[f][i])
                              ELSE _Network(Request.sel, list[f][i])
  IN  /\ i \in DOMAIN list[f] \ DOMAIN ret[f]
      /\ ret' = IF Cardinality(DOMAIN list[f]) = 1 THEN ret
                ELSE [ret EXCEPT ![f] = [j \in DOMAIN @ \cup {i} |-> IF j = i THEN v ELSE @[j]]]
      /\ errors' = IF v = Null THEN errors \cup {<<f, i>>} ELSE errors
      /\ UNCHANGED <<table, client, seen, running, root, list, pageInfo, value, response>>

\* The goroutine of element i of the list of field f.
MarshalElement(f, i) ==
  LET v == IF f = "contracts" THEN _ContractEdge(Request.sel, list[f][i])
                              ELSE _Network(Request.sel, list[f][i])
  IN  /\ i \in DOMAIN list[f] \ DOMAIN ret[f]
      /\ ret' = [ret EXCEPT ![f] = [j \in DOMAIN @ \cup {i} |-> IF j = i THEN v ELSE @[j]]]
      /\ errors' = IF v = Null THEN errors \cup {<<f, i>>} ELSE errors
      /\ UNCHANGED <<table, client, seen, running, root, list, pageInfo, value, response>>

\* The goroutine of a root field has waited for those of its elements.
MarshalRoot(f) ==
  /\ root[f] = "marshal" /\ DOMAIN ret[f] = DOMAIN list[f]
  /\ root' = [root EXCEPT ![f] = "done"]
  /\ value' = [value EXCEPT ![f] =
       IF f = "contracts" THEN _ContractConnection(Request.sel, MarshalList(ret[f]), pageInfo)
                          ELSE MarshalList(ret[f])]
  /\ UNCHANGED <<table, client, seen, running, list, pageInfo, ret, errors, response>>

\* Mutant: the response does not wait for the goroutines of the root fields.
RespondEarly ==
  LET data == _Query([f \in Request.roots |-> value[f]])
  IN  /\ running
      /\ running' = FALSE
      /\ root' = [f \in Roots |-> "off"]
      /\ list' = NoList /\ ret' = NoList /\ value' = NoValue /\ errors' = {}
      /\ response' = <<[data |-> data, errors |-> errors]>>
      /\ UNCHANGED <<table, client, seen, pageInfo>>

\* Dispatch has waited for the root fields, and the response goes out.  The
\* client takes over the page that it brings.
Respond ==
  LET data == _Query([f \in Request.roots |-> value[f]])
  IN  /\ running /\ \A f \in Roots : root[f] \in {"off", "done"}
      /\ running' = FALSE
      /\ root' = [f \in Roots |-> "off"]
      /\ list' = NoList /\ ret' = NoList /\ value' = NoValue /\ errors' = {}
      /\ response' = <<[data |-> data, errors |-> errors]>>
      /\ IF data # Null /\ "contracts" \in Request.roots
           THEN LET page == data[1]["contracts"][1]
                    info == page.pageInfo[1]
                IN  /\ got' = got \cup DOMAIN page.edges[1]
                    /\ finished' = ~info.hasNextPage[1]
                    /\ after' = IF info.hasNextPage[1] THEN <<info.endCursor[1]>> ELSE after
           ELSE finished' = (data # Null) /\ UNCHANGED <<got, after>>
      /\ UNCHANGED <<table, plan, seen, pageInfo>>

----------------------------------------------------------------------------

\* A step of the request that is being executed.
RequestStep ==
  \/ \E f \in Roots : ArgumentsFail(f) \/ MarshalRoot(f)
  \/ QueryFails \/ ResolveContracts \/ ResolveNetworks
  \/ \E f \in Roots : \E i \in DOMAIN list[f] : MarshalElement(f, i)
  \/ Respond

Next ==
  \/ \E row \in DOMAIN Rows : Insert(row)
  \/ \E i \in 1..Len(table), row \in DOMAIN Rows : Update(i, row)
  \/ \E p \in DOMAIN Plans : NewCrawl(p)
  \/ Exec
  \/ RequestStep

Spec == Init /\ [][Next]_vars

\* Goroutines run.  Nobody has to write rows or to crawl on.
FairSpec == Spec /\ WF_vars(RequestStep)

----------------------------------------------------------------------------
(* Properties.                                                             *)

TypeOK ==
  /\ table \in Seq(DOMAIN Rows) /\ plan \in DOMAIN Plans
  /\ after \in Seq(Cursors) /\ Len(after) <= 1
  /\ got \subseteq 1..Len(table) /\ seen \in 0..Len(table)
  /\ finished \in BOOLEAN /\ running \in BOOLEAN
  /\ root \in [Roots -> {"off", "resolve", "marshal", "done"}]
  /\ \A f \in Roots : DOMAIN ret[f] \subseteq DOMAIN list[f]
  /\ Len(response) <= 1

\* What the filters of the schema mean, for the columns that stay: the row has
\* one of the given values in every column of the key that is filtered.
Satisfies(filter, row) == \A c \in Key : filter[c] # {} => row[c] \in filter[c]

\* A crawl only brings contracts that satisfy all its filters on key columns,
\* and those after the cursor it began with; and a page that is on its way
\* brings only contracts that the crawl has not brought before.
CrawlSound ==
  /\ \A i \in got : Satisfies(Request.filter, Row(i)) /\ i > Position(Request.after)
  /\ \A i \in DOMAIN list["contracts"] : i \notin got

\* The crawls that CrawlComplete is about: addresses are compared with network
\* ids, and a row whose hash is updated may get behind the cursor.
FilteredByBlock(p) == \A c \in {"address", "block_hash", "transaction_hash"} : p.filter[c] = {}

\* No contract is missed on the way: up to its cursor, and when hasNextPage has
\* ended it up to what the table held when the last page was read, a crawl
\* (unless it filters addresses or hashes) has brought every row that satisfies
\* its filters, whatever was inserted or updated between two pages.
CrawlComplete ==
  FilteredByBlock(Request) /\ "contracts" \in Request.roots =>
    \A i \in (Position(Request.after) + 1)..(IF finished THEN seen ELSE Position(after)) :
      Satisfies(Request.filter, Row(i)) => i \in got

\* A response has data or errors and never both, and the failure of one root
\* field takes the other one with it; a required field is null nowhere.
ResponseExplained ==
  \A k \in 1..Len(response) :
    LET r == response[k]
    IN  /\ r.data = Null <=> r.errors # {}
        /\ \A d \in 1..Len(r.data) : \A f \in Request.roots :
             /\ r.data[d][f] # Null
             /\ f = "contracts" => r.data[d][f][1].edges # Null

\* Whatever a request selects its resolvers have filled in, with one exception:
\* an error comes from a resolver, or from the zero updatedAt of a row that was
\* inserted and never updated, and then only if the request selects updatedAt.
OnlyUpdatedAtFails ==
  /\ \A e \in errors : Len(e) = 2 =>
       /\ e[1] = "contracts" /\ "updatedAt" \in Request.sel.Contract
       /\ list["contracts"][e[2]].node.updatedAt = Null
  /\ \A k \in 1..Len(response) : \A e \in response[k].errors :
       Len(e) = 2 => e[1] = "contracts" /\ "updatedAt" \in Request.sel.Contract

\* Every request is answered: each goroutine that is waited for ends.
RequestsAnswered == running ~> ~running
=============================================================================
