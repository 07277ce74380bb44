----------------------- MODULE ContractsQuery_proofs -----------------------
(***************************************************************************)
(* Proofs of the safety properties of ContractsQuery, for tables, pages    *)
(* and plans of any size.                                                  *)
(***************************************************************************)
EXTENDS ContractsQuery, FiniteSetTheorems, SequenceTheorems, WellFoundedInduction, TLAPS

\* A set of naturals has a least element, and a bounded one a greatest.
LEMMA LeastNatural ==
  ASSUME NEW S \in SUBSET Nat, S # {}
  PROVE  \E x \in S : \A y \in S : x <= y
<1>1. \E x \in S : \A y \in S : ~(<<y, x>> \in OpToRel(<, Nat))
  BY NatLessThanWellFounded, WFMin
<1>2. \A x, y \in Nat : <<y, x>> \in OpToRel(<, Nat) <=> y < x
  BY DEF OpToRel
<1>3. PICK x \in S : \A y \in S : ~(<<y, x>> \in OpToRel(<, Nat))
  BY <1>1
<1>4. \A y \in S : ~(y < x)
  BY <1>2, <1>3
<1> QED
  BY <1>4

LEMMA GreatestNatural ==
  ASSUME NEW n \in Nat, NEW S \in SUBSET (1..n), S # {}
  PROVE  \E x \in S : \A y \in S : y <= x
<1> DEFINE T == {n - y : y \in S}
<1>1. T \in SUBSET Nat /\ T # {}
  <2>1. \A y \in S : n - y \in Nat
    OBVIOUS
  <2>2. PICK z : z \in S
    OBVIOUS
  <2>3. n - z \in T
    BY <2>2
  <2>4. \A d \in T : d \in Nat
    BY <2>1
  <2> QED
    BY <2>3, <2>4
<1>2. PICK d \in T : \A y \in T : d <= y
  BY <1>1, LeastNatural
<1>3. PICK x \in S : d = n - x
  OBVIOUS
<1>4. \A y \in S : n - x <= n - y
  BY <1>2, <1>3
<1> QED
  BY <1>4

\* A sequence of one element.
LEMMA Single == \A x : <<x>> # <<>> /\ <<x>>[1] = x /\ Len(<<x>>) = 1
  OBVIOUS

LEMMA SingleOf ==
  ASSUME NEW S, NEW x \in S
  PROVE  <<x>> \in Seq(S) /\ Len(<<x>>) = 1
  OBVIOUS

\* Paths of errors.
LEMMA Paths ==
  \A f, g, i, j : /\ <<f>> = <<g>> => f = g
                  /\ <<f, i>> = <<g, j>> => f = g /\ i = j
                  /\ <<f>> # <<g, i>>
                  /\ Len(<<f, i>>) = 2 /\ <<f, i>>[1] = f /\ <<f, i>>[2] = i
  OBVIOUS

LEMMA RootsAre == Roots = {"networks", "contracts"}
  BY DEF Roots, QueryFields

----------------------------------------------------------------------------
(* Marshalling.                                                            *)

\* An object is null exactly if one of its selected required fields is.
LEMMA FieldSetFacts ==
  ASSUME NEW required, NEW values
  PROVE  /\ FieldSet(required, values) = Null
              <=> \E f \in required \cap DOMAIN values : values[f] = Null
         /\ FieldSet(required, values) # Null => FieldSet(required, values) = <<values>>
  BY Single DEF FieldSet, Null

\* A list is null exactly if one of its elements is.
LEMMA ListFacts ==
  ASSUME NEW ret_
  PROVE  /\ MarshalList(ret_) = Null <=> \E i \in DOMAIN ret_ : ret_[i] = Null
         /\ MarshalList(ret_) # Null => MarshalList(ret_) = <<ret_>>
  BY Single DEF MarshalList, Null

\* A network is marshalled whatever is selected.
LEMMA NetworkMarshalled == \A sel, network : _Network(sel, network) # Null
<1> SUFFICES ASSUME NEW sel, NEW network PROVE _Network(sel, network) # Null
  OBVIOUS
<1> DEFINE values == [f \in sel.Network |-> <<network>>]
<1>1. \A f \in DOMAIN values : values[f] # Null
  BY Single DEF Null
<1> HIDE DEF values
<1>2. FieldSet(Required(NetworkFields), values) # Null
  BY <1>1, FieldSetFacts
<1> QED
  BY <1>2 DEF _Network, values

\* Lists of implementations may be missing.
LEMMA ImplementationsOptional == "implementations" \notin ContractRequired
<1>1. "implementations" \notin Required(ChainFields)
  BY DEF Required, ChainFields
<1>2. "implementations" \notin Required(SourceFields)
  BY DEF Required, SourceFields
<1>3. "implementations" \notin Required(VerificationFields)
  BY DEF Required, VerificationFields
<1>4. "implementations" \notin Required(ProgressFields)
  BY DEF Required, ProgressFields
<1> QED
  BY <1>1, <1>2, <1>3, <1>4 DEF ContractRequired

\* The resolver fills in the network of a contract that is marshalled with it.
LEMMA SelectedNetworkAsked ==
  ASSUME NEW sel, "network" \in sel.Contract
  PROVE  NetworkAsked(sel)
<1>1. <<"edges", "node", "network">> \in {<<"edges", "node", f>> : f \in sel.Contract}
  OBVIOUS
<1> QED
  BY <1>1 DEF NetworkAsked, GetPreloads

\* Hence an edge that has its network can only fail for its updatedAt.
LEMMA EdgeMarshalled ==
  ASSUME NEW sel, NEW edge, "network" \in sel.Contract => edge.node.network # Null,
         _ContractEdge(sel, edge) = Null
  PROVE  "updatedAt" \in sel.Contract /\ edge.node.updatedAt = Null
<1> DEFINE obj == edge.node
           values == [f \in sel.Contract |->
                        CASE f = "network"         -> marshalNNetwork(sel, obj.network)
                          [] f = "implementations" -> obj.implementations
                          [] f = "updatedAt"       -> obj.updatedAt
                          [] OTHER                 -> <<obj.id>>]
           fields == [f \in sel.ContractEdge |->
                        IF f = "node" THEN _Contract(sel, obj) ELSE <<edge.cursor>>]
<1>1. _Contract(sel, obj) = Null
  <2>1. FieldSet(Required(ContractEdgeFields), fields) = Null
    BY DEF _ContractEdge
  <2>2. \A f \in DOMAIN fields : f # "node" => fields[f] # Null
    BY Single DEF Null
  <2>3. "node" \in DOMAIN fields => fields["node"] = _Contract(sel, obj)
    OBVIOUS
  <2> HIDE DEF fields
  <2> QED
    BY <2>1, <2>2, <2>3, FieldSetFacts
<1>2. PICK f \in ContractRequired \cap sel.Contract : values[f] = Null
  <2>1. FieldSet(ContractRequired, values) = Null
    BY <1>1 DEF _Contract
  <2>2. DOMAIN values = sel.Contract
    OBVIOUS
  <2> HIDE DEF values
  <2> QED
    BY <2>1, <2>2, FieldSetFacts
<1>3. f # "implementations"
  BY <1>2, ImplementationsOptional
<1>4. f # "network"
  <2> SUFFICES ASSUME f = "network" PROVE FALSE
    OBVIOUS
  <2>1. marshalNNetwork(sel, obj.network) # Null
    BY <1>2, NetworkMarshalled DEF marshalNNetwork
  <2> QED
    BY <1>2, <2>1
<1>5. f = "updatedAt"
  BY <1>2, <1>3, <1>4, Single DEF Null
<1> QED
  BY <1>2, <1>5

\* What the client reads from a page is what the resolver returned.
LEMMA ConnectionFacts ==
  ASSUME NEW sel, {"edges", "pageInfo"} \subseteq sel.ContractConnection,
         {"hasNextPage", "endCursor"} \subseteq sel.PageInfo,
         NEW edges, edges # Null, NEW info, NEW v, v = _ContractConnection(sel, edges, info)
  PROVE  /\ v # Null /\ v[1].edges = edges
         /\ v[1].pageInfo[1].hasNextPage[1] = info.hasNextPage
         /\ v[1].pageInfo[1].endCursor[1] = info.endCursor
<1> DEFINE page == [f \in sel.PageInfo |-> <<info[f]>>]
           values == [f \in sel.ContractConnection |->
                        IF f = "edges" THEN edges ELSE _PageInfo(sel, info)]
<1>1. \A f \in DOMAIN page : page[f] # Null
  BY Single DEF Null
<1>2. _PageInfo(sel, info) = <<page>> /\ _PageInfo(sel, info) # Null
  <2> HIDE DEF page
  <2>1. FieldSet(Required(PageInfoFields), page) # Null
    BY <1>1, FieldSetFacts
  <2> QED
    BY <2>1, FieldSetFacts DEF _PageInfo, page
<1>3. \A f \in DOMAIN values : values[f] # Null
  BY <1>2
<1>4. v = <<values>> /\ v # Null
  <2> HIDE DEF values
  <2>1. FieldSet(Required(ContractConnectionFields), values) # Null
    BY <1>3, FieldSetFacts
  <2> QED
    BY <2>1, FieldSetFacts DEF _ContractConnection, values
<1>5. v[1] = values
  BY <1>4, Single
<1>6. values.edges = edges /\ values.pageInfo = <<page>>
  BY <1>2
<1>7. <<page>>[1] = page
  BY Single
<1>8. page.hasNextPage = <<info.hasNextPage>> /\ page.endCursor = <<info.endCursor>>
  OBVIOUS
<1> HIDE DEF page, values
<1> QED
  BY <1>4, <1>5, <1>6, <1>7, <1>8, Single

\* A list of edges that is null takes its connection with it.
LEMMA ConnectionNull ==
  ASSUME NEW sel, "edges" \in sel.ContractConnection, NEW info
  PROVE  _ContractConnection(sel, Null, info) = Null
<1> DEFINE values == [f \in sel.ContractConnection |->
                        IF f = "edges" THEN Null ELSE _PageInfo(sel, info)]
<1>1. "edges" \in DOMAIN values /\ values["edges"] = Null
  OBVIOUS
<1>2. "edges" \in Required(ContractConnectionFields)
  BY DEF Required, ContractConnectionFields
<1> HIDE DEF values
<1>3. FieldSet(Required(ContractConnectionFields), values) = Null
  BY <1>1, <1>2, FieldSetFacts
<1> QED
  BY <1>3 DEF _ContractConnection, values

----------------------------------------------------------------------------
(* Pages.                                                                  *)

\* What a page and its PageInfo say about the rows it was taken from, and if
\* whole, about those that it was not.
PageFacts(whole, page, candidates, info) ==
  /\ page \subseteq candidates
  /\ info.endCursor \in Cursors
  /\ info.hasNextPage =>
       /\ info.endCursor.id \in page
       /\ \A i \in page : i <= info.endCursor.id
  /\ info.hasNextPage \in BOOLEAN
  /\ whole => /\ \A i \in page, j \in candidates \ page : i < j
              /\ ~info.hasNextPage => page = candidates

\* hasNextPage is false only for a page that left nothing, and the end cursor is
\* that of its last row.
LEMMA PageCorrect ==
  ASSUME NEW k \in Nat, NEW candidates \in SUBSET (1..k), NEW n \in Nat,
         NEW page, IsPage(page, candidates, n)
  PROVE  PageFacts(TRUE, page, candidates, PageInfoOf(page, n))
<1> DEFINE info == PageInfoOf(page, n)
<1>1. page \subseteq candidates /\ \A i \in page, j \in candidates \ page : i < j
  BY DEF IsPage
<1>2. CASE page = {}
  <2>1. info = [hasNextPage |-> FALSE, hasPreviousPage |-> FALSE,
                startCursor |-> NoCursor, endCursor |-> NoCursor]
    BY <1>2 DEF PageInfoOf
  <2>2. ~info.hasNextPage /\ info.endCursor = NoCursor /\ info.hasNextPage \in BOOLEAN
    BY <2>1
  <2>3. NoCursor \in Cursors
    BY DEF NoCursor, Cursors
  <2>4. Cardinality(page) = 0
    BY <1>2, FS_EmptySet
  <2>5. page = candidates
    BY <2>4 DEF IsPage
  <2> HIDE DEF info
  <2>6. PageFacts(TRUE, page, candidates, info)
    BY <1>1, <2>2, <2>3, <2>5 DEF PageFacts
  <2> QED
    BY <2>6 DEF info
<1>3. CASE page # {}
  <2> DEFINE last == CHOOSE i \in page : \A j \in page : j <= i
  <2>1. last \in page /\ \A j \in page : j <= last
    <3>1. \E i \in page : \A j \in page : j <= i
      BY <1>1, <1>3, GreatestNatural
    <3> QED
      BY <3>1
  <2>2. info.endCursor = [text |-> "encoded", id |-> last] /\ info.hasNextPage = HasNextPage(page, n)
    BY <1>3 DEF PageInfoOf, EncodeCursor
  <2> HIDE DEF last, info
  <2>3. info.endCursor \in Cursors /\ info.endCursor.id = last
    BY <1>1, <2>1, <2>2 DEF Cursors
  <2>4. info.hasNextPage \in BOOLEAN
    BY <2>2 DEF HasNextPage
  <2>5. ASSUME ~info.hasNextPage PROVE page = candidates
    <3>1. Cardinality(page) # n
      BY <1>3, <2>2, <2>5 DEF HasNextPage
    <3> QED
      BY <3>1 DEF IsPage
  <2>6. PageFacts(TRUE, page, candidates, info)
    BY <1>1, <2>1, <2>3, <2>4, <2>5 DEF PageFacts
  <2> QED
    BY <2>6 DEF info
<1> QED
  BY <1>2, <1>3

----------------------------------------------------------------------------
(* The inductive invariant.                                                *)

\* The row is within the filters on the columns of the key, which stay.
Matches(i) ==
  \A c \in Key : Request.filter[c] # {} =>
    Row(i)[c] \in (IF c = "address" THEN Request.filter["network_id"] ELSE Request.filter[c])

\* There are no other filters.
ByKey == Request.filter["block_hash"] = {} /\ Request.filter["transaction_hash"] = {}

\* The rows among the first k that the page being read is taken from.
Ahead(k) == {i \in 1..k : i > Position(after) /\ Matches(i)}

\* Sequences and functions are what they look like.
Shape ==
  /\ list = [f \in Roots |-> list[f]] /\ ret = [f \in Roots |-> ret[f]]
  /\ value = [f \in Roots |-> value[f]]

\* What the crawl has brought lies between the first cursor and the one it has
\* reached, and nothing that matches is missing there.
CrawlOK ==
  /\ Position(Request.after) <= Position(after)
  /\ Position(Request.after) < Position(after) => Position(after) <= Len(table)
  /\ \A i \in got : /\ Matches(i) /\ i > Position(Request.after)
                    /\ ~finished => i <= Position(after)
  /\ ByKey /\ "contracts" \in Request.roots =>
       \A i \in 1..Len(table) :
         /\ Matches(i) /\ i > Position(Request.after)
         /\ i <= IF finished THEN seen ELSE Position(after)
         => i \in got

\* The page on its way is the one after the cursor, of the table as it was.
\* Networks that were asked for are filled in.
PageOK ==
  /\ DOMAIN list["contracts"] \subseteq Ahead(seen)
  /\ "network" \in Request.sel.Contract =>
       \A i \in DOMAIN list["contracts"] : list["contracts"][i].node.network # Null
  /\ root["contracts"] = "marshal" \/ value["contracts"] # Null =>
       PageFacts(ByKey, DOMAIN list["contracts"], Ahead(seen), pageInfo)

\* Root field f in each of its stages.
RootOK(f) ==
  /\ running /\ f \in Request.roots <=> root[f] # "off"
  /\ root[f] \in {"off", "resolve"} => list[f] = <<>> /\ ret[f] = <<>>
  /\ root[f] # "done" => value[f] = Null /\ <<f>> \notin errors
  /\ root[f] = "done" =>
       /\ DOMAIN ret[f] = DOMAIN list[f]
       /\ value[f] = Null <=> \/ <<f>> \in errors
                              \/ \E i \in DOMAIN ret[f] : <<f, i>> \in errors
  /\ \A i \in DOMAIN ret[f] :
       i \in DOMAIN list[f] /\ (ret[f][i] = Null <=> <<f, i>> \in errors)

\* The value of the contracts is the page.
ValueOK ==
  value["contracts"] # Null =>
    /\ DOMAIN ret["contracts"] = DOMAIN list["contracts"]
    /\ value["contracts"] = _ContractConnection(Request.sel, <<ret["contracts"]>>, pageInfo)

\* The error of marshalling element i.
ElementFails(i) ==
  /\ "contracts" \in Request.roots /\ "updatedAt" \in Request.sel.Contract
  /\ list["contracts"][i].node.updatedAt = Null

ErrorsOK ==
  \A e \in errors : \/ \E f \in Request.roots : e = <<f>>
                    \/ \E i \in DOMAIN ret["contracts"] :
                         e = <<"contracts", i>> /\ ElementFails(i)

\* The last response, as its client sees it.
ResponseOK ==
  /\ ResponseExplained
  /\ \A k \in 1..Len(response) : \A e \in response[k].errors :
       Len(e) = 2 => e[1] = "contracts" /\ "updatedAt" \in Request.sel.Contract

IInv ==
  /\ TypeOK /\ Shape
  /\ running => ~finished
  /\ CrawlOK /\ PageOK
  /\ \A f \in Roots : RootOK(f)
  /\ ValueOK /\ ErrorsOK /\ ResponseOK

LEMMA PositionTyped == \A a \in Seq(Cursors) : Position(a) \in Nat
<1> SUFFICES ASSUME NEW a \in Seq(Cursors), a # <<>> PROVE a[1].id \in Nat
  BY DEF Position
<1>1. Len(a) \in Nat /\ Len(a) # 0
  BY EmptySeq, LenProperties
<1>2. a[1] \in Cursors
  BY <1>1, ElementOfSeq
<1> QED
  BY <1>2 DEF Cursors

\* A crawl that has not been answered yet.
LEMMA Fresh ==
  ASSUME NEW p \in DOMAIN Plans
  PROVE  /\ Plans[p].after \in Seq(Cursors) /\ Len(Plans[p].after) <= 1
         /\ Position(Plans[p].after) \in Nat
  BY PlansAssumption, PositionTyped

\* Facts about the request and the cursor.
LEMMA Typed ==
  ASSUME TypeOK
  PROVE  /\ Position(after) \in Nat /\ Position(Request.after) \in Nat
         /\ Limit(Request) \in Nat /\ Request.roots \subseteq Roots
         /\ Len(table) \in Nat /\ seen \in Nat /\ seen <= Len(table)
<1>1. plan \in DOMAIN Plans /\ after \in Seq(Cursors) /\ table \in Seq(DOMAIN Rows)
      /\ seen \in 0..Len(table)
  BY DEF TypeOK
<1>2. Position(after) \in Nat
  BY <1>1, PositionTyped
<1>3. Position(Request.after) \in Nat
  BY <1>1, Fresh DEF Request
<1>4. Limit(Request) \in Nat /\ Request.roots \subseteq Roots
  BY <1>1, PlansAssumption DEF Limit, Request
<1>5. Len(table) \in Nat
  BY <1>1, LenProperties
<1> QED
  BY <1>1, <1>2, <1>3, <1>4, <1>5

LEMMA InitOK == Init => IInv
<1> SUFFICES ASSUME Init PROVE IInv
  OBVIOUS
<1> USE DEF Init
<1>1. table \in Seq(DOMAIN Rows) /\ Len(table) = 0 /\ Len(response) = 0
  BY EmptySeq
<1>2. plan \in DOMAIN Plans /\ after = Request.after /\ Request = Plans[plan]
  BY DEF Request
<1>3. \A f \in Roots : list[f] = <<>> /\ ret[f] = <<>> /\ value[f] = Null /\ root[f] = "off"
  BY DEF NoList, NoValue
<1>4. DOMAIN <<>> = {}
  OBVIOUS
<1>5. TypeOK
  <2>1. after \in Seq(Cursors) /\ Len(after) <= 1
    BY <1>2, Fresh
  <2>2. \A f \in Roots : DOMAIN ret[f] \subseteq DOMAIN list[f]
    BY <1>3
  <2>3. got \subseteq 1..Len(table) /\ seen \in 0..Len(table) /\ Len(response) <= 1
    BY <1>1
  <2>4. root \in [Roots -> {"off", "resolve", "marshal", "done"}]
    OBVIOUS
  <2> QED
    BY <1>1, <1>2, <2>1, <2>2, <2>3, <2>4 DEF TypeOK
<1>6. Shape
  BY DEF Shape, NoList, NoValue
<1>7. CrawlOK
  BY <1>1, <1>2, Fresh DEF CrawlOK
<1>8. PageOK
  BY <1>3, <1>4, RootsAre DEF PageOK
<1>9. \A f \in Roots : RootOK(f)
  BY <1>3, <1>4 DEF RootOK
<1>10. ValueOK /\ ErrorsOK
  BY <1>3, RootsAre DEF ValueOK, ErrorsOK
<1>11. ResponseOK
  BY <1>1 DEF ResponseOK, ResponseExplained
<1> QED
  BY <1>5, <1>6, <1>7, <1>8, <1>9, <1>10, <1>11 DEF IInv

----------------------------------------------------------------------------
(* What steps leave alone.                                                 *)

\* Rows that are there stay, with the columns of their key.
LEMMA RowsKept ==
  ASSUME table \in Seq(DOMAIN Rows), plan' = plan,
         NEW row \in DOMAIN Rows,
         \/ table' = Append(table, row)
         \/ \E i \in 1..Len(table) : /\ \A c \in Key : Rows[row][c] = Row(i)[c]
                                     /\ table' = [table EXCEPT ![i] = row]
  PROVE  /\ table' \in Seq(DOMAIN Rows) /\ Len(table') >= Len(table)
         /\ Len(table) \in Nat /\ Len(table') \in Nat
         /\ Request' = Request /\ ByKey' = ByKey
         /\ \A i \in 1..Len(table) : Matches(i)' <=> Matches(i)
<1>1. Request' = Request /\ ByKey' = ByKey
  BY DEF Request, ByKey
<1>2. /\ table' \in Seq(DOMAIN Rows) /\ Len(table') >= Len(table)
      /\ Len(table) \in Nat /\ Len(table') \in Nat
      /\ \A i \in 1..Len(table) : \A c \in Key : Row(i)'[c] = Row(i)[c]
  <2>1. CASE table' = Append(table, row)
    <3>1. /\ table' \in Seq(DOMAIN Rows) /\ Len(table') = Len(table) + 1 /\ Len(table) \in Nat
          /\ \A i \in 1..Len(table) : table'[i] = table[i]
      BY <2>1, AppendProperties, LenProperties
    <3> QED
      BY <3>1 DEF Row
  <2>2. ASSUME NEW k \in 1..Len(table), \A c \in Key : Rows[row][c] = Row(k)[c],
               table' = [table EXCEPT ![k] = row]
        PROVE  /\ table' \in Seq(DOMAIN Rows) /\ Len(table') >= Len(table)
               /\ Len(table) \in Nat /\ Len(table') \in Nat
               /\ \A i \in 1..Len(table) : \A c \in Key : Row(i)'[c] = Row(i)[c]
    <3>1. /\ table' \in Seq(DOMAIN Rows) /\ Len(table') = Len(table)
          /\ \A i \in 1..Len(table) : table'[i] = IF i = k THEN row ELSE table[i]
      BY <2>2, ExceptSeq
    <3>2. Len(table) \in Nat
      BY LenProperties
    <3>3. ASSUME NEW i \in 1..Len(table), NEW c \in Key PROVE Row(i)'[c] = Row(i)[c]
      <4>1. CASE i = k
        BY <2>2, <3>1, <4>1 DEF Row
      <4>2. CASE i # k
        BY <3>1, <4>2 DEF Row
      <4> QED
        BY <4>1, <4>2
    <3> QED
      BY <3>1, <3>2, <3>3
  <2>3. CASE \E i \in 1..Len(table) : /\ \A c \in Key : Rows[row][c] = Row(i)[c]
                                      /\ table' = [table EXCEPT ![i] = row]
    <3>1. PICK i \in 1..Len(table) : /\ \A c \in Key : Rows[row][c] = Row(i)[c]
                                     /\ table' = [table EXCEPT ![i] = row]
      BY <2>3
    <3> QED
      BY <2>2, <3>1, Zenon
  <2> QED
    BY <2>1, <2>3
<1>3. \A i \in 1..Len(table) : Matches(i)' <=> Matches(i)
  BY <1>1, <1>2 DEF Matches
<1> QED
  BY <1>1, <1>2, <1>3

\* Nothing moves in the table and in the crawl.
LEMMA CrawlKept ==
  ASSUME UNCHANGED <<table, client>>
  PROVE  /\ Request' = Request
         /\ ByKey' = ByKey /\ \A i : Matches(i)' <=> Matches(i)
         /\ \A k : Ahead(k)' = Ahead(k)
         /\ CrawlOK /\ (seen' = seen \/ ~finished) => CrawlOK'
<1> USE DEF client
<1>1. Request' = Request
  BY DEF Request
<1>2. \A i : Row(i)' = Row(i)
  BY DEF Row
<1>3. ByKey' = ByKey
  BY <1>1 DEF ByKey
<1>4. \A i : Matches(i)' <=> Matches(i)
  BY <1>1, <1>2 DEF Matches
<1>5. \A k : Ahead(k)' = Ahead(k)
  BY <1>4 DEF Ahead
<1>6. CrawlOK /\ (seen' = seen \/ ~finished) => CrawlOK'
  BY <1>1, <1>3, <1>4 DEF CrawlOK
<1> QED
  BY <1>1, <1>2, <1>3, <1>4, <1>5, <1>6

LEMMA ResponseKept ==
  ASSUME \/ response' = <<>>
         \/ ResponseOK /\ UNCHANGED <<response, plan>>
  PROVE  ResponseOK'
<1>1. CASE response' = <<>>
  <2>1. 1..Len(response') = {}
    BY <1>1
  <2> QED
    BY <2>1 DEF ResponseOK, ResponseExplained
<1>2. CASE ResponseOK /\ UNCHANGED <<response, plan>>
  BY <1>2 DEF ResponseOK, ResponseExplained, Request
<1> QED
  BY <1>1, <1>2

----------------------------------------------------------------------------
(* Rows and clients.                                                       *)

\* A job inserts or updates a row.
LEMMA WriteOK ==
  ASSUME IInv, NEW row \in DOMAIN Rows,
         Insert(row) \/ \E i \in 1..Len(table) : Update(i, row)
  PROVE  IInv'
<1> USE DEF client, request
<1>0. /\ TypeOK /\ table \in Seq(DOMAIN Rows) /\ UNCHANGED <<client, seen, request, response>>
      /\ \/ table' = Append(table, row)
         \/ \E i \in 1..Len(table) : /\ \A c \in Key : Rows[row][c] = Row(i)[c]
                                     /\ table' = [table EXCEPT ![i] = row]
  BY DEF Insert, Update, IInv, TypeOK
<1>1. /\ table' \in Seq(DOMAIN Rows) /\ Len(table') >= Len(table)
      /\ Len(table) \in Nat /\ Len(table') \in Nat
      /\ Request' = Request /\ ByKey' = ByKey
      /\ \A i \in 1..Len(table) : Matches(i)' <=> Matches(i)
  BY <1>0, RowsKept
<1>2. /\ Position(after) \in Nat /\ Position(Request.after) \in Nat
      /\ seen \in Nat /\ seen <= Len(table)
  BY <1>0, Typed
<1>3. TypeOK'
  <2>1. got' \subseteq 1..Len(table') /\ seen' \in 0..Len(table')
    BY <1>0, <1>1, <1>2 DEF TypeOK
  <2> QED
    BY <1>0, <1>1, <2>1 DEF TypeOK
<1>4. Shape' /\ (running => ~finished)'
  BY <1>0 DEF IInv, Shape
<1>5. CrawlOK'
  <2>1. CrawlOK /\ got \subseteq 1..Len(table)
    BY DEF IInv, TypeOK
  <2>2. /\ Position(Request.after)' = Position(Request.after)
        /\ Position(after)' = Position(after)
    BY <1>0, <1>1 DEF Position
  <2>3. \A i \in got' : /\ Matches(i)' /\ i > Position(Request.after)
                        /\ ~finished => i <= Position(after)
    BY <1>0, <1>1, <2>1 DEF CrawlOK
  <2>4. ASSUME ByKey, "contracts" \in Request.roots, NEW i \in 1..Len(table'), Matches(i)',
               i > Position(Request.after), i <= IF finished THEN seen ELSE Position(after)
        PROVE  i \in got
    <3>1. i \in 1..Len(table)
      BY <1>1, <1>2, <2>1, <2>4 DEF CrawlOK
    <3> QED
      BY <1>1, <2>1, <2>4, <3>1 DEF CrawlOK
  <2>5. Position(Request.after) <= Position(after)
        /\ (Position(Request.after) < Position(after) => Position(after) <= Len(table'))
    BY <1>1, <1>2, <2>1 DEF CrawlOK
  <2> QED
    BY <1>0, <1>1, <2>2, <2>3, <2>4, <2>5 DEF CrawlOK
<1>6. PageOK'
  <2>1. Ahead(seen)' = Ahead(seen)
    BY <1>0, <1>1, <1>2 DEF Ahead
  <2> QED
    BY <1>0, <1>1, <2>1 DEF IInv, PageOK
<1>7. \A f \in Roots : RootOK(f)'
  BY <1>0, <1>1 DEF IInv, RootOK
<1>8. ValueOK' /\ ErrorsOK'
  BY <1>0, <1>1 DEF IInv, ValueOK, ErrorsOK, ElementFails
<1>9. ResponseOK'
  BY <1>0, ResponseKept DEF IInv
<1> QED
  BY <1>3, <1>4, <1>5, <1>6, <1>7, <1>8, <1>9 DEF IInv

\* Root fields that have not been resolved: there is no page.
LEMMA NoPage ==
  ASSUME Shape, \A f \in Roots : list[f] = <<>> /\ ret[f] = <<>> /\ value[f] = Null
                                 /\ root[f] \in {"off", "resolve"}
  PROVE  /\ \A f \in Roots : DOMAIN ret[f] \subseteq DOMAIN list[f]
         /\ PageOK /\ ValueOK
<1>1. DOMAIN <<>> = {}
  OBVIOUS
<1> QED
  BY <1>1, RootsAre DEF PageOK, ValueOK

LEMMA NewCrawlOK == ASSUME IInv, NEW p \in DOMAIN Plans, NewCrawl(p) PROVE IInv'
<1> USE DEF request
<1>0. /\ ~running /\ plan' = p /\ after' = Plans[p].after /\ got' = {} /\ finished' = FALSE
      /\ seen' = 0 /\ response' = <<>> /\ UNCHANGED <<table, request>>
  BY DEF NewCrawl
<1>1. Request' = Plans[p] /\ Len(table) \in Nat /\ TypeOK
  BY <1>0, Typed DEF IInv, Request
<1>2. \A f \in Roots : RootOK(f) /\ root[f] = "off"
  BY <1>0 DEF IInv, RootOK
<1>3. \A f \in Roots : list[f] = <<>> /\ ret[f] = <<>> /\ value[f] = Null /\ <<f>> \notin errors
  BY <1>2 DEF RootOK
<1>4. Shape' /\ (running => ~finished)'
  BY <1>0 DEF IInv, Shape
<1>5. /\ (\A f \in Roots : DOMAIN ret[f] \subseteq DOMAIN list[f])'
      /\ PageOK' /\ ValueOK'
  <2>1. (\A f \in Roots : list[f] = <<>> /\ ret[f] = <<>> /\ value[f] = Null
                          /\ root[f] \in {"off", "resolve"})'
    BY <1>0, <1>2, <1>3
  <2> QED
    BY <1>4, <2>1, NoPage, PTL
<1>6. TypeOK'
  <2>1. after' \in Seq(Cursors) /\ Len(after') <= 1
    BY <1>0, Fresh
  <2>2. got' \subseteq 1..Len(table') /\ seen' \in 0..Len(table') /\ Len(response') <= 1
    BY <1>0, <1>1
  <2> QED
    BY <1>0, <1>1, <1>5, <2>1, <2>2 DEF TypeOK
<1>7. CrawlOK'
  <2>1. Position(Request.after)' = Position(after)' /\ Position(after)' \in Nat
    BY <1>0, <1>1, Fresh
  <2> QED
    BY <1>0, <1>1, <2>1 DEF CrawlOK
<1>8. errors = {}
  <2>1. DOMAIN <<>> = {}
    OBVIOUS
  <2> QED
    BY <1>1, <1>3, <2>1, Typed, RootsAre DEF IInv, ErrorsOK
<1>9. \A f \in Roots : RootOK(f)'
  <2>1. DOMAIN <<>> = {}
    OBVIOUS
  <2> QED
    BY <1>0, <1>2, <1>3, <2>1 DEF RootOK
<1>10. ErrorsOK'
  BY <1>0, <1>8 DEF ErrorsOK
<1>11. ResponseOK'
  BY <1>0, ResponseKept
<1> QED
  BY <1>4, <1>5, <1>6, <1>7, <1>9, <1>10, <1>11 DEF IInv

LEMMA ExecOK == ASSUME IInv, Exec PROVE IInv'
<1> USE DEF client
<1>0. /\ ~running /\ ~finished /\ running'
      /\ root' = [f \in Roots |-> IF f \in Request.roots THEN "resolve" ELSE "off"]
      /\ list' = NoList /\ ret' = NoList /\ value' = NoValue /\ errors' = {} /\ response' = <<>>
      /\ UNCHANGED <<table, client, seen, pageInfo>>
  BY DEF Exec
<1>1. TypeOK /\ Request' = Request /\ CrawlOK'
  BY <1>0, CrawlKept DEF IInv
<1>2. (\A f \in Roots : list[f] = <<>> /\ ret[f] = <<>> /\ value[f] = Null
                        /\ root[f] \in {"off", "resolve"})'
  BY <1>0 DEF NoList, NoValue
<1>3. Shape' /\ (running => ~finished)'
  BY <1>0 DEF Shape, NoList, NoValue
<1>4. /\ (\A f \in Roots : DOMAIN ret[f] \subseteq DOMAIN list[f])'
      /\ PageOK' /\ ValueOK'
  BY <1>2, <1>3, NoPage, PTL
<1>5. TypeOK'
  <2>1. root' \in [Roots -> {"off", "resolve", "marshal", "done"}] /\ Len(response') = 0
    BY <1>0
  <2> QED
    BY <1>0, <1>1, <1>4, <2>1 DEF TypeOK
<1>6. \A f \in Roots : RootOK(f)'
  <2>1. DOMAIN <<>> = {}
    OBVIOUS
  <2>2. \A f \in Roots : f \in Request.roots <=> root'[f] # "off"
    BY <1>0
  <2> QED
    BY <1>0, <1>1, <1>2, <2>1, <2>2 DEF RootOK
<1>7. ErrorsOK'
  BY <1>0 DEF ErrorsOK
<1>8. ResponseOK'
  BY <1>0, ResponseKept
<1> QED
  BY <1>1, <1>3, <1>4, <1>5, <1>6, <1>7, <1>8 DEF IInv

----------------------------------------------------------------------------
(* The request.                                                            *)

\* A step of a goroutine of the request.
LEMMA RequestKept ==
  ASSUME IInv, UNCHANGED <<table, client, response, running>>,
         NEW f \in Roots, root[f] # "off"
  PROVE  /\ running /\ ~finished /\ f \in Request.roots
         /\ TypeOK /\ CrawlOK' /\ ResponseOK' /\ (running => ~finished)'
         /\ Request' = Request /\ ByKey' = ByKey
         /\ \A k : Ahead(k)' = Ahead(k)
<1>1. running /\ ~finished /\ f \in Request.roots /\ TypeOK
  BY DEF IInv, RootOK
<1>2. CrawlOK' /\ Request' = Request
      /\ ByKey' = ByKey /\ (\A k : Ahead(k)' = Ahead(k))
  BY <1>1, CrawlKept DEF IInv
<1>3. ResponseOK'
  BY ResponseKept DEF IInv, client
<1> QED
  BY <1>1, <1>2, <1>3 DEF client

LEMMA FieldFailsOK ==
  ASSUME IInv, NEW f \in Roots, root[f] = "resolve", FieldFails(f)
  PROVE  IInv'
<1>0. /\ root' = [root EXCEPT ![f] = "done"] /\ errors' = errors \cup {<<f>>}
      /\ UNCHANGED <<table, client, seen, running, list, pageInfo, ret, value, response>>
  BY DEF FieldFails
<1>1. /\ running /\ ~finished /\ f \in Request.roots
      /\ TypeOK /\ CrawlOK' /\ ResponseOK' /\ (running => ~finished)'
      /\ Request' = Request /\ ByKey' = ByKey /\ (\A k : Ahead(k)' = Ahead(k))
  BY <1>0, RequestKept
<1>2. RootOK(f) /\ root \in [Roots -> {"off", "resolve", "marshal", "done"}]
  BY DEF IInv, TypeOK
<1>3. TypeOK'
  BY <1>0, <1>1, <1>2 DEF TypeOK, client
<1>4. Shape' /\ ValueOK'
  BY <1>0, <1>1 DEF IInv, Shape, ValueOK
<1>5. PageOK'
  <2>1. root'["contracts"] = "marshal" => root["contracts"] = "marshal"
    BY <1>0, <1>2, RootsAre
  <2> QED
    BY <1>0, <1>1, <2>1 DEF IInv, PageOK
<1>6. ASSUME NEW g \in Roots PROVE RootOK(g)'
  <2>0. DOMAIN <<>> = {} /\ \A i : <<g, i>> \in errors' <=> <<g, i>> \in errors
    BY <1>0, Paths
  <2>1. CASE g = f
    BY <1>0, <1>1, <1>2, <2>0, <2>1 DEF RootOK
  <2>2. CASE g # f
    <3>1. root'[g] = root[g] /\ (<<g>> \in errors' <=> <<g>> \in errors) /\ RootOK(g)
      BY <1>0, <1>2, <2>2, Paths DEF IInv
    <3> QED
      BY <1>0, <1>1, <2>0, <3>1 DEF RootOK
  <2> QED
    BY <2>1, <2>2
<1>7. ErrorsOK'
  BY <1>0, <1>1 DEF IInv, ErrorsOK, ElementFails
<1> QED
  BY <1>1, <1>3, <1>4, <1>5, <1>6, <1>7 DEF IInv

\* The resolver read a page.
LEMMA ResolveContractsOK == ASSUME IInv, ResolveContracts PROVE IInv'
<1>0. CASE FieldFails("contracts")
  BY <1>0, FieldFailsOK, RootsAre DEF ResolveContracts
<1>1. CASE ~FieldFails("contracts")
  <2>1. PICK page \in SUBSET Candidates(Position(after)) :
          /\ IsPage(page, Candidates(Position(after)), Limit(Request))
          /\ root' = [root EXCEPT !["contracts"] = "marshal"]
          /\ list' = [list EXCEPT !["contracts"] = [i \in page |-> Edge(i)]]
          /\ pageInfo' = PageInfoOf(page, Limit(Request))
          /\ seen' = Len(table)
          /\ UNCHANGED <<table, client, running, ret, value, errors, response>>
    BY <1>1 DEF ResolveContracts
  <2>2. root["contracts"] = "resolve" /\ "contracts" \in Roots
    BY RootsAre DEF ResolveContracts
  <2>3. /\ running /\ ~finished /\ "contracts" \in Request.roots
        /\ TypeOK /\ CrawlOK' /\ ResponseOK' /\ (running => ~finished)'
        /\ Request' = Request /\ ByKey' = ByKey /\ (\A k : Ahead(k)' = Ahead(k))
    BY <2>1, <2>2, RequestKept
  <2>4. /\ Candidates(Position(after)) \subseteq Ahead(Len(table))
        /\ ByKey => Candidates(Position(after)) = Ahead(Len(table))
        /\ Candidates(Position(after)) \subseteq 1..Len(table)
    <3>1. Columns = Key \cup {"block_hash", "transaction_hash"}
      BY DEF Columns, Key
    <3>2. \A i : Where(Request.filter, Row(i)) => Matches(i)
      BY <3>1 DEF Where, Matches
    <3>3. ByKey => \A i : Matches(i) => Where(Request.filter, Row(i))
      BY <3>1 DEF Where, Matches, ByKey
    <3> QED
      BY <3>2, <3>3 DEF Candidates, Ahead
  <2>5. PageFacts(ByKey, page, Ahead(seen'), pageInfo')
    <3>1. Len(table) \in Nat /\ Limit(Request) \in Nat
      BY <2>3, Typed
    <3>2. PageFacts(TRUE, page, Candidates(Position(after)), pageInfo')
      BY <2>1, <2>4, <3>1, PageCorrect
    <3> QED
      BY <2>1, <2>4, <3>2 DEF PageFacts
  <2>6. /\ list = [f \in Roots |-> list[f]] /\ RootOK("contracts")
        /\ root \in [Roots -> {"off", "resolve", "marshal", "done"}]
    BY <2>2 DEF IInv, Shape, TypeOK
  <2>7. /\ list'["contracts"] = [i \in page |-> Edge(i)]
        /\ DOMAIN list'["contracts"] = page
        /\ list' = [f \in Roots |-> list'[f]]
    BY <2>1, <2>2, <2>6
  <2>8. \A g \in Roots : g # "contracts" => list'[g] = list[g] /\ root'[g] = root[g]
    BY <2>1, <2>6
  <2>9. ret["contracts"] = <<>> /\ value["contracts"] = Null /\ DOMAIN <<>> = {}
    BY <2>2, <2>6 DEF RootOK
  <2>10. \A f \in Roots : DOMAIN ret'[f] \subseteq DOMAIN list'[f]
    <3> SUFFICES ASSUME NEW f \in Roots PROVE DOMAIN ret'[f] \subseteq DOMAIN list'[f]
      OBVIOUS
    <3>1. CASE f = "contracts"
      BY <2>1, <2>9, <3>1
    <3>2. CASE f # "contracts"
      BY <2>1, <2>3, <2>8, <3>2 DEF TypeOK
    <3> QED
      BY <3>1, <3>2
  <2>11. TypeOK'
    <3>1. seen' \in 0..Len(table') /\ root' \in [Roots -> {"off", "resolve", "marshal", "done"}]
      BY <2>1, <2>3, <2>6, Typed
    <3> QED
      BY <2>1, <2>3, <2>10, <3>1 DEF TypeOK, client
  <2>12. Shape'
    BY <2>1, <2>7 DEF IInv, Shape
  <2>13. PageOK'
    <3>1. ASSUME "network" \in Request.sel.Contract, NEW i \in page
          PROVE  list'["contracts"][i].node.network # Null
      <4>1. Edge(i).node.network = <<Row(i).network_id>>
        BY <3>1, SelectedNetworkAsked DEF Edge
      <4> QED
        BY <2>7, <4>1, Single DEF Null
    <3> QED
      BY <2>1, <2>3, <2>5, <2>7, <3>1 DEF PageOK, PageFacts
  <2>14. ASSUME NEW g \in Roots PROVE RootOK(g)'
    <3>1. CASE g = "contracts"
      <4>1. root'[g] = "marshal"
        BY <2>1, <2>2, <2>6, <3>1
      <4> QED
        BY <2>1, <2>3, <2>2, <2>6, <2>9, <3>1, <4>1 DEF RootOK
    <3>2. CASE g # "contracts"
      BY <2>1, <2>3, <2>8, <3>2 DEF IInv, RootOK
    <3> QED
      BY <3>1, <3>2
  <2>15. ValueOK' /\ ErrorsOK'
    BY <2>1, <2>3, <2>9 DEF IInv, ValueOK, ErrorsOK
  <2> QED
    BY <2>3, <2>11, <2>12, <2>13, <2>14, <2>15 DEF IInv
<1> QED
  BY <1>0, <1>1

LEMMA ResolveNetworksOK == ASSUME IInv, ResolveNetworks PROVE IInv'
<1> DEFINE new == [n \in {m \in Networks : NetworkMatches(m, Request.networks)} |-> n.networkId]
<1>0. /\ root["networks"] = "resolve" /\ "networks" \in Roots /\ "contracts" \in Roots
      /\ root' = [root EXCEPT !["networks"] = "marshal"]
      /\ list' = [list EXCEPT !["networks"] = new]
      /\ UNCHANGED <<table, client, seen, running, pageInfo, ret, value, errors, response>>
  BY RootsAre DEF ResolveNetworks
<1> HIDE DEF new
<1>1. /\ running /\ ~finished /\ "networks" \in Request.roots
      /\ TypeOK /\ CrawlOK' /\ ResponseOK' /\ (running => ~finished)'
      /\ Request' = Request /\ ByKey' = ByKey /\ (\A k : Ahead(k)' = Ahead(k))
  BY <1>0, RequestKept
<1>2. /\ list = [f \in Roots |-> list[f]] /\ RootOK("networks")
      /\ root \in [Roots -> {"off", "resolve", "marshal", "done"}]
  BY <1>0 DEF IInv, Shape, TypeOK
<1>3. list' = [f \in Roots |-> list'[f]] /\ root'["networks"] = "marshal"
  BY <1>0, <1>2
<1>4. \A g \in Roots : g # "networks" => list'[g] = list[g] /\ root'[g] = root[g]
  BY <1>0, <1>2
<1>5. ret["networks"] = <<>> /\ DOMAIN <<>> = {}
  BY <1>0, <1>2 DEF RootOK
<1>6. TypeOK'
  <2>1. \A f \in Roots : DOMAIN ret'[f] \subseteq DOMAIN list'[f]
    <3> SUFFICES ASSUME NEW f \in Roots PROVE DOMAIN ret'[f] \subseteq DOMAIN list'[f]
      OBVIOUS
    <3>1. CASE f = "networks"
      BY <1>0, <1>5, <3>1
    <3>2. CASE f # "networks"
      BY <1>0, <1>1, <1>4, <3>2 DEF TypeOK
    <3> QED
      BY <3>1, <3>2
  <2>2. root' \in [Roots -> {"off", "resolve", "marshal", "done"}]
    BY <1>0, <1>2
  <2> QED
    BY <1>0, <1>1, <2>1, <2>2 DEF TypeOK, client
<1>7. Shape'
  BY <1>0, <1>3 DEF IInv, Shape
<1>8. PageOK'
  BY <1>0, <1>1, <1>4 DEF IInv, PageOK
<1>9. ASSUME NEW g \in Roots PROVE RootOK(g)'
  <2>1. CASE g = "networks"
    BY <1>0, <1>1, <1>2, <1>3, <1>5, <2>1 DEF RootOK
  <2>2. CASE g # "networks"
    BY <1>0, <1>1, <1>4, <2>2 DEF IInv, RootOK
  <2> QED
    BY <2>1, <2>2
<1>10. ValueOK' /\ ErrorsOK'
  BY <1>0, <1>1, <1>4 DEF IInv, ValueOK, ErrorsOK, ElementFails
<1> QED
  BY <1>1, <1>6, <1>7, <1>8, <1>9, <1>10 DEF IInv

\* An element is marshalled, or its updatedAt is missing.
LEMMA MarshalElementOK ==
  ASSUME IInv, NEW f \in Roots, NEW i \in DOMAIN list[f], MarshalElement(f, i)
  PROVE  IInv'
<1> DEFINE v == IF f = "contracts" THEN _ContractEdge(Request.sel, list[f][i])
                                   ELSE _Network(Request.sel, list[f][i])
           new == [j \in DOMAIN ret[f] \cup {i} |-> IF j = i THEN v ELSE ret[f][j]]
<1>1. v = Null => /\ f = "contracts" /\ "updatedAt" \in Request.sel.Contract
                  /\ list["contracts"][i].node.updatedAt = Null
  <2>1. CASE f = "contracts"
    <3>1. "network" \in Request.sel.Contract => list[f][i].node.network # Null
      BY <2>1 DEF IInv, PageOK
    <3> QED
      BY <2>1, <3>1, EdgeMarshalled
  <2>2. CASE f # "contracts"
    BY <2>2, NetworkMarshalled
  <2> QED
    BY <2>1, <2>2
<1>2. ret = [g \in Roots |-> ret[g]] /\ RootOK(f) /\ i \notin DOMAIN ret[f]
  BY DEF IInv, Shape, MarshalElement
<1>3. /\ ret' = [ret EXCEPT ![f] = new]
      /\ errors' = IF v = Null THEN errors \cup {<<f, i>>} ELSE errors
      /\ UNCHANGED <<table, client, seen, running, root, list, pageInfo, value, response>>
  BY DEF MarshalElement
<1> HIDE DEF v
<1>4. root[f] = "marshal"
  <2>1. DOMAIN <<>> = {}
    OBVIOUS
  <2> QED
    BY <1>2, <2>1 DEF RootOK, IInv, TypeOK
<1>5. /\ running /\ ~finished /\ f \in Request.roots
      /\ TypeOK /\ CrawlOK' /\ ResponseOK' /\ (running => ~finished)'
      /\ Request' = Request /\ ByKey' = ByKey /\ (\A k : Ahead(k)' = Ahead(k))
  BY <1>3, <1>4, RequestKept
<1>6. <<f, i>> \notin errors /\ (<<f, i>> \in errors' <=> v = Null)
  <2>1. <<f, i>> \notin errors
    <3> SUFFICES ASSUME <<f, i>> \in errors PROVE FALSE
      OBVIOUS
    <3>1. PICK j \in DOMAIN ret["contracts"] : <<f, i>> = <<"contracts", j>>
      BY Paths DEF IInv, ErrorsOK
    <3>2. f = "contracts" /\ i = j
      BY <3>1, Paths
    <3> QED
      BY <1>2, <3>2
  <2> QED
    BY <1>3, <2>1
<1>7. \A g, j : ~(g = f /\ j = i) => (<<g, j>> \in errors' <=> <<g, j>> \in errors)
  BY <1>3, Paths
<1>8. \A g : <<g>> \in errors' <=> <<g>> \in errors
  BY <1>3, Paths
<1>9. \A j \in DOMAIN new : j \in DOMAIN list[f] /\ (new[j] = Null <=> <<f, j>> \in errors')
  BY <1>2, <1>6, <1>7 DEF RootOK
<1>10. DOMAIN new = DOMAIN ret[f] \cup {i}
  OBVIOUS
<1> HIDE DEF new
<1>11. /\ ret'[f] = new /\ ret' = [g \in Roots |-> ret'[g]]
       /\ \A g \in Roots : g # f => ret'[g] = ret[g]
  BY <1>2, <1>3
<1>12. TypeOK'
  <2>1. \A g \in Roots : DOMAIN ret'[g] \subseteq DOMAIN list'[g]
    BY <1>3, <1>5, <1>9, <1>11 DEF TypeOK
  <2> QED
    BY <1>3, <1>5, <2>1 DEF TypeOK, client
<1>13. Shape' /\ PageOK'
  BY <1>3, <1>5, <1>11 DEF IInv, Shape, PageOK
<1>14. ErrorsOK'
  <2> SUFFICES ASSUME NEW e \in errors'
               PROVE  (\/ \E g \in Request.roots : e = <<g>>
                       \/ \E j \in DOMAIN ret["contracts"] :
                            e = <<"contracts", j>> /\ ElementFails(j))'
    BY DEF ErrorsOK
  <2>1. CASE e \in errors
    <3>1. DOMAIN ret["contracts"] \subseteq DOMAIN ret'["contracts"]
      BY <1>10, <1>11, RootsAre
    <3> QED
      BY <1>3, <1>5, <2>1, <3>1 DEF IInv, ErrorsOK, ElementFails
  <2>2. CASE e \notin errors
    <3>1. v = Null /\ e = <<f, i>>
      BY <1>3, <2>2
    <3>2. f = "contracts" /\ i \in DOMAIN ret'["contracts"] /\ ElementFails(i)'
      BY <1>1, <1>3, <1>5, <1>10, <1>11, <3>1 DEF ElementFails
    <3> QED
      BY <3>1, <3>2
  <2> QED
    BY <2>1, <2>2
<1>15. ASSUME NEW g \in Roots PROVE RootOK(g)'
  <2>1. CASE g = f
    BY <1>2, <1>3, <1>4, <1>5, <1>8, <1>9, <1>11, <2>1 DEF RootOK
  <2>2. CASE g # f
    <3>1. \A j : <<g, j>> \in errors' <=> <<g, j>> \in errors
      BY <1>7, <2>2
    <3>2. ret'[g] = ret[g] /\ RootOK(g) /\ (<<g>> \in errors' <=> <<g>> \in errors)
      BY <1>8, <1>11, <2>2 DEF IInv
    <3> QED
      BY <1>3, <1>5, <3>1, <3>2 DEF RootOK
  <2> QED
    BY <2>1, <2>2
<1>16. ValueOK'
  <2>1. CASE f = "contracts"
    BY <1>2, <1>3, <1>4, <2>1 DEF ValueOK, RootOK
  <2>2. CASE f # "contracts"
    BY <1>3, <1>5, <1>11, <2>2, RootsAre DEF IInv, ValueOK
  <2> QED
    BY <2>1, <2>2
<1> QED
  BY <1>5, <1>12, <1>13, <1>14, <1>15, <1>16 DEF IInv

LEMMA MarshalRootOK == ASSUME IInv, NEW f \in Roots, MarshalRoot(f) PROVE IInv'
<1> DEFINE v == IF f = "contracts"
                  THEN _ContractConnection(Request.sel, MarshalList(ret[f]), pageInfo)
                  ELSE MarshalList(ret[f])
<1>0. /\ root[f] = "marshal" /\ DOMAIN ret[f] = DOMAIN list[f]
      /\ root' = [root EXCEPT ![f] = "done"] /\ value' = [value EXCEPT ![f] = v]
      /\ UNCHANGED <<table, client, seen, running, list, pageInfo, ret, errors, response>>
  BY DEF MarshalRoot
<1>1. /\ running /\ ~finished /\ f \in Request.roots
      /\ TypeOK /\ CrawlOK' /\ ResponseOK' /\ (running => ~finished)'
      /\ Request' = Request /\ ByKey' = ByKey /\ (\A k : Ahead(k)' = Ahead(k))
  BY <1>0, RequestKept
<1>2. /\ value = [g \in Roots |-> value[g]] /\ RootOK(f)
      /\ root \in [Roots -> {"off", "resolve", "marshal", "done"}]
  BY DEF IInv, Shape, TypeOK
<1>3. /\ MarshalList(ret[f]) = Null <=> \E i \in DOMAIN ret[f] : <<f, i>> \in errors
      /\ MarshalList(ret[f]) # Null => MarshalList(ret[f]) = <<ret[f]>>
  BY <1>2, ListFacts DEF RootOK
<1>4. v = Null <=> \E i \in DOMAIN ret[f] : <<f, i>> \in errors
  <2>1. CASE f = "contracts"
    <3>1. /\ {"edges", "pageInfo"} \subseteq Request.sel.ContractConnection
          /\ {"hasNextPage", "endCursor"} \subseteq Request.sel.PageInfo
      BY <1>1, PlansAssumption DEF TypeOK, Request
    <3>2. MarshalList(ret[f]) # Null => v # Null
      BY <2>1, <3>1, ConnectionFacts
    <3>3. MarshalList(ret[f]) = Null => v = Null
      BY <2>1, <3>1, ConnectionNull
    <3> QED
      BY <1>3, <3>2, <3>3
  <2>2. CASE f # "contracts"
    BY <1>3, <2>2
  <2> QED
    BY <2>1, <2>2
<1>5. f = "contracts" /\ v # Null =>
        v = _ContractConnection(Request.sel, <<ret["contracts"]>>, pageInfo)
  BY <1>3, <1>4
<1> HIDE DEF v
<1>6. /\ value'[f] = v /\ root'[f] = "done" /\ value' = [g \in Roots |-> value'[g]]
      /\ \A g \in Roots : g # f => value'[g] = value[g] /\ root'[g] = root[g]
  BY <1>0, <1>2
<1>7. TypeOK'
  <2>1. root' \in [Roots -> {"off", "resolve", "marshal", "done"}]
    BY <1>0, <1>2
  <2> QED
    BY <1>0, <1>1, <2>1 DEF TypeOK, client
<1>8. Shape' /\ ErrorsOK'
  BY <1>0, <1>1, <1>6 DEF IInv, Shape, ErrorsOK, ElementFails
<1>9. PageOK'
  <2>1. root'["contracts"] = "marshal" \/ value'["contracts"] # Null
          => root["contracts"] = "marshal" \/ value["contracts"] # Null
    BY <1>0, <1>6, RootsAre
  <2> QED
    BY <1>0, <1>1, <2>1 DEF IInv, PageOK
<1>10. ASSUME NEW g \in Roots PROVE RootOK(g)'
  <2>1. CASE g = f
    BY <1>0, <1>1, <1>2, <1>4, <1>6, <2>1 DEF RootOK
  <2>2. CASE g # f
    BY <1>0, <1>1, <1>6, <2>2 DEF IInv, RootOK
  <2> QED
    BY <2>1, <2>2
<1>11. ValueOK'
  <2>1. CASE f = "contracts"
    BY <1>0, <1>1, <1>5, <1>6, <2>1 DEF ValueOK
  <2>2. CASE f # "contracts"
    BY <1>0, <1>1, <1>6, <2>2, RootsAre DEF IInv, ValueOK
  <2> QED
    BY <2>1, <2>2
<1> QED
  BY <1>1, <1>7, <1>8, <1>9, <1>10, <1>11 DEF IInv

\* The crawl goes on behind the page that was brought, or ends with it.
LEMMA PageTaken ==
  ASSUME IInv, ~finished, PageFacts(ByKey, DOMAIN list["contracts"], Ahead(seen), pageInfo),
         got' = got \cup DOMAIN list["contracts"], finished' = ~pageInfo.hasNextPage,
         after' = IF pageInfo.hasNextPage THEN <<pageInfo.endCursor>> ELSE after,
         UNCHANGED <<table, plan, seen>>
  PROVE  /\ CrawlOK' /\ got' \subseteq 1..Len(table)
         /\ after' \in Seq(Cursors) /\ Len(after') <= 1
<1> DEFINE page == DOMAIN list["contracts"]
           end  == pageInfo.endCursor.id
<1>1. /\ TypeOK /\ CrawlOK /\ Position(after) \in Nat /\ Position(Request.after) \in Nat
      /\ Len(table) \in Nat /\ seen \in Nat /\ seen <= Len(table)
  BY Typed DEF IInv
<1>2. Request' = Request /\ ByKey' = ByKey /\ \A i : Matches(i)' <=> Matches(i)
  BY DEF Request, ByKey, Matches, Row
<1>3. \A i \in page : i \in 1..Len(table) /\ i <= seen /\ i > Position(after) /\ Matches(i)
  BY <1>1 DEF PageFacts, Ahead
<1>4. got' \subseteq 1..Len(table)
  BY <1>1, <1>3 DEF TypeOK
<1>5. CASE pageInfo.hasNextPage
  <2>1. after' = <<pageInfo.endCursor>> /\ pageInfo.endCursor \in Cursors
    BY <1>5 DEF PageFacts
  <2>2. after' \in Seq(Cursors) /\ Len(after') <= 1 /\ Position(after') = end
    <3>1. after' \in Seq(Cursors) /\ Len(after') = 1
      BY <2>1, SingleOf
    <3>2. after' # <<>> /\ after'[1] = pageInfo.endCursor
      BY <2>1, Single
    <3> QED
      BY <3>1, <3>2 DEF Position
  <2>3. end \in page /\ \A i \in page : i <= end
    BY <1>5 DEF PageFacts
  <2> HIDE DEF page, end
  <2>4. end \in Nat /\ end > Position(after) /\ end <= seen
    BY <1>3, <2>3
  <2>5. \A i \in got' : Matches(i) /\ i > Position(Request.after) /\ i <= end
    BY <1>1, <1>3, <1>4, <2>3, <2>4 DEF CrawlOK, page
  <2>6. ASSUME ByKey, "contracts" \in Request.roots, NEW i \in 1..Len(table), Matches(i),
               i > Position(Request.after), i <= end
        PROVE  i \in got'
    <3>1. CASE i <= Position(after)
      BY <1>1, <2>6, <3>1 DEF CrawlOK
    <3>2. CASE i > Position(after)
      <4>1. i \in Ahead(seen)
        BY <1>1, <2>4, <2>6, <3>2 DEF Ahead
      <4>2. i \in page
        BY <1>1, <2>3, <2>4, <2>6, <4>1 DEF PageFacts, page
      <4> QED
        BY <4>2 DEF page
    <3> QED
      BY <1>1, <3>1, <3>2
  <2>7. /\ Position(Request.after) <= end /\ end <= Len(table)
    BY <1>1, <2>4 DEF CrawlOK
  <2>8. CrawlOK'
    BY <1>2, <1>5, <2>2, <2>5, <2>6, <2>7 DEF CrawlOK
  <2> QED
    BY <1>4, <2>2, <2>8
<1>6. CASE ~pageInfo.hasNextPage
  <2>1. after' = after /\ after \in Seq(Cursors) /\ Len(after) <= 1 /\ finished'
        /\ (ByKey => page = Ahead(seen))
    BY <1>1, <1>6 DEF PageFacts, TypeOK
  <2> HIDE DEF page
  <2>2. \A i \in got' : Matches(i) /\ i > Position(Request.after)
    BY <1>1, <1>3, <1>4 DEF CrawlOK, page
  <2>3. ASSUME ByKey, "contracts" \in Request.roots, NEW i \in 1..Len(table), Matches(i),
               i > Position(Request.after), i <= seen
        PROVE  i \in got'
    <3>1. CASE i <= Position(after)
      BY <1>1, <2>3, <3>1 DEF CrawlOK
    <3>2. CASE i > Position(after)
      BY <1>1, <2>1, <2>3, <3>2 DEF Ahead, page
    <3> QED
      BY <1>1, <3>1, <3>2
  <2>4. CrawlOK'
    BY <1>1, <1>2, <2>1, <2>2, <2>3 DEF CrawlOK
  <2> QED
    BY <1>4, <2>1, <2>4
<1> QED
  BY <1>5, <1>6

LEMMA QueryRequired == Required(QueryFields) = Roots
  BY DEF Required, QueryFields, Roots

LEMMA RespondOK == ASSUME IInv, Respond PROVE IInv'
<1> DEFINE values == [f \in Request.roots |-> value[f]]
           data   == _Query(values)
<1>0. /\ running /\ (\A f \in Roots : root[f] \in {"off", "done"})
      /\ running' = FALSE /\ root' = [f \in Roots |-> "off"]
      /\ list' = NoList /\ ret' = NoList /\ value' = NoValue /\ errors' = {}
      /\ response' = <<[data |-> data, errors |-> errors]>>
      /\ UNCHANGED <<table, plan, seen, pageInfo>>
  BY DEF Respond
<1>1. TypeOK /\ ~finished /\ Request' = Request /\ Request.roots \subseteq Roots
  BY <1>0, Typed DEF IInv, Request
<1>2. \A f \in Request.roots :
        /\ root[f] = "done"
        /\ value[f] = Null <=> \/ <<f>> \in errors
                               \/ \E i \in DOMAIN ret[f] : <<f, i>> \in errors
  BY <1>0, <1>1 DEF IInv, RootOK
<1>3. /\ data = Null <=> \E f \in Request.roots : value[f] = Null
      /\ data # Null => data = <<values>> /\ data[1] = values
  <2>1. DOMAIN values = Request.roots /\ \A f \in Request.roots : values[f] = value[f]
    OBVIOUS
  <2> HIDE DEF values
  <2>2. Roots \cap DOMAIN values = Request.roots
    BY <1>1, <2>1
  <2>3. /\ data = Null <=> \E f \in Roots \cap DOMAIN values : values[f] = Null
        /\ data # Null => data = <<values>>
    BY FieldSetFacts, QueryRequired DEF _Query
  <2> QED
    BY <2>1, <2>2, <2>3, Single
<1>4. data = Null <=> errors # {}
  <2> HIDE DEF data, values
  <2>1. errors # {} <=> \E f \in Request.roots :
                          \/ <<f>> \in errors
                          \/ \E i \in DOMAIN ret[f] : <<f, i>> \in errors
    BY DEF IInv, ErrorsOK, ElementFails
  <2> QED
    BY <1>2, <1>3, <2>1
<1>5. ASSUME data # Null, "contracts" \in Request.roots
      PROVE  /\ data[1]["contracts"] = value["contracts"] /\ value["contracts"] # Null
             /\ value["contracts"][1].edges = <<ret["contracts"]>>
             /\ DOMAIN value["contracts"][1].edges[1] = DOMAIN list["contracts"]
             /\ value["contracts"][1].pageInfo[1].hasNextPage[1] = pageInfo.hasNextPage
             /\ value["contracts"][1].pageInfo[1].endCursor[1] = pageInfo.endCursor
  <2>1. data[1]["contracts"] = value["contracts"] /\ value["contracts"] # Null
    BY <1>3, <1>5
  <2>2. /\ DOMAIN ret["contracts"] = DOMAIN list["contracts"]
        /\ value["contracts"] = _ContractConnection(Request.sel, <<ret["contracts"]>>, pageInfo)
    BY <2>1 DEF IInv, ValueOK
  <2>3. /\ {"edges", "pageInfo"} \subseteq Request.sel.ContractConnection
        /\ {"hasNextPage", "endCursor"} \subseteq Request.sel.PageInfo
    BY <1>1, PlansAssumption DEF TypeOK, Request
  <2>4. <<ret["contracts"]>> # Null /\ <<ret["contracts"]>>[1] = ret["contracts"]
    BY Single DEF Null
  <2>5. /\ value["contracts"][1].edges = <<ret["contracts"]>>
        /\ value["contracts"][1].pageInfo[1].hasNextPage[1] = pageInfo.hasNextPage
        /\ value["contracts"][1].pageInfo[1].endCursor[1] = pageInfo.endCursor
    BY <2>2, <2>3, <2>4, ConnectionFacts
  <2> QED
    BY <2>1, <2>2, <2>4, <2>5
<1> HIDE DEF data, values
<1>6. CrawlOK' /\ got' \subseteq 1..Len(table) /\ finished' \in BOOLEAN
      /\ after' \in Seq(Cursors) /\ Len(after') <= 1
  <2>1. CASE data # Null /\ "contracts" \in Request.roots
    <3>1. /\ got' = got \cup DOMAIN list["contracts"] /\ finished' = ~pageInfo.hasNextPage
          /\ after' = IF pageInfo.hasNextPage THEN <<pageInfo.endCursor>> ELSE after
      BY <1>5, <2>1 DEF Respond, data, values
    <3>2. PageFacts(ByKey, DOMAIN list["contracts"], Ahead(seen), pageInfo)
      BY <1>5, <2>1 DEF IInv, PageOK
    <3>3. finished' \in BOOLEAN
      BY <3>1, <3>2 DEF PageFacts
    <3> QED
      BY <1>0, <1>1, <3>1, <3>2, <3>3, PageTaken
  <2>2. CASE ~(data # Null /\ "contracts" \in Request.roots)
    <3>1. finished' = (data # Null) /\ UNCHANGED <<got, after>>
      BY <2>2 DEF Respond, data, values
    <3>2. finished' => "contracts" \notin Request.roots
      BY <2>2, <3>1
    <3>3. ByKey' = ByKey /\ \A i : Matches(i)' <=> Matches(i)
      BY <1>0, <1>1 DEF ByKey, Matches, Row
    <3>4. CrawlOK'
      BY <1>0, <1>1, <3>1, <3>2, <3>3 DEF IInv, CrawlOK
    <3> QED
      BY <1>1, <3>1, <3>4 DEF TypeOK
  <2> QED
    BY <2>1, <2>2
<1>7. (\A f \in Roots : list[f] = <<>> /\ ret[f] = <<>> /\ value[f] = Null
                        /\ root[f] \in {"off", "resolve"})'
  BY <1>0 DEF NoList, NoValue
<1>8. Shape' /\ (running => ~finished)'
  BY <1>0 DEF Shape, NoList, NoValue
<1>9. /\ (\A f \in Roots : DOMAIN ret[f] \subseteq DOMAIN list[f])'
      /\ PageOK' /\ ValueOK'
  BY <1>7, <1>8, NoPage, PTL
<1>10. TypeOK'
  <2>1. root' \in [Roots -> {"off", "resolve", "marshal", "done"}] /\ Len(response') <= 1
    BY <1>0, Single
  <2> QED
    BY <1>0, <1>1, <1>6, <1>9, <2>1 DEF TypeOK
<1>11. \A f \in Roots : RootOK(f)'
  <2>1. DOMAIN <<>> = {}
    OBVIOUS
  <2>2. \A f \in Roots : root'[f] = "off"
    BY <1>0
  <2> QED
    BY <1>0, <1>7, <2>1, <2>2 DEF RootOK
<1>12. ErrorsOK'
  BY <1>0 DEF ErrorsOK
<1>13. ResponseOK'
  <2> DEFINE r == [data |-> data, errors |-> errors]
  <2>1. response' = <<r>> /\ Len(response') = 1 /\ response'[1] = r
    BY <1>0, Single
  <2>2. r.data = data /\ r.errors = errors
    OBVIOUS
  <2> HIDE DEF r
  <2>3. ASSUME NEW e \in r.errors, Len(e) = 2
        PROVE  e[1] = "contracts" /\ "updatedAt" \in Request.sel.Contract
    <3>1. PICK i : e = <<"contracts", i>> /\ ElementFails(i)
      BY <2>2, <2>3, Single DEF IInv, ErrorsOK
    <3> QED
      BY <3>1, Paths DEF ElementFails
  <2>4. ASSUME NEW d \in 1..Len(r.data), NEW f \in Request.roots
        PROVE  /\ r.data[d][f] # Null
               /\ f = "contracts" => r.data[d][f][1].edges # Null
    <3>1. data # Null
      BY <2>2, <2>4 DEF Null
    <3>2. d = 1 /\ r.data[d] = values
      <4>1. r.data = <<values>> /\ r.data[1] = values
        BY <1>3, <2>2, <3>1
      <4>2. Len(r.data) = 1
        BY <4>1, Single
      <4> QED
        BY <2>4, <4>1, <4>2
    <3>3. values[f] = value[f] /\ value[f] # Null
      BY <1>3, <3>1 DEF values
    <3>4. f = "contracts" => value[f][1].edges # Null
      BY <1>5, <3>1, Single DEF Null
    <3> QED
      BY <3>2, <3>3, <3>4
  <2>5. ASSUME NEW k \in 1..Len(response') PROVE response'[k] = r
    BY <2>1, <2>5
  <2>6. ResponseExplained'
    BY <1>1, <1>4, <2>2, <2>4, <2>5 DEF ResponseExplained
  <2> QED
    BY <1>1, <2>3, <2>5, <2>6 DEF ResponseOK
<1> QED
  BY <1>6, <1>8, <1>9, <1>10, <1>11, <1>12, <1>13 DEF IInv

LEMMA NextOK == IInv /\ [Next]_vars => IInv'
<1> SUFFICES ASSUME IInv, [Next]_vars PROVE IInv'
  OBVIOUS
<1>1. CASE \E row \in DOMAIN Rows : Insert(row)
  BY <1>1, WriteOK
<1>2. CASE \E i \in 1..Len(table), row \in DOMAIN Rows : Update(i, row)
  BY <1>2, WriteOK
<1>12. CASE \E p \in DOMAIN Plans : NewCrawl(p)
  BY <1>12, NewCrawlOK
<1>3. CASE Exec
  BY <1>3, ExecOK
<1>4. CASE \E f \in Roots : ArgumentsFail(f)
  BY <1>4, FieldFailsOK DEF ArgumentsFail
<1>5. CASE QueryFails
  BY <1>5, FieldFailsOK, RootsAre DEF QueryFails
<1>6. CASE ResolveContracts
  BY <1>6, ResolveContractsOK
<1>7. CASE ResolveNetworks
  BY <1>7, ResolveNetworksOK
<1>8. CASE \E f \in Roots : \E i \in DOMAIN list[f] : MarshalElement(f, i)
  BY <1>8, MarshalElementOK
<1>9. CASE \E f \in Roots : MarshalRoot(f)
  BY <1>9, MarshalRootOK
<1>10. CASE Respond
  BY <1>10, RespondOK
<1>11. CASE UNCHANGED vars
  <2> USE <1>11 DEF vars, client, request
  <2>1. Request' = Request /\ CrawlOK' /\ ByKey' = ByKey /\ (\A k : Ahead(k)' = Ahead(k))
    BY CrawlKept DEF IInv
  <2>2. ResponseOK'
    BY ResponseKept DEF IInv
  <2>3. TypeOK' /\ Shape' /\ (running => ~finished)'
    BY DEF IInv, TypeOK, Shape
  <2>4. PageOK' /\ ValueOK' /\ ErrorsOK'
    BY <2>1 DEF IInv, PageOK, ValueOK, ErrorsOK, ElementFails
  <2>5. \A f \in Roots : RootOK(f)'
    BY <2>1 DEF IInv, RootOK
  <2> QED
    BY <2>1, <2>2, <2>3, <2>4, <2>5 DEF IInv
<1> QED
  BY <1>1, <1>2, <1>3, <1>4, <1>5, <1>6, <1>7, <1>8, <1>9, <1>10, <1>11, <1>12
  DEF Next, RequestStep

----------------------------------------------------------------------------

\* What the query selects satisfies the filters of the schema, and for crawls
\* without a filter of addresses it selects all of that.
LEMMA WhereSatisfies ==
  ASSUME TypeOK, NEW i \in 1..Len(table)
  PROVE  /\ Matches(i) => Satisfies(Request.filter, Row(i))
         /\ Request.filter["address"] = {} =>
              (Satisfies(Request.filter, Row(i)) => Matches(i))
<1>1. Row(i)["address"] \notin Request.filter["network_id"]
  <2>1. plan \in DOMAIN Plans /\ table[i] \in DOMAIN Rows
    BY ElementOfSeq DEF TypeOK
  <2> QED
    BY <2>1, AddressAssumption DEF Request, Row
<1>2. "address" \in Key
  BY DEF Key
<1> QED
  BY <1>1, <1>2 DEF Matches, Satisfies

\* The inductive invariant holds in every reachable state.
THEOREM Invariant == Spec => []IInv
  BY InitOK, NextOK, PTL DEF Spec

\* Types: what a crawl brought are rows of the table, and only elements that a
\* resolver returned are marshalled.
THEOREM TypeCorrect == Spec => []TypeOK
<1>1. IInv => TypeOK
  BY DEF IInv
<1> QED
  BY <1>1, Invariant, PTL

\* A crawl brings only contracts within its filters and behind its first cursor,
\* and none of them twice, for tables and pages of any size.
THEOREM SoundCorrect == Spec => []CrawlSound
<1>1. ASSUME IInv PROVE CrawlSound
  <2>1. /\ TypeOK /\ CrawlOK /\ PageOK /\ got \subseteq 1..Len(table)
        /\ Position(after) \in Nat /\ Len(table) \in Nat
    BY <1>1, Typed DEF IInv, TypeOK
  <2>2. \A i \in got : Satisfies(Request.filter, Row(i)) /\ i > Position(Request.after)
    BY <2>1, WhereSatisfies DEF CrawlOK
  <2>3. ASSUME NEW i \in DOMAIN list["contracts"] PROVE i \notin got
    <3>1. DOMAIN <<>> = {}
      OBVIOUS
    <3>2. ~finished
      BY <1>1, <3>1, RootsAre DEF IInv, RootOK
    <3>3. i > Position(after) /\ i \in Nat
      BY <2>1 DEF PageOK, Ahead
    <3> QED
      BY <2>1, <3>2, <3>3 DEF CrawlOK
  <2> QED
    BY <2>2, <2>3 DEF CrawlSound
<1> QED
  BY <1>1, Invariant, PTL

\* A crawl that has ended has missed nothing that the table held when its last
\* page was read, and one under way nothing up to its cursor, whatever was
\* inserted or updated meanwhile and whichever requests failed.
THEOREM CompleteCorrect == Spec => []CrawlComplete
<1>1. ASSUME IInv PROVE CrawlComplete
  <2> SUFFICES ASSUME FilteredByBlock(Request), "contracts" \in Request.roots,
                      NEW i \in (Position(Request.after) + 1)..(IF finished THEN seen ELSE Position(after)),
                      Satisfies(Request.filter, Row(i))
               PROVE  i \in got
    BY DEF CrawlComplete
  <2>1. /\ TypeOK /\ CrawlOK /\ Position(after) \in Nat /\ Position(Request.after) \in Nat
        /\ Len(table) \in Nat /\ seen \in Nat /\ seen <= Len(table)
    BY <1>1, Typed DEF IInv
  <2>2. i \in 1..Len(table) /\ i > Position(Request.after)
        /\ i <= IF finished THEN seen ELSE Position(after)
    BY <2>1 DEF CrawlOK
  <2>3. Request.filter["address"] = {} /\ ByKey
    BY DEF FilteredByBlock, ByKey
  <2>4. Matches(i)
    BY <2>1, <2>2, <2>3, WhereSatisfies
  <2> QED
    BY <2>1, <2>2, <2>3, <2>4 DEF CrawlOK
<1> QED
  BY <1>1, Invariant, PTL

\* A response is all data or all errors, and no required field in it is null.
THEOREM ResponseCorrect == Spec => []ResponseExplained
<1>1. IInv => ResponseExplained
  BY DEF IInv, ResponseOK
<1> QED
  BY <1>1, Invariant, PTL

\* For every selection of fields the resolvers fill in what is marshalled,
\* except the updatedAt of a row that was never updated.
THEOREM MarshalCorrect == Spec => []OnlyUpdatedAtFails
<1>1. ASSUME IInv PROVE OnlyUpdatedAtFails
  <2>1. ASSUME NEW e \in errors, Len(e) = 2
        PROVE  /\ e[1] = "contracts" /\ "updatedAt" \in Request.sel.Contract
               /\ list["contracts"][e[2]].node.updatedAt = Null
    <3>1. PICK i : e = <<"contracts", i>> /\ ElementFails(i)
      BY <1>1, <2>1, Single DEF IInv, ErrorsOK
    <3> QED
      BY <3>1, Paths DEF ElementFails
  <2> QED
    BY <1>1, <2>1 DEF IInv, ResponseOK, OnlyUpdatedAtFails
<1> QED
  BY <1>1, Invariant, PTL
=============================================================================
