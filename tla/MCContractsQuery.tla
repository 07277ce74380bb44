-------------------------- MODULE MCContractsQuery --------------------------
(* A small instance of ContractsQuery for TLC. *)
EXTENDS ContractsQuery

Columnar(network, block, proxy) ==
  [network_id |-> network, address |-> "a", block_number |-> block,
   block_hash |-> block, transaction_hash |-> block, proxy |-> proxy, updated |-> FALSE]

\* One row is of a network that the service is not configured for, and one is
\* of another address.  One is written again after its block was mined
\* again, with another hash.
SomeRows ==
  [proxy |-> Columnar("n1", "b1", TRUE), plain |-> Columnar("n1", "b2", FALSE),
   foreign |-> Columnar("n2", "b1", FALSE),
   other |-> [Columnar("n1", "b2", FALSE) EXCEPT !.address = "b"],
   again |-> [Columnar("n1", "b1", TRUE) EXCEPT !.block_hash = "b3", !.updated = TRUE]]

TwoNetworks ==
  {[networkId |-> n, name |-> n, symbol |-> n, suspended |-> FALSE, maintenance |-> n = "n3"] :
     n \in {"n1", "n3"}}

NoFilter == [c \in Columns |-> {}]

AllNetworks ==
  [networkId |-> <<>>, name |-> <<>>, symbol |-> <<>>, suspended |-> <<>>, maintenance |-> <<FALSE>>]

Sel(fields) ==
  [ContractConnection |-> {"edges", "pageInfo"}, ContractEdge |-> {"node", "cursor"},
   Contract |-> fields, Network |-> {"networkId"}, PageInfo |-> {"hasNextPage", "endCursor"}]

Plan(filter, limit, start, fields, roots) ==
  [filter |-> filter, limit |-> limit, after |-> start, sel |-> Sel(fields),
   roots |-> roots, networks |-> AllNetworks]

\* Crawls with each filter and each limit; one from a cursor, one from text
\* that is none, some that ask for the networks or the network too, and one
\* for updatedAt.
SomePlans ==
  [all     |-> Plan(NoFilter, <<>>, <<>>, {"implementations"}, {"contracts"}),
   zero    |-> Plan(NoFilter, <<0>>, <<>>, {"implementations"}, {"contracts"}),
   ones    |-> Plan(NoFilter, <<1>>, <<>>, {"implementations"}, {"contracts"}),
   block   |-> Plan([NoFilter EXCEPT !["block_number"] = {"b1"}], <<1>>, <<>>, {"name"}, {"contracts"}),
   network |-> Plan([NoFilter EXCEPT !["network_id"] = {"n1"}], <<2>>, <<>>, {"network"}, {"contracts"}),
   address |-> Plan([NoFilter EXCEPT !["address"] = {"a"}], <<1>>, <<>>, {"name"}, {"contracts"}),
   both    |-> Plan([NoFilter EXCEPT !["network_id"] = {"n1"}, !["address"] = {"a"}], <<1>>, <<>>,
                    {"name"}, {"contracts"}),
   later   |-> Plan(NoFilter, <<1>>, <<EncodeCursor(1)>>, {"name"}, {"contracts"}),
   garbage |-> Plan(NoFilter, <<2>>, <<[text |-> "garbage", id |-> 0]>>, {"name"}, {"contracts"}),
   double  |-> Plan(NoFilter, <<2>>, <<>>, {"name", "network"}, Roots),
   dated   |-> Plan(NoFilter, <<2>>, <<>>, {"name", "updatedAt"}, {"contracts"}),
   hash    |-> Plan([NoFilter EXCEPT !["block_hash"] = {"b1", "b2"}], <<1>>, <<>>,
                    {"name"}, {"contracts"}),
   names   |-> Plan(NoFilter, <<>>, <<>>, {"name"}, {"networks"})]
=============================================================================
