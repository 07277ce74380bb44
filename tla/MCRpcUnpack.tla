---------------------------- MODULE MCRpcUnpack ----------------------------
(* A small instance of RpcUnpack for TLC. *)
EXTENDS RpcUnpack

\* Two spellings of one contract, and text that is no address.
OneContract == [a \in {"lower", "checksum"} |-> "c1"]

SomeRequests == {<<>>, <<"lower", "checksum">>, <<"lower", "junk">>}
=============================================================================
