----------------------------- MODULE MCHeadSync -----------------------------
(* A small instance of HeadSync for TLC. *)
EXTENDS HeadSync
=============================================================================
