------------------------ MODULE MCSubscriberManager ------------------------
(* A small instance of SubscriberManager for TLC. *)
EXTENDS SubscriberManager
=============================================================================
