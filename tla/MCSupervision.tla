--------------------------- MODULE MCSupervision ---------------------------
(* Supervision for TLC: its sets are those of the program. *)
EXTENDS Supervision
=============================================================================
