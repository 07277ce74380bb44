-------------------------- MODULE MCUnpackRequest --------------------------
(* A small instance of UnpackRequest for TLC. *)
EXTENDS UnpackRequest

\* One contract is of a network that the options do not know.  HexToAddress
\* makes the zero address of a star.
AddressOfText ==
  [s \in Spellings |->
     CASE s = "star" -> "zero" [] s = "other" -> "c2" [] OTHER -> "c1"]

\* A star hears all answers of its network, any other text its own.
HearsOfText ==
  [s \in Spellings |-> IF s = "star" THEN Spellings \ {"other"} ELSE {s}]
=============================================================================
