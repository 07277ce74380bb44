---------------------------- MODULE MCUnpacker ----------------------------
(* Small instances of Unpacker for TLC. *)
EXTENDS Unpacker, TLC

\* Jobs and contracts are interchangeable.
Symmetric == Permutations(Jobs) \cup Permutations(Contracts)

\* Every caller of the repository enters in the discover state.
EnterAtDiscover == {DiscoverState}

\* Every state that has a handler, as the signature of Unpack allows.
EnterAnywhere == RegisteredStates
=============================================================================
