-------------------------- MODULE MCStateMachine --------------------------
(* Small instances of StateMachine for TLC. *)
EXTENDS StateMachine

\* Two states and an error state with handlers, and a state without one.
ThreeStates == {"a", "b", "error"}

\* Handlers answer any state, the empty one and an unknown one included.
AnyAnswer == {"a", "b", "done", "unknown", NoState}

\* One transition that Trigger may take.
OneTransition == {<<"a", "b">>}
=============================================================================
