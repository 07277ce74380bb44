SPECIFICATION Spec
CONSTANTS
  Registered <- ThreeStates
  InitialState = "a"
  FinalState = "done"
  ErrorState = "error"
  Answers <- AnyAnswer
  Transitions <- OneTransition
  Others = {"t", "u"}
  MaxHistory = 5
INVARIANTS
  NilMeansFinished
  LeftStatesHadHandlers
CHECK_DEADLOCK FALSE
