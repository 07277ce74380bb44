------------------------ MODULE StateMachine_proofs ------------------------
(***************************************************************************)
(* Proofs of the safety properties of StateMachine for any states,         *)
(* transitions and number of goroutines.  The strengthening says what the  *)
(* runner knows while a handler runs (the current state is the one it      *)
(* handles) and that a goroutine in the middle of Trigger holds the mutex, *)
(* so that no one but the runner moves the machine.                        *)
(***************************************************************************)
EXTENDS StateMachine, TLAPS

\* What the runner knows after the top of the loop.
RunnerOK ==
  /\ pc \in {"handler", "next", "failed"} =>
       /\ handled = currentState
       /\ currentState \in Registered
       /\ currentState # FinalState
  /\ target[Runner] # NoTarget => pc \in {"next", "failed"}
  /\ pc = "failed" => target[Runner] = ErrorState
  /\ result = "nil" => pc = "out"

\* A goroutine that called transition inside Trigger holds the mutex.
TriggerOK == \A t \in Others : target[t] # NoTarget => mu = t

\* The history ends with the current state.
HistoryOK ==
  /\ history # <<>> => history[Len(history)] = currentState
  /\ LeftStatesHadHandlers

IInv == TypeOK /\ RunnerOK /\ TriggerOK /\ HistoryOK /\ NilMeansFinished

\* The runner is none of the other goroutines.
LEMMA RunnerApart == Runner \in Goroutines /\ Runner \notin Others /\ Free \notin Others
  BY OthersAssumption DEF Goroutines

\* The error state is one of the states of the machine.
LEMMA ErrorIsState == ErrorState \in AllStates /\ NoTarget \notin AllStates
  BY ErrorStateAssumption, StatesAssumption DEF AllStates

\* IInv holds initially.
LEMMA InitIInv == Init => IInv
<1> SUFFICES ASSUME Init PROVE IInv
  OBVIOUS
<1>1. history \in Seq(AllStates) /\ Len(history) = 1 /\ history[1] = InitialState
  BY DEF Init, AllStates
<1>2. TypeOK
  BY <1>1, RunnerApart DEF Init, TypeOK, AllStates
<1>3. RunnerOK /\ TriggerOK /\ NilMeansFinished
  BY RunnerApart DEF Init, RunnerOK, TriggerOK, NilMeansFinished, Goroutines
<1>4. HistoryOK
  BY <1>1 DEF Init, HistoryOK, LeftStatesHadHandlers
<1>5. QED
  BY <1>2, <1>3, <1>4 DEF IInv

\* A failure of the loop leaves the runner on its way to the error state, or
\* outside of Process with an error.
LEMMA FailureEffect ==
  ASSUME IInv, pc = "handler", Failure
  PROVE  /\ target' \in [Goroutines -> AllStates \cup {NoTarget}]
         /\ \A t \in Others : target'[t] = target[t]
         /\ \/ pc' = "failed" /\ target'[Runner] = ErrorState /\ result' = result
            \/ pc' = "out" /\ target' = target /\ result' = "error"
<1>1. CASE ErrorState # NoState
  BY <1>1, RunnerApart, ErrorIsState
     DEF Failure, RunnerCalls, IInv, TypeOK, Goroutines
<1>2. CASE ErrorState = NoState
  BY <1>2 DEF Failure, Return, IInv, TypeOK
<1>3. QED
  BY <1>1, <1>2

\* A step of the runner that leaves the machine alone and ends in one of the
\* positions that RunnerOK allows preserves IInv.
LEMMA HandlerStep ==
  ASSUME IInv, pc = "handler",
         target' \in [Goroutines -> AllStates \cup {NoTarget}],
         \A t \in Others : target'[t] = target[t],
         \/ pc' = "failed" /\ target'[Runner] = ErrorState /\ result' = result
         \/ pc' = "next" /\ result' = result
         \/ pc' = "out" /\ target' = target /\ result' = "error",
         UNCHANGED <<machine, paused, states, mu, cancelled, handled>>
  PROVE  IInv'
<1>1. TypeOK'
  BY DEF IInv, TypeOK, machine
<1>2. RunnerOK'
  BY DEF IInv, RunnerOK, machine
<1>3. TriggerOK'
  BY DEF IInv, TriggerOK
<1>4. HistoryOK'
  BY DEF IInv, HistoryOK, LeftStatesHadHandlers, machine
<1>5. NilMeansFinished'
  BY DEF IInv, RunnerOK, NilMeansFinished, machine
<1>6. QED
  BY <1>1, <1>2, <1>3, <1>4, <1>5 DEF IInv

\* A handler that fails, or returns any state, preserves IInv.
LEMMA HandlerOK ==
  ASSUME IInv, HandlerFails \/ \E s \in Answers : HandlerReturns(s)
  PROVE  IInv'
<1>1. CASE HandlerFails
  BY <1>1, FailureEffect, HandlerStep DEF HandlerFails
<1>2. ASSUME NEW s \in Answers, HandlerReturns(s)
      PROVE  IInv'
  <2>1. CASE Accepted(s)
    <3>1. RunnerCalls("next", s) /\ s \in AllStates
      BY <1>2, <2>1 DEF HandlerReturns, AllStates
    <3>2. /\ target' \in [Goroutines -> AllStates \cup {NoTarget}]
          /\ \A t \in Others : target'[t] = target[t]
      BY <3>1, RunnerApart DEF RunnerCalls, IInv, TypeOK, Goroutines
    <3>3. QED
      BY <1>2, <3>1, <3>2, HandlerStep DEF RunnerCalls, HandlerReturns
  <2>2. CASE ~Accepted(s)
    BY <1>2, <2>2, FailureEffect, HandlerStep DEF HandlerReturns
  <2>3. QED
    BY <2>1, <2>2
<1>3. QED
  BY <1>1, <1>2

\* The top of the loop and the look at the context preserve IInv.
LEMMA LookOK ==
  ASSUME IInv, Look \/ ContextDone \/ Call
  PROVE  IInv'
<1>1. CASE Look
  <2>1. target[Runner] = NoTarget /\ result # "nil"
    BY <1>1 DEF Look, IInv, RunnerOK
  <2>2. TypeOK'
    BY <1>1 DEF Look, Return, IInv, TypeOK, machine
  <2>3. RunnerOK'
    BY <1>1, <2>1 DEF Look, Return, IInv, TypeOK, RunnerOK, machine
  <2>4. TriggerOK' /\ HistoryOK'
    BY <1>1 DEF Look, IInv, TriggerOK, HistoryOK, LeftStatesHadHandlers, machine
  <2>5. NilMeansFinished'
    BY <1>1, <2>1 DEF Look, Return, NilMeansFinished, machine
  <2>6. QED
    BY <2>2, <2>3, <2>4, <2>5 DEF IInv
<1>2. CASE ContextDone
  BY <1>2, HandlerStep DEF ContextDone, Return, IInv, TypeOK
<1>3. CASE Call
  BY <1>3 DEF Call, IInv, TypeOK, RunnerOK, TriggerOK, HistoryOK,
     LeftStatesHadHandlers, NilMeansFinished, machine
<1>4. QED
  BY <1>1, <1>2, <1>3

\* Only the runner gets into transition: the mutex is held for the others.
LEMMA OnlyRunnerMoves ==
  ASSUME IInv, NEW g \in Goroutines, Transition(g)
  PROVE  /\ g = Runner
         /\ pc \in {"next", "failed"}
         /\ handled = currentState /\ currentState \in Registered
         /\ currentState # FinalState
  BY RunnerApart DEF IInv, RunnerOK, TriggerOK, Transition, Goroutines

\* The history stays a record of handled states when the runner moves on.
LEMMA HistoryGrows ==
  ASSUME HistoryOK, history \in Seq(AllStates), currentState \in Registered,
         NEW s \in AllStates, currentState' = s, history' = Append(history, s)
  PROVE  HistoryOK'
<1>1. /\ Len(history') = Len(history) + 1 /\ Len(history) \in Nat
      /\ history'[Len(history')] = s
      /\ \A i \in 1..Len(history) : history'[i] = history[i]
  OBVIOUS
<1>2. ASSUME NEW i \in 1..Len(history'), i < Len(history')
      PROVE  history'[i] \in Registered
  <2>1. i \in 1..Len(history) /\ history'[i] = history[i]
    BY <1>1, <1>2
  <2>2. CASE i < Len(history)
    BY <2>1, <2>2 DEF HistoryOK, LeftStatesHadHandlers
  <2>3. CASE i = Len(history)
    <3>1. history # <<>>
      BY <2>1, <2>3, <1>1
    <3>2. QED
      BY <2>1, <2>3, <3>1 DEF HistoryOK
  <2>4. QED
    BY <1>1, <2>1, <2>2, <2>3
<1>3. QED
  BY <1>1, <1>2 DEF HistoryOK, LeftStatesHadHandlers

\* A transition preserves IInv.
LEMMA TransitionOK ==
  ASSUME IInv, NEW g \in Goroutines, Transition(g)
  PROVE  IInv'
<1> DEFINE s == target[Runner]
<1>1. /\ g = Runner /\ pc \in {"next", "failed"}
      /\ handled = currentState /\ currentState \in Registered
      /\ currentState # FinalState
  BY OnlyRunnerMoves
<1>2. /\ s \in AllStates /\ currentState' = s /\ history' = Append(history, s)
      /\ target' = [target EXCEPT ![Runner] = NoTarget]
      /\ AfterTransition(s) /\ UNCHANGED <<paused, states, mu, cancelled>>
  BY <1>1, RunnerApart DEF Transition, IInv, TypeOK
<1>3. TypeOK'
  BY <1>2, RunnerApart DEF IInv, TypeOK, AfterTransition, Return
<1>4. RunnerOK' /\ NilMeansFinished'
  BY <1>1, <1>2, RunnerApart
     DEF IInv, TypeOK, RunnerOK, NilMeansFinished, AfterTransition, Return
<1>5. TriggerOK'
  BY <1>2, RunnerApart DEF IInv, TypeOK, TriggerOK, Goroutines
<1>6. HistoryOK'
  BY <1>1, <1>2, HistoryGrows DEF IInv, TypeOK
<1>7. QED
  BY <1>3, <1>4, <1>5, <1>6 DEF IInv

\* What other goroutines do preserves IInv.
LEMMA OthersOK ==
  ASSUME IInv, NEW t \in Others,
         (\E s \in Registered : Trigger(t, s)) \/ Pause(t) \/ Resume(t) \/ Destroy(t)
  PROVE  IInv'
<1>1. ASSUME NEW s \in Registered, Trigger(t, s)
      PROVE  IInv'
  <2>1. /\ s \in AllStates /\ mu = Free /\ mu' = t
        /\ target' = [target EXCEPT ![t] = s]
        /\ UNCHANGED <<machine, paused, states, cancelled, runner>>
    BY <1>1 DEF Trigger, AllStates
  <2>2. TypeOK'
    BY <2>1 DEF IInv, TypeOK, machine, runner, Goroutines
  <2>3. target'[Runner] = target[Runner]
    BY <2>1, RunnerApart DEF IInv, TypeOK
  <2>4. TriggerOK'
    BY <2>1, RunnerApart DEF IInv, TypeOK, TriggerOK, Goroutines
  <2>5. RunnerOK' /\ HistoryOK' /\ NilMeansFinished'
    BY <2>1, <2>3 DEF IInv, RunnerOK, HistoryOK, LeftStatesHadHandlers,
       NilMeansFinished, machine, runner
  <2>6. QED
    BY <2>2, <2>4, <2>5 DEF IInv
<1>2. CASE Pause(t) \/ Resume(t)
  BY <1>2 DEF Pause, Resume, IInv, TypeOK, RunnerOK, TriggerOK, HistoryOK,
     LeftStatesHadHandlers, NilMeansFinished, machine, runner
<1>3. CASE Destroy(t)
  <2>1. history' = <<>> /\ states' = {}
        /\ UNCHANGED <<currentState, paused, mu, cancelled, runner, target>>
    BY <1>3 DEF Destroy
  <2>2. HistoryOK'
    BY <2>1 DEF HistoryOK, LeftStatesHadHandlers
  <2>3. TypeOK'
    BY <2>1 DEF IInv, TypeOK, runner
  <2>4. RunnerOK' /\ TriggerOK' /\ NilMeansFinished'
    BY <2>1 DEF IInv, RunnerOK, TriggerOK, NilMeansFinished, runner
  <2>5. QED
    BY <2>2, <2>3, <2>4 DEF IInv
<1>4. QED
  BY <1>1, <1>2, <1>3

\* IInv is inductive.
LEMMA NextIInv == IInv /\ [Next]_vars => IInv'
<1> SUFFICES ASSUME IInv, [Next]_vars PROVE IInv'
  OBVIOUS
<1>1. CASE Call \/ Process
  BY <1>1, LookOK, HandlerOK DEF Process
<1>2. CASE Cancel
  BY <1>2 DEF Cancel, IInv, TypeOK, RunnerOK, TriggerOK, HistoryOK,
     LeftStatesHadHandlers, NilMeansFinished, machine, runner
<1>3. CASE \E g \in Goroutines : Transition(g)
  BY <1>3, TransitionOK
<1>4. CASE \E t \in Others : \/ \E s \in Registered : Trigger(t, s)
                             \/ Pause(t) \/ Resume(t) \/ Destroy(t)
  BY <1>4, OthersOK
<1>5. CASE UNCHANGED vars
  BY <1>5 DEF vars, IInv, TypeOK, RunnerOK, TriggerOK, HistoryOK,
     LeftStatesHadHandlers, NilMeansFinished, machine, runner
<1>6. QED
  BY <1>1, <1>2, <1>3, <1>4, <1>5 DEF Next

\* The machine and every goroutine keep their types, the handled state is
\* always a registered one.
THEOREM TypeCorrect == Spec => []TypeOK
<1>1. IInv => TypeOK
  BY DEF IInv
<1>2. QED
  BY <1>1, InitIInv, NextIInv, PTL DEF Spec

\* Process returns nil only in the final or the error state.
THEOREM NilCorrect == Spec => []NilMeansFinished
<1>1. IInv => NilMeansFinished
  BY DEF IInv
<1>2. QED
  BY <1>1, InitIInv, NextIInv, PTL DEF Spec

\* Every state the machine has left had a handler.
THEOREM HistoryCorrect == Spec => []LeftStatesHadHandlers
<1>1. IInv => LeftStatesHadHandlers
  BY DEF IInv, HistoryOK
<1>2. QED
  BY <1>1, InitIInv, NextIInv, PTL DEF Spec

----------------------------------------------------------------------------
(* A call of Trigger that finds a transition.                              *)

\* A goroutine whose Trigger called transition never gets back: it holds the
\* mutex that transition waits for.  From then on nothing touches the machine,
\* and Process does not return nil any more.
TriggerNeverReturns ==
  [][\A t \in Others : target[t] # NoTarget =>
       /\ target'[t] = target[t] /\ mu' = t
       /\ UNCHANGED <<machine, paused, states>>
       /\ result' = "nil" => result = "nil"]_vars

\* Trigger, once it found a transition, blocks itself and the machine for good,
\* whatever the runner and the other goroutines do.
THEOREM TriggerCorrect == Spec => TriggerNeverReturns
<1> DEFINE Stuck ==
      \A t \in Others : target[t] # NoTarget =>
        /\ target'[t] = target[t] /\ mu' = t
        /\ UNCHANGED <<machine, paused, states>>
        /\ result' = "nil" => result = "nil"
<1>1. IInv /\ [Next]_vars => [Stuck]_vars
  <2> SUFFICES ASSUME IInv, [Next]_vars, NEW t \in Others, target[t] # NoTarget
               PROVE  /\ target'[t] = target[t] /\ mu' = t
                      /\ UNCHANGED <<machine, paused, states>>
                      /\ result' = "nil" => result = "nil"
    OBVIOUS
  <2>1. mu = t /\ mu # Free /\ t # Runner
    BY RunnerApart DEF IInv, TriggerOK
  <2>2. CASE Call \/ ContextDone \/ Cancel \/ UNCHANGED vars
    BY <2>1, <2>2 DEF Call, ContextDone, Return, Cancel, vars, machine, runner
  <2>3. CASE HandlerFails \/ \E s \in Answers : HandlerReturns(s)
    BY <2>1, <2>3 DEF HandlerFails, HandlerReturns, Failure, RunnerCalls, Return,
       IInv, TypeOK, Goroutines, machine
  <2>4. QED
    BY <2>1, <2>2, <2>3 DEF Next, Process, Look, Transition, Trigger, Pause, Resume, Destroy
<1> HIDE DEF Stuck
<1>2. Spec => [][Stuck]_vars
  BY <1>1, InitIInv, NextIInv, PTL DEF Spec
<1> QED
  BY <1>2 DEF Stuck, TriggerNeverReturns
=============================================================================
