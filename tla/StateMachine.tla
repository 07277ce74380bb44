---------------------------- MODULE StateMachine ----------------------------
(***************************************************************************)
(* The state machine of pkg/machine as a shared object: one goroutine, the *)
(* runner, calls Process, and others call Trigger, Pause, Resume and       *)
(* Destroy at any time.  A section of the code under the mutex is one step *)
(* when it cannot block; Trigger, which locks the mutex and then calls     *)
(* transition, which locks it again, takes two.  Handlers run without it.  *)
(***************************************************************************)
EXTENDS Naturals, Sequences

CONSTANTS Registered,    \* states registered with a handler
          InitialState,  \* argument of NewStateMachine
          FinalState,    \* RegisterFinalState
          ErrorState,    \* RegisterErrorState, or NoState
          Answers,       \* states that a handler may return
          Transitions,   \* pairs of RegisterTransition, without the actions
          Others,        \* goroutines other than the runner
          MaxHistory     \* bound on the number of transitions

NoState  == ""
NoTarget == "no target"
Free     == "free"
Runner   == "runner"

AllStates == Registered \cup Answers \cup {InitialState, FinalState, NoState}

ASSUME ErrorStateAssumption == ErrorState \in Registered \cup {NoState}
ASSUME StatesAssumption == NoTarget \notin AllStates /\ NoState \notin Registered
ASSUME TransitionsAssumption == Transitions \subseteq Registered \X Registered
ASSUME OthersAssumption == Others \cap {Free, Runner} = {}
ASSUME MaxHistoryAssumption == MaxHistory \in Nat

Goroutines == Others \cup {Runner}

VARIABLES currentState, history, paused,
          states,     \* keys of the map of handlers, none after Destroy
          mu,         \* holder of the mutex
          cancelled,  \* the context is done
          pc,         \* runner: where it is in Process
          handled,    \* runner: the state whose handler it took last
          result,     \* runner: what the last call of Process returned
          target      \* argument of each goroutine's call of transition

machine == <<currentState, history>>
runner  == <<pc, handled, result>>
vars    == <<machine, paused, states, mu, cancelled, runner, target>>

TypeOK ==
  /\ currentState \in AllStates
  /\ history \in Seq(AllStates)
  /\ paused \in BOOLEAN /\ cancelled \in BOOLEAN
  /\ states \in {Registered, {}}
  /\ mu \in Others \cup {Free}
  /\ pc \in {"out", "top", "handler", "next", "failed"}
  /\ handled \in Registered \cup {NoState}
  /\ result \in {"none", "nil", "error"}
  /\ target \in [Goroutines -> AllStates \cup {NoTarget}]

\* NewStateMachine and the registrations.
Init ==
  /\ currentState = InitialState /\ history = <<InitialState>>
  /\ paused = FALSE /\ states = Registered /\ mu = Free /\ cancelled = FALSE
  /\ pc = "out" /\ handled = NoState /\ result = "none"
  /\ target = [g \in Goroutines |-> NoTarget]

----------------------------------------------------------------------------
(* Process.                                                                *)

Return(r) == pc' = "out" /\ result' = r

\* The runner goes on to call transition(s), after a handler or an error.
RunnerCalls(where, s) ==
  /\ pc' = where
  /\ target' = [target EXCEPT ![Runner] = s]
  /\ UNCHANGED result

\* Process is called, for the first time or again.
Call ==
  /\ pc = "out"
  /\ pc' = "top" /\ result' = "none"
  /\ UNCHANGED <<machine, paused, states, mu, cancelled, handled, target>>

\* Mutant: the loop looks neither for the final state nor for a handler.
LookBlind ==
  /\ pc = "top" /\ mu = Free
  /\ IF paused THEN Return("error") /\ UNCHANGED handled
               ELSE pc' = "handler" /\ handled' = currentState /\ UNCHANGED result
  /\ UNCHANGED <<machine, paused, states, mu, cancelled, target>>

\* Mutant: a state without handler ends the loop without an error.
LookEndsQuietly ==
  /\ pc = "top" /\ mu = Free
  /\ IF paused \/ currentState = FinalState \/ currentState \notin states
       THEN Return(IF paused THEN "error" ELSE "nil") /\ UNCHANGED handled
       ELSE pc' = "handler" /\ handled' = currentState /\ UNCHANGED result
  /\ UNCHANGED <<machine, paused, states, mu, cancelled, target>>

\* The top of the loop, under the mutex.
Look ==
  /\ pc = "top" /\ mu = Free
  /\ IF paused \/ currentState = FinalState \/ currentState \notin states
       THEN /\ Return(IF ~paused /\ currentState = FinalState THEN "nil" ELSE "error")
            /\ UNCHANGED handled
       ELSE pc' = "handler" /\ handled' = currentState /\ UNCHANGED result
  /\ UNCHANGED <<machine, paused, states, mu, cancelled, target>>

\* The context is done when the loop looks at it.
ContextDone ==
  /\ pc = "handler" /\ cancelled
  /\ Return("error")
  /\ UNCHANGED <<machine, paused, states, mu, cancelled, handled, target>>

\* An error in the loop: the error state, if there is one, takes it.
Failure ==
  IF ErrorState # NoState THEN RunnerCalls("failed", ErrorState)
                          ELSE Return("error") /\ UNCHANGED target

\* Enter, Process or Exit of the handler fails.
HandlerFails ==
  /\ pc = "handler" /\ Len(history) < MaxHistory
  /\ Failure
  /\ UNCHANGED <<machine, paused, states, mu, cancelled, handled>>

\* A state that the loop accepts from a handler.  The map of handlers is read
\* without the mutex.
Accepted(s) == s \in states \cup {FinalState, NoState}

\* The handler returns state s.
HandlerReturns(s) ==
  /\ pc = "handler" /\ Len(history) < MaxHistory
  /\ IF Accepted(s) THEN RunnerCalls("next", s) ELSE Failure
  /\ UNCHANGED <<machine, paused, states, mu, cancelled, handled>>

\* What the runner does when its call of transition(s) is back.
AfterTransition(s) ==
  IF pc = "failed" \/ s = FinalState THEN Return("nil") /\ UNCHANGED handled
                                     ELSE pc' = "top" /\ UNCHANGED <<handled, result>>

\* The body of transition, called by goroutine g: it waits for the mutex,
\* whoever holds it.
Transition(g) ==
  /\ target[g] # NoTarget
  /\ mu = Free
  /\ currentState' = target[g]
  /\ history' = Append(history, target[g])
  /\ target' = [target EXCEPT ![g] = NoTarget]
  /\ IF g = Runner THEN AfterTransition(target[g]) ELSE UNCHANGED runner
  /\ UNCHANGED <<paused, states, mu, cancelled>>

----------------------------------------------------------------------------
(* The other operations.                                                   *)

\* Trigger finds a transition to s, and calls transition with the mutex
\* locked.  (Paused, or without a transition, it only returns an error.)
Trigger(t, s) ==
  /\ mu = Free /\ target[t] = NoTarget
  /\ ~paused
  /\ states # {} /\ <<currentState, s>> \in Transitions
  /\ target' = [target EXCEPT ![t] = s]
  /\ mu' = t
  /\ UNCHANGED <<machine, paused, states, cancelled, runner>>

Pause(t) ==
  /\ mu = Free /\ target[t] = NoTarget
  /\ paused' = TRUE
  /\ UNCHANGED <<machine, states, mu, cancelled, runner, target>>

Resume(t) ==
  /\ mu = Free /\ target[t] = NoTarget
  /\ paused' = FALSE
  /\ UNCHANGED <<machine, states, mu, cancelled, runner, target>>

\* Destroy forgets handlers, transitions and history; the current state stays.
Destroy(t) ==
  /\ mu = Free /\ target[t] = NoTarget
  /\ states' = {} /\ history' = <<>>
  /\ UNCHANGED <<currentState, paused, mu, cancelled, runner, target>>

\* The context of the machine is cancelled.
Cancel ==
  /\ ~cancelled /\ cancelled' = TRUE
  /\ UNCHANGED <<machine, paused, states, mu, runner, target>>

----------------------------------------------------------------------------

Process ==
  \/ Look \/ ContextDone \/ HandlerFails
  \/ \E s \in Answers : HandlerReturns(s)

Next ==
  \/ Call \/ Process \/ Cancel
  \/ \E g \in Goroutines : Transition(g)
  \/ \E t \in Others : \/ \E s \in Registered : Trigger(t, s)
                       \/ Pause(t) \/ Resume(t) \/ Destroy(t)

Spec == Init /\ [][Next]_vars

----------------------------------------------------------------------------
(* Properties.                                                             *)

\* When Process returned nil, the machine is in the final or in the error
\* state, whatever other goroutines did to it since.
NilMeansFinished ==
  result = "nil" => currentState \in {FinalState, ErrorState}

\* Every state that the machine has left had a handler: an unregistered state
\* that a handler answers never gets past the end of the history.
LeftStatesHadHandlers ==
  \A i \in 1..Len(history) : i < Len(history) => history[i] \in Registered
=============================================================================
