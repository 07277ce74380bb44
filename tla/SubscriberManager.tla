------------------------- MODULE SubscriberManager -------------------------
(***************************************************************************)
(* The subscriber manager (pkg/subscribers/manager.go) under concurrent    *)
(* callers.  Register and UnRegister look at the map under one lock and    *)
(* change it under another; Subscribe and Close go through it without any. *)
(* Close calls Stop of every active subscriber in a goroutine and then     *)
(* waits for the context of its group, which ends when a Stop fails or the *)
(* context of the manager is done.  How failures travel up from Subscribe  *)
(* is in Supervision, whose names the ones here leave free: one module of  *)
(* proofs extends both.                                                    *)
(*                                                                         *)
(* Active is the zero value of the status.  Only Start of the archive      *)
(* subscriber writes it, not active when it returns; so every other        *)
(* subscriber is active, whether it runs or not.  No Stop returns an       *)
(* error.  That of the archive subscriber closes a channel: the second     *)
(* time that panics, in a goroutine of the group, and ends the process.    *)
(***************************************************************************)
CONSTANTS Callers,    \* goroutines that call the manager
          Names,      \* names of subscribers
          Instances,  \* subscribers that they register
          Archives,   \* the archive subscribers among them
          NoSub       \* nothing is registered

ASSUME ArchivesAssumption == Archives \subseteq Instances
ASSUME NoSubAssumption == NoSub \notin Instances

VARIABLES subs,       \* what is registered under each name
          pc,         \* where each caller is
          call,       \* name and subscriber (NoSub to remove one) that it will write
          toStop,     \* names whose subscriber its Close has still to stop
          closing,    \* what was registered when its Close went through the map
          stopped,    \* subscribers whose Stop was called
          starting,   \* names and subscribers that its Subscribe has still to start
          running,    \* calls of Start that have not returned
          notActive,  \* archive subscribers whose status is StatusNotActive
          contextDone, \* the context of the manager is done
          crashed,    \* how the process ended: not, by a panic, by a data race
          since,      \* history: callers whose name was written since they looked
          live,       \* history: what ran when its Close went through the map
          twice       \* history: subscribers that ran twice at a time

caller == <<pc, call>>
close  == <<toStop, closing, stopped, live>>
starts == <<starting, running, notActive, twice>>
managerVars == <<subs, caller, close, starts, contextDone, crashed, since>>

ManagerTypeOK ==
  /\ subs \in [Names -> Instances \cup {NoSub}]
  /\ pc \in [Callers -> {"idle", "register", "unregister", "subscribe", "starting",
                         "iterate", "wait", "closed"}]
  /\ call \in [Callers -> (Names \X (Instances \cup {NoSub})) \cup {<<>>}]
  /\ \A c \in Callers : pc[c] \in {"register", "unregister"} => call[c] # <<>>
  /\ toStop \in [Callers -> SUBSET Names]
  /\ closing \in [Callers -> [Names -> Instances \cup {NoSub}]]
  /\ \A c \in Callers : \A n \in toStop[c] : closing[c][n] # NoSub
  /\ stopped \subseteq Instances
  /\ starting \in [Callers -> SUBSET (Names \X Instances)]
  /\ running \subseteq Callers \X Names \X Instances
  /\ notActive \subseteq Archives /\ twice \subseteq Instances
  /\ live \in [Callers -> SUBSET Instances]
  /\ contextDone \in BOOLEAN /\ crashed \in {"no", "panic", "race"}
  /\ since \subseteq Callers

Empty == [n \in Names |-> NoSub]

ManagerInit ==
  /\ subs = Empty
  /\ pc = [c \in Callers |-> "idle"]
  /\ call = [c \in Callers |-> <<>>]
  /\ toStop = [c \in Callers |-> {}] /\ closing = [c \in Callers |-> Empty]
  /\ stopped = {} /\ contextDone = FALSE /\ crashed = "no" /\ since = {}
  /\ starting = [c \in Callers |-> {}] /\ running = {} /\ notActive = {}
  /\ live = [c \in Callers |-> {}] /\ twice = {}

----------------------------------------------------------------------------
(* Register and UnRegister.                                                *)

Goto(c, to) == pc' = [pc EXCEPT ![c] = to]

\* Exists answers what the call goes on with: no name twice, none removed twice.
Look(n, s) == (subs[n] = NoSub) <=> (s # NoSub)

\* A caller of Register, or of UnRegister for NoSub, begins.  It returns an error
\* at once when Exists says so.
Begin(c, n, s) ==
  /\ crashed = "no" /\ pc[c] = "idle"
  /\ Look(n, s)
  /\ Goto(c, IF s = NoSub THEN "unregister" ELSE "register")
  /\ call' = [call EXCEPT ![c] = <<n, s>>]
  /\ since' = since \ {c}
  /\ UNCHANGED <<subs, close, starts, contextDone, crashed>>

\* Callers that are between look and write for name n.
Between(n) == {d \in Callers : call[d] # <<>> /\ call[d][1] = n}

\* The map is written under the lock.  A Subscribe or Close that goes through it
\* meanwhile holds no lock: the runtime may end the process.
Write(c) ==
  /\ crashed = "no"
  /\ subs' = [subs EXCEPT ![call[c][1]] = call[c][2]]
  /\ Goto(c, "idle")
  /\ call' = [call EXCEPT ![c] = <<>>]
  /\ since' = (since \cup Between(call[c][1])) \ {c}
  /\ \/ UNCHANGED crashed
     \/ (\E d \in Callers : pc[d] \in {"subscribe", "iterate"}) /\ crashed' = "race"
  /\ UNCHANGED <<close, starts, contextDone>>

Register(c) == pc[c] = "register" /\ Write(c)

UnRegister(c) == pc[c] = "unregister" /\ Write(c)

----------------------------------------------------------------------------
(* Subscribe.                                                              *)

Subscribe(c) ==
  /\ crashed = "no" /\ pc[c] = "idle"
  /\ Goto(c, "subscribe")
  /\ UNCHANGED <<subs, call, close, starts, contextDone, crashed, since>>

\* A goroutine is started for each of the names passed that is registered, or,
\* without names, for all.
StartGoroutines(c, names) ==
  /\ crashed = "no" /\ pc[c] = "subscribe"
  /\ starting' = [starting EXCEPT ![c] = {p \in names \X Instances : subs[p[1]] = p[2]}]
  /\ Goto(c, "starting")
  /\ UNCHANGED <<subs, call, close, running, notActive, twice,
                 contextDone, crashed, since>>

\* The context of the group is done, also because another member failed, or
\* Start returns before it has begun: disabled, stopped before, or an error.
StartsNothing(c, p) ==
  /\ crashed = "no" /\ p \in starting[c]
  /\ starting' = [starting EXCEPT ![c] = @ \ {p}]
  /\ UNCHANGED <<subs, caller, close, running, notActive, twice,
                 contextDone, crashed, since>>


\* Start runs.  An archive subscriber does not once its channel is closed, and
\* sets its status to active.
Start(c, p) ==
  /\ crashed = "no" /\ p \in starting[c]
  /\ p[2] \notin Archives \cap stopped
  /\ starting' = [starting EXCEPT ![c] = @ \ {p}]
  /\ running' = running \cup {<<c, p[1], p[2]>>}
  /\ notActive' = notActive \ {p[2]}
  /\ twice' = twice \cup {s \in {p[2]} : \E q \in running : q[3] = s}
  /\ UNCHANGED <<subs, caller, close, contextDone, crashed, since>>

\* A Start returns, whatever the reason; the archive subscriber is then no
\* longer active, even when another Start of it is running.
RunEnds(q) ==
  /\ crashed = "no" /\ q \in running
  /\ running' = running \ {q}
  /\ notActive' = notActive \cup ({q[3]} \cap Archives)
  /\ UNCHANGED <<subs, caller, close, starting, twice, contextDone, crashed, since>>

\* Subscribe has waited for its goroutines.
Subscribed(c) ==
  /\ crashed = "no" /\ pc[c] = "starting"
  /\ starting[c] = {} /\ \A q \in running : q[1] # c
  /\ Goto(c, "idle")
  /\ UNCHANGED <<subs, call, close, starts, contextDone, crashed, since>>

----------------------------------------------------------------------------
(* Close.                                                                  *)

Close(c) ==
  /\ crashed = "no" /\ pc[c] = "idle"
  /\ Goto(c, "iterate")
  /\ UNCHANGED <<subs, call, close, starts, contextDone, crashed, since>>

\* Status() == StatusActive, for a subscriber that was never started too.
Active(s) == s # NoSub /\ s \notin notActive

\* The goroutines that stop the active subscribers are started.
StartStops(c) ==
  /\ crashed = "no" /\ pc[c] = "iterate"
  /\ closing' = [closing EXCEPT ![c] = subs]
  /\ toStop' = [toStop EXCEPT ![c] = {n \in Names : Active(subs[n])}]
  /\ live' = [live EXCEPT ![c] = {subs[n] : n \in Names} \cap {q[3] : q \in running}]
  /\ Goto(c, "wait")
  /\ UNCHANGED <<subs, call, stopped, starts, contextDone, crashed, since>>

\* Mutant: a Stop is tried again until Close returns.
StopAgain(c, n) ==
  /\ crashed = "no" /\ n \in toStop[c]
  /\ stopped' = stopped \cup {closing[c][n]}
  /\ crashed' = IF closing[c][n] \in stopped \cap Archives THEN "panic" ELSE crashed
  /\ UNCHANGED <<subs, caller, toStop, closing, live, starts, contextDone, since>>

\* A goroutine of the group calls Stop, whether or not Close still waits.
Stop(c, n) ==
  /\ crashed = "no" /\ n \in toStop[c]
  /\ toStop' = [toStop EXCEPT ![c] = @ \ {n}]
  /\ stopped' = stopped \cup {closing[c][n]}
  /\ crashed' = IF closing[c][n] \in stopped \cap Archives THEN "panic" ELSE crashed
  /\ UNCHANGED <<subs, caller, closing, live, starts, contextDone, since>>

\* Mutant: Close looks at the context only when a Stop was called.
CloseReturnsAfterStop(c) ==
  /\ crashed = "no" /\ pc[c] = "wait" /\ contextDone /\ stopped # {}
  /\ Goto(c, "closed")
  /\ UNCHANGED <<subs, call, close, starts, contextDone, crashed, since>>

\* Close sees that the context of its group is done and returns.  It is never
\* done because all the stops have returned.
CloseReturns(c) ==
  /\ crashed = "no" /\ pc[c] = "wait" /\ contextDone
  /\ Goto(c, "closed")
  /\ UNCHANGED <<subs, call, close, starts, contextDone, crashed, since>>

ContextDone ==
  /\ crashed = "no" /\ ~contextDone /\ contextDone' = TRUE
  /\ UNCHANGED <<subs, caller, close, starts, crashed, since>>

----------------------------------------------------------------------------

ManagerNext ==
  \/ \E c \in Callers :
       \/ \E n \in Names, s \in Instances \cup {NoSub} : Begin(c, n, s)
       \/ Register(c) \/ UnRegister(c)
       \/ Subscribe(c) \/ Subscribed(c)
       \/ \E names \in SUBSET Names : StartGoroutines(c, names)
       \/ \E p \in starting[c] : StartsNothing(c, p) \/ Start(c, p)
       \/ Close(c) \/ StartStops(c) \/ CloseReturns(c)
       \/ \E n \in Names : Stop(c, n)
  \/ \E q \in running : RunEnds(q)
  \/ ContextDone

ManagerSpec == ManagerInit /\ [][ManagerNext]_managerVars

\* What a call has begun goes on; nobody has to call or to cancel.
FairManagerSpec ==
  ManagerSpec /\ \A c \in Callers :
    /\ WF_managerVars(StartStops(c)) /\ WF_managerVars(CloseReturns(c))
    /\ \A n \in Names : WF_managerVars(Stop(c, n))

----------------------------------------------------------------------------
(* Properties.                                                             *)

\* The process panics only when two Stops of one archive subscriber are
\* called: by two Close calls, or because two names stand for it.
PanicNeedsTwoStops ==
  crashed = "panic" =>
    \E a \in Archives, c, d \in Callers, m, n \in Names :
      (c # d \/ m # n) /\ closing[c][m] = a /\ closing[d][n] = a


\* Once the context is done every Close returns, unless the process ends.
CancelledCloseReturns ==
  \A c \in Callers : contextDone /\ pc[c] \in {"iterate", "wait"} ~> pc[c] = "closed" \/ crashed # "no"

----------------------------------------------------------------------------
(* What the comments of Manager say and the code does not do: the run that *)
(* checks it finds a counterexample.                                       *)

\* "Operations on Manager are safe for concurrent use", and Register "returns an
\* error if a subscriber with the same name already exists": a subscriber stays
\* registered under its name until UnRegister.
RegisteredIsKept ==
  [][\A n \in Names : NoSub \notin {subs[n], subs'[n]} => subs'[n] = subs[n]]_managerVars
=============================================================================
