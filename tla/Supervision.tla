---------------------------- MODULE Supervision ----------------------------
(***************************************************************************)
(* Who waits for whom in the syncer service: Service.Start runs an error   *)
(* group of the subscriber manager, the servers (gRPC, pprof) and the      *)
(* state monitor, and Manager.Subscribe runs an error group of the head,   *)
(* archive and unpacker subscribers.  A group waits for all its members,   *)
(* keeps the first error and cancels its own context then.  The            *)
(* subscribers look at the context of the service and not at the group's.  *)
(***************************************************************************)

CONSTANT Cancellable   \* whether the context of the service may be cancelled

Subscribers == {"head", "archive", "unpacker"}
Servers     == {"rpc", "pprof"}

ASSUME CancellableAssumption == Cancellable \in BOOLEAN

VARIABLES enabled,    \* subscribers enabled in the options
          cancelled,  \* the context of the service is done
          sub,        \* where each subscriber is in Start
          server,     \* where each server is in Start, "off" if not enabled
          monitor,    \* where State.Monitor is
          subscribe,  \* where Manager.Subscribe is
          start       \* where Service.Start is

vars == <<enabled, cancelled, sub, server, monitor, subscribe, start>>

\* A function that runs, or returned without or with an error.
Outcomes == {"running", "nil", "error"}

TypeOK ==
  /\ enabled \subseteq Subscribers
  /\ cancelled \in BOOLEAN
  /\ sub \in [Subscribers -> Outcomes \cup {"new"}]
  /\ server \in [Servers -> {"off", "running", "error"}]
  /\ monitor \in {"running", "nil"}
  /\ subscribe \in Outcomes
  /\ start \in Outcomes

\* InjectSubscribers registered all three, the groups have their members, and
\* the options enable any of them.
Init ==
  /\ enabled \in SUBSET Subscribers
  /\ cancelled = FALSE
  /\ sub = [s \in Subscribers |-> "new"]
  /\ server \in [Servers -> {"off", "running"}]
  /\ monitor = "running" /\ subscribe = "running" /\ start = "running"

----------------------------------------------------------------------------
(* The subscribers, in the group of Manager.Subscribe.                     *)

\* The context of the group of subscribers is done.
SubscribersDone == cancelled \/ \E s \in Subscribers : sub[s] = "error"

\* Mutant: the group of the service is not derived from its context.
ServiceDoneDetached ==
  subscribe = "error" \/ \E s \in Servers : server[s] = "error"

\* The context of the group of the service is done.
ServiceDone ==
  cancelled \/ subscribe = "error" \/ \E s \in Servers : server[s] = "error"

SubReturns(s, r) ==
  /\ sub' = [sub EXCEPT ![s] = r]
  /\ UNCHANGED <<enabled, cancelled, server, monitor, subscribe, start>>

\* The closure that Subscribe starts: it looks at the context of the group
\* once, and a disabled subscriber returns at once.
StartSubscriber(s) ==
  /\ sub[s] = "new"
  /\ SubReturns(s, IF SubscribersDone THEN "error"
                   ELSE IF s \in enabled THEN "running" ELSE "nil")

\* A subscriber fails: no client, network or head block, the state cannot be
\* written, a subscription breaks or cannot be made or given up.
SubscriberFails(s) ==
  /\ sub[s] = "running"
  /\ SubReturns(s, "error")

\* The loop of the head subscriber sees that the context is done.
HeadEnds ==
  /\ sub["head"] = "running" /\ cancelled
  /\ SubReturns("head", "nil")

\* The archive subscriber reaches the end of its range.
ArchiveEnds ==
  /\ sub["archive"] = "running"
  /\ SubReturns("archive", "nil")

\* The unpacker subscriber sees that the context is done and unsubscribes.
UnpackerEnds ==
  /\ sub["unpacker"] = "running" /\ cancelled
  /\ SubReturns("unpacker", "nil")

\* Mutant: Subscribe returns the first error without waiting for the others.
SubscribeReturnsEarly ==
  /\ subscribe = "running"
  /\ \/ \E s \in Subscribers : sub[s] = "error"
     \/ \A s \in Subscribers : sub[s] = "nil"
  /\ subscribe' = IF \E s \in Subscribers : sub[s] = "error" THEN "error" ELSE "nil"
  /\ UNCHANGED <<enabled, cancelled, sub, server, monitor, start>>

\* Mutant: Subscribe waits and drops the error of the group.
SubscribeReturnsNil ==
  /\ subscribe = "running"
  /\ \A s \in Subscribers : sub[s] \in {"nil", "error"}
  /\ subscribe' = "nil"
  /\ UNCHANGED <<enabled, cancelled, sub, server, monitor, start>>

\* Manager.Subscribe waits for the group.
SubscribeReturns ==
  /\ subscribe = "running"
  /\ \A s \in Subscribers : sub[s] \in {"nil", "error"}
  /\ subscribe' = IF \E s \in Subscribers : sub[s] = "error" THEN "error" ELSE "nil"
  /\ UNCHANGED <<enabled, cancelled, sub, server, monitor, start>>

----------------------------------------------------------------------------
(* The group of Service.Start.                                             *)

\* A server cannot listen or breaks off.  It never looks at the context:
\* Serve and ListenAndServe only return with an error.
ServerFails(s) ==
  /\ server[s] = "running"
  /\ server' = [server EXCEPT ![s] = "error"]
  /\ UNCHANGED <<enabled, cancelled, sub, monitor, subscribe, start>>

\* State.Monitor sees that the context of the group is done.
MonitorEnds ==
  /\ monitor = "running" /\ ServiceDone
  /\ monitor' = "nil"
  /\ UNCHANGED <<enabled, cancelled, sub, server, subscribe, start>>

\* Service.Start waits for the group.
StartReturns ==
  /\ start = "running"
  /\ subscribe # "running" /\ monitor = "nil"
  /\ \A s \in Servers : server[s] # "running"
  /\ start' = IF subscribe = "error" \/ \E s \in Servers : server[s] = "error"
              THEN "error" ELSE "nil"
  /\ UNCHANGED <<enabled, cancelled, sub, server, monitor, subscribe>>

\* The owner of the context cancels it.
Cancel ==
  /\ Cancellable /\ ~cancelled
  /\ cancelled' = TRUE
  /\ UNCHANGED <<enabled, sub, server, monitor, subscribe, start>>

----------------------------------------------------------------------------

Next ==
  \/ \E s \in Subscribers : StartSubscriber(s) \/ SubscriberFails(s)
  \/ HeadEnds \/ ArchiveEnds \/ UnpackerEnds
  \/ SubscribeReturns
  \/ \E s \in Servers : ServerFails(s)
  \/ MonitorEnds \/ StartReturns
  \/ Cancel

Spec == Init /\ [][Next]_vars

\* The scheduler runs what can run; the archive range is finite, and with the
\* context done every fetch of a block fails at once, so the subscribers get
\* back to the select in which they look at it.  Failures and the
\* cancellation are not fair.
Fairness ==
  /\ \A s \in Subscribers : WF_vars(StartSubscriber(s))
  /\ WF_vars(HeadEnds) /\ WF_vars(ArchiveEnds) /\ WF_vars(UnpackerEnds)
  /\ WF_vars(SubscribeReturns)
  /\ WF_vars(MonitorEnds) /\ WF_vars(StartReturns)

FairSpec == Spec /\ Fairness

----------------------------------------------------------------------------
(* Properties.                                                             *)

\* The service returns nil only when nothing failed in either group: no error
\* of a subscriber or a server is lost on its way up through the groups.
NoFailureLost ==
  start = "nil" =>
    /\ \A s \in Subscribers : sub[s] = "nil"
    /\ \A s \in Servers : server[s] # "error"

\* When the service has returned, no member of its two groups runs any more
\* (the goroutines of the block interceptor belong to neither group).
NothingRunsAfterReturn ==
  start # "running" =>
    /\ \A s \in Subscribers : sub[s] \in {"nil", "error"}
    /\ monitor # "running"
    /\ \A s \in Servers : server[s] # "running"

\* Once the context is cancelled and no server is left running, the service
\* returns: every subscriber and the monitor look at the context in the end.
ShutdownCompletes ==
  (cancelled /\ \A s \in Servers : server[s] # "running") ~> start # "running"

\* The inductive strengthening of the invariants: a group returns after its
\* members, and with the error of one of them.
GroupsOK ==
  /\ subscribe # "running" => \A s \in Subscribers : sub[s] \in {"nil", "error"}
  /\ subscribe = "nil" => \A s \in Subscribers : sub[s] = "nil"
  /\ start # "running" => /\ subscribe # "running" /\ monitor = "nil"
                          /\ \A s \in Servers : server[s] # "running"
  /\ start = "nil" => subscribe = "nil" /\ \A s \in Servers : server[s] # "error"
=============================================================================
