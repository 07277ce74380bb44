------------------------ MODULE Supervision_proofs ------------------------
(***************************************************************************)
(* Proofs about the two halves of the subscriber manager.  Of Supervision: *)
(* types, no failure is lost on the way up through the two groups, and     *)
(* nothing runs after the return.  Of SubscriberManager, for any number of *)
(* callers, names and subscribers: types, what a panic needs, and when a   *)
(* registration is replaced.                                               *)
(***************************************************************************)
EXTENDS Supervision, SubscriberManager, TLAPS

\* The inductive invariant.
IInv == TypeOK /\ GroupsOK

\* The service starts with its groups running.
LEMMA InitOK == Init => IInv
BY DEF Init, IInv, TypeOK, GroupsOK, Outcomes, Subscribers, Servers

\* A subscriber that moves is not in a group that returned.
LEMMA SubReturnsOK ==
  ASSUME IInv, NEW s \in Subscribers, NEW r \in Outcomes,
         sub[s] \in {"new", "running"}, SubReturns(s, r)
  PROVE  IInv'
BY DEF IInv, TypeOK, GroupsOK, SubReturns, Outcomes

\* Every step of the subscribers, of the service and of its context keeps
\* the invariant.
LEMMA NextOK == IInv /\ [Next]_vars => IInv'
<1> SUFFICES ASSUME IInv, [Next]_vars PROVE IInv'
  OBVIOUS
<1>1. ASSUME NEW s \in Subscribers, StartSubscriber(s) PROVE IInv'
  BY <1>1, SubReturnsOK DEF StartSubscriber, Outcomes
<1>2. ASSUME NEW s \in Subscribers, SubscriberFails(s) PROVE IInv'
  BY <1>2, SubReturnsOK DEF SubscriberFails, Outcomes
<1>3. CASE HeadEnds
  BY <1>3, SubReturnsOK DEF HeadEnds, Outcomes, Subscribers
<1>4. CASE ArchiveEnds
  BY <1>4, SubReturnsOK DEF ArchiveEnds, Outcomes, Subscribers
<1>5. CASE UnpackerEnds
  BY <1>5, SubReturnsOK DEF UnpackerEnds, Outcomes, Subscribers
<1>6. CASE SubscribeReturns
  BY <1>6 DEF SubscribeReturns, IInv, TypeOK, GroupsOK, Outcomes
<1>7. ASSUME NEW s \in Servers, ServerFails(s) PROVE IInv'
  BY <1>7 DEF ServerFails, IInv, TypeOK, GroupsOK
<1>8. CASE MonitorEnds
  BY <1>8 DEF MonitorEnds, IInv, TypeOK, GroupsOK
<1>9. CASE StartReturns
  BY <1>9 DEF StartReturns, IInv, TypeOK, GroupsOK, Outcomes
<1>10. CASE Cancel
  BY <1>10 DEF Cancel, IInv, TypeOK, GroupsOK
<1>11. CASE UNCHANGED vars
  BY <1>11 DEF vars, IInv, TypeOK, GroupsOK
<1> QED
  BY <1>1, <1>2, <1>3, <1>4, <1>5, <1>6, <1>7, <1>8, <1>9, <1>10, <1>11 DEF Next

\* The invariant holds in every state of the service.
LEMMA Invariance == Spec => []IInv
BY InitOK, NextOK, PTL DEF Spec

\* Every function of the two groups runs or has returned once.
THEOREM TypeCorrect == Spec => []TypeOK
BY Invariance, PTL DEF IInv

\* Service.Start returns nil only when no subscriber and no server failed.
THEOREM NoFailureLostCorrect == Spec => []NoFailureLost
<1>1. IInv => NoFailureLost
  BY DEF IInv, GroupsOK, NoFailureLost
<1> QED
  BY <1>1, Invariance, PTL

\* Service.Start returns after every member of the two groups.
THEOREM ReturnCorrect == Spec => []NothingRunsAfterReturn
<1>1. IInv => NothingRunsAfterReturn
  BY DEF IInv, GroupsOK, NothingRunsAfterReturn
<1> QED
  BY <1>1, Invariance, PTL

----------------------------------------------------------------------------
(* The subscriber manager.  PanicNeedsTwoStops is not inductive: that the   *)
(* panicking Stop is the second one rests on StopsOK, which names a call   *)
(* that stopped each stopped subscriber and has no stop left for the name. *)

\* A Close has nothing to stop before it went through the map, and every
\* subscriber that was stopped was stopped for a name that is done with.
StopsOK ==
  /\ \A c \in Callers :
       pc[c] \notin {"wait", "closed"} => toStop[c] = {} /\ closing[c] = Empty
  /\ NoSub \notin stopped
  /\ \A s \in stopped :
       \E c \in Callers, n \in Names : closing[c][n] = s /\ n \notin toStop[c]

\* What a caller of Register saw under the first lock is still so under the
\* second, unless the name was written since.
LookHolds ==
  \A c \in Callers :
    /\ pc[c] = "register" /\ c \notin since => subs[call[c][1]] = NoSub
    /\ pc[c] = "unregister" => call[c][2] = NoSub

\* A registration is replaced by another only in a race: the caller that does
\* it looked before the name was last written.
ReplacedOnlyInRace ==
  [][\A n \in Names : NoSub \notin {subs[n], subs'[n]} /\ subs'[n] # subs[n] =>
       \E c \in Callers : pc[c] = "register" /\ call[c][1] = n /\ c \in since]_managerVars

\* The inductive invariant of the manager.
MInv ==
  /\ ManagerTypeOK
  /\ StopsOK
  /\ LookHolds
  /\ PanicNeedsTwoStops

\* Nothing is registered and nobody has called the manager.
LEMMA ManagerInitOK == ManagerInit => MInv
<1> SUFFICES ASSUME ManagerInit PROVE MInv
  OBVIOUS
<1> USE DEF ManagerInit
<1>1. ManagerTypeOK
  BY DEF ManagerTypeOK, Empty
<1>2. StopsOK
  BY DEF StopsOK, Empty
<1>3. LookHolds
  BY DEF LookHolds
<1>4. PanicNeedsTwoStops
  BY DEF PanicNeedsTwoStops
<1> QED
  BY <1>1, <1>2, <1>3, <1>4 DEF MInv

\* A caller goes on without touching anything: into or out of Subscribe, into
\* Close, or out of it.
LEMMA GotoOK ==
  ASSUME MInv, NEW c \in Callers, NEW to \in {"idle", "subscribe", "iterate", "closed"},
         Goto(c, to), to = "closed" \/ pc[c] \notin {"wait", "closed"},
         UNCHANGED <<subs, call, close, starts, contextDone, crashed, since>>
  PROVE  MInv'
<1> USE DEF Goto, close, starts
<1>1. ManagerTypeOK'
  BY DEF MInv, ManagerTypeOK
<1>2. StopsOK'
  BY DEF MInv, ManagerTypeOK, StopsOK, Empty
<1>3. LookHolds'
  BY DEF MInv, ManagerTypeOK, LookHolds
<1>4. PanicNeedsTwoStops'
  BY DEF MInv, PanicNeedsTwoStops
<1> QED
  BY <1>1, <1>2, <1>3, <1>4 DEF MInv

\* The look at the map that a call of Register or UnRegister begins with.
LEMMA BeginOK ==
  ASSUME MInv, NEW c \in Callers, NEW n \in Names, NEW s \in Instances \cup {NoSub},
         Begin(c, n, s)
  PROVE  MInv'
<1> USE DEF Begin, Goto, close, starts
<1>1. ManagerTypeOK'
  BY DEF MInv, ManagerTypeOK
<1>2. StopsOK'
  BY DEF MInv, ManagerTypeOK, StopsOK, Empty
<1>3. LookHolds'
  BY DEF MInv, ManagerTypeOK, LookHolds, Look
<1>4. PanicNeedsTwoStops'
  BY DEF MInv, PanicNeedsTwoStops
<1> QED
  BY <1>1, <1>2, <1>3, <1>4 DEF MInv

\* The write that such a call ends with.  It leaves the look of every other
\* caller right, or marks that caller.
LEMMA WriteOK ==
  ASSUME MInv, NEW c \in Callers, pc[c] \in {"register", "unregister"}, Write(c)
  PROVE  MInv'
<1> USE DEF Write, Goto, close, starts, Between
<1>1. ManagerTypeOK'
  BY DEF MInv, ManagerTypeOK
<1>2. StopsOK'
  BY DEF MInv, ManagerTypeOK, StopsOK, Empty
<1>3. LookHolds'
  BY DEF MInv, ManagerTypeOK, LookHolds
<1>4. PanicNeedsTwoStops'
  BY DEF MInv, PanicNeedsTwoStops
<1> QED
  BY <1>1, <1>2, <1>3, <1>4 DEF MInv

\* A call of Close goes through the map: what it finds is what it will stop.
LEMMA StartStopsOK ==
  ASSUME MInv, NEW c \in Callers, StartStops(c)
  PROVE  MInv'
<1> USE DEF StartStops, Goto, starts
<1>1. ManagerTypeOK'
  BY DEF MInv, ManagerTypeOK, Active
<1>2. StopsOK'
  <2>1. ASSUME NEW d \in Callers,
               pc'[d] \notin {"wait", "closed"}
        PROVE  toStop'[d] = {} /\ closing'[d] = Empty
    BY <2>1 DEF MInv, ManagerTypeOK, StopsOK
  <2>2. ASSUME NEW s \in stopped'
        PROVE  \E d \in Callers, n \in Names : closing'[d][n] = s /\ n \notin toStop'[d]
    <3>1. PICK d \in Callers, n \in Names : closing[d][n] = s /\ n \notin toStop[d]
      BY DEF MInv, StopsOK
    <3>2. d # c
      BY <3>1 DEF MInv, StopsOK, Empty
    <3> QED
      BY <3>1, <3>2 DEF MInv, ManagerTypeOK
  <2> QED
    BY <2>1, <2>2 DEF MInv, StopsOK, Empty
<1>3. LookHolds'
  BY DEF MInv, ManagerTypeOK, LookHolds
<1>4. PanicNeedsTwoStops'
  BY DEF MInv, PanicNeedsTwoStops
<1> QED
  BY <1>1, <1>2, <1>3, <1>4 DEF MInv

\* A goroutine calls Stop.  When that panics the subscriber was stopped before
\* for another name or by another Close, as this stop was still to be done.
LEMMA StopOK ==
  ASSUME MInv, NEW c \in Callers, NEW n \in Names, Stop(c, n)
  PROVE  MInv'
<1> USE DEF Stop, caller, starts
<1>1. closing[c][n] \in Instances /\ closing[c][n] # NoSub
  BY DEF MInv, ManagerTypeOK
<1>2. ManagerTypeOK'
  BY <1>1 DEF MInv, ManagerTypeOK
<1>3. StopsOK'
  <2>1. ASSUME NEW d \in Callers,
               pc'[d] \notin {"wait", "closed"}
        PROVE  toStop'[d] = {} /\ closing'[d] = Empty
    BY <2>1 DEF MInv, ManagerTypeOK, StopsOK
  <2>2. NoSub \notin stopped'
    BY <1>1 DEF MInv, StopsOK
  <2>3. ASSUME NEW s \in stopped'
        PROVE  \E d \in Callers, m \in Names : closing'[d][m] = s /\ m \notin toStop'[d]
    <3>1. CASE s = closing[c][n]
      BY <3>1 DEF MInv, ManagerTypeOK
    <3>2. CASE s \in stopped
      <4>1. PICK d \in Callers, m \in Names : closing[d][m] = s /\ m \notin toStop[d]
        BY <3>2 DEF MInv, StopsOK
      <4> QED
        BY <4>1 DEF MInv, ManagerTypeOK
    <3> QED
      BY <3>1, <3>2
  <2> QED
    BY <2>1, <2>2, <2>3 DEF StopsOK, Empty
<1>4. LookHolds'
  BY DEF MInv, LookHolds
<1>5. PanicNeedsTwoStops'
  <2> SUFFICES ASSUME crashed' = "panic"
               PROVE  PanicNeedsTwoStops'
    BY DEF PanicNeedsTwoStops
  <2>1. closing[c][n] \in stopped /\ closing[c][n] \in Archives
    OBVIOUS
  <2>2. PICK d \in Callers, m \in Names : closing[d][m] = closing[c][n] /\ m \notin toStop[d]
    BY <2>1 DEF MInv, StopsOK
  <2>3. d # c \/ m # n
    BY <2>2
  <2> QED
    BY <2>1, <2>2, <2>3 DEF PanicNeedsTwoStops
<1> QED
  BY <1>2, <1>3, <1>4, <1>5 DEF MInv

\* A goroutine of Subscribe calls Start, or does not get that far.
LEMMA StartOK ==
  ASSUME MInv, NEW c \in Callers, NEW p \in starting[c],
         StartsNothing(c, p) \/ Start(c, p)
  PROVE  MInv'
<1>1. p \in Names \X Instances
  BY DEF MInv, ManagerTypeOK
<1>2. UNCHANGED <<subs, caller, close, contextDone, crashed, since>>
  BY DEF StartsNothing, Start
<1>3. <<c, p[1], p[2]>> \in Callers \X Names \X Instances
  BY <1>1
<1>4. /\ starting' \in [Callers -> SUBSET (Names \X Instances)]
      /\ running' \subseteq Callers \X Names \X Instances
      /\ notActive' \subseteq Archives /\ twice' \subseteq Instances
  <2>1. starting' \in [Callers -> SUBSET (Names \X Instances)]
    BY DEF StartsNothing, Start, MInv, ManagerTypeOK
  <2>2. running' \subseteq running \cup {<<c, p[1], p[2]>>}
    BY DEF StartsNothing, Start
  <2>3. running' \subseteq Callers \X Names \X Instances
    BY <1>3, <2>2 DEF MInv, ManagerTypeOK
  <2>4. notActive' \subseteq Archives
    BY DEF StartsNothing, Start, MInv, ManagerTypeOK
  <2>5. p[2] \in Instances
    BY <1>1
  <2>6. twice' \subseteq twice \cup {p[2]}
    BY DEF StartsNothing, Start
  <2>7. twice' \subseteq Instances
    BY <2>5, <2>6 DEF MInv, ManagerTypeOK
  <2> QED
    BY <2>1, <2>3, <2>4, <2>7
<1>5. ManagerTypeOK'
  BY <1>2, <1>4 DEF caller, close, MInv, ManagerTypeOK
<1> QED
  BY <1>2, <1>5 DEF caller, close, MInv, StopsOK, Empty, LookHolds, PanicNeedsTwoStops

\* Every step of a caller of the manager, of a goroutine that it started and of
\* its context keeps the invariant.
LEMMA ManagerNextOK == MInv /\ [ManagerNext]_managerVars => MInv'
<1> SUFFICES ASSUME MInv, [ManagerNext]_managerVars PROVE MInv'
  OBVIOUS
<1>1. ASSUME NEW c \in Callers, NEW n \in Names, NEW s \in Instances \cup {NoSub},
             Begin(c, n, s)
      PROVE  MInv'
  BY <1>1, BeginOK
<1>2. ASSUME NEW c \in Callers, Register(c) \/ UnRegister(c) PROVE MInv'
  BY <1>2, WriteOK DEF Register, UnRegister
<1>3. ASSUME NEW c \in Callers, Subscribe(c) \/ Subscribed(c) PROVE MInv'
  BY <1>3, GotoOK DEF Subscribe, Subscribed
<1>4. ASSUME NEW c \in Callers, NEW names \in SUBSET Names, StartGoroutines(c, names)
      PROVE  MInv'
  BY <1>4 DEF StartGoroutines, Goto, close, MInv, ManagerTypeOK,
     StopsOK, Empty, LookHolds, PanicNeedsTwoStops
<1>5. ASSUME NEW c \in Callers, NEW p \in starting[c], StartsNothing(c, p) \/ Start(c, p)
      PROVE  MInv'
  BY <1>5, StartOK
<1>6. ASSUME NEW q \in running, RunEnds(q) PROVE MInv'
  BY <1>6 DEF RunEnds, caller, close, MInv, ManagerTypeOK,
     StopsOK, Empty, LookHolds, PanicNeedsTwoStops
<1>7. ASSUME NEW c \in Callers, Close(c) \/ CloseReturns(c) PROVE MInv'
  BY <1>7, GotoOK DEF Close, CloseReturns
<1>8. ASSUME NEW c \in Callers, StartStops(c) PROVE MInv'
  BY <1>8, StartStopsOK
<1>9. ASSUME NEW c \in Callers, NEW n \in Names, Stop(c, n) PROVE MInv'
  BY <1>9, StopOK
<1>10. CASE ContextDone
  BY <1>10 DEF ContextDone, caller, close, starts, MInv, ManagerTypeOK,
     StopsOK, Empty, LookHolds, PanicNeedsTwoStops
<1>11. CASE UNCHANGED managerVars
  BY <1>11 DEF managerVars, caller, close, starts, MInv, ManagerTypeOK,
     StopsOK, Empty, LookHolds, PanicNeedsTwoStops
<1> QED
  BY <1>1, <1>2, <1>3, <1>4, <1>5, <1>6, <1>7, <1>8, <1>9, <1>10, <1>11 DEF ManagerNext

\* The invariant holds in every state of the manager.
LEMMA ManagerInvariance == ManagerSpec => []MInv
BY ManagerInitOK, ManagerNextOK, PTL DEF ManagerSpec

\* A Close never has a name to stop under which it found nothing.
THEOREM ManagerTypeCorrect == ManagerSpec => []ManagerTypeOK
BY ManagerInvariance, PTL DEF MInv

\* However many callers close the manager while others register, a goroutine
\* panics in the Stop of an archive subscriber only when it was found twice.
THEOREM PanicCorrect == ManagerSpec => []PanicNeedsTwoStops
BY ManagerInvariance, PTL DEF MInv

\* The violated RegisteredIsKept fails in no other way: Register replaces a
\* registration only when the name was written between its look at the map and
\* its write, which are under different locks.
THEOREM ReplacedCorrect == ManagerSpec => ReplacedOnlyInRace
<1> DEFINE Race ==
      \A n \in Names : NoSub \notin {subs[n], subs'[n]} /\ subs'[n] # subs[n] =>
        \E c \in Callers : pc[c] = "register" /\ call[c][1] = n /\ c \in since
<1>1. ASSUME MInv, [ManagerNext]_managerVars
      PROVE  [Race]_managerVars
  <2> SUFFICES ASSUME ManagerNext, NEW n \in Names,
                      subs[n] # NoSub, subs'[n] # NoSub, subs'[n] # subs[n]
               PROVE  \E c \in Callers : pc[c] = "register" /\ call[c][1] = n /\ c \in since
    BY <1>1
  <2>1. ASSUME NEW c \in Callers, Register(c)
        PROVE  pc[c] = "register" /\ call[c][1] = n /\ c \in since
    BY <1>1, <2>1 DEF Register, Write, MInv, ManagerTypeOK, LookHolds
  <2>2. ASSUME NEW c \in Callers, UnRegister(c) PROVE FALSE
    BY <1>1, <2>2 DEF UnRegister, Write, MInv, ManagerTypeOK, LookHolds
  <2>3. ASSUME subs' = subs PROVE FALSE
    BY <2>3
  <2> QED
    BY <2>1, <2>2, <2>3 DEF ManagerNext, Begin, Subscribe, Subscribed,
       StartGoroutines, StartsNothing, Start, RunEnds, Close, StartStops,
       CloseReturns, Stop, ContextDone
<1> QED
  BY <1>1, ManagerInvariance, PTL DEF ManagerSpec, ReplacedOnlyInRace
=============================================================================
