------------------------ MODULE UnpackRequest_proofs ------------------------
(***************************************************************************)
(* Proofs of the safety properties of UnpackRequest, for every number of   *)
(* requests, contracts and spellings, whatever wildcards they have, and    *)
(* every bound on pending messages.                                        *)
(***************************************************************************)
EXTENDS UnpackRequest, TLAPS

\* Every event that the syncer has is about the contract its correlation
\* subject stands for.
EventsOK ==
  /\ \A i \in 1..Len(events) : events[i].address = AddressOf[events[i].correlationId]
  /\ \A i \in 1..Len(worker) : worker[i].address = AddressOf[worker[i].correlationId]

\* A resolver without a subscription has no answers, one that looks up has one,
\* and a mutation that has not returned has no result.
InboxOK ==
  \A r \in Requests :
    /\ pc[r] \in {"idle", "asked"} => inbox[r] = <<>>
    /\ pc[r] = "resolving" => inbox[r] # <<>>
    /\ pc[r] # "idle" => result[r] = "none"

\* The inductive invariant.
IInv ==
  TypeOK /\ EventsOK /\ InboxOK /\ AnswersOwnContract /\ RowMeansStored

\* At first nothing is asked and nothing pending.
LEMMA InitOK == Init => IInv
BY AddressOfAssumption
   DEF Init, IInv, TypeOK, EventsOK, InboxOK, AnswersOwnContract,
       RowMeansStored, Event, Results, Store!Status

\* A mutation that returns keeps the invariant when a row that it returns is
\* stored, and, without wildcard, the one that was asked for.
LEMMA ReturnOK ==
  ASSUME IInv, NEW r \in Requests, NEW s \in Spellings, NEW c \in Contracts,
         NEW res \in Results,
         res = "row" => status[c] # "absent" /\ c \in Known,
         res = "row" /\ Plain(s) => c = AddressOf[s],
         subject' = [subject EXCEPT ![r] = s],
         found' = [found EXCEPT ![r] = c],
         Return(r, res), UNCHANGED <<status, syncer>>
  PROVE  IInv'
<1> USE DEF Return, syncer
<1>1. TypeOK'
  BY DEF IInv, TypeOK
<1>2. EventsOK'
  BY DEF IInv, EventsOK
<1>3. InboxOK'
  BY DEF IInv, TypeOK, InboxOK
<1>4. AnswersOwnContract'
  <2> SUFFICES ASSUME NEW q \in Requests, Plain(subject'[q])
               PROVE  /\ \A i \in 1..Len(inbox'[q]) : inbox'[q][i].address = AddressOf[subject'[q]]
                      /\ result'[q] = "row" => found'[q] = AddressOf[subject'[q]]
    BY DEF AnswersOwnContract, Plain
  <2>1. CASE q = r
    BY <2>1 DEF IInv, TypeOK
  <2>2. CASE q # r
    <3>1. UNCHANGED <<subject[q], inbox[q], found[q], result[q]>>
      BY <2>2 DEF IInv, TypeOK
    <3> QED
      BY <3>1 DEF IInv, AnswersOwnContract
  <2> QED
    BY <2>1, <2>2
<1>5. RowMeansStored'
  BY DEF IInv, TypeOK, RowMeansStored
<1> QED
  BY <1>1, <1>2, <1>3, <1>4, <1>5 DEF IInv

\* A mutation that returns without a row.
LEMMA ReturnNothingOK ==
  ASSUME IInv, NEW r \in Requests, NEW res \in Results \ {"row"},
         Return(r, res), UNCHANGED <<status, syncer, subject, found>>
  PROVE  IInv'
<1>1. /\ subject' = [subject EXCEPT ![r] = subject[r]] /\ subject[r] \in Spellings
      /\ found' = [found EXCEPT ![r] = found[r]] /\ found[r] \in Contracts
  BY DEF IInv, TypeOK
<1> QED
  BY <1>1, ReturnOK

\* What a lookup finds.
LEMMA LookupOK ==
  ASSUME NEW c
  PROVE  /\ Lookup(c) \in Results
         /\ Lookup(c) = "row" => status[c] # "absent" /\ c \in Known
BY DEF Lookup, Results

\* A resolver that goes on without touching its answers.
LEMMA GotoOK ==
  ASSUME IInv, NEW r \in Requests, pc[r] # "idle",
         NEW to \in {"subscribed", "waiting", "resolving"},
         to = "resolving" => inbox[r] # <<>>,
         Goto(r, to), UNCHANGED <<status, up, worker, subject, inbox, found>>,
         events' \in Seq(Event),
         \A i \in 1..Len(events') : events'[i].address = AddressOf[events'[i].correlationId]
  PROVE  IInv'
<1> USE DEF Goto
<1>1. TypeOK'
  BY DEF IInv, TypeOK
<1>2. EventsOK'
  BY DEF IInv, EventsOK
<1>3. InboxOK'
  BY DEF IInv, TypeOK, InboxOK
<1>4. AnswersOwnContract' /\ RowMeansStored'
  BY DEF IInv, AnswersOwnContract, RowMeansStored
<1> QED
  BY <1>1, <1>2, <1>3, <1>4 DEF IInv

\* A mutation is called.
LEMMA CallOK ==
  ASSUME IInv, NEW r \in Requests, NEW s \in Spellings, Call(r, s)
  PROVE  IInv'
<1>0. AddressOf[s] \in Contracts
  BY AddressOfAssumption
<1>1. CASE Return(r, Lookup(AddressOf[s]))
  BY <1>0, <1>1, ReturnOK, LookupOK DEF Call
<1>2. CASE /\ pc' = [pc EXCEPT ![r] = "asked"]
           /\ result' = [result EXCEPT ![r] = "none"]
           /\ UNCHANGED inbox
  <2> USE <1>2 DEF Call, syncer
  <2>0. "none" \in Results
    BY DEF Results
  <2>1. TypeOK'
    BY <1>0, <2>0 DEF IInv, TypeOK
  <2>2. EventsOK'
    BY DEF IInv, EventsOK
  <2>3. InboxOK'
    BY DEF IInv, TypeOK, InboxOK
  <2>4. AnswersOwnContract'
    <3> SUFFICES ASSUME NEW q \in Requests, Plain(subject'[q])
                 PROVE  /\ \A i \in 1..Len(inbox'[q]) : inbox'[q][i].address = AddressOf[subject'[q]]
                        /\ result'[q] = "row" => found'[q] = AddressOf[subject'[q]]
      BY DEF AnswersOwnContract, Plain
    <3>1. CASE q = r
      BY <3>1 DEF IInv, TypeOK, InboxOK
    <3>2. CASE q # r
      <4>1. UNCHANGED <<subject[q], inbox[q], found[q], result[q]>>
        BY <3>2 DEF IInv, TypeOK
      <4> QED
        BY <4>1 DEF IInv, AnswersOwnContract
    <3> QED
      BY <3>1, <3>2
  <2>5. RowMeansStored'
    BY DEF IInv, TypeOK, RowMeansStored
  <2> QED
    BY <2>1, <2>2, <2>3, <2>4, <2>5 DEF IInv
<1> QED
  BY <1>1, <1>2 DEF Call

\* The event of a request is about its contract.
LEMMA PublishOK ==
  ASSUME IInv, NEW r \in Requests, Publish(r)
  PROVE  IInv'
<1>1. /\ Request(r) \in Event
      /\ Request(r).address = AddressOf[Request(r).correlationId]
  BY AddressOfAssumption DEF IInv, TypeOK, Request, Event
<1>2. CASE events' = Append(events, Request(r))
  <2>1. events' \in Seq(Event)
    BY <1>1, <1>2 DEF IInv, TypeOK
  <2>2. \A i \in 1..Len(events') : events'[i].address = AddressOf[events'[i].correlationId]
    BY <1>1, <1>2 DEF IInv, TypeOK, EventsOK
  <2> QED
    BY <2>1, <2>2, GotoOK DEF Publish
<1>3. CASE UNCHANGED events
  BY <1>3, GotoOK DEF Publish, IInv, TypeOK, EventsOK
<1> QED
  BY <1>2, <1>3 DEF Publish

\* A resolver takes an answer.
LEMMA NextMsgOK ==
  ASSUME IInv, NEW r \in Requests, NextMsg(r)
  PROVE  IInv'
<1>1. CASE Goto(r, "resolving") /\ UNCHANGED inbox
  <2>1. events' \in Seq(Event) /\ UNCHANGED <<status, syncer, subject, found>>
    BY DEF NextMsg, syncer, IInv, TypeOK
  <2> QED
    BY <1>1, <2>1, GotoOK DEF NextMsg, syncer, IInv, EventsOK
<1>2. CASE Return(r, "unresolved")
  BY <1>2, ReturnNothingOK DEF NextMsg, Results
<1> QED
  BY <1>1, <1>2 DEF NextMsg

\* The second lookup finds the row of the contract that was asked for.
LEMMA ResolveOK ==
  ASSUME IInv, NEW r \in Requests, Resolve(r)
  PROVE  IInv'
<1> DEFINE c == Head(inbox[r]).address
<1>1. inbox[r] \in Seq(Event) /\ inbox[r] # <<>>
  BY DEF Resolve, IInv, TypeOK, InboxOK
<1>2. Head(inbox[r]) = inbox[r][1] /\ 1 \in 1..Len(inbox[r]) /\ Head(inbox[r]) \in Event
  BY <1>1
<1>3. c \in Contracts /\ (Plain(subject[r]) => c = AddressOf[subject[r]])
  BY <1>2 DEF IInv, AnswersOwnContract, Event
<1>4. subject' = [subject EXCEPT ![r] = subject[r]] /\ subject[r] \in Spellings
  BY DEF Resolve, IInv, TypeOK
<1>5. /\ found' = [found EXCEPT ![r] = c] /\ UNCHANGED <<status, syncer>>
      /\ Return(r, Lookup(c)) \/ Return(r, "error")
  BY DEF Resolve
<1>6. "error" \in Results
  BY DEF Results
<1> HIDE DEF c
<1>7. CASE Return(r, Lookup(c))
  BY <1>3, <1>4, <1>5, <1>7, LookupOK, ReturnOK
<1>8. CASE Return(r, "error")
  BY <1>3, <1>4, <1>5, <1>6, <1>8, ReturnOK
<1> QED
  BY <1>5, <1>7, <1>8

\* Steps of the subscriber that leave the resolvers alone keep the invariant
\* when they only forget or move events.
LEMMA SyncerOK ==
  ASSUME IInv, UNCHANGED <<status, resolver>>, up' \in BOOLEAN,
         events' \in Seq(Event), worker' \in Seq(Event), Len(worker') <= 1, EventsOK'
  PROVE  IInv'
BY DEF IInv, TypeOK, InboxOK, AnswersOwnContract, RowMeansStored, resolver

\* The callback takes the next event.
LEMMA ReceiveOK == ASSUME IInv, Receive PROVE IInv'
<1>1. events \in Seq(Event) /\ events # <<>>
  BY DEF Receive, IInv, TypeOK
<1>2. /\ Head(events) \in Event /\ Head(events) = events[1] /\ 1 \in 1..Len(events)
      /\ Tail(events) \in Seq(Event)
      /\ \A i \in 1..Len(Tail(events)) : Tail(events)[i] = events[i + 1] /\ i + 1 \in 1..Len(events)
  BY <1>1
<1>3. /\ worker' \in Seq(Event) /\ Len(worker') = 1
      /\ \A i \in 1..Len(worker') : worker'[i] = events[1]
  BY <1>2 DEF Receive
<1>4. EventsOK'
  BY <1>2, <1>3 DEF Receive, IInv, EventsOK
<1> QED
  BY <1>2, <1>3, <1>4, SyncerOK DEF Receive, IInv, TypeOK

\* The answer reaches subscriptions to its own subject only.
LEMMA AnswerOK == ASSUME IInv, Answer PROVE IInv'
<1> DEFINE a == [worker[1] EXCEPT !.resolved = TRUE]
<1>1. 1 \in 1..Len(worker) /\ worker[1] \in Event
  BY DEF Answer, IInv, TypeOK
<1>2. /\ a \in Event
      /\ a.correlationId = worker[1].correlationId
      /\ a.address = AddressOf[worker[1].correlationId]
  BY <1>1 DEF IInv, EventsOK, Event
<1>3. UNCHANGED <<status, up, events, pc, subject, found, result>> /\ worker' = <<>>
  BY DEF Answer
<1>4. ASSUME NEW r \in Requests
      PROVE  /\ inbox'[r] \in Seq(Event)
             /\ \/ inbox'[r] = inbox[r]
                \/ /\ inbox'[r] = Append(inbox[r], a)
                   /\ Listens(r, worker[1].correlationId)
  <2>1. inbox[r] \in Seq(Event)
    BY DEF IInv, TypeOK
  <2> HIDE DEF a
  <2>2. \/ inbox'[r] = inbox[r]
        \/ inbox'[r] = Append(inbox[r], a) /\ Listens(r, worker[1].correlationId)
    BY DEF Answer, a
  <2> QED
    BY <1>2, <2>1, <2>2
<1> HIDE DEF a
<1>5. DOMAIN inbox' = Requests /\ inbox' = [r \in Requests |-> inbox'[r]]
  BY DEF Answer
<1>6. TypeOK'
  BY <1>3, <1>4, <1>5 DEF IInv, TypeOK
<1>7. EventsOK'
  BY <1>3 DEF IInv, EventsOK
<1>8. InboxOK'
  <2> SUFFICES ASSUME NEW r \in Requests
               PROVE  /\ pc[r] \in {"idle", "asked"} => inbox'[r] = <<>>
                      /\ pc[r] = "resolving" => inbox'[r] # <<>>
                      /\ pc[r] # "idle" => result[r] = "none"
    BY <1>3 DEF InboxOK
  <2>1. CASE inbox'[r] = inbox[r]
    BY <2>1 DEF IInv, InboxOK
  <2>2. CASE inbox'[r] = Append(inbox[r], a) /\ Listens(r, worker[1].correlationId)
    BY <1>2, <2>2 DEF IInv, TypeOK, InboxOK, Listens
  <2> QED
    BY <1>4, <2>1, <2>2
<1>9. AnswersOwnContract'
  <2> SUFFICES ASSUME NEW r \in Requests, Plain(subject[r]), NEW i \in 1..Len(inbox'[r])
               PROVE  inbox'[r][i].address = AddressOf[subject[r]]
    BY <1>3 DEF IInv, AnswersOwnContract, Plain
  <2>1. CASE inbox'[r] = inbox[r]
    BY <2>1 DEF IInv, AnswersOwnContract
  <2>2. CASE inbox'[r] = Append(inbox[r], a) /\ Listens(r, worker[1].correlationId)
    <3>1. worker[1].correlationId = subject[r]
      BY <2>2 DEF Listens, Plain
    <3> QED
      BY <1>2, <2>2, <3>1 DEF IInv, TypeOK, AnswersOwnContract
  <2> QED
    BY <1>4, <2>1, <2>2
<1>10. RowMeansStored'
  BY <1>3 DEF IInv, RowMeansStored
<1> QED
  BY <1>6, <1>7, <1>8, <1>9, <1>10 DEF IInv

\* Rows that are stored meanwhile do not take away any.
LEMMA StoredOK ==
  ASSUME IInv, NEW c \in Contracts, NEW s \in {"partial", "complete"}, Stored(c, s)
  PROVE  IInv'
<1> USE DEF Stored, Store!Store, syncer, resolver
<1>1. TypeOK'
  BY DEF IInv, TypeOK, Store!Status
<1>2. RowMeansStored'
  BY DEF IInv, TypeOK, RowMeansStored
<1> QED
  BY <1>1, <1>2 DEF IInv, EventsOK, InboxOK, AnswersOwnContract

\* Every step keeps the invariant.
LEMMA NextOK == IInv /\ [Next]_vars => IInv'
<1> SUFFICES ASSUME IInv, [Next]_vars PROVE IInv'
  OBVIOUS
<1>1. ASSUME NEW r \in Requests, NEW s \in Spellings, Call(r, s) PROVE IInv'
  BY <1>1, CallOK
<1>2. ASSUME NEW r \in Requests, ResolverStep(r) PROVE IInv'
  <2>1. CASE SubscribeSync(r)
    BY <2>1, GotoOK DEF SubscribeSync, syncer, IInv, TypeOK, EventsOK
  <2>2. CASE RequestFails(r)
    BY <2>2, ReturnNothingOK DEF RequestFails, Results
  <2>3. CASE Timeout(r)
    BY <2>3, ReturnNothingOK DEF Timeout, Results
  <2> QED
    BY <1>2, <2>1, <2>2, <2>3, PublishOK, NextMsgOK, ResolveOK DEF ResolverStep
<1>3. CASE UnpackFails
  BY <1>3, SyncerOK DEF UnpackFails, IInv, TypeOK, EventsOK
<1>4. CASE Down
  <2>1. events' \in Seq(Event) /\ worker' \in Seq(Event) /\ Len(worker') <= 1
    BY <1>4 DEF Down
  <2>2. EventsOK'
    BY <1>4 DEF Down, EventsOK
  <2>3. up' \in BOOLEAN /\ UNCHANGED <<status, resolver>>
    BY <1>4 DEF Down
  <2> QED
    BY <2>1, <2>2, <2>3, SyncerOK
<1>5. CASE Up
  BY <1>5, SyncerOK DEF Up, IInv, TypeOK, EventsOK
<1>6. CASE UNCHANGED vars
  BY <1>6, SyncerOK DEF vars, syncer, IInv, TypeOK, EventsOK
<1> QED
  BY <1>1, <1>2, <1>3, <1>4, <1>5, <1>6, ReceiveOK, AnswerOK, StoredOK DEF Next

\* The invariant holds in every state.
LEMMA Invariance == Spec => []IInv
BY InitOK, NextOK, PTL DEF Spec

\* Resolvers, events and rows keep their types; the callback of the unpacker
\* subscriber has one event at a time.
THEOREM TypeCorrect == Spec => []TypeOK
BY Invariance, PTL DEF IInv

\* Without a wildcard in the text of the client no resolver gets an answer about
\* another contract, late answers included, and no mutation returns another one.
THEOREM AnswersCorrect == Spec => []AnswersOwnContract
BY Invariance, PTL DEF IInv

\* A mutation only returns contracts whose row is stored, with wildcards too.
THEOREM RowCorrect == Spec => []RowMeansStored
BY Invariance, PTL DEF IInv
=============================================================================
