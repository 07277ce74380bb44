--------------------------- MODULE UnpackRequest ---------------------------
(***************************************************************************)
(* The unpack mutation of the GraphQL service and the unpacker subscriber  *)
(* of the syncer, which talk over NATS.  A resolver subscribes to a        *)
(* subject made of network and address, publishes an event and waits 30 s  *)
(* for an answer.  NATS keeps nothing: a message goes to the subscriptions *)
(* that exist, or is lost.  Jobs of other callers store rows meanwhile, as *)
(* ContractStore says.                                                     *)
(*                                                                         *)
(* The address in the subject is the text of the client, which nothing     *)
(* checks: HexToAddress makes an address of any text, and NATS reads * and *)
(* > in the subject of a subscription as wildcards.                        *)
(*                                                                         *)
(* An address has one row here: both services look rows up by address and *)
(* take the first they get.                                                *)
(***************************************************************************)
EXTENDS Naturals, Sequences

CONSTANTS Contracts,   \* network and address
          Spellings,   \* what clients write for them (addresses are strings)
          AddressOf,   \* the contract that a spelling stands for
          Hears,       \* spellings in the subjects that a subscription hears
          Known,       \* contracts of the networks that the options know
          Requests,    \* resolvers, each with one mutation at a time
          MaxPending   \* bound on the messages pending in a subscription

ASSUME AddressOfAssumption == AddressOf \in [Spellings -> Contracts]
ASSUME HearsAssumption == /\ Hears \in [Spellings -> SUBSET Spellings]
                          /\ \A s \in Spellings : s \in Hears[s]
ASSUME KnownAssumption == Known \subseteq Contracts
ASSUME MaxPendingAssumption == MaxPending \in Nat

VARIABLES status,   \* what the row of each contract says (ContractStore)
          up,       \* the unpacker subscriber is subscribed
          events,   \* its pending events
          worker,   \* the event that its callback works on, in a sequence
          pc,       \* where each resolver is
          subject,  \* its correlation subject: the spelling
          inbox,    \* answers pending in its subscription
          found,    \* the contract of its last lookup
          result    \* what its mutation returned

resolver == <<pc, subject, inbox, found, result>>
syncer   == <<up, events, worker>>
vars     == <<status, syncer, resolver>>

\* The files matter to neither service here.
Store == INSTANCE ContractStore
           WITH KeepCompleted <- FALSE, files <- [c \in Contracts |-> "absent"]

\* events.Unpack: the spelling is the correlation subject.
Event == [correlationId : Spellings, address : Contracts, resolved : BOOLEAN]

Results == {"none", "row", "no row", "unresolved", "timeout", "error"}

TypeOK ==
  /\ status \in [Contracts -> Store!Status]
  /\ up \in BOOLEAN
  /\ events \in Seq(Event)
  /\ worker \in Seq(Event) /\ Len(worker) <= 1
  /\ pc \in [Requests -> {"idle", "asked", "subscribed", "waiting", "resolving"}]
  /\ subject \in [Requests -> Spellings]
  /\ inbox \in [Requests -> Seq(Event)]
  /\ found \in [Requests -> Contracts]
  /\ result \in [Requests -> Results]

Init ==
  /\ status = [c \in Contracts |-> "absent"]
  /\ up = TRUE /\ events = <<>> /\ worker = <<>>
  /\ pc = [r \in Requests |-> "idle"]
  /\ subject \in [Requests -> Spellings]
  /\ inbox = [r \in Requests |-> <<>>]
  /\ found = [r \in Requests |-> AddressOf[subject[r]]]
  /\ result = [r \in Requests |-> "none"]

----------------------------------------------------------------------------
(* The resolver of the mutation.                                           *)

Goto(r, to) == pc' = [pc EXCEPT ![r] = to] /\ UNCHANGED result

\* The mutation returns, and with it the subscription is given up.
Return(r, res) ==
  /\ pc' = [pc EXCEPT ![r] = "idle"]
  /\ inbox' = [inbox EXCEPT ![r] = <<>>]
  /\ result' = [result EXCEPT ![r] = res]

\* resolveContract for contract c: no row, the row, or an error, as for a row of
\* a network that the options do not know: the nil network panics, and the
\* executor makes an error of it.
Lookup(c) ==
  IF status[c] = "absent" THEN "no row" ELSE IF c \in Known THEN "row" ELSE "error"

\* A mutation is called with spelling s.  A completed row is returned at once and
\* a panic ends the mutation; any other row, or none, or a query that fails, is
\* to be unpacked.
Call(r, s) ==
  LET c == AddressOf[s]
  IN  /\ pc[r] = "idle"
      /\ subject' = [subject EXCEPT ![r] = s]
      /\ found' = [found EXCEPT ![r] = c]
      /\ \/ /\ Lookup(c) = "error" \/ status[c] = "complete"
            /\ Return(r, Lookup(c))
         \/ /\ pc' = [pc EXCEPT ![r] = "asked"]
            /\ result' = [result EXCEPT ![r] = "none"]
            /\ UNCHANGED inbox
      /\ UNCHANGED <<status, syncer>>

\* The resolver subscribes to its correlation subject.
SubscribeSync(r) ==
  /\ pc[r] = "asked"
  /\ Goto(r, "subscribed")
  /\ UNCHANGED <<status, syncer, subject, inbox, found>>

\* Subscribing, encoding or publishing fails.
RequestFails(r) ==
  /\ pc[r] \in {"asked", "subscribed"}
  /\ Return(r, "error")
  /\ UNCHANGED <<status, syncer, subject, found>>

\* What the resolver of r asks for.
Request(r) ==
  [correlationId |-> subject[r], address |-> AddressOf[subject[r]], resolved |-> FALSE]

\* The event reaches the subscriber, or is lost.
Publish(r) ==
  /\ pc[r] = "subscribed"
  /\ \/ up /\ Len(events) < MaxPending /\ events' = Append(events, Request(r))
     \/ UNCHANGED events
  /\ Goto(r, "waiting")
  /\ UNCHANGED <<status, up, worker, subject, inbox, found>>

\* NextMsg returns an answer.
NextMsg(r) ==
  /\ pc[r] = "waiting" /\ inbox[r] # <<>>
  /\ IF Head(inbox[r]).resolved THEN Goto(r, "resolving") /\ UNCHANGED inbox
                                ELSE Return(r, "unresolved")
  /\ UNCHANGED <<status, syncer, subject, found>>

\* Mutant: the wait ends only while the subscriber is there.
TimeoutWhileUp(r) ==
  /\ pc[r] = "waiting" /\ up
  /\ Return(r, "timeout")
  /\ UNCHANGED <<status, syncer, subject, found>>

\* NextMsg gives up after 30 s.  A message may arrive at that moment.
Timeout(r) ==
  /\ pc[r] = "waiting"
  /\ Return(r, "timeout")
  /\ UNCHANGED <<status, syncer, subject, found>>

\* Mutant: a resolved event is taken for a stored row.
ResolveTrustsEvent(r) ==
  /\ pc[r] = "resolving"
  /\ found' = [found EXCEPT ![r] = Head(inbox[r]).address]
  /\ Return(r, "row")
  /\ UNCHANGED <<status, syncer, subject>>

\* The second lookup, with the address of the answer.
Resolve(r) ==
  LET c == Head(inbox[r]).address
  IN  /\ pc[r] = "resolving"
      /\ found' = [found EXCEPT ![r] = c]
      /\ Return(r, Lookup(c)) \/ Return(r, "error")
      /\ UNCHANGED <<status, syncer, subject>>

----------------------------------------------------------------------------
(* The unpacker subscriber: NATS calls it for one event at a time.         *)

\* Mutant: the subject of the answers does not tell contracts apart.
ListensToAll(r, id) == pc[r] \in {"subscribed", "waiting"}

\* Resolver r has a subscription that hears subject id.
Listens(r, id) == pc[r] \in {"subscribed", "waiting"} /\ id \in Hears[subject[r]]

\* The callback takes the next event.
Receive ==
  /\ up /\ worker = <<>> /\ events # <<>>
  /\ worker' = <<Head(events)>> /\ events' = Tail(events)
  /\ UNCHANGED <<status, up, resolver>>

\* UnpackerInterceptor returns an error, which is logged: no contract, no
\* chain information, the context ran out, or the answer cannot be published.
UnpackFails ==
  /\ worker # <<>>
  /\ worker' = <<>>
  /\ UNCHANGED <<status, up, events, resolver>>

\* Unpack returned without an error, the event is marked as resolved and
\* published on its correlation subject.  Every subscription to it gets the
\* answer, or loses it.  (Unpack stores nothing for an event: see Unpacker.)
Answer ==
  /\ worker # <<>>
  /\ worker' = <<>>
  /\ \E lost \in SUBSET Requests :
       inbox' = [r \in Requests |->
         IF r \notin lost /\ Listens(r, worker[1].correlationId) /\ Len(inbox[r]) < MaxPending
           THEN Append(inbox[r], [worker[1] EXCEPT !.resolved = TRUE]) ELSE inbox[r]]
  /\ UNCHANGED <<status, up, events, pc, subject, found, result>>

\* The syncer ends, its connection breaks, or a panic takes it down (the
\* recovery itself uses the header of the entry, which is nil).
Down ==
  /\ up
  /\ up' = FALSE /\ events' = <<>> /\ worker' = <<>>
  /\ UNCHANGED <<status, resolver>>

\* The syncer is started again.
Up ==
  /\ ~up /\ up' = TRUE
  /\ UNCHANGED <<status, events, worker, resolver>>

\* A job of another caller stores a row.
Stored(c, s) ==
  /\ Store!Store(c, s)
  /\ UNCHANGED <<syncer, resolver>>

----------------------------------------------------------------------------

\* A step of the resolver r within its mutation.
ResolverStep(r) ==
  \/ SubscribeSync(r) \/ RequestFails(r) \/ Publish(r)
  \/ NextMsg(r) \/ Timeout(r) \/ Resolve(r)

Next ==
  \/ \E r \in Requests : (\E s \in Spellings : Call(r, s)) \/ ResolverStep(r)
  \/ Receive \/ UnpackFails \/ Answer
  \/ Down \/ Up
  \/ \E c \in Contracts, s \in {"partial", "complete"} : Stored(c, s)

Spec == Init /\ [][Next]_vars

\* Resolvers run, and their wait is bounded by NextMsg.  Nothing else is
\* fair: the subscriber may be slow or gone for good.
FairSpec == Spec /\ \A r \in Requests : WF_vars(ResolverStep(r))

----------------------------------------------------------------------------
(* Properties.                                                             *)

\* Spelling s has no wildcard in it.
Plain(s) == Hears[s] = {s}

\* When the text of the client has no wildcard, every answer that waits for the
\* resolver or that it took is about the contract it asked for, and so is the
\* contract that the mutation returns, however many requests, spellings and late
\* answers there are: the second lookup uses the address of the answer.
AnswersOwnContract ==
  \A r \in Requests : Plain(subject[r]) =>
    /\ \A i \in 1..Len(inbox[r]) : inbox[r][i].address = AddressOf[subject[r]]
    /\ result[r] = "row" => found[r] = AddressOf[subject[r]]

\* A mutation that returns a contract, whatever its text, returns one whose row
\* is stored and whose network is known.
RowMeansStored ==
  \A r \in Requests :
    result[r] = "row" => status[found[r]] # "absent" /\ found[r] \in Known

\* Every mutation returns, even if the syncer is gone for good or every
\* message is lost.
RequestsReturn == \A r \in Requests : pc[r] # "idle" ~> pc[r] = "idle"
=============================================================================
