------------------------------ MODULE HeadSync ------------------------------
(***************************************************************************)
(* Synchronisation at the head of the chain: the head block subscriber     *)
(* (pkg/subscribers/blocks_head.go), the key CurrentBlockHead of the       *)
(* synchronisation state (pkg/state) in memory and in Redis, and the node  *)
(* that announces headers.  The chain may be reorganised at any time: the  *)
(* node then announces the headers of all replacing blocks.  A header only *)
(* brings a number to the subscriber: the block it inspects is the one the *)
(* chain has at that number by the time it asks for it.                    *)
(*                                                                         *)
(* What the hook starts for the creations in a block is in ArchiveSync.    *)
(***************************************************************************)
EXTENDS Naturals, Sequences

CONSTANTS MaxNumber,    \* bound on the numbers of blocks
          MaxVersion    \* bound on how often the block of a number is replaced

ASSUME MaxNumberAssumption == MaxNumber \in Nat \ {0}
ASSUME MaxVersionAssumption == MaxVersion \in Nat

Numbers == 1..MaxNumber
Blocks  == [number : Numbers, version : 0..MaxVersion]
NoBlock == [number |-> 0]
NoHead  == 0   \* no key in Redis, a nil field of the descriptor

VARIABLES
  head,       \* number of the last block of the chain
  version,    \* which block the chain has at each number
  pending,    \* numbers of headers that the subscription has still to deliver
  pc,         \* the subscriber
  header,     \* number of the header that it works on
  block,      \* the block that it fetched for it
  memory,     \* descriptor.CurrentBlockHeadNumber
  redis,      \* key CurrentBlockHead
  announced,  \* history: blocks announced to this subscription
  inspected,  \* history: blocks that the hooks have handled
  excused,    \* history: blocks given up with a logged error
  latest      \* history: number of the last block that went to the hooks

chain      == <<head, version>>
subscriber == <<pc, header, block>>
state      == <<memory, redis>>
history    == <<announced, inspected, excused, latest>>
vars       == <<chain, pending, subscriber, state, history>>

\* The block that the chain has at number n.
Canonical(n) == [number |-> n, version |-> version[n]]

\* In the loop of Start, with a subscription.
InLoop == pc \in {"select", "fetch", "set", "hooks"}

TypeOK ==
  /\ head \in Numbers /\ version \in [Numbers -> 0..MaxVersion]
  /\ pending \in Seq(1..head)
  /\ pc \in {"down", "start", "initial", "subscribe", "select", "fetch", "set", "hooks", "ended"}
  /\ header \in 0..head /\ (pc \in {"initial", "fetch"} => header # 0)
  /\ block \in Blocks \cup {NoBlock} /\ (pc \in {"set", "hooks"} => block \in Blocks)
  /\ memory \in 0..head /\ redis \in 0..head /\ latest \in 0..head
  /\ announced \subseteq Blocks /\ inspected \subseteq Blocks /\ excused \subseteq Blocks

Init ==
  /\ head = 1 /\ version = [n \in Numbers |-> 0] /\ pending = <<>>
  /\ pc = "down" /\ header = 0 /\ block = NoBlock
  /\ memory = NoHead /\ redis = NoHead
  /\ announced = {} /\ inspected = {} /\ excused = {} /\ latest = 0

----------------------------------------------------------------------------
(* The node.                                                               *)

\* The headers of the blocks from number first to the head are announced.
Announce(first) ==
  IF InLoop
    THEN /\ pending' = pending \o [i \in 1..(head' + 1 - first) |-> first + i - 1]
         /\ announced' = announced \cup
              {[number |-> n, version |-> version'[n]] : n \in first..head'}
    ELSE UNCHANGED <<pending, announced>>

\* A block is added to the chain.
Extend ==
  /\ head < MaxNumber
  /\ head' = head + 1 /\ UNCHANGED version
  /\ Announce(head')
  /\ UNCHANGED <<subscriber, state, inspected, excused, latest>>

\* The blocks from number first on are replaced.
Reorganise(first) ==
  /\ \A n \in first..head : version[n] < MaxVersion
  /\ version' = [n \in Numbers |-> IF n \in first..head THEN version[n] + 1 ELSE version[n]]
  /\ UNCHANGED head
  /\ Announce(first)
  /\ UNCHANGED <<subscriber, state, inspected, excused, latest>>

----------------------------------------------------------------------------
(* The subscriber.                                                         *)

Goto(to) == pc' = to /\ UNCHANGED <<header, block>>

\* The process starts: State.Load.
Boot ==
  /\ pc = "down" /\ Goto("start")
  /\ memory' = redis
  /\ UNCHANGED <<chain, pending, redis, history>>

\* Start asks the node for its head.
ReadHead ==
  /\ pc = "start"
  /\ header' = head /\ pc' = "initial" /\ UNCHANGED block
  /\ UNCHANGED <<chain, pending, state, history>>

\* It sets what it got, which may be behind by now; that block is not inspected.
SetInitialHead ==
  /\ pc = "initial" /\ Goto("subscribe")
  /\ memory' = header /\ redis' = header /\ latest' = header
  /\ UNCHANGED <<chain, pending, announced, inspected, excused>>

\* Redis fails after the descriptor in memory was set, and Start returns.
SetInitialHeadFails(applied) ==
  /\ pc = "initial" /\ Goto("ended")
  /\ memory' = header /\ redis' = IF applied THEN header ELSE redis
  /\ UNCHANGED <<chain, pending, history>>

\* Start returns before the loop: there is no client or head, or subscribing
\* fails.
StartFails ==
  /\ pc \in {"start", "subscribe"} /\ Goto("ended")
  /\ UNCHANGED <<chain, pending, state, history>>

SubscribeNewHead ==
  /\ pc = "subscribe" /\ Goto("select")
  /\ announced' = {} /\ excused' = {}
  /\ UNCHANGED <<chain, pending, state, inspected, latest>>

\* Mutant: only headers beyond the current head count as new.
ReceiveOnlyHigher ==
  /\ pc = "select" /\ pending # <<>>
  /\ header' = Head(pending) /\ pending' = Tail(pending)
  /\ pc' = IF header' > memory THEN "fetch" ELSE "select"
  /\ UNCHANGED <<chain, block, state, history>>

\* The select takes a header from the channel.
Receive ==
  /\ pc = "select" /\ pending # <<>>
  /\ header' = Head(pending) /\ pending' = Tail(pending)
  /\ pc' = "fetch"
  /\ UNCHANGED <<chain, block, state, history>>

\* BlockByNumber returns what the chain has at the number by now.
BlockByNumber ==
  /\ pc = "fetch"
  /\ block' = Canonical(header) /\ pc' = "set"
  /\ UNCHANGED <<chain, pending, header, state, history>>

\* BlockByNumber fails: logged, and the loop continues.
FetchFails ==
  /\ pc = "fetch" /\ Goto("select")
  /\ excused' = excused \cup {Canonical(header)}
  /\ UNCHANGED <<chain, pending, state, announced, inspected, latest>>

\* State.Set: the descriptor in memory, then Redis.
SetHead ==
  /\ pc = "set" /\ Goto("hooks")
  /\ memory' = block.number /\ redis' = block.number
  /\ UNCHANGED <<chain, pending, history>>

\* Mutant: the hooks run although Redis was not written.
SetHeadFailsGoesOn(applied) ==
  /\ pc = "set" /\ Goto("hooks")
  /\ memory' = block.number /\ redis' = IF applied THEN block.number ELSE redis
  /\ UNCHANGED <<chain, pending, history>>

\* The write is not confirmed in time, whether or not Redis applied it: logged,
\* and the hooks are skipped.
SetHeadFails(applied) ==
  /\ pc = "set" /\ Goto("select")
  /\ memory' = block.number /\ redis' = IF applied THEN block.number ELSE redis
  /\ excused' = excused \cup {block}
  /\ UNCHANGED <<chain, pending, announced, inspected, latest>>

\* Mutant: a hook that fails is tried again, with the block fetched anew.
RunHooksAgain(ok) ==
  /\ pc = "hooks" /\ Goto(IF ok THEN "select" ELSE "fetch")
  /\ latest' = block.number
  /\ inspected' = IF ok THEN inspected \cup {block} ELSE inspected
  /\ UNCHANGED <<chain, pending, state, announced, excused>>

\* The post hooks, whose errors are logged.
RunHooks(ok) ==
  /\ pc = "hooks" /\ Goto("select")
  /\ latest' = block.number
  /\ inspected' = IF ok THEN inspected \cup {block} ELSE inspected
  /\ excused' = IF ok THEN excused ELSE excused \cup {block}
  /\ UNCHANGED <<chain, pending, state, announced>>

\* The select sees that the context is done, or an error of the subscription,
\* as of one whose queue overflows: Start returns, pending headers are lost.
LeaveLoop ==
  /\ pc = "select" /\ Goto("ended")
  /\ pending' = <<>>
  /\ UNCHANGED <<chain, state, history>>

\* The process ends, or dies.
Crash ==
  /\ pc # "down" /\ Goto("down")
  /\ pending' = <<>> /\ memory' = NoHead
  /\ UNCHANGED <<chain, redis, history>>

----------------------------------------------------------------------------

SubscriberStep ==
  \/ ReadHead \/ SetInitialHead \/ StartFails \/ SubscribeNewHead
  \/ Receive \/ BlockByNumber \/ FetchFails \/ SetHead
  \/ \E applied \in BOOLEAN : SetInitialHeadFails(applied) \/ SetHeadFails(applied)
  \/ \E ok \in BOOLEAN : RunHooks(ok)

Next ==
  \/ Extend \/ (\E n \in 1..head : Reorganise(n))
  \/ Boot \/ SubscriberStep \/ LeaveLoop \/ Crash

Spec == Init /\ [][Next]_vars

\* The subscriber runs: its calls are bounded by contexts or by the connection
\* to the node.  Nothing else has to happen.
FairSpec == Spec /\ WF_vars(SubscriberStep)

----------------------------------------------------------------------------
(* Properties.                                                             *)

\* The subscriber works on block b, or is about to fetch it.
InWork(b) ==
  \/ pc = "fetch" /\ header = b.number
  \/ pc \in {"set", "hooks"} /\ block = b

\* Fetching by number misses nothing: every block that was announced and that
\* the chain still has went through the hooks or was given up with an error in
\* the log, or is about to be, however late its header is taken and however
\* often the chain is reorganised between a header and its fetch.
AnnouncedCovered ==
  InLoop =>
    \A n \in 1..head : Canonical(n) \in announced =>
      \/ Canonical(n) \in inspected \cup excused
      \/ InWork(Canonical(n))
      \/ \E i \in 1..Len(pending) : pending[i] = n

\* While the subscriber waits for a header, Redis holds the number of the last
\* block that went to the hooks (or the head at its start), or that of a block
\* for which an error was logged: no head is persisted that was skipped silently.
PersistedWentToHooks ==
  pc = "select" => redis = latest \/ \E b \in excused : b.number = redis

\* An announced block is inspected in the end, unless an error is logged for it,
\* the chain loses it, or the subscriber ends.
AnnouncedHandled ==
  \A n \in Numbers :
    InLoop /\ Canonical(n) \in announced ~>
      Canonical(n) \in inspected \cup excused \/ ~InLoop
=============================================================================
