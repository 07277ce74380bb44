---------------------------- MODULE ArchiveSync ----------------------------
(***************************************************************************)
(* Archive synchronisation: the loop of the archive block subscriber       *)
(* (pkg/subscribers/blocks_archive.go), the goroutines that BlockInterceptor*)
(* (services/syncer/interceptors.go) starts for the contract creations of  *)
(* a block, and the synchronisation state (pkg/state), kept in memory and  *)
(* in Redis, from which a restarted process resumes.                       *)
(*                                                                         *)
(* The loop never waits for the goroutines it starts, and each of them     *)
(* records its own block as the latest inspected one when its unpacking    *)
(* returned without error.                                                 *)
(***************************************************************************)
EXTENDS Integers

CONSTANTS StartBlock, EndBlock,  \* opts.StartBlockNumber, opts.EndBlockNumber
          Creations,             \* transactions that create a contract
          BlockOf,               \* the block of each creation
          ResumptionChoices,     \* values opts.Resumption has at a start
          Faults,                \* what may go wrong, see FaultKinds
          MaxCrashes             \* bound on the number of crashes

\* "fetch": BlockByNumber fails; "receipt": TransactionReceipt fails;
\* "unpack": UnpackFromEntry returns an error, or drops one; "redis": a
\* write to Redis fails; "stop": Stop is called.
FaultKinds == {"fetch", "receipt", "unpack", "redis", "stop"}

ASSUME RangeAssumption ==
  StartBlock \in Nat /\ EndBlock \in Nat /\ StartBlock <= EndBlock
ASSUME BlockOfAssumption == BlockOf \in [Creations -> StartBlock..EndBlock]
ASSUME ResumptionAssumption == ResumptionChoices \subseteq BOOLEAN
ASSUME FaultsAssumption == Faults \subseteq FaultKinds
ASSUME MaxCrashesAssumption == MaxCrashes \in Nat

NoBlock == -1   \* a nil descriptor field, a missing Redis key

Blocks == StartBlock..EndBlock

VARIABLES
  pc,        \* archive subscriber: "down", "ready", "loop" or "ended"
  cursor,    \* loop variable: the next block
  stopped,   \* the done channel is closed
  task,      \* goroutine of each creation
  memory,    \* descriptor.LatestInspectedArchiveBlock
  redis,     \* key LatestInspectedArchiveBlock
  unpacked,  \* creations stored by the unpacker
  crashes,   \* number of crashes so far
  visited,   \* history: blocks the loop of some process has passed
  origin,    \* history: latest inspected block when the loop last started
  excused    \* history: creations given up with a logged error

process == <<pc, cursor, stopped>>
state   == <<memory, redis>>
history == <<visited, origin, excused>>
vars    == <<process, task, state, unpacked, crashes, history>>

\* A goroutine: not there, about to ask for the receipt, to unpack, to set
\* the block in memory, to write it to Redis.
TaskStates == {"none", "receipt", "unpack", "memory", "redis"}

TypeOK ==
  /\ pc \in {"down", "ready", "loop", "ended"}
  /\ cursor \in StartBlock..(EndBlock + 1)
  /\ origin \in StartBlock..(EndBlock + 1)
  /\ stopped \in BOOLEAN
  /\ task \in [Creations -> TaskStates]
  /\ memory \in Blocks \cup {NoBlock}
  /\ redis \in Blocks \cup {NoBlock}
  /\ unpacked \subseteq Creations
  /\ crashes \in 0..MaxCrashes
  /\ visited \subseteq Blocks
  /\ excused \subseteq Creations

Init ==
  /\ pc = "down" /\ cursor = StartBlock /\ stopped = FALSE
  /\ task = [k \in Creations |-> "none"]
  /\ memory = NoBlock /\ redis = NoBlock
  /\ unpacked = {} /\ crashes = 0
  /\ visited = {} /\ origin = StartBlock /\ excused = {}

----------------------------------------------------------------------------
(* The process and the archive subscriber.                                 *)

\* Mutant: the end of the range is loaded in place of the latest block.
BootLoadsEnd ==
  /\ pc = "down"
  /\ pc' = "ready" /\ stopped' = FALSE
  /\ memory' = IF redis = NoBlock THEN NoBlock ELSE EndBlock
  /\ UNCHANGED <<cursor, task, redis, unpacked, crashes, history>>

\* Service.Start: State.Load brings the persisted state into memory.
Boot ==
  /\ pc = "down"
  /\ pc' = "ready" /\ memory' = redis /\ stopped' = FALSE
  /\ UNCHANGED <<cursor, task, redis, unpacked, crashes, history>>

\* Mutant: the loop resumes after the latest inspected block.
ResumeAfter(resumption) ==
  IF resumption /\ memory # NoBlock /\ memory >= StartBlock
    THEN memory + 1 ELSE StartBlock

\* Where the loop starts: at the latest inspected block, inspected once more,
\* if there is one in range and resumption is on.
ResumeAt(resumption) ==
  IF resumption /\ memory # NoBlock /\ memory >= StartBlock
    THEN memory ELSE StartBlock

\* ArchiveBlock.Start up to the loop.
StartLoop(resumption) ==
  /\ pc = "ready" /\ ~stopped
  /\ pc' = "loop"
  /\ cursor' = ResumeAt(resumption)
  /\ origin' = IF resumption /\ memory # NoBlock THEN memory ELSE StartBlock
  /\ excused' = {}
  /\ UNCHANGED <<stopped, task, state, unpacked, crashes, visited>>

\* ArchiveBlock.Start returns before the loop: the bounds of the range cannot
\* be written to Redis, or Stop came first.
StartReturns ==
  /\ pc = "ready"
  /\ stopped \/ "redis" \in Faults
  /\ pc' = "ended" /\ origin' = EndBlock + 1
  /\ UNCHANGED <<cursor, stopped, task, state, unpacked, crashes, visited, excused>>

\* ArchiveBlock.Stop closes the done channel; the loop does not look at it.
Stop ==
  /\ "stop" \in Faults
  /\ pc # "down" /\ ~stopped
  /\ stopped' = TRUE
  /\ UNCHANGED <<pc, cursor, task, state, unpacked, crashes, history>>

CreationsIn(b) == {k \in Creations : BlockOf[k] = b}

\* Mutant: the goroutines of the blocks before end with the context of theirs.
FetchBlockCancels ==
  /\ pc = "loop" /\ cursor <= EndBlock
  /\ task' = [k \in Creations |-> IF k \in CreationsIn(cursor) THEN "receipt" ELSE "none"]
  /\ cursor' = cursor + 1
  /\ visited' = visited \cup {cursor}
  /\ UNCHANGED <<pc, stopped, state, unpacked, crashes, origin, excused>>

\* The block was fetched: the post hook starts a goroutine per creation.
FetchBlock ==
  /\ pc = "loop" /\ cursor <= EndBlock
  /\ task' = [k \in Creations |->
                IF k \in CreationsIn(cursor) THEN "receipt" ELSE task[k]]
  /\ cursor' = cursor + 1
  /\ visited' = visited \cup {cursor}
  /\ UNCHANGED <<pc, stopped, state, unpacked, crashes, origin, excused>>

\* The block cannot be fetched: logged, and the loop goes on.
FetchFails ==
  /\ "fetch" \in Faults
  /\ pc = "loop" /\ cursor <= EndBlock
  /\ cursor' = cursor + 1
  /\ visited' = visited \cup {cursor}
  /\ excused' = excused \cup CreationsIn(cursor)
  /\ UNCHANGED <<pc, stopped, task, state, unpacked, crashes, origin>>

EndLoop ==
  /\ pc = "loop" /\ cursor > EndBlock
  /\ pc' = "ended"
  /\ UNCHANGED <<cursor, stopped, task, state, unpacked, crashes, history>>

----------------------------------------------------------------------------
(* The goroutine of a creation.                                            *)

Goroutine(k, from, to) ==
  /\ task[k] = from
  /\ task' = [task EXCEPT ![k] = to]

Receipt(k) ==
  /\ Goroutine(k, "receipt", "unpack")
  /\ UNCHANGED <<process, state, unpacked, crashes, history>>

\* UnpackFromEntry stores the contract.
Unpack(k) ==
  /\ Goroutine(k, "unpack", "memory")
  /\ unpacked' = unpacked \cup {k}
  /\ UNCHANGED <<process, state, crashes, history>>

\* UnpackFromEntry returns no error but stored nothing: the state machine
\* drops the errors of its handlers.
UnpackDropsError(k) ==
  /\ "unpack" \in Faults
  /\ Goroutine(k, "unpack", "memory")
  /\ excused' = excused \cup {k}
  /\ UNCHANGED <<process, state, unpacked, crashes, visited, origin>>

\* The goroutine logs an error and ends.  A transaction whose sender cannot be
\* recovered, or for which no client is left, gets no goroutine at all, which
\* has the same effect as one that ends at once.
GivesUp(k) ==
  /\ \/ "receipt" \in Faults /\ Goroutine(k, "receipt", "none")
     \/ "unpack" \in Faults /\ Goroutine(k, "unpack", "none")
  /\ excused' = excused \cup {k}
  /\ UNCHANGED <<process, state, unpacked, crashes, visited, origin>>

\* State.Set, first half: the descriptor in memory, without a lock.
SetDescriptorKey(k) ==
  /\ Goroutine(k, "memory", "redis")
  /\ memory' = BlockOf[k]
  /\ UNCHANGED <<process, redis, unpacked, crashes, history>>

\* State.Set, second half: the key in Redis.
CacheWrite(k) ==
  /\ Goroutine(k, "redis", "none")
  /\ redis' = BlockOf[k]
  /\ UNCHANGED <<process, memory, unpacked, crashes, history>>

CacheWriteFails(k) ==
  /\ "redis" \in Faults
  /\ Goroutine(k, "redis", "none")
  /\ UNCHANGED <<process, state, unpacked, crashes, history>>

\* Mutant: the latest block counts, the range does not.
PercentageInclusive ==
  IF EndBlock = StartBlock THEN 0
  ELSE ((memory + 1 - StartBlock) * 100) \div (EndBlock - StartBlock)

\* State.Descriptor: the percentage of the range that was inspected.  Not
\* computed while there is no latest inspected block.
Percentage ==
  IF EndBlock = StartBlock THEN 0
  ELSE ((memory - StartBlock) * 100) \div (EndBlock - StartBlock)

----------------------------------------------------------------------------

\* The process dies, killed or by a panic in a goroutine.
Crash ==
  /\ pc # "down" /\ crashes < MaxCrashes
  /\ pc' = "down" /\ crashes' = crashes + 1
  /\ task' = [k \in Creations |-> "none"]
  /\ memory' = NoBlock
  /\ UNCHANGED <<cursor, stopped, redis, unpacked, history>>

LoopStep ==
  \/ \E r \in ResumptionChoices : StartLoop(r)
  \/ StartReturns
  \/ FetchBlock
  \/ FetchFails
  \/ EndLoop

TaskStep(k) ==
  \/ Receipt(k)
  \/ Unpack(k)
  \/ UnpackDropsError(k)
  \/ GivesUp(k)
  \/ SetDescriptorKey(k)
  \/ CacheWrite(k)
  \/ CacheWriteFails(k)

Next ==
  \/ Boot
  \/ LoopStep
  \/ \E k \in Creations : TaskStep(k)
  \/ Stop
  \/ Crash

Spec == Init /\ [][Next]_vars

\* A process that is down is started again; the scheduler runs the loop and
\* every goroutine.  That their calls return is assumed: the 30 s context of a
\* job is looked at between two handlers only.
Fairness ==
  /\ WF_vars(Boot)
  /\ WF_vars(LoopStep)
  /\ \A k \in Creations : WF_vars(TaskStep(k))

FairSpec == Spec /\ Fairness

----------------------------------------------------------------------------
(* Properties.                                                             *)

\* Resumption skips only blocks that the loop of some process has passed: up
\* to the block persisted in Redis, and up to the one in memory, there is no
\* block that has never been looked at, whatever crashes and whichever
\* goroutine writes last.
SkippedWereVisited ==
  /\ StartBlock..redis \subseteq visited
  /\ StartBlock..memory \subseteq visited
  /\ pc = "loop" => StartBlock..(cursor - 1) \subseteq visited

\* The progress that the monitor reports (once a block was inspected) is a
\* percentage, and it is 100 only after the loop of some process has passed every
\* block of the range, whatever crashes and whichever goroutine wrote last.
ReportedProgress ==
  memory # NoBlock =>
    /\ Percentage \in 0..100
    /\ Percentage = 100 => Blocks \subseteq visited

\* No creation is lost behind the loop: from the block on at which it last
\* started, each creation of a block that it has passed, and of every block once
\* the subscriber has returned, is stored, was given up with a logged error, or
\* has its goroutine still before the end of its unpacking.
PassedAccountedFor ==
  pc \in {"loop", "ended"} =>
    \A k \in Creations :
      BlockOf[k] \in origin..(IF pc = "loop" THEN cursor - 1 ELSE EndBlock) =>
        k \in unpacked \cup excused \/ task[k] \in {"receipt", "unpack"}

\* Every creation from the block on that was the latest inspected one when the
\* loop last started ends up stored, unless an error was logged for it: in particular
\* the creations of that block, of which only some may have been stored.
ResumedRangeUnpacked ==
  <>[](\A k \in Creations : BlockOf[k] >= origin => k \in unpacked \cup excused)

\* README: downloads are resumed, "ensuring progress isn't lost".  Without
\* any error, every creation of the range ends up stored across restarts.
AllUnpacked == <>[](unpacked = Creations)
=============================================================================
