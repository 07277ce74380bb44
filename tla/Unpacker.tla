------------------------------ MODULE Unpacker ------------------------------
(***************************************************************************)
(* The contract unpacking pipeline (pkg/unpacker), driven by the state     *)
(* machine of pkg/machine, over the contracts table (pkg/models, SQLite)   *)
(* and the directory of source files.                                      *)
(*                                                                         *)
(* A job is one call of Unpacker.Unpack: it owns a descriptor and a fresh  *)
(* state machine, and runs the loop of StateMachine.Process.  Jobs run     *)
(* concurrently (a goroutine per contract creation found in a block, gRPC  *)
(* requests, NATS events) and share only the table and the directory.  One *)
(* step of a job is one iteration of the loop, except in the final         *)
(* handler, which writes the row and the files in two steps.               *)
(***************************************************************************)
EXTENDS Naturals

CONSTANTS Jobs,            \* slots for concurrent calls of Unpack
          Contracts,       \* contract keys (network_id, block_number, address)
          Callers,         \* who calls Unpack, see CallerKinds
          ForceReprocess,  \* options.G().Unpacker.ForceReprocess
          EntryStates      \* machine states callers pass to Unpack

ASSUME ForceReprocessAssumption == ForceReprocess \in BOOLEAN

----------------------------------------------------------------------------
(* Machine states, states.go.  The registered states each have a handler.  *)

DiscoverState        == "discover"
MetadataState        == "metadata"
SourceProvidersState == "source_providers"
SourcesState         == "sources"
ParserState          == "parser"
ConstructorState     == "constructor"
FinalState           == "final"
ErrorState           == "error"
DoneState            == "done"

\* States whose handler first sends a descriptor that has not been through
\* discovery to the discover state.
DependentStates == {MetadataState, SourceProvidersState, SourcesState,
                    ParserState, ConstructorState, FinalState}

RegisteredStates == DependentStates \cup {DiscoverState, ErrorState}

\* States that a descriptor may record as completed or failed.
RecordedStates == (DependentStates \ {ConstructorState}) \cup {DiscoverState}

ASSUME EntryStatesAssumption == EntryStates \subseteq RegisteredStates

NoRow   == [id |-> 0]
NoState == ""

\* Who calls Unpack.  "block": a goroutine of BlockInterceptor; "rpc":
\* Server.Unpack; both reach it through UnpackFromEntry with header,
\* transaction and receipt set.  "event": UnpackerInterceptor and the CLI,
\* which leave all three nil in the entry.
CallerKinds == {"block", "rpc", "event"}

ASSUME CallersAssumption == Callers \subseteq CallerKinds

VARIABLES table,   \* contracts table: a row per key, or NoRow
          nextId,  \* AUTOINCREMENT counter of the table
          disk,    \* source tree per key: "absent", "partial" or "complete"
          jobs     \* descriptor, machine state and outcome of every job

vars == <<table, nextId, disk, jobs>>

Row == [id : Nat \ {0}, completed : SUBSET RecordedStates,
        failed : SUBSET RecordedStates, processed : BOOLEAN,
        partial : BOOLEAN, sourceAvailable : BOOLEAN]

\* The row as discovery found it, reduced to what later handlers use.
Model == [id : Nat \ {0}, sourceAvailable : BOOLEAN]

\* How much of the source tree of a contract there is, on disk or in a
\* descriptor.
Tree == {"absent", "partial", "complete"}

Descriptor ==
  [contract  : Contracts, caller : Callers,
   current   : RegisteredStates \cup {DoneState},
   nextState : {NoState, MetadataState},
   completed : SUBSET RecordedStates, failed : SUBSET RecordedStates,
   model     : Model \cup {NoRow},
   sources   : Tree,      \* cdescriptor.Sources
   detector  : BOOLEAN,   \* cdescriptor.HasDetector()
   writing   : BOOLEAN,   \* between the row and the files in FinalState
   result    : {"running", "ok"}]

\* A job without descriptor: none was started, Unpack returned an error, or
\* UnpackFromEntry recovered from a panic.
Gone(r) == [result |-> r]

NoDescriptor == {Gone("idle"), Gone("error"), Gone("panic")}

TypeOK ==
  /\ table  \in [Contracts -> Row \cup {NoRow}]
  /\ nextId \in Nat \ {0}
  /\ disk   \in [Contracts -> Tree]
  /\ jobs   \in [Jobs -> Descriptor \cup NoDescriptor]

Init ==
  /\ table  = [c \in Contracts |-> NoRow]
  /\ nextId = 1
  /\ disk   = [c \in Contracts |-> "absent"]
  /\ jobs   = [j \in Jobs |-> Gone("idle")]

----------------------------------------------------------------------------
(* The state machine: StateMachine.Process and transition, as far as one   *)
(* job can see.                                                            *)

NewDescriptor(c, k, s) ==
  [contract |-> c, caller |-> k, current |-> s, nextState |-> NoState,
   completed |-> {}, failed |-> {}, model |-> NoRow, sources |-> "absent",
   detector |-> FALSE, writing |-> FALSE, result |-> "running"]

Running(j) == jobs[j].result = "running"

HasDescriptor(j) == jobs[j].result \in {"running", "ok"}

\* Job j is at the top of the loop, about to run the handler of state s.
At(j, s) == Running(j) /\ jobs[j].current = s /\ ~jobs[j].writing

\* The handler left descriptor d and returned state s: the loop ends when s
\* is the final state of the machine, DoneState.
Transition(j, d, s) ==
  jobs' = [jobs EXCEPT ![j] =
             [d EXCEPT !.current = s,
                       !.result = IF s = DoneState THEN "ok" ELSE "running"]]

\* The handler returned an error.  An error state is registered, so Process
\* moves there and returns the result of the transition, which is nil: the
\* error is dropped and the handler of the error state does not run.
HandlerError(j) ==
  jobs' = [jobs EXCEPT ![j].current = ErrorState, ![j].result = "ok"]

\* The context of the call is done when the loop looks at it.
ContextDone(j) ==
  /\ Running(j) /\ ~jobs[j].writing
  /\ jobs' = [jobs EXCEPT ![j] = Gone("error")]
  /\ UNCHANGED <<table, nextId, disk>>

\* A call of Unpack.
Begin(j, c, k, s) ==
  /\ ~Running(j)
  /\ jobs' = [jobs EXCEPT ![j] = NewDescriptor(c, k, s)]
  /\ UNCHANGED <<table, nextId, disk>>

----------------------------------------------------------------------------
(* Handlers.                                                               *)

\* The guard every handler but discover and error starts with.  Whatever the
\* state, discovery is told to go on with MetadataState.
NeedsDiscovery(j) ==
  /\ \E s \in DependentStates : At(j, s)
  /\ DiscoverState \notin jobs[j].completed
  /\ Transition(j, [jobs[j] EXCEPT !.nextState = MetadataState], DiscoverState)
  /\ UNCHANGED <<table, nextId, disk>>

\* Ready(j, s): the body of the handler of s runs.
Ready(j, s) == At(j, s) /\ DiscoverState \in jobs[j].completed

IsCompleted(row) == row # NoRow /\ row.processed /\ ~row.partial

ModelOf(row) ==
  IF row = NoRow THEN NoRow
  ELSE [id |-> row.id, sourceAvailable |-> row.sourceAvailable]

\* Discovery: the header, transaction or receipt is missing, or the query
\* fails.
DiscoverFails(j) ==
  /\ At(j, DiscoverState)
  /\ HandlerError(j)
  /\ UNCHANGED <<table, nextId, disk>>

\* Mutant: discovery is not recorded as completed.
DiscoverUnrecorded(j) ==
  LET d == jobs[j]
  IN  /\ At(j, DiscoverState)
      /\ d.caller # "event"
      /\ Transition(j, [d EXCEPT !.model = ModelOf(table[d.contract]),
                                 !.nextState = NoState],
                    IF d.nextState # NoState THEN d.nextState ELSE MetadataState)
      /\ UNCHANGED <<table, nextId, disk>>

\* Discovery reads the row; a completed one ends the job unless
\* ForceReprocess is set.
Discover(j) ==
  LET d   == jobs[j]
      row == table[d.contract]
      e   == [d EXCEPT !.model = ModelOf(row)]
  IN  /\ At(j, DiscoverState)
      /\ d.caller # "event"
      /\ IF IsCompleted(row) /\ ~ForceReprocess
           THEN Transition(j, e, DoneState)
           ELSE Transition(j, [e EXCEPT !.completed = @ \cup {DiscoverState},
                                        !.nextState = NoState],
                           IF d.nextState # NoState THEN d.nextState
                                                    ELSE MetadataState)
      /\ UNCHANGED <<table, nextId, disk>>

\* Mutant: the failure of DiscoverMetadata is not recorded.
MetadataUnrecorded(j, ok) ==
  /\ Ready(j, MetadataState)
  /\ Transition(j, IF ok THEN [jobs[j] EXCEPT !.completed = @ \cup {MetadataState}]
                         ELSE jobs[j],
                SourceProvidersState)
  /\ UNCHANGED <<table, nextId, disk>>

\* Metadata is skipped for self-destructed contracts, found, or not: ok is
\* whether DiscoverMetadata returned no error.
Metadata(j, ok) ==
  /\ Ready(j, MetadataState)
  /\ Transition(j, IF ok THEN [jobs[j] EXCEPT !.completed = @ \cup {MetadataState}]
                         ELSE [jobs[j] EXCEPT !.failed = @ \cup {MetadataState}],
                SourceProvidersState)
  /\ UNCHANGED <<table, nextId, disk>>

HasSources(d) == d.sources # "absent"

\* Sources t were found; the state is no longer failed and completes.
SourcesFound(j, t) ==
  Transition(j, [jobs[j] EXCEPT !.sources = t,
                                !.failed = @ \ {SourceProvidersState},
                                !.completed = @ \cup {SourceProvidersState}],
             SourcesState)

\* The local tree is loaded, as far as it was written, when the row said
\* there are sources (and names the contract).
LocalSources(j) ==
  LET d == jobs[j]
  IN  /\ Ready(j, SourceProvidersState)
      /\ d.model # NoRow /\ d.model.sourceAvailable
      /\ disk[d.contract] # "absent"
      /\ SourcesFound(j, disk[d.contract])
      /\ UNCHANGED <<table, nextId, disk>>

\* No local sources, or they cannot be loaded: a provider is asked.  Its
\* error is only logged, and the state completes all the same.
DiscoverSourceCode(j, found) ==
  LET d == jobs[j]
  IN  /\ Ready(j, SourceProvidersState)
      /\ \/ found /\ SourcesFound(j, "complete")
         \/ /\ ~found
            /\ Transition(j, [d EXCEPT !.completed =
                                IF SourceProvidersState \in d.failed
                                  THEN @ ELSE @ \cup {SourceProvidersState}],
                          SourcesState)
      /\ UNCHANGED <<table, nextId, disk>>

Sources(j) ==
  LET d == jobs[j]
  IN  /\ Ready(j, SourcesState)
      /\ Transition(j, [d EXCEPT !.completed =
                          IF SourcesState \in d.failed
                            THEN @ ELSE @ \cup {SourcesState}],
                    ParserState)
      /\ UNCHANGED <<table, nextId, disk>>

\* Contract.Parse runs when there are sources; on an error it may or may not
\* have set the detector.
Parser(j, ok, detector) ==
  LET d == jobs[j]
  IN  /\ Ready(j, ParserState)
      /\ IF HasSources(d) THEN ok => detector ELSE ok /\ ~detector
      /\ Transition(j, IF ok THEN [d EXCEPT !.completed = @ \cup {ParserState},
                                            !.failed = @ \ {ParserState},
                                            !.detector = detector]
                             ELSE [d EXCEPT !.failed = @ \cup {ParserState},
                                            !.detector = detector],
                    ConstructorState)
      /\ UNCHANGED <<table, nextId, disk>>

\* The constructor is decoded when there is a detector; an error is logged
\* and nothing of it reaches the row.
Constructor(j) ==
  /\ Ready(j, ConstructorState)
  /\ Transition(j, jobs[j], FinalState)
  /\ UNCHANGED <<table, nextId, disk>>

\* The entry that is stored: what the descriptor has recorded up to here.
ContractEntry(d, id) ==
  [id |-> id, completed |-> d.completed, failed |-> d.failed,
   processed |-> TRUE, partial |-> d.failed # {}, sourceAvailable |-> HasSources(d)]

\* Mutant: the table has no UNIQUE index and replaces the row.
InsertReplaces(c) == TRUE

\* INSERT: refused by the UNIQUE index when the key has a row.
CanInsert(c) == table[c] = NoRow

SaveContract(d) ==
  /\ table' = [table EXCEPT ![d.contract] = ContractEntry(d, nextId)]
  /\ nextId' = nextId + 1

\* UPDATE ... WHERE id: touches the rows with that id, possibly none, and
\* reports no error in either case.
UpdateContract(d, id) ==
  /\ table' = [c \in Contracts |->
                 IF table[c] # NoRow /\ table[c].id = id
                   THEN ContractEntry(d, id) ELSE table[c]]
  /\ UNCHANGED nextId

\* The id of the entry: the model's, and 0 without a model.
EntryId(d) == d.model.id

\* Mutant: the row is always inserted anew.
StoreRowAnew(d) == SaveContract(d)

\* The row is written: inserted when discovery saw none and none has
\* appeared since, else updated by the id of the entry.
StoreRow(d) ==
  IF d.model = NoRow /\ CanInsert(d.contract)
    THEN SaveContract(d)
    ELSE UpdateContract(d, EntryId(d))

\* After the row and the files: the final state is recorded as completed
\* unless one of them failed, and the machine is done.
FinishFinal(j, d) ==
  Transition(j, [d EXCEPT !.writing = FALSE,
                          !.completed = IF FinalState \in d.failed
                                          THEN @ ELSE @ \cup {FinalState}],
             DoneState)

\* The final handler up to the row, which is stored.
FinalStore(j) ==
  LET d == jobs[j]
  IN  /\ Ready(j, FinalState)
      /\ StoreRow(d)
      /\ IF HasSources(d)
           THEN jobs' = [jobs EXCEPT ![j].writing = TRUE]
           ELSE FinishFinal(j, d)
      /\ UNCHANGED disk

\* Mutant: the error of the database is logged and not recorded.
FinalStoreFailsUnrecorded(j) ==
  /\ Ready(j, FinalState)
  /\ FinishFinal(j, jobs[j])
  /\ UNCHANGED <<table, nextId, disk>>

\* Mutant: the files are written although the row could not be.
FinalStoreFailsAndWrites(j) ==
  /\ Ready(j, FinalState)
  /\ jobs' = [jobs EXCEPT ![j].failed = @ \cup {FinalState},
                          ![j].writing = TRUE]
  /\ UNCHANGED <<table, nextId, disk>>

\* The database reports an error: recorded, and no files are written.
FinalStoreFails(j) ==
  LET d == jobs[j]
  IN  /\ Ready(j, FinalState)
      /\ FinishFinal(j, [d EXCEPT !.failed = @ \cup {FinalState}])
      /\ UNCHANGED <<table, nextId, disk>>

\* The detector's sources are written to the directory of the contract, over
\* whatever is there.
WriteToDir(j) ==
  LET d == jobs[j]
  IN  /\ Running(j) /\ d.writing /\ d.detector
      /\ disk' = [disk EXCEPT ![d.contract] =
                    IF @ = "complete" THEN @ ELSE d.sources]
      /\ FinishFinal(j, d)
      /\ UNCHANGED <<table, nextId>>

\* Mutant: a tree that could not be written is removed.
WriteToDirFailsAndRemoves(j) ==
  LET d == jobs[j]
  IN  /\ Running(j) /\ d.writing /\ d.detector
      /\ disk' \in {disk, [disk EXCEPT ![d.contract] = "absent"]}
      /\ FinishFinal(j, [d EXCEPT !.failed = @ \cup {FinalState}])
      /\ UNCHANGED <<table, nextId>>

\* Writing fails, before or after some of the files were touched.
WriteToDirFails(j) ==
  LET d == jobs[j]
  IN  /\ Running(j) /\ d.writing /\ d.detector
      /\ disk' \in {disk, [disk EXCEPT ![d.contract] = "partial"]}
      /\ FinishFinal(j, [d EXCEPT !.failed = @ \cup {FinalState}])
      /\ UNCHANGED <<table, nextId>>

\* The handler of the error state, reached only when a caller enters there: it
\* logs header and transaction of the entry, which an event does not have.
Error(j) ==
  /\ At(j, ErrorState)
  /\ jobs[j].caller # "event"
  /\ Transition(j, jobs[j], DoneState)
  /\ UNCHANGED <<table, nextId, disk>>

----------------------------------------------------------------------------
(* Panics and crashes.                                                     *)

\* Contract.Parse panics, the constructor handler follows the IR of a detector
\* that was not built to the end, the final handler calls a nil detector, or the
\* error handler a nil header.
CanPanic(j) ==
  \/ Ready(j, ParserState) /\ HasSources(jobs[j])
  \/ Ready(j, ConstructorState) /\ jobs[j].detector
  \/ At(j, ErrorState) /\ jobs[j].caller = "event"
  \/ Running(j) /\ jobs[j].writing /\ ~jobs[j].detector

Writing(j) == Running(j) /\ jobs[j].writing /\ jobs[j].detector

\* The process goes down: every job is gone, the table stays, and a tree that
\* was being written may be torn.
ProcessDown ==
  /\ jobs' = [j \in Jobs |-> Gone("idle")]
  /\ \E torn \in SUBSET {jobs[j].contract : j \in {i \in Jobs : Writing(i)}} :
       disk' = [c \in Contracts |-> IF c \in torn THEN "partial" ELSE disk[c]]
  /\ UNCHANGED <<table, nextId>>

\* UnpackFromEntry recovers and returns neither descriptor nor error.  The
\* gRPC server recovers once more; the goroutine of BlockInterceptor uses
\* the nil descriptor and brings the process down.
Panic(j) ==
  /\ CanPanic(j)
  /\ \/ /\ jobs[j].caller = "rpc"
        /\ jobs' = [jobs EXCEPT ![j] = Gone("panic")]
        /\ UNCHANGED <<table, nextId, disk>>
     \/ /\ jobs[j].caller # "rpc"
        /\ ProcessDown

\* The process is killed at any point and started again.
Crash ==
  /\ \E j \in Jobs : Running(j)
  /\ ProcessDown

----------------------------------------------------------------------------

JobStep(j) ==
  \/ NeedsDiscovery(j)
  \/ DiscoverFails(j)
  \/ Discover(j)
  \/ \E ok \in BOOLEAN : Metadata(j, ok)
  \/ LocalSources(j)
  \/ \E found \in BOOLEAN : DiscoverSourceCode(j, found)
  \/ Sources(j)
  \/ \E ok, detector \in BOOLEAN : Parser(j, ok, detector)
  \/ Constructor(j)
  \/ FinalStore(j)
  \/ FinalStoreFails(j)
  \/ WriteToDir(j)
  \/ WriteToDirFails(j)
  \/ Error(j)
  \/ Panic(j)

Next ==
  \/ \E j \in Jobs : JobStep(j) \/ ContextDone(j)
  \/ \E j \in Jobs, c \in Contracts, k \in Callers, s \in EntryStates :
        Begin(j, c, k, s)
  \/ Crash

Spec == Init /\ [][Next]_vars

----------------------------------------------------------------------------
(* Properties.                                                             *)

\* Every state that the pipeline can record before the row is stored.
StoredStates == RecordedStates \ {FinalState}

\* A stored row accounts for every pipeline state exactly once, as completed
\* or as failed, and is marked partial exactly when something failed: what
\* IsCompleted (models/contracts.go) decides on is what the handlers did.
RowsAccountForPipeline ==
  \A c \in Contracts : table[c] # NoRow =>
    LET row == table[c]
    IN  /\ row.completed \cup row.failed = StoredStates
        /\ row.completed \cap row.failed = {}
        /\ row.partial <=> row.failed # {}
        /\ row.processed

\* The id a job got from discovery still is the id of the row of its own
\* contract, whatever other jobs stored since, and no two contracts share an
\* id: UpdateContract's WHERE id hits the row of the job and no other.
ModelNamesOwnRow ==
  /\ \A c, e \in Contracts :
       table[c] # NoRow /\ table[e] # NoRow /\ table[c].id = table[e].id => c = e
  /\ \A j \in Jobs :
       HasDescriptor(j) =>
         \/ jobs[j].model = NoRow
         \/ /\ table[jobs[j].contract] # NoRow
            /\ table[jobs[j].contract].id = jobs[j].model.id

\* A job that recorded the final state as completed left a row behind, and,
\* when it had sources, files: no path through the final handler reports
\* success while one of the two is missing.
FinalMeansStored ==
  \A j \in Jobs :
    (HasDescriptor(j) /\ FinalState \in jobs[j].completed) =>
      /\ table[jobs[j].contract] # NoRow
      /\ HasSources(jobs[j]) => disk[jobs[j].contract] # "absent"

\* Files are written only for contracts that have a row, across crashes
\* between the two writes and panics of other jobs.
FilesHaveRow ==
  \A c \in Contracts : disk[c] # "absent" => table[c] # NoRow

\* A row never disappears and never changes its id, whichever job writes it.
RowsKeepIdentity ==
  [][\A c \in Contracts : table[c] # NoRow => table'[c].id = table[c].id]_vars

\* How many steps a running job can still take.
StepsLeft(d) ==
  IF d.writing \/ d.current = ErrorState THEN 1
  ELSE IF d.current = DiscoverState THEN 8
  ELSE IF DiscoverState \notin d.completed THEN 9
  ELSE CASE d.current = MetadataState        -> 7
         [] d.current = SourceProvidersState -> 6
         [] d.current = SourcesState         -> 5
         [] d.current = ParserState          -> 4
         [] d.current = ConstructorState     -> 3
         [] OTHER                            -> 2

\* A job comes closer to its end with every step that it takes, wherever the
\* caller made it enter and whatever the other jobs do: Process goes round its
\* loop at most nine times (the final handler counts twice).
JobsDescend ==
  [][\A j \in Jobs : (Running(j) /\ jobs'[j].result = "running" /\ jobs'[j] # jobs[j])
       => StepsLeft(jobs'[j]) < StepsLeft(jobs[j])]_vars

\* The promise of the storage layer.  With one job at a time and no forced
\* reprocessing a completed row is final.
OneJob == \A i, j \in Jobs : i = j

RowStatus(row) ==
  IF row = NoRow THEN "absent"
  ELSE IF IsCompleted(row) THEN "complete" ELSE "partial"

Store == INSTANCE ContractStore
           WITH KeepCompleted <- OneJob /\ ~ForceReprocess,
                status <- [c \in Contracts |-> RowStatus(table[c])],
                files <- disk

\* Every step of every job implements a step of ContractStore, or changes
\* neither the table nor the directory in a way that it can see.
ImplementsStore == Store!Spec

----------------------------------------------------------------------------
(* What a comment of the code says and the code does not do: the run that  *)
(* checks it finds a counterexample.                                       *)

\* UnpackerInterceptor: no error from Unpack means that the contract asked
\* for by the event was unpacked, and the event is marked as resolved.
ResolvedMeansUnpacked ==
  \A j \in Jobs :
    (jobs[j].result = "ok" /\ jobs[j].caller = "event")
      => table[jobs[j].contract] # NoRow
=============================================================================
