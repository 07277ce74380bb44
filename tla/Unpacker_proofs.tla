-------------------------- MODULE Unpacker_proofs --------------------------
(***************************************************************************)
(* Proofs about Unpacker, for any number of jobs and contracts.            *)
(*                                                                         *)
(* The inductive invariant IInv says of the table and the directory what   *)
(* the safety properties say (TableOK), and of every job, separately, what *)
(* it needs of them (JobOK).  Most steps change one job and nothing else   *)
(* (LocalStep); the others are the insert, the update by id, the file      *)
(* writes and the loss of all jobs, for which JobOK of the remaining jobs  *)
(* follows because rows keep their ids and files do not vanish (Growth).   *)
(***************************************************************************)
EXTENDS Unpacker, TLAPS

\* The states of the pipeline that lie behind a job that is at state s.
Behind(s) ==
  CASE s = MetadataState        -> {DiscoverState}
    [] s = SourceProvidersState -> {DiscoverState, MetadataState}
    [] s = SourcesState         -> {DiscoverState, MetadataState,
                                    SourceProvidersState}
    [] s = ParserState          -> {DiscoverState, MetadataState,
                                    SourceProvidersState, SourcesState}
    [] OTHER                    -> StoredStates

\* What a running job has recorded is exactly the pipeline behind it, wherever
\* the caller made it enter: nothing is recorded before discovery, and
\* afterwards no state is skipped, repeated, or both completed and failed.
Progress(d) ==
  /\ d.completed \cap d.failed = {}
  /\ d.completed \cup d.failed =
       IF DiscoverState \in d.completed THEN Behind(d.current) ELSE {}
  /\ DiscoverState \in d.completed => d.current \in DependentStates
  /\ d.writing => /\ d.current = FinalState
                  /\ HasSources(d)
                  /\ DiscoverState \in d.completed

PipelineProgress == \A j \in Jobs : Running(j) => Progress(jobs[j])

TableOK(t, n, dk) ==
  /\ t \in [Contracts -> Row \cup {NoRow}]
  /\ n \in Nat \ {0}
  /\ dk \in [Contracts -> Tree]
  /\ \A c \in Contracts : t[c] # NoRow =>
       /\ t[c] \in Row
       /\ t[c].id < n
       /\ t[c].completed \cup t[c].failed = StoredStates
       /\ t[c].completed \cap t[c].failed = {}
       /\ t[c].partial <=> t[c].failed # {}
       /\ t[c].processed
  /\ \A c, e \in Contracts :
       t[c] # NoRow /\ t[e] # NoRow /\ t[c].id = t[e].id => c = e
  /\ \A c \in Contracts : dk[c] # "absent" => t[c] # NoRow

DescriptorOK(d, t, dk) ==
  /\ d \in Descriptor
  /\ d.model # NoRow =>
       t[d.contract] # NoRow /\ t[d.contract].id = d.model.id
  /\ FinalState \in d.completed =>
       /\ t[d.contract] # NoRow
       /\ HasSources(d) => dk[d.contract] # "absent"
  /\ d.result = "running" =>
       Progress(d) /\ (d.writing => t[d.contract] # NoRow)

JobOK(d, t, dk) == d \in NoDescriptor \/ DescriptorOK(d, t, dk)

IInv ==
  /\ TableOK(table, nextId, disk)
  /\ jobs \in [Jobs -> Descriptor \cup NoDescriptor]
  /\ \A j \in Jobs : JobOK(jobs[j], table, disk)

----------------------------------------------------------------------------
(* Consequences of the invariant.                                          *)

\* The mark for "no row" is neither a row nor the model of one.
LEMMA NoRowNotRow == NoRow \notin Row /\ NoRow \notin Model
  BY DEF NoRow, Row, Model

\* A job without descriptor is told apart from a descriptor by its fields.
LEMMA GoneNotDescriptor ==
  ASSUME NEW d \in NoDescriptor
  PROVE  d \notin Descriptor /\ d.result \notin {"running", "ok"}
  BY DEF NoDescriptor, Gone, Descriptor

\* The inductive invariant implies each of the invariants the runs check.
LEMMA IInvImplies ==
  IInv => /\ TypeOK
          /\ RowsAccountForPipeline
          /\ ModelNamesOwnRow
          /\ FinalMeansStored
          /\ FilesHaveRow
          /\ PipelineProgress
<1> SUFFICES ASSUME IInv
             PROVE  /\ TypeOK /\ RowsAccountForPipeline /\ ModelNamesOwnRow
                    /\ FinalMeansStored /\ FilesHaveRow /\ PipelineProgress
  OBVIOUS
<1>1. TypeOK
  BY DEF IInv, TableOK, TypeOK
<1>2. RowsAccountForPipeline
  BY DEF IInv, TableOK, RowsAccountForPipeline
<1>3. \A j \in Jobs : HasDescriptor(j) => DescriptorOK(jobs[j], table, disk)
  BY GoneNotDescriptor DEF IInv, JobOK, HasDescriptor
<1>4. ModelNamesOwnRow
  BY <1>3 DEF IInv, TableOK, DescriptorOK, ModelNamesOwnRow
<1>5. FinalMeansStored
  BY <1>3 DEF DescriptorOK, FinalMeansStored
<1>6. FilesHaveRow
  BY DEF IInv, TableOK, FilesHaveRow
<1>7. PipelineProgress
  BY <1>3 DEF DescriptorOK, PipelineProgress, Running, HasDescriptor
<1>8. QED
  BY <1>1, <1>2, <1>4, <1>5, <1>6, <1>7

\* IInv holds initially: no row, no file and no job.
THEOREM InitIInv == Init => IInv
  BY DEF Init, IInv, TableOK, JobOK, NoDescriptor, Tree, NoRow, Row, Gone

\* The value of Behind at every state a job with a discovered row is at.
LEMMA BehindAt ==
  /\ Behind(MetadataState) = {DiscoverState}
  /\ Behind(SourceProvidersState) = {DiscoverState, MetadataState}
  /\ Behind(SourcesState) =
       {DiscoverState, MetadataState, SourceProvidersState}
  /\ Behind(ParserState) =
       {DiscoverState, MetadataState, SourceProvidersState, SourcesState}
  /\ Behind(ConstructorState) = StoredStates
  /\ Behind(FinalState) = StoredStates
  /\ StoredStates = {DiscoverState, MetadataState, SourceProvidersState,
                     SourcesState, ParserState}
  BY DEF Behind, StoredStates, RecordedStates, DependentStates, DiscoverState,
     MetadataState, SourceProvidersState, SourcesState, ParserState,
     ConstructorState, FinalState

----------------------------------------------------------------------------
(* Steps that change one job only.                                         *)

\* A step that replaces one job and leaves table, ids and directory alone
\* preserves IInv when the new value of the job is as it should be.
LEMMA LocalStep ==
  ASSUME IInv, NEW j \in Jobs, NEW e,
         jobs' = [jobs EXCEPT ![j] = e],
         JobOK(e, table, disk),
         UNCHANGED <<table, nextId, disk>>
  PROVE  IInv'
<1>1. e \in Descriptor \cup NoDescriptor
  BY DEF JobOK, DescriptorOK
<1>2. jobs' \in [Jobs -> Descriptor \cup NoDescriptor]
  BY <1>1 DEF IInv
<1>3. \A i \in Jobs : JobOK(jobs'[i], table, disk)
  BY DEF IInv
<1>4. QED
  BY <1>2, <1>3 DEF IInv

\* What is known of a job that runs.
LEMMA RunningOK ==
  ASSUME IInv, NEW j \in Jobs, Running(j)
  PROVE  DescriptorOK(jobs[j], table, disk) /\ Progress(jobs[j])
  BY GoneNotDescriptor DEF IInv, JobOK, Running, DescriptorOK

\* A job whose context is done leaves nothing behind (Process, context case).
LEMMA ContextDoneOK ==
  ASSUME IInv, NEW j \in Jobs, ContextDone(j)
  PROVE  IInv'
<1>1. JobOK(Gone("error"), table, disk)
  BY DEF JobOK, NoDescriptor
<1>2. QED
  BY <1>1, LocalStep DEF ContextDone

\* A call of Unpack starts with a descriptor that has recorded nothing.
LEMMA BeginOK ==
  ASSUME IInv, NEW j \in Jobs, NEW c \in Contracts, NEW k \in Callers,
         NEW s \in EntryStates, Begin(j, c, k, s)
  PROVE  IInv'
<1>1. NewDescriptor(c, k, s) \in Descriptor
  BY CallersAssumption, EntryStatesAssumption
  DEF NewDescriptor, Descriptor, NoState, Tree
<1>2. Progress(NewDescriptor(c, k, s))
  BY DEF Progress, NewDescriptor
<1>3. DescriptorOK(NewDescriptor(c, k, s), table, disk)
  BY <1>1, <1>2 DEF DescriptorOK, NewDescriptor
<1>4. QED
  BY <1>3, LocalStep DEF Begin, JobOK

\* An error of a handler before anything was recorded preserves IInv.
LEMMA HandlerErrorOK ==
  ASSUME IInv, NEW j \in Jobs, Running(j), ~jobs[j].writing,
         DiscoverState \notin jobs[j].completed,
         HandlerError(j), UNCHANGED <<table, nextId, disk>>
  PROVE  IInv'
<1> DEFINE e == [jobs[j] EXCEPT !.current = ErrorState, !.result = "ok"]
<1>1. DescriptorOK(jobs[j], table, disk) /\ Progress(jobs[j])
  BY RunningOK
<1>2. jobs' = [jobs EXCEPT ![j] = e]
  BY DEF HandlerError, IInv
<1>3. e \in Descriptor
  BY <1>1 DEF DescriptorOK, Descriptor, RegisteredStates
<1>4. DescriptorOK(e, table, disk)
  BY <1>1, <1>3 DEF DescriptorOK, HasSources, Descriptor
<1>5. QED
  BY <1>2, <1>4, LocalStep DEF JobOK

\* A transition of the machine keeps the invariant when the new descriptor
\* is as it should be.
LEMMA TransitionOK ==
  ASSUME IInv, NEW j \in Jobs, NEW d \in Descriptor,
         NEW s \in RegisteredStates \cup {DoneState},
         Transition(j, d, s), UNCHANGED <<table, nextId, disk>>,
         d.model # NoRow =>
           table[d.contract] # NoRow /\ table[d.contract].id = d.model.id,
         FinalState \notin d.completed,
         s # DoneState => ~d.writing /\ Progress([d EXCEPT !.current = s])
  PROVE  IInv'
<1> DEFINE e == [d EXCEPT !.current = s,
                          !.result = IF s = DoneState THEN "ok" ELSE "running"]
<1>1. e \in Descriptor
  BY DEF Descriptor
<1>2. s # DoneState => Progress(e) /\ ~e.writing
  BY DEF Progress, HasSources, Descriptor
<1>3. DescriptorOK(e, table, disk)
  BY <1>1, <1>2 DEF DescriptorOK, Descriptor
<1>4. QED
  BY <1>3, LocalStep DEF Transition, JobOK

\* What a step of a job before the final handler starts from.
LEMMA ReadyOK ==
  ASSUME IInv, NEW j \in Jobs, Running(j)
  PROVE  /\ jobs[j] \in Descriptor
         /\ Progress(jobs[j])
         /\ FinalState \notin jobs[j].completed
         /\ jobs[j].model # NoRow =>
              /\ table[jobs[j].contract] # NoRow
              /\ table[jobs[j].contract].id = jobs[j].model.id
<1>1. DescriptorOK(jobs[j], table, disk) /\ Progress(jobs[j])
  BY RunningOK
<1>2. jobs[j].completed \subseteq StoredStates
  BY <1>1 DEF Progress, Behind, StoredStates, RecordedStates, DependentStates,
     DiscoverState, MetadataState, SourceProvidersState, SourcesState,
     ParserState, ConstructorState, FinalState
<1>3. QED
  BY <1>1, <1>2 DEF DescriptorOK, StoredStates

\* The dependency guard of the handlers preserves IInv.
LEMMA NeedsDiscoveryOK ==
  ASSUME IInv, NEW j \in Jobs, NeedsDiscovery(j)
  PROVE  IInv'
<1> DEFINE d == [jobs[j] EXCEPT !.nextState = MetadataState]
<1>1. Running(j) /\ ~jobs[j].writing
  BY DEF NeedsDiscovery, At
<1>2. d \in Descriptor
  BY <1>1, ReadyOK DEF Descriptor
<1>3. Progress([d EXCEPT !.current = DiscoverState])
  BY <1>1, ReadyOK DEF NeedsDiscovery, Progress, Descriptor
<1>4. DiscoverState \in RegisteredStates
  BY DEF RegisteredStates
<1>5. d.model = jobs[j].model /\ d.contract = jobs[j].contract
      /\ d.completed = jobs[j].completed /\ d.writing = jobs[j].writing
  BY <1>1, ReadyOK DEF Descriptor
<1> HIDE DEF d
<1>6. QED
  BY <1>1, <1>2, <1>3, <1>4, <1>5, ReadyOK, TransitionOK
  DEF NeedsDiscovery, d

\* A failing discover handler preserves IInv.
LEMMA DiscoverFailsOK ==
  ASSUME IInv, NEW j \in Jobs, DiscoverFails(j)
  PROVE  IInv'
<1>1. Running(j) /\ ~jobs[j].writing /\ jobs[j].current = DiscoverState
  BY DEF DiscoverFails, At
<1>2. DiscoverState \notin jobs[j].completed
  BY <1>1, ReadyOK DEF Progress, DependentStates, DiscoverState, MetadataState,
     SourceProvidersState, SourcesState, ParserState, ConstructorState,
     FinalState
<1>3. QED
  BY <1>1, <1>2, HandlerErrorOK DEF DiscoverFails

\* The discover handler preserves IInv: the model it reads is the row.
LEMMA DiscoverOK ==
  ASSUME IInv, NEW j \in Jobs, Discover(j)
  PROVE  IInv'
<1> DEFINE d   == jobs[j]
           row == table[d.contract]
           m   == ModelOf(row)
           e   == [d EXCEPT !.model = m]
           f   == [e EXCEPT !.completed = @ \cup {DiscoverState},
                            !.nextState = NoState]
<1>1. Running(j) /\ ~d.writing /\ d.current = DiscoverState
  BY DEF Discover, At
<1>2. /\ d \in Descriptor /\ Progress(d) /\ FinalState \notin d.completed
      /\ d.contract \in Contracts
  BY <1>1, ReadyOK DEF Descriptor
<1>3. d.completed = {} /\ d.failed = {}
  BY <1>1, <1>2 DEF Progress, DependentStates, DiscoverState, MetadataState,
     SourceProvidersState, SourcesState, ParserState, ConstructorState,
     FinalState
<1>4. /\ m \in Model \cup {NoRow}
      /\ m # NoRow => row # NoRow /\ row.id = m.id
  BY <1>2 DEF IInv, TableOK, ModelOf, Model, Row, NoRow
<1>5. /\ e \in Descriptor /\ e.model = m /\ e.contract = d.contract
      /\ e.completed = {} /\ e.failed = {} /\ ~e.writing
  BY <1>1, <1>2, <1>3, <1>4 DEF Descriptor
<1>6. CASE Transition(j, e, DoneState)
  BY <1>4, <1>5, <1>6, TransitionOK DEF Discover
<1>7. CASE \E s \in {MetadataState} : Transition(j, f, s)
  <2>1. Transition(j, f, MetadataState)
    BY <1>7
  <2>2. /\ f \in Descriptor /\ f.model = m /\ f.contract = d.contract
        /\ f.completed = {DiscoverState} /\ f.failed = {} /\ ~f.writing
    BY <1>5 DEF Descriptor, RecordedStates
  <2>3. Progress([f EXCEPT !.current = MetadataState])
    BY <2>2, BehindAt DEF Progress, DependentStates, Descriptor
  <2>4. MetadataState \in RegisteredStates
    BY DEF RegisteredStates, DependentStates
  <2>5. FinalState \notin f.completed
    BY <2>2 DEF FinalState, DiscoverState
  <2> HIDE DEF f, m, row, d
  <2>6. QED
    BY <2>1, <2>2, <2>3, <2>4, <2>5, <1>4, TransitionOK DEF Discover, row, d
<1>8. QED
  BY <1>2, <1>6, <1>7 DEF Discover, Descriptor

\* The metadata handler preserves IInv, whatever DiscoverMetadata returns.
LEMMA MetadataOK ==
  ASSUME IInv, NEW j \in Jobs, NEW ok \in BOOLEAN, Metadata(j, ok)
  PROVE  IInv'
<1> DEFINE d == jobs[j]
           e == IF ok THEN [d EXCEPT !.completed = @ \cup {MetadataState}]
                      ELSE [d EXCEPT !.failed = @ \cup {MetadataState}]
<1>1. /\ Running(j) /\ ~d.writing /\ d.current = MetadataState
      /\ DiscoverState \in d.completed
  BY DEF Metadata, Ready, At
<1>2. d \in Descriptor /\ Progress(d) /\ FinalState \notin d.completed
  BY <1>1, ReadyOK
<1>3. d.completed = {DiscoverState} /\ d.failed = {}
  BY <1>1, <1>2, BehindAt DEF Progress
<1>4. /\ e \in Descriptor /\ ~e.writing
      /\ e.model = d.model /\ e.contract = d.contract
      /\ e.completed = IF ok THEN {DiscoverState, MetadataState}
                             ELSE {DiscoverState}
      /\ e.failed = IF ok THEN {} ELSE {MetadataState}
  BY <1>1, <1>2, <1>3 DEF Descriptor, RecordedStates, DependentStates,
     MetadataState, ConstructorState
<1>5. Progress([e EXCEPT !.current = SourceProvidersState])
  BY <1>4, BehindAt DEF Progress, DependentStates, Descriptor, DiscoverState,
     MetadataState, SourceProvidersState
<1>6. FinalState \notin e.completed
  BY <1>4 DEF FinalState, DiscoverState, MetadataState
<1>7. SourceProvidersState \in RegisteredStates
  BY DEF RegisteredStates, DependentStates
<1>8. Transition(j, e, SourceProvidersState)
  BY DEF Metadata
<1> HIDE DEF e
<1>9. QED
  BY <1>1, <1>4, <1>5, <1>6, <1>7, <1>8, ReadyOK, TransitionOK DEF Metadata

\* Recording found sources preserves IInv.
LEMMA SourcesFoundOK ==
  ASSUME IInv, NEW j \in Jobs, NEW t \in Tree, Ready(j, SourceProvidersState),
         SourcesFound(j, t), UNCHANGED <<table, nextId, disk>>
  PROVE  IInv'
<1> DEFINE d == jobs[j]
           e == [d EXCEPT !.sources = t,
                          !.failed = @ \ {SourceProvidersState},
                          !.completed = @ \cup {SourceProvidersState}]
<1>1. /\ Running(j) /\ ~d.writing /\ d.current = SourceProvidersState
      /\ DiscoverState \in d.completed
  BY DEF Ready, At
<1>2. d \in Descriptor /\ Progress(d) /\ FinalState \notin d.completed
  BY <1>1, ReadyOK
<1>3. /\ d.completed \cup d.failed = {DiscoverState, MetadataState}
      /\ d.completed \cap d.failed = {}
  BY <1>1, <1>2, BehindAt DEF Progress, SourceProvidersState, MetadataState
<1>4. /\ e \in Descriptor /\ ~e.writing
      /\ e.model = d.model /\ e.contract = d.contract
      /\ e.completed = d.completed \cup {SourceProvidersState}
      /\ e.failed = d.failed
  BY <1>1, <1>2, <1>3 DEF Descriptor, RecordedStates, DependentStates,
     SourceProvidersState, ConstructorState, DiscoverState, MetadataState
<1>5. Progress([e EXCEPT !.current = SourcesState])
  BY <1>1, <1>3, <1>4, BehindAt DEF Progress, DependentStates, Descriptor,
     DiscoverState, MetadataState, SourceProvidersState, SourcesState
<1>6. FinalState \notin e.completed
  BY <1>2, <1>4 DEF FinalState, SourceProvidersState
<1>7. SourcesState \in RegisteredStates
  BY DEF RegisteredStates, DependentStates
<1>8. Transition(j, e, SourcesState)
  BY DEF SourcesFound
<1> HIDE DEF e
<1>9. QED
  BY <1>1, <1>4, <1>5, <1>6, <1>7, <1>8, ReadyOK, TransitionOK

\* Loading the local tree preserves IInv.
LEMMA LocalSourcesOK ==
  ASSUME IInv, NEW j \in Jobs, LocalSources(j)
  PROVE  IInv'
<1>1. Ready(j, SourceProvidersState)
  BY DEF LocalSources
<1>2. jobs[j].contract \in Contracts
  BY <1>1, ReadyOK DEF Ready, At, Descriptor
<1>3. disk[jobs[j].contract] \in Tree
  BY <1>2 DEF IInv, TableOK
<1>4. QED
  BY <1>1, <1>3, SourcesFoundOK DEF LocalSources

\* Asking a provider preserves IInv, whether or not it finds sources.
LEMMA DiscoverSourceCodeOK ==
  ASSUME IInv, NEW j \in Jobs, NEW found \in BOOLEAN,
         DiscoverSourceCode(j, found)
  PROVE  IInv'
<1> DEFINE d == jobs[j]
           e == [d EXCEPT !.completed = @ \cup {SourceProvidersState}]
<1>1. /\ Running(j) /\ ~d.writing /\ d.current = SourceProvidersState
      /\ DiscoverState \in d.completed
  BY DEF DiscoverSourceCode, Ready, At
<1>2. d \in Descriptor /\ Progress(d) /\ FinalState \notin d.completed
  BY <1>1, ReadyOK
<1>3. /\ d.completed \cup d.failed = {DiscoverState, MetadataState}
      /\ d.completed \cap d.failed = {}
  BY <1>1, <1>2, BehindAt DEF Progress, SourceProvidersState, MetadataState
<1>4. CASE found
  <2>1. "complete" \in Tree
    BY DEF Tree
  <2>2. QED
    BY <1>4, <2>1, SourcesFoundOK DEF DiscoverSourceCode
<1>5. CASE ~found
  <2>1. SourceProvidersState \notin d.failed
    BY <1>3 DEF SourceProvidersState, DiscoverState, MetadataState
  <2>2. Transition(j, e, SourcesState)
    BY <1>5, <2>1 DEF DiscoverSourceCode
  <2>3. /\ e \in Descriptor /\ ~e.writing
        /\ e.model = d.model /\ e.contract = d.contract
        /\ e.completed = d.completed \cup {SourceProvidersState}
        /\ e.failed = d.failed
    BY <1>1, <1>2 DEF Descriptor, RecordedStates, DependentStates,
       SourceProvidersState, ConstructorState
  <2>4. Progress([e EXCEPT !.current = SourcesState])
    BY <1>1, <1>3, <2>3, BehindAt DEF Progress, DependentStates, Descriptor,
       DiscoverState, MetadataState, SourceProvidersState, SourcesState
  <2>5. FinalState \notin e.completed
    BY <1>2, <2>3 DEF FinalState, SourceProvidersState
  <2>6. SourcesState \in RegisteredStates
    BY DEF RegisteredStates, DependentStates
  <2> HIDE DEF e
  <2>7. QED
    BY <1>1, <2>2, <2>3, <2>4, <2>5, <2>6, ReadyOK, TransitionOK
    DEF DiscoverSourceCode
<1>6. QED
  BY <1>4, <1>5

\* The sources handler preserves IInv.
LEMMA SourcesOK ==
  ASSUME IInv, NEW j \in Jobs, Sources(j)
  PROVE  IInv'
<1> DEFINE d == jobs[j]
           e == [d EXCEPT !.completed = @ \cup {SourcesState}]
<1>1. /\ Running(j) /\ ~d.writing /\ d.current = SourcesState
      /\ DiscoverState \in d.completed
  BY DEF Sources, Ready, At
<1>2. d \in Descriptor /\ Progress(d) /\ FinalState \notin d.completed
  BY <1>1, ReadyOK
<1>3. /\ d.completed \cup d.failed =
           {DiscoverState, MetadataState, SourceProvidersState}
      /\ d.completed \cap d.failed = {}
  BY <1>1, <1>2, BehindAt DEF Progress
<1>4. SourcesState \notin d.failed
  BY <1>3 DEF SourcesState, DiscoverState, MetadataState, SourceProvidersState
<1>5. Transition(j, e, ParserState)
  BY <1>4 DEF Sources
<1>6. /\ e \in Descriptor /\ ~e.writing
      /\ e.model = d.model /\ e.contract = d.contract
      /\ e.completed = d.completed \cup {SourcesState}
      /\ e.failed = d.failed
  BY <1>1, <1>2 DEF Descriptor, RecordedStates, DependentStates,
     SourcesState, ConstructorState
<1>7. Progress([e EXCEPT !.current = ParserState])
  BY <1>1, <1>3, <1>4, <1>6, BehindAt
  DEF Progress, DependentStates, Descriptor
<1>8. FinalState \notin e.completed
  BY <1>2, <1>6 DEF FinalState, SourcesState
<1>9. ParserState \in RegisteredStates
  BY DEF RegisteredStates, DependentStates
<1> HIDE DEF e
<1>10. QED
  BY <1>1, <1>5, <1>6, <1>7, <1>8, <1>9, ReadyOK, TransitionOK DEF Sources

\* The parser handler preserves IInv, whatever Contract.Parse returns.
LEMMA ParserOK ==
  ASSUME IInv, NEW j \in Jobs, NEW ok \in BOOLEAN, NEW detector \in BOOLEAN,
         Parser(j, ok, detector)
  PROVE  IInv'
<1> DEFINE d == jobs[j]
           e == IF ok THEN [d EXCEPT !.completed = @ \cup {ParserState},
                                     !.failed = @ \ {ParserState},
                                     !.detector = detector]
                      ELSE [d EXCEPT !.failed = @ \cup {ParserState},
                                     !.detector = detector]
<1>1. /\ Running(j) /\ ~d.writing /\ d.current = ParserState
      /\ DiscoverState \in d.completed
  BY DEF Parser, Ready, At
<1>2. d \in Descriptor /\ Progress(d) /\ FinalState \notin d.completed
  BY <1>1, ReadyOK
<1>3. /\ d.completed \cup d.failed =
           {DiscoverState, MetadataState, SourceProvidersState, SourcesState}
      /\ d.completed \cap d.failed = {}
  BY <1>1, <1>2, BehindAt DEF Progress
<1>4. ParserState \notin d.completed \cup d.failed
  BY <1>3 DEF ParserState, SourcesState, DiscoverState, MetadataState,
     SourceProvidersState
<1>5. /\ e \in Descriptor /\ ~e.writing
      /\ e.model = d.model /\ e.contract = d.contract
      /\ e.completed = IF ok THEN d.completed \cup {ParserState} ELSE d.completed
      /\ e.failed = IF ok THEN d.failed ELSE d.failed \cup {ParserState}
  BY <1>1, <1>2, <1>4 DEF Descriptor, RecordedStates, DependentStates,
     ParserState, ConstructorState
<1>6. Progress([e EXCEPT !.current = ConstructorState])
  BY <1>1, <1>3, <1>4, <1>5, BehindAt
  DEF Progress, DependentStates, Descriptor
<1>7. FinalState \notin e.completed
  BY <1>2, <1>5 DEF FinalState, ParserState
<1>8. ConstructorState \in RegisteredStates
  BY DEF RegisteredStates, DependentStates
<1>9. Transition(j, e, ConstructorState)
  BY DEF Parser
<1> HIDE DEF e
<1>10. QED
  BY <1>1, <1>5, <1>6, <1>7, <1>8, <1>9, ReadyOK, TransitionOK DEF Parser

\* The constructor handler preserves IInv.
LEMMA ConstructorOK ==
  ASSUME IInv, NEW j \in Jobs, Constructor(j)
  PROVE  IInv'
<1>1. /\ Running(j) /\ ~jobs[j].writing /\ jobs[j].current = ConstructorState
      /\ DiscoverState \in jobs[j].completed
  BY DEF Constructor, Ready, At
<1>2. jobs[j] \in Descriptor /\ Progress(jobs[j])
  BY <1>1, ReadyOK
<1>3. Progress([jobs[j] EXCEPT !.current = FinalState])
  BY <1>1, <1>2, BehindAt DEF Progress, DependentStates, Descriptor
<1>4. FinalState \in RegisteredStates
  BY DEF RegisteredStates, DependentStates
<1>5. QED
  BY <1>1, <1>2, <1>3, <1>4, ReadyOK, TransitionOK DEF Constructor

\* The handler of the error state preserves IInv.
LEMMA ErrorOK ==
  ASSUME IInv, NEW j \in Jobs, Error(j)
  PROVE  IInv'
<1>1. Running(j)
  BY DEF Error, At
<1>2. QED
  BY <1>1, ReadyOK, TransitionOK DEF Error

----------------------------------------------------------------------------
(* Steps that change the table or the directory.                           *)

\* The table and the directory only grow: rows keep their ids, and files do
\* not vanish.
Growth(t, dk, tt, dd) ==
  \A c \in Contracts :
    /\ t[c] # NoRow => tt[c] # NoRow /\ tt[c].id = t[c].id
    /\ dk[c] # "absent" => dd[c] # "absent"

\* What is known of a job survives a growth of the table and the directory.
LEMMA GrowthKeepsJob ==
  ASSUME NEW d, NEW t, NEW dk, NEW tt, NEW dd,
         JobOK(d, t, dk), Growth(t, dk, tt, dd)
  PROVE  JobOK(d, tt, dd)
<1>1. CASE d \in NoDescriptor
  BY <1>1 DEF JobOK
<1>2. CASE DescriptorOK(d, t, dk)
  <2>1. d.contract \in Contracts
    BY <1>2 DEF DescriptorOK, Descriptor
  <2>2. DescriptorOK(d, tt, dd)
    BY <1>2, <2>1 DEF DescriptorOK, Growth
  <2>3. QED
    BY <2>2 DEF JobOK
<1>3. QED
  BY <1>1, <1>2 DEF JobOK

\* A step of one job that also writes the table or the directory preserves
\* IInv when both only grow and the job itself is as it should be.
LEMMA SharedStep ==
  ASSUME IInv, NEW j \in Jobs, NEW e,
         jobs' = [jobs EXCEPT ![j] = e],
         JobOK(e, table', disk'),
         TableOK(table', nextId', disk'),
         Growth(table, disk, table', disk')
  PROVE  IInv'
<1>1. e \in Descriptor \cup NoDescriptor
  BY DEF JobOK, DescriptorOK
<1>2. jobs' \in [Jobs -> Descriptor \cup NoDescriptor]
  BY <1>1 DEF IInv
<1>3. ASSUME NEW i \in Jobs
      PROVE  JobOK(jobs'[i], table', disk')
  <2>1. CASE i = j
    BY <2>1 DEF IInv
  <2>2. CASE i # j
    BY <2>2, GrowthKeepsJob DEF IInv
  <2>3. QED
    BY <2>1, <2>2
<1>4. QED
  BY <1>2, <1>3 DEF IInv

\* The entry of a job that is ready for the final state is a proper row.
LEMMA EntryOK ==
  ASSUME IInv, NEW j \in Jobs, Ready(j, FinalState), NEW id \in Nat \ {0}
  PROVE  LET r == ContractEntry(jobs[j], id)
         IN  /\ r \in Row /\ r # NoRow /\ r.id = id
             /\ r.completed \cup r.failed = StoredStates
             /\ r.completed \cap r.failed = {}
             /\ r.partial <=> r.failed # {}
             /\ r.processed
             /\ r.sourceAvailable <=> HasSources(jobs[j])
<1>1. /\ Running(j) /\ jobs[j].current = FinalState
      /\ DiscoverState \in jobs[j].completed
  BY DEF Ready, At
<1>2. /\ jobs[j].completed \cup jobs[j].failed = StoredStates
      /\ jobs[j].completed \cap jobs[j].failed = {}
      /\ jobs[j].completed \in SUBSET RecordedStates
      /\ jobs[j].failed \in SUBSET RecordedStates
  BY <1>1, ReadyOK, BehindAt DEF Progress, Descriptor
<1>3. ContractEntry(jobs[j], id) \in Row
  BY <1>2 DEF ContractEntry, Row, HasSources
<1>4. QED
  BY <1>2, <1>3, NoRowNotRow DEF ContractEntry

\* Storing the row: the table stays proper and grows, and afterwards the
\* contract of the job has a row, under the id the job knows, if any.
LEMMA StoreRowOK ==
  ASSUME IInv, NEW j \in Jobs, Ready(j, FinalState), StoreRow(jobs[j]),
         UNCHANGED disk
  PROVE  /\ TableOK(table', nextId', disk')
         /\ Growth(table, disk, table', disk')
         /\ table'[jobs[j].contract] # NoRow
<1> DEFINE d == jobs[j]
<1>1. /\ Running(j) /\ d \in Descriptor /\ d.contract \in Contracts
      /\ d.model # NoRow =>
           table[d.contract] # NoRow /\ table[d.contract].id = d.model.id
  BY ReadyOK DEF Ready, At, Descriptor
<1>2. CASE d.model = NoRow /\ CanInsert(d.contract)
  <2>1. /\ table' = [table EXCEPT ![d.contract] = ContractEntry(d, nextId)]
        /\ nextId' = nextId + 1
    BY <1>2 DEF StoreRow, SaveContract
  <2>2. nextId \in Nat \ {0} /\ table[d.contract] = NoRow
    BY <1>2 DEF IInv, TableOK, CanInsert
  <2>3. /\ ContractEntry(d, nextId) \in Row
        /\ ContractEntry(d, nextId) # NoRow
        /\ ContractEntry(d, nextId).id = nextId
        /\ ContractEntry(d, nextId).completed \cup ContractEntry(d, nextId).failed
             = StoredStates
        /\ ContractEntry(d, nextId).completed \cap ContractEntry(d, nextId).failed
             = {}
        /\ ContractEntry(d, nextId).partial
             <=> ContractEntry(d, nextId).failed # {}
        /\ ContractEntry(d, nextId).processed
    BY <2>2, EntryOK
  <2> DEFINE r == ContractEntry(d, nextId)
  <2> HIDE DEF r
  <2>4. /\ table' = [table EXCEPT ![d.contract] = r]
        /\ r \in Row /\ r # NoRow /\ r.id = nextId
        /\ r.completed \cup r.failed = StoredStates
        /\ r.completed \cap r.failed = {}
        /\ r.partial <=> r.failed # {}
        /\ r.processed
    BY <2>1, <2>3 DEF r
  <2>5. /\ table' \in [Contracts -> Row \cup {NoRow}]
        /\ \A c \in Contracts : table'[c] = IF c = d.contract THEN r ELSE table[c]
    BY <1>1, <2>4 DEF IInv, TableOK
  <2>6. \A c \in Contracts : table[c] # NoRow =>
          table[c] \in Row /\ table[c].id \in Nat /\ table[c].id < nextId
    BY DEF IInv, TableOK, Row
  <2>7. \A c, e \in Contracts :
          table'[c] # NoRow /\ table'[e] # NoRow /\ table'[c].id = table'[e].id
            => c = e
    BY <2>2, <2>4, <2>5, <2>6 DEF IInv, TableOK
  <2>8. \A c \in Contracts : table'[c] # NoRow =>
          /\ table'[c] \in Row
          /\ table'[c].id < nextId'
          /\ table'[c].completed \cup table'[c].failed = StoredStates
          /\ table'[c].completed \cap table'[c].failed = {}
          /\ table'[c].partial <=> table'[c].failed # {}
          /\ table'[c].processed
    BY <2>1, <2>2, <2>4, <2>5, <2>6 DEF IInv, TableOK
  <2>9. nextId' \in Nat \ {0}
    BY <2>1, <2>2
  <2>10. \A c \in Contracts : disk'[c] # "absent" => table'[c] # NoRow
    BY <2>4, <2>5 DEF IInv, TableOK
  <2>11. TableOK(table', nextId', disk')
    BY <2>5, <2>7, <2>8, <2>9, <2>10 DEF TableOK, IInv
  <2>12. Growth(table, disk, table', disk')
    BY <2>2, <2>5 DEF Growth
  <2>13. QED
    BY <1>1, <2>4, <2>5, <2>11, <2>12
<1>3. CASE ~(d.model = NoRow /\ CanInsert(d.contract))
  <2>1. /\ table' = [c \in Contracts |->
                       IF table[c] # NoRow /\ table[c].id = d.model.id
                         THEN ContractEntry(d, d.model.id) ELSE table[c]]
        /\ nextId' = nextId
    BY <1>3 DEF StoreRow, UpdateContract, EntryId
  <2>2. table[d.contract] # NoRow
    BY <1>1, <1>3 DEF CanInsert
  <2> DEFINE r == ContractEntry(d, d.model.id)
             Hit(c) == table[c] # NoRow /\ table[c].id = d.model.id
  <2>3. ASSUME NEW c \in Contracts, Hit(c)
        PROVE  /\ r \in Row /\ r # NoRow /\ r.id = table[c].id
               /\ r.completed \cup r.failed = StoredStates
               /\ r.completed \cap r.failed = {}
               /\ r.partial <=> r.failed # {}
               /\ r.processed
    <3>1. d.model.id \in Nat \ {0}
      BY <2>3 DEF IInv, TableOK, Row
    <3>2. QED
      BY <2>3, <3>1, EntryOK
  <2> HIDE DEF r
  <2>4. \A c \in Contracts : table'[c] = IF Hit(c) THEN r ELSE table[c]
    BY <2>1 DEF r
  <2>5. table' \in [Contracts -> Row \cup {NoRow}]
    BY <2>1, <2>3 DEF r, IInv, TableOK
  <2>6. \A c \in Contracts : /\ table'[c] # NoRow <=> table[c] # NoRow
                             /\ table[c] # NoRow => table'[c].id = table[c].id
    BY <2>3, <2>4
  <2>7. \A c, e \in Contracts :
          table'[c] # NoRow /\ table'[e] # NoRow /\ table'[c].id = table'[e].id
            => c = e
    BY <2>6 DEF IInv, TableOK
  <2>8. \A c \in Contracts : table'[c] # NoRow =>
          /\ table'[c] \in Row
          /\ table'[c].id < nextId'
          /\ table'[c].completed \cup table'[c].failed = StoredStates
          /\ table'[c].completed \cap table'[c].failed = {}
          /\ table'[c].partial <=> table'[c].failed # {}
          /\ table'[c].processed
    BY <2>1, <2>3, <2>4, <2>6 DEF IInv, TableOK
  <2>9. TableOK(table', nextId', disk')
    BY <2>1, <2>5, <2>6, <2>7, <2>8 DEF TableOK, IInv
  <2>10. Growth(table, disk, table', disk')
    BY <2>6 DEF Growth
  <2>11. QED
    BY <1>1, <2>2, <2>6, <2>9, <2>10
<1>4. QED
  BY <1>2, <1>3

\* The end of the final handler.
LEMMA FinishFinalOK ==
  ASSUME IInv, NEW j \in Jobs, NEW d \in Descriptor, FinishFinal(j, d),
         TableOK(table', nextId', disk'),
         Growth(table, disk, table', disk'),
         d.model # NoRow =>
           table'[d.contract] # NoRow /\ table'[d.contract].id = d.model.id,
         FinalState \notin d.completed,
         FinalState \notin d.failed =>
           /\ table'[d.contract] # NoRow
           /\ HasSources(d) => disk'[d.contract] # "absent"
  PROVE  IInv'
<1> DEFINE f == [d EXCEPT !.writing = FALSE,
                          !.completed = IF FinalState \in d.failed
                                          THEN @ ELSE @ \cup {FinalState}]
           e == [f EXCEPT !.current = DoneState, !.result = "ok"]
<1>1. jobs' = [jobs EXCEPT ![j] = e]
  BY DEF FinishFinal, Transition
<1>2. FinalState \in RecordedStates
  BY DEF RecordedStates, DependentStates, FinalState, ConstructorState
<1>3. /\ e \in Descriptor /\ e.model = d.model /\ e.contract = d.contract
      /\ e.sources = d.sources /\ e.result = "ok"
      /\ e.completed = IF FinalState \in d.failed
                         THEN d.completed ELSE d.completed \cup {FinalState}
  BY <1>2 DEF Descriptor
<1> HIDE DEF e
<1>4. DescriptorOK(e, table', disk')
  BY <1>3 DEF DescriptorOK, HasSources
<1>5. QED
  BY <1>1, <1>4, SharedStep DEF JobOK

\* The final handler up to the stored row preserves IInv.
LEMMA FinalStoreOK ==
  ASSUME IInv, NEW j \in Jobs, FinalStore(j)
  PROVE  IInv'
<1> DEFINE d == jobs[j]
<1>1. /\ Ready(j, FinalState) /\ Running(j) /\ d.current = FinalState
      /\ DiscoverState \in d.completed
      /\ StoreRow(d) /\ UNCHANGED disk
  BY DEF FinalStore, Ready, At
<1>2. /\ d \in Descriptor /\ Progress(d) /\ FinalState \notin d.completed
      /\ d.contract \in Contracts
      /\ d.model # NoRow =>
           table[d.contract] # NoRow /\ table[d.contract].id = d.model.id
  BY <1>1, ReadyOK DEF Descriptor
<1>3. /\ TableOK(table', nextId', disk')
      /\ Growth(table, disk, table', disk')
      /\ table'[d.contract] # NoRow
  BY <1>1, StoreRowOK
<1>4. d.model # NoRow => table'[d.contract].id = d.model.id
  BY <1>2, <1>3 DEF Growth
<1>5. CASE HasSources(d)
  <2> DEFINE e == [d EXCEPT !.writing = TRUE]
  <2>1. jobs' = [jobs EXCEPT ![j] = e]
    BY <1>5 DEF FinalStore
  <2>2. /\ e \in Descriptor /\ e.model = d.model /\ e.contract = d.contract
        /\ e.completed = d.completed
    BY <1>2 DEF Descriptor
  <2>3. Progress(e)
    BY <1>1, <1>2, <1>5 DEF Progress, HasSources, Descriptor
  <2>4. DescriptorOK(e, table', disk')
    BY <1>2, <1>3, <1>4, <2>2, <2>3 DEF DescriptorOK
  <2>5. QED
    BY <1>3, <2>1, <2>4, SharedStep DEF JobOK
<1>6. CASE ~HasSources(d)
  BY <1>2, <1>3, <1>4, <1>6, FinishFinalOK DEF FinalStore
<1>7. QED
  BY <1>5, <1>6

\* Nothing is stored: the table and the directory grow trivially.
LEMMA NoGrowth ==
  ASSUME IInv, UNCHANGED <<table, nextId, disk>>
  PROVE  TableOK(table', nextId', disk') /\ Growth(table, disk, table', disk')
  BY DEF IInv, Growth

\* The final handler preserves IInv when the database reports an error.
LEMMA FinalStoreFailsOK ==
  ASSUME IInv, NEW j \in Jobs, FinalStoreFails(j)
  PROVE  IInv'
<1> DEFINE d == jobs[j]
           f == [d EXCEPT !.failed = @ \cup {FinalState}]
<1>1. Running(j) /\ UNCHANGED <<table, nextId, disk>> /\ FinishFinal(j, f)
  BY DEF FinalStoreFails, Ready, At
<1>2. /\ d \in Descriptor /\ FinalState \notin d.completed
      /\ d.model # NoRow =>
           table[d.contract] # NoRow /\ table[d.contract].id = d.model.id
  BY <1>1, ReadyOK
<1>3. FinalState \in RecordedStates
  BY DEF RecordedStates, DependentStates, FinalState, ConstructorState
<1>4. /\ f \in Descriptor /\ f.model = d.model /\ f.contract = d.contract
      /\ f.completed = d.completed /\ FinalState \in f.failed
  BY <1>2, <1>3 DEF Descriptor
<1> HIDE DEF f
<1>5. QED
  BY <1>1, <1>2, <1>4, NoGrowth, FinishFinalOK

\* A job that writes its files has a row, and the directory may only grow.
LEMMA WriteOK ==
  ASSUME IInv, NEW j \in Jobs, Running(j), jobs[j].writing,
         disk' \in [Contracts -> Tree],
         UNCHANGED <<table, nextId>>,
         \A c \in Contracts : /\ disk[c] # "absent" => disk'[c] # "absent"
                              /\ c # jobs[j].contract => disk'[c] = disk[c]
  PROVE  TableOK(table', nextId', disk') /\ Growth(table, disk, table', disk')
<1>1. table[jobs[j].contract] # NoRow
  BY RunningOK DEF DescriptorOK, Running
<1>2. \A c \in Contracts : disk'[c] # "absent" => table'[c] # NoRow
  BY <1>1 DEF IInv, TableOK
<1>3. QED
  BY <1>2 DEF IInv, TableOK, Growth

\* Writing the source files preserves IInv.
LEMMA WriteToDirOK ==
  ASSUME IInv, NEW j \in Jobs, WriteToDir(j)
  PROVE  IInv'
<1> DEFINE d == jobs[j]
<1>1. /\ Running(j) /\ d.writing /\ UNCHANGED <<table, nextId>>
      /\ FinishFinal(j, d)
      /\ disk' = [disk EXCEPT ![d.contract] =
                    IF @ = "complete" THEN @ ELSE d.sources]
  BY DEF WriteToDir
<1>2. /\ d \in Descriptor /\ Progress(d) /\ FinalState \notin d.completed
      /\ d.contract \in Contracts /\ d.sources \in Tree
      /\ d.model # NoRow =>
           table[d.contract] # NoRow /\ table[d.contract].id = d.model.id
  BY <1>1, ReadyOK DEF Descriptor
<1>3. d.sources # "absent" /\ disk \in [Contracts -> Tree]
  BY <1>1, <1>2 DEF Progress, HasSources, IInv, TableOK
<1>4. /\ disk' \in [Contracts -> Tree]
      /\ disk'[d.contract] # "absent"
      /\ \A c \in Contracts : c # d.contract => disk'[c] = disk[c]
  BY <1>1, <1>2, <1>3
<1>5. TableOK(table', nextId', disk') /\ Growth(table, disk, table', disk')
  BY <1>1, <1>4, WriteOK
<1>6. table[d.contract] # NoRow
  BY <1>1, RunningOK DEF DescriptorOK, Running
<1>7. QED
  BY <1>1, <1>2, <1>4, <1>5, <1>6, FinishFinalOK

\* Failing to write the source files preserves IInv, torn tree included.
LEMMA WriteToDirFailsOK ==
  ASSUME IInv, NEW j \in Jobs, WriteToDirFails(j)
  PROVE  IInv'
<1> DEFINE d == jobs[j]
           f == [d EXCEPT !.failed = @ \cup {FinalState}]
<1>1. /\ Running(j) /\ d.writing /\ UNCHANGED <<table, nextId>>
      /\ FinishFinal(j, f)
      /\ disk' \in {disk, [disk EXCEPT ![d.contract] = "partial"]}
  BY DEF WriteToDirFails
<1>2. /\ d \in Descriptor /\ FinalState \notin d.completed
      /\ d.contract \in Contracts
      /\ d.model # NoRow =>
           table[d.contract] # NoRow /\ table[d.contract].id = d.model.id
  BY <1>1, ReadyOK DEF Descriptor
<1>3. FinalState \in RecordedStates
  BY DEF RecordedStates, DependentStates, FinalState, ConstructorState
<1>4. /\ f \in Descriptor /\ f.model = d.model /\ f.contract = d.contract
      /\ f.completed = d.completed /\ FinalState \in f.failed
  BY <1>2, <1>3 DEF Descriptor
<1>5. /\ disk' \in [Contracts -> Tree]
      /\ \A c \in Contracts : /\ disk[c] # "absent" => disk'[c] # "absent"
                              /\ c # d.contract => disk'[c] = disk[c]
  BY <1>1, <1>2 DEF IInv, TableOK, Tree
<1>6. TableOK(table', nextId', disk') /\ Growth(table, disk, table', disk')
  BY <1>1, <1>5, WriteOK
<1> HIDE DEF f
<1>7. QED
  BY <1>1, <1>2, <1>4, <1>6, FinishFinalOK

\* The end of the process preserves IInv: rows stay, a tree may be torn.
LEMMA ProcessDownOK ==
  ASSUME IInv, ProcessDown
  PROVE  IInv' /\ Growth(table, disk, table', disk')
<1>1. PICK torn \in SUBSET {jobs[j].contract : j \in {i \in Jobs : Writing(i)}} :
        disk' = [c \in Contracts |-> IF c \in torn THEN "partial" ELSE disk[c]]
  BY DEF ProcessDown
<1>2. \A c \in torn : table[c] # NoRow
  BY <1>1, RunningOK DEF Writing, DescriptorOK, Running
<1>3. /\ disk' \in [Contracts -> Tree]
      /\ \A c \in Contracts : /\ disk'[c] # "absent" => table[c] # NoRow
                              /\ disk[c] # "absent" => disk'[c] # "absent"
  BY <1>1, <1>2 DEF IInv, TableOK, Tree
<1>4. TableOK(table', nextId', disk') /\ Growth(table, disk, table', disk')
  BY <1>3 DEF IInv, TableOK, ProcessDown, Growth
<1>5. \A j \in Jobs : jobs'[j] \in NoDescriptor
  BY DEF ProcessDown, NoDescriptor
<1>6. jobs' \in [Jobs -> Descriptor \cup NoDescriptor]
  BY DEF ProcessDown, NoDescriptor
<1>7. QED
  BY <1>4, <1>5, <1>6 DEF IInv, JobOK

\* A panic preserves IInv, recovered or not.
LEMMA PanicOK ==
  ASSUME IInv, NEW j \in Jobs, Panic(j)
  PROVE  IInv'
<1>1. JobOK(Gone("panic"), table, disk)
  BY DEF JobOK, NoDescriptor
<1>2. QED
  BY <1>1, LocalStep, ProcessDownOK DEF Panic

----------------------------------------------------------------------------

\* Every step of a job preserves IInv.
LEMMA JobStepOK ==
  ASSUME IInv, NEW j \in Jobs, JobStep(j)
  PROVE  IInv'
  BY NeedsDiscoveryOK, DiscoverFailsOK, DiscoverOK, MetadataOK, LocalSourcesOK,
     DiscoverSourceCodeOK, SourcesOK, ParserOK, ConstructorOK, FinalStoreOK,
     FinalStoreFailsOK, WriteToDirOK, WriteToDirFailsOK, ErrorOK, PanicOK
  DEF JobStep

\* IInv is inductive.
THEOREM NextIInv == IInv /\ [Next]_vars => IInv'
<1> SUFFICES ASSUME IInv, [Next]_vars
             PROVE  IInv'
  OBVIOUS
<1>1. CASE \E j \in Jobs : JobStep(j)
  BY <1>1, JobStepOK
<1>2. CASE \E j \in Jobs : ContextDone(j)
  BY <1>2, ContextDoneOK
<1>3. CASE \E j \in Jobs, c \in Contracts, k \in Callers, s \in EntryStates :
             Begin(j, c, k, s)
  BY <1>3, BeginOK
<1>4. CASE Crash
  BY <1>4, ProcessDownOK DEF Crash
<1>5. CASE UNCHANGED vars
  BY <1>5 DEF vars, IInv
<1>6. QED
  BY <1>1, <1>2, <1>3, <1>4, <1>5 DEF Next

\* The inductive invariant holds in every reachable state of the pipeline,
\* for any number of concurrent jobs and of contracts.
THEOREM Invariance == Spec => []IInv
<1>1. QED
  BY InitIInv, NextIInv, PTL DEF Spec

\* Every reachable state is of the right type: in particular a job never
\* leaves the registered states of the machine.
THEOREM TypeCorrect == Spec => []TypeOK
  BY Invariance, IInvImplies, PTL

\* Every stored row accounts for every state of the pipeline exactly once and
\* is partial exactly when one failed.
THEOREM RowsCorrect == Spec => []RowsAccountForPipeline
  BY Invariance, IInvImplies, PTL

\* However jobs interleave, the id a job got from discovery names the row of
\* its own contract when it updates it.
THEOREM ModelCorrect == Spec => []ModelNamesOwnRow
  BY Invariance, IInvImplies, PTL

\* A job that records the final state as completed left a row, and files if
\* it had sources.
THEOREM FinalCorrect == Spec => []FinalMeansStored
  BY Invariance, IInvImplies, PTL

\* Files exist only for contracts that have a row, across crashes.
THEOREM FilesCorrect == Spec => []FilesHaveRow
  BY Invariance, IInvImplies, PTL

\* A running job has recorded exactly the pipeline states behind it.
LEMMA ProgressCorrect == Spec => []PipelineProgress
  BY Invariance, IInvImplies, PTL

----------------------------------------------------------------------------
(* What a step does to the table and the directory.                        *)

\* A step leaves both alone, or stores the row of one job, or writes files of
\* jobs that have a row, or takes the process down.
StoresRow(j) == /\ Ready(j, FinalState) /\ StoreRow(jobs[j])
                /\ UNCHANGED disk
                /\ jobs' = [jobs EXCEPT ![j] = jobs'[j]]
                /\ jobs'[j].result = "running" => jobs'[j].writing

FilesOnly ==
  /\ UNCHANGED <<table, nextId>>
  /\ disk' \in [Contracts -> Tree]
  /\ \A c \in Contracts : disk'[c] # disk[c] =>
       table[c] # NoRow /\ disk'[c] # "absent"

\* The final handler stores the row of its own job and of no other.
LEMMA FinalStoreStores ==
  ASSUME IInv, NEW j \in Jobs, FinalStore(j)
  PROVE  StoresRow(j)
<1>1. Ready(j, FinalState) /\ StoreRow(jobs[j]) /\ UNCHANGED disk /\ Running(j)
  BY DEF FinalStore, Ready, At
<1>2. jobs[j] \in Descriptor
  BY <1>1, ReadyOK
<1>3. CASE HasSources(jobs[j])
  <2>1. jobs' = [jobs EXCEPT ![j].writing = TRUE]
    BY <1>3 DEF FinalStore
  <2>2. jobs'[j].writing
    BY <1>2, <2>1 DEF IInv, Descriptor
  <2>3. jobs' = [jobs EXCEPT ![j] = jobs'[j]]
    BY <2>1 DEF IInv
  <2>4. QED
    BY <1>1, <2>2, <2>3 DEF StoresRow
<1>4. CASE ~HasSources(jobs[j])
  <2> DEFINE f == [jobs[j] EXCEPT !.writing = FALSE,
                          !.completed = IF FinalState \in jobs[j].failed
                                          THEN @ ELSE @ \cup {FinalState}]
             e == [f EXCEPT !.current = DoneState, !.result = "ok"]
  <2>1. jobs' = [jobs EXCEPT ![j] = e]
    BY <1>4 DEF FinalStore, FinishFinal, Transition
  <2>2. e.result = "ok"
    BY <1>2 DEF Descriptor
  <2> HIDE DEF e
  <2>3. jobs'[j] = e
    BY <2>1 DEF IInv
  <2>4. QED
    BY <1>1, <2>1, <2>2, <2>3 DEF StoresRow
<1>5. QED
  BY <1>3, <1>4

\* A job that is about to write files has a row.
LEMMA WritingHasRow ==
  ASSUME IInv, NEW j \in Jobs, Running(j), jobs[j].writing
  PROVE  /\ table[jobs[j].contract] # NoRow
         /\ jobs[j].contract \in Contracts
         /\ jobs[j].sources \in Tree \ {"absent"}
  BY RunningOK DEF DescriptorOK, Running, Progress, HasSources, Descriptor

\* A step stores the row of one job, touches files of contracts that have a
\* row, or leaves the table and the directory alone.
LEMMA StepShape ==
  ASSUME IInv, [Next]_vars
  PROVE  \/ UNCHANGED <<table, nextId, disk>>
         \/ \E j \in Jobs : StoresRow(j)
         \/ FilesOnly
<1>0. disk \in [Contracts -> Tree]
  BY DEF IInv, TableOK
<1>1. ASSUME NEW j \in Jobs, FinalStore(j)
      PROVE  \E i \in Jobs : StoresRow(i)
  BY <1>1, FinalStoreStores
<1>2. ASSUME NEW j \in Jobs, WriteToDir(j)
      PROVE  FilesOnly
  BY <1>0, <1>2, WritingHasRow DEF WriteToDir, FilesOnly, Tree
<1>3. ASSUME NEW j \in Jobs, WriteToDirFails(j)
      PROVE  FilesOnly
  BY <1>0, <1>3, WritingHasRow DEF WriteToDirFails, FilesOnly, Tree
<1>4. ASSUME ProcessDown
      PROVE  FilesOnly
  <2>1. PICK torn \in SUBSET {jobs[j].contract : j \in {i \in Jobs : Writing(i)}} :
          disk' = [c \in Contracts |-> IF c \in torn THEN "partial" ELSE disk[c]]
    BY <1>4 DEF ProcessDown
  <2>2. \A c \in torn : table[c] # NoRow
    BY <2>1, WritingHasRow DEF Writing
  <2>3. QED
    BY <1>0, <1>4, <2>1, <2>2 DEF FilesOnly, ProcessDown, Tree
<1>5. ASSUME NEW j \in Jobs, JobStep(j)
      PROVE  \/ UNCHANGED <<table, nextId, disk>>
             \/ \E i \in Jobs : StoresRow(i)
             \/ FilesOnly
  BY <1>1, <1>2, <1>3, <1>4, <1>5
  DEF JobStep, NeedsDiscovery, DiscoverFails, Discover, Metadata, LocalSources,
      DiscoverSourceCode, Sources, Parser, Constructor, FinalStoreFails, Error,
      Panic
<1>6. QED
  BY <1>4, <1>5 DEF Next, vars, ContextDone, Begin, Crash

\* Every step lets the table and the directory only grow.
LEMMA StepGrowth ==
  ASSUME IInv, [Next]_vars
  PROVE  Growth(table, disk, table', disk')
  BY StepShape, StoreRowOK DEF StoresRow, FilesOnly, Growth

\* A row never disappears and never changes its id.
THEOREM IdentityKept == Spec => RowsKeepIdentity
<1>1. IInv /\ [Next]_vars =>
        [\A c \in Contracts : table[c] # NoRow => table'[c].id = table[c].id]_vars
  BY StepGrowth DEF Growth
<1>2. QED
  BY <1>1, Invariance, PTL DEF Spec, RowsKeepIdentity

----------------------------------------------------------------------------
(* What a step does to the jobs.                                           *)

\* What a transition of a job leaves of its descriptor.
LEMMA TransitionEffect ==
  ASSUME IInv, NEW j \in Jobs, NEW d \in Descriptor, NEW s, Transition(j, d, s)
  PROVE  /\ \A i \in Jobs \ {j} : jobs'[i] = jobs[i]
         /\ jobs'[j].contract = d.contract
         /\ jobs'[j].completed = d.completed
         /\ jobs'[j].writing = d.writing
         /\ jobs'[j].current = s
         /\ s = DoneState => jobs'[j].result = "ok"
<1> DEFINE e == [d EXCEPT !.current = s,
                          !.result = IF s = DoneState THEN "ok" ELSE "running"]
<1>1. jobs' = [jobs EXCEPT ![j] = e]
  BY DEF Transition
<1>2. /\ e.contract = d.contract /\ e.completed = d.completed
      /\ e.writing = d.writing /\ e.current = s
      /\ s = DoneState => e.result = "ok"
  BY DEF Descriptor
<1> HIDE DEF e
<1>3. QED
  BY <1>1, <1>2 DEF IInv

\* The handler of state q, past its guard, sends the machine to state s.
Follows(q, s) ==
  \/ q = MetadataState        /\ s = SourceProvidersState
  \/ q = SourceProvidersState /\ s = SourcesState
  \/ q = SourcesState         /\ s = ParserState
  \/ q = ParserState          /\ s = ConstructorState
  \/ q = ConstructorState     /\ s = FinalState

\* A handler that found descriptor b leaves descriptor d and returns state s: it
\* is sent to discovery, comes from there with a row that is to be processed, or
\* is past discovery and goes on.
Advance(b, d, s) ==
  \/ /\ b.current \in DependentStates /\ s = DiscoverState
     /\ DiscoverState \notin b.completed /\ DiscoverState \notin d.completed
  \/ /\ b.current = DiscoverState /\ s = MetadataState
     /\ DiscoverState \in d.completed
     /\ ForceReprocess \/ ~IsCompleted(table[b.contract])
  \/ /\ DiscoverState \in b.completed /\ DiscoverState \in d.completed
     /\ Follows(b.current, s)

Moves(j) ==
  \E d \in Descriptor, s \in DependentStates \cup {DiscoverState} :
    /\ Running(j) /\ ~jobs[j].writing
    /\ d.contract = jobs[j].contract /\ ~d.writing
    /\ Advance(jobs[j], d, s)
    /\ Transition(j, d, s)

\* The final handler has stored the row and goes on to the files.
StartsWriting(j) ==
  Ready(j, FinalState) /\ jobs' = [jobs EXCEPT ![j].writing = TRUE]

\* Job j ends, alone or with the process.
Ends(j) ==
  /\ jobs'[j].result # "running"
  /\ \A i \in Jobs : jobs'[i] = jobs[i] \/ jobs'[i].result # "running"

\* A job ends when it is replaced by one that does not run.
LEMMA ReplacedEnds ==
  ASSUME IInv, NEW j \in Jobs, NEW e, jobs' = [jobs EXCEPT ![j] = e],
         e.result # "running"
  PROVE  Ends(j)
  BY DEF IInv, Ends

\* A transition to the final state of the machine ends the job.
LEMMA DoneEnds ==
  ASSUME IInv, NEW j \in Jobs, NEW d \in Descriptor, Transition(j, d, DoneState)
  PROVE  Ends(j)
<1> DEFINE e == [d EXCEPT !.current = DoneState, !.result = "ok"]
<1>1. jobs' = [jobs EXCEPT ![j] = e]
  BY DEF Transition
<1>2. e.result # "running"
  BY DEF Descriptor
<1> HIDE DEF e
<1> QED
  BY <1>1, <1>2, ReplacedEnds

\* So does the end of the final handler.
LEMMA FinishEnds ==
  ASSUME IInv, NEW j \in Jobs, NEW d \in Descriptor, FinishFinal(j, d)
  PROVE  Ends(j)
<1> DEFINE f == [d EXCEPT !.writing = FALSE,
                          !.completed = IF FinalState \in d.failed
                                          THEN @ ELSE @ \cup {FinalState}]
<1>1. f \in Descriptor
  BY DEF Descriptor, RecordedStates, DependentStates, FinalState, ConstructorState
<1>2. Transition(j, f, DoneState)
  BY DEF FinishFinal
<1> HIDE DEF f
<1> QED
  BY <1>1, <1>2, DoneEnds

\* With the process all jobs end.
LEMMA DownEnds ==
  ASSUME NEW j \in Jobs, ProcessDown
  PROVE  Ends(j)
  BY DEF ProcessDown, Gone, Ends

\* Every step of a job moves it on in the pipeline, makes it go on to the files
\* of a stored row, or ends it.
LEMMA JobStepForm ==
  ASSUME IInv, NEW j \in Jobs, JobStep(j)
  PROVE  Moves(j) \/ StartsWriting(j) \/ Ends(j)
<1>0. Running(j) => jobs[j] \in Descriptor
  BY ReadyOK
<1>1. ASSUME NEW d \in Descriptor, NEW s, NEW q \in DependentStates, Ready(j, q),
             Transition(j, d, s), Follows(q, s),
             d.contract = jobs[j].contract, d.writing = jobs[j].writing,
             jobs[j].completed \subseteq d.completed
      PROVE  Moves(j)
  <2>1. s \in DependentStates
    BY <1>1 DEF Follows, DependentStates
  <2>2. Advance(jobs[j], d, s)
    BY <1>1 DEF Ready, At, Advance
  <2> QED
    BY <1>1, <2>1, <2>2 DEF Ready, At, Moves
<1>2. CASE NeedsDiscovery(j)
  <2> DEFINE d == [jobs[j] EXCEPT !.nextState = MetadataState]
  <2>1. /\ Running(j) /\ ~jobs[j].writing /\ Transition(j, d, DiscoverState)
        /\ jobs[j].current \in DependentStates /\ DiscoverState \notin jobs[j].completed
    BY <1>2 DEF NeedsDiscovery, At
  <2>2. /\ d \in Descriptor /\ d.contract = jobs[j].contract
        /\ d.completed = jobs[j].completed /\ d.writing = jobs[j].writing
    BY <1>0, <2>1 DEF Descriptor
  <2> HIDE DEF d
  <2>3. Advance(jobs[j], d, DiscoverState)
    BY <2>1, <2>2 DEF Advance
  <2> QED
    BY <2>1, <2>2, <2>3 DEF Moves
<1>3. CASE Discover(j)
  <2> DEFINE row == table[jobs[j].contract]
             m == ModelOf(row)
             d == [jobs[j] EXCEPT !.model = m]
             e == [d EXCEPT !.completed = @ \cup {DiscoverState},
                            !.nextState = NoState]
             t == IF jobs[j].nextState # NoState THEN jobs[j].nextState
                                                 ELSE MetadataState
  <2>1. Running(j) /\ ~jobs[j].writing /\ jobs[j].current = DiscoverState
    BY <1>3 DEF Discover, At
  <2>2. jobs[j] \in Descriptor /\ row \in Row \cup {NoRow}
    BY <1>0, <2>1 DEF IInv, TableOK, Descriptor
  <2>3. m \in Model \cup {NoRow}
    BY <2>2 DEF ModelOf, Model, Row
  <2>4. d \in Descriptor
    BY <2>2, <2>3 DEF Descriptor
  <2>5. /\ e \in Descriptor /\ e.contract = jobs[j].contract
        /\ e.writing = jobs[j].writing /\ DiscoverState \in e.completed
    BY <2>2, <2>3 DEF Descriptor, RecordedStates
  <2>6. t = MetadataState
    BY <2>2 DEF Descriptor
  <2>7. IF IsCompleted(row) /\ ~ForceReprocess
          THEN Transition(j, d, DoneState) ELSE Transition(j, e, t)
    BY <1>3 DEF Discover
  <2> HIDE DEF d, e, t, m
  <2>8. CASE IsCompleted(row) /\ ~ForceReprocess
    BY <2>4, <2>7, <2>8, DoneEnds
  <2>9. CASE ~(IsCompleted(row) /\ ~ForceReprocess)
    <3>1. Advance(jobs[j], e, MetadataState)
      BY <2>1, <2>5, <2>9, ForceReprocessAssumption DEF Advance
    <3>2. MetadataState \in DependentStates
      BY DEF DependentStates
    <3>3. Transition(j, e, MetadataState)
      BY <2>6, <2>7, <2>9
    <3> QED
      BY <2>1, <2>5, <3>1, <3>2, <3>3 DEF Moves
  <2> QED
    BY <2>8, <2>9
<1>4. ASSUME NEW ok \in BOOLEAN, Metadata(j, ok) PROVE Moves(j)
  <2> DEFINE d == IF ok THEN [jobs[j] EXCEPT !.completed = @ \cup {MetadataState}]
                        ELSE [jobs[j] EXCEPT !.failed = @ \cup {MetadataState}]
  <2>1. Ready(j, MetadataState) /\ Transition(j, d, SourceProvidersState)
    BY <1>4 DEF Metadata
  <2>2. /\ d \in Descriptor /\ d.contract = jobs[j].contract
        /\ d.writing = jobs[j].writing /\ jobs[j].completed \subseteq d.completed
    BY <1>0, <2>1 DEF Ready, At, Descriptor, RecordedStates, DependentStates,
       MetadataState, ConstructorState
  <2> HIDE DEF d
  <2> QED
    BY <1>1, <2>1, <2>2 DEF DependentStates, Follows
<1>5. ASSUME NEW t \in Tree, Ready(j, SourceProvidersState), SourcesFound(j, t)
      PROVE  Moves(j)
  <2> DEFINE d == [jobs[j] EXCEPT !.sources = t,
                                  !.failed = @ \ {SourceProvidersState},
                                  !.completed = @ \cup {SourceProvidersState}]
  <2>1. Transition(j, d, SourcesState)
    BY <1>5 DEF SourcesFound
  <2>2. /\ d \in Descriptor /\ d.contract = jobs[j].contract
        /\ d.writing = jobs[j].writing /\ jobs[j].completed \subseteq d.completed
    BY <1>0, <1>5 DEF Ready, At, Descriptor, RecordedStates, DependentStates,
       SourceProvidersState, ConstructorState
  <2> HIDE DEF d
  <2> QED
    BY <1>1, <1>5, <2>1, <2>2 DEF DependentStates, Follows
<1>6. CASE LocalSources(j)
  <2>1. disk[jobs[j].contract] \in Tree
    BY <1>0, <1>6 DEF LocalSources, Ready, At, Descriptor, IInv, TableOK
  <2> QED
    BY <1>5, <1>6, <2>1 DEF LocalSources
<1>7. CASE \E found \in BOOLEAN : DiscoverSourceCode(j, found)
  <2> DEFINE d == [jobs[j] EXCEPT !.completed =
                     IF SourceProvidersState \in jobs[j].failed
                       THEN @ ELSE @ \cup {SourceProvidersState}]
  <2>1. /\ Ready(j, SourceProvidersState)
        /\ SourcesFound(j, "complete") \/ Transition(j, d, SourcesState)
    BY <1>7 DEF DiscoverSourceCode
  <2>2. /\ d \in Descriptor /\ d.contract = jobs[j].contract
        /\ d.writing = jobs[j].writing /\ jobs[j].completed \subseteq d.completed
    BY <1>0, <2>1 DEF Ready, At, Descriptor, RecordedStates, DependentStates,
       SourceProvidersState, ConstructorState
  <2>3. "complete" \in Tree
    BY DEF Tree
  <2> HIDE DEF d
  <2>4. SourceProvidersState \in DependentStates /\ Follows(SourceProvidersState, SourcesState)
    BY DEF DependentStates, Follows
  <2> QED
    BY <1>1, <1>5, <2>1, <2>2, <2>3, <2>4
<1>8. CASE Sources(j)
  <2> DEFINE d == [jobs[j] EXCEPT !.completed =
                     IF SourcesState \in jobs[j].failed
                       THEN @ ELSE @ \cup {SourcesState}]
  <2>1. Ready(j, SourcesState) /\ Transition(j, d, ParserState)
    BY <1>8 DEF Sources
  <2>2. /\ d \in Descriptor /\ d.contract = jobs[j].contract
        /\ d.writing = jobs[j].writing /\ jobs[j].completed \subseteq d.completed
    BY <1>0, <2>1 DEF Ready, At, Descriptor, RecordedStates, DependentStates,
       SourcesState, ConstructorState
  <2> HIDE DEF d
  <2> QED
    BY <1>1, <2>1, <2>2 DEF DependentStates, Follows
<1>9. ASSUME NEW ok \in BOOLEAN, NEW dt \in BOOLEAN, Parser(j, ok, dt) PROVE Moves(j)
  <2> DEFINE d == IF ok THEN [jobs[j] EXCEPT !.completed = @ \cup {ParserState},
                                             !.failed = @ \ {ParserState},
                                             !.detector = dt]
                        ELSE [jobs[j] EXCEPT !.failed = @ \cup {ParserState},
                                             !.detector = dt]
  <2>1. Ready(j, ParserState) /\ Transition(j, d, ConstructorState)
    BY <1>9 DEF Parser
  <2>2. /\ d \in Descriptor /\ d.contract = jobs[j].contract
        /\ d.writing = jobs[j].writing /\ jobs[j].completed \subseteq d.completed
    BY <1>0, <2>1 DEF Ready, At, Descriptor, RecordedStates, DependentStates,
       ParserState, ConstructorState
  <2> HIDE DEF d
  <2> QED
    BY <1>1, <2>1, <2>2 DEF DependentStates, Follows
<1>10. CASE Constructor(j)
  <2>1. Ready(j, ConstructorState) /\ Transition(j, jobs[j], FinalState)
    BY <1>10 DEF Constructor
  <2> QED
    BY <1>0, <1>1, <2>1 DEF DependentStates, Follows, Ready, At
<1>11. CASE FinalStore(j)
  BY <1>0, <1>11, FinishEnds DEF FinalStore, StartsWriting, Ready, At
<1>12. CASE FinalStoreFails(j) \/ WriteToDirFails(j)
  <2> DEFINE d == [jobs[j] EXCEPT !.failed = @ \cup {FinalState}]
  <2>1. Running(j) /\ FinishFinal(j, d)
    BY <1>12 DEF FinalStoreFails, WriteToDirFails, Ready, At
  <2>2. d \in Descriptor
    BY <1>0, <2>1 DEF Descriptor, RecordedStates, DependentStates, FinalState,
       ConstructorState
  <2> HIDE DEF d
  <2> QED
    BY <2>1, <2>2, FinishEnds
<1>13. CASE WriteToDir(j)
  BY <1>0, <1>13, FinishEnds DEF WriteToDir
<1>14. CASE Error(j)
  BY <1>0, <1>14, DoneEnds DEF Error, At
<1>15. CASE DiscoverFails(j)
  <2> DEFINE e == [jobs[j] EXCEPT !.current = ErrorState, !.result = "ok"]
  <2>1. jobs' = [jobs EXCEPT ![j] = e] /\ Running(j)
    BY <1>15 DEF DiscoverFails, HandlerError, At, IInv
  <2>2. e.result # "running"
    BY <1>0, <2>1 DEF Descriptor
  <2> HIDE DEF e
  <2> QED
    BY <2>1, <2>2, ReplacedEnds
<1>16. CASE Panic(j)
  <2>1. Gone("panic").result # "running"
    BY DEF Gone
  <2> QED
    BY <1>16, <2>1, ReplacedEnds, DownEnds DEF Panic
<1> QED
  BY <1>2, <1>3, <1>4, <1>6, <1>7, <1>8, <1>9, <1>10, <1>11, <1>12, <1>13, <1>14,
     <1>15, <1>16 DEF JobStep

\* What is left to do at each place of the pipeline.
LEMMA StepsLeftAt ==
  ASSUME NEW d \in Descriptor
  PROVE  /\ StepsLeft(d) \in 1..9
         /\ d.writing => StepsLeft(d) = 1
         /\ ~d.writing =>
              /\ d.current = DiscoverState => StepsLeft(d) = 8
              /\ d.current \in DependentStates /\ DiscoverState \notin d.completed
                   => StepsLeft(d) = 9
              /\ DiscoverState \in d.completed =>
                   /\ d.current = MetadataState        => StepsLeft(d) = 7
                   /\ d.current = SourceProvidersState => StepsLeft(d) = 6
                   /\ d.current = SourcesState         => StepsLeft(d) = 5
                   /\ d.current = ParserState          => StepsLeft(d) = 4
                   /\ d.current = ConstructorState     => StepsLeft(d) = 3
                   /\ d.current = FinalState           => StepsLeft(d) = 2
  BY DEF Descriptor, StepsLeft, DependentStates, DiscoverState, MetadataState,
     SourceProvidersState, SourcesState, ParserState, ConstructorState, FinalState,
     ErrorState

\* A step of a job that goes on lowers what is left.
LEMMA JobStepDescends ==
  ASSUME IInv, NEW j \in Jobs, Running(j), Moves(j) \/ StartsWriting(j),
         jobs'[j] \in Descriptor
  PROVE  /\ StepsLeft(jobs'[j]) < StepsLeft(jobs[j])
         /\ \A i \in Jobs \ {j} : jobs'[i] = jobs[i]
<1>0. jobs[j] \in Descriptor
  BY ReadyOK
<1>1. CASE Moves(j)
  <2>1. PICK d \in Descriptor, s \in DependentStates \cup {DiscoverState} :
          /\ Running(j) /\ ~jobs[j].writing
          /\ d.contract = jobs[j].contract /\ ~d.writing
          /\ Advance(jobs[j], d, s)
          /\ Transition(j, d, s)
    BY <1>1 DEF Moves
  <2>2. /\ \A i \in Jobs \ {j} : jobs'[i] = jobs[i]
        /\ jobs'[j].completed = d.completed
        /\ ~jobs'[j].writing /\ jobs'[j].current = s
    BY <2>1, TransitionEffect
  <2>3. CASE /\ jobs[j].current \in DependentStates /\ s = DiscoverState
             /\ DiscoverState \notin jobs[j].completed
    BY <1>0, <2>1, <2>2, <2>3, StepsLeftAt
  <2>4. CASE /\ jobs[j].current = DiscoverState /\ s = MetadataState
             /\ DiscoverState \in d.completed
    BY <1>0, <2>1, <2>2, <2>4, StepsLeftAt
  <2>5. CASE /\ DiscoverState \in jobs[j].completed /\ DiscoverState \in d.completed
             /\ Follows(jobs[j].current, s)
    BY <1>0, <2>1, <2>2, <2>5, StepsLeftAt DEF Follows
  <2> QED
    BY <2>1, <2>2, <2>3, <2>4, <2>5 DEF Advance
<1>2. CASE StartsWriting(j)
  <2>1. jobs'[j].writing /\ \A i \in Jobs \ {j} : jobs'[i] = jobs[i]
    BY <1>0, <1>2 DEF StartsWriting, IInv, Descriptor
  <2>2. StepsLeft(jobs[j]) = 2
    BY <1>0, <1>2, StepsLeftAt DEF StartsWriting, Ready, At
  <2> QED
    BY <2>1, <2>2, StepsLeftAt
<1> QED
  BY <1>1, <1>2

\* Every call of Unpack comes closer to its end with every step that it takes,
\* whatever the other jobs do: the safety half of its termination.
THEOREM DescentCorrect == Spec => JobsDescend
<1> DEFINE Descends ==
      \A j \in Jobs : (Running(j) /\ jobs'[j].result = "running" /\ jobs'[j] # jobs[j])
        => StepsLeft(jobs'[j]) < StepsLeft(jobs[j])
<1>1. ASSUME IInv, IInv', Next PROVE Descends
  <2> SUFFICES ASSUME NEW i \in Jobs, Running(i), jobs'[i].result = "running",
                      jobs'[i] # jobs[i]
               PROVE  StepsLeft(jobs'[i]) < StepsLeft(jobs[i])
    OBVIOUS
  <2>0. jobs'[i] \in Descriptor
    BY <1>1, GoneNotDescriptor DEF IInv
  <2>1. ASSUME NEW j \in Jobs, JobStep(j)
        PROVE  StepsLeft(jobs'[i]) < StepsLeft(jobs[i])
    <3>1. ~Ends(j)
      BY DEF Ends
    <3>2. Moves(j) \/ StartsWriting(j)
      BY <1>1, <2>1, <3>1, JobStepForm
    <3>3. Running(j) /\ jobs[j] \in Descriptor
      BY <1>1, <3>2, ReadyOK DEF Moves, StartsWriting, Ready, At
    <3>4. jobs'[j].result = "running" \/ j # i
      OBVIOUS
    <3>5. \A k \in Jobs \ {j} : jobs'[k] = jobs[k]
      BY <1>1, <3>2, <3>3, TransitionEffect DEF Moves, StartsWriting, IInv
    <3> QED
      BY <1>1, <2>0, <3>2, <3>3, <3>5, JobStepDescends
  <2>2. ASSUME NEW j \in Jobs, ContextDone(j) PROVE FALSE
    BY <1>1, <2>2 DEF ContextDone, Gone, IInv
  <2>3. ASSUME NEW j \in Jobs, NEW c \in Contracts, NEW k \in Callers,
               NEW s \in EntryStates, Begin(j, c, k, s)
        PROVE  FALSE
    BY <1>1, <2>3 DEF Begin, IInv
  <2>4. CASE Crash
    BY <2>4, DownEnds DEF Crash, Ends
  <2> QED
    BY <1>1, <2>1, <2>2, <2>3, <2>4 DEF Next
<1>2. IInv /\ IInv' /\ [Next]_vars => [Descends]_vars
  BY <1>1
<1> HIDE DEF Descends
<1>3. Spec => [][Descends]_vars
  BY <1>2, Invariance, PTL DEF Spec
<1> QED
  BY <1>3 DEF Descends, JobsDescend

----------------------------------------------------------------------------
(* One job at a time: completed rows are final.                            *)

\* Job i works past discovery on contract c.
WorksOn(d, c) == /\ d.result = "running" /\ DiscoverState \in d.completed
                 /\ ~d.writing /\ d.contract = c

\* A job that works past discovery after a step that left the table alone
\* did so before, on the same contract, or has just found its row not to be
\* completed.
LEMMA WorkContinues ==
  ASSUME IInv, ~ForceReprocess, [Next]_vars, UNCHANGED table,
         ~ \E j \in Jobs : FinalStore(j),
         NEW i \in Jobs, NEW c, WorksOn(jobs'[i], c)
  PROVE  WorksOn(jobs[i], c) \/ ~IsCompleted(table[c])
<1> SUFFICES ASSUME jobs'[i] # jobs[i]
             PROVE  WorksOn(jobs[i], c) \/ ~IsCompleted(table[c])
  OBVIOUS
<1> USE DEF WorksOn
<1>1. ASSUME NEW j \in Jobs, Ends(j) PROVE FALSE
  BY <1>1 DEF Ends
<1>2. ASSUME NEW j \in Jobs, StartsWriting(j) PROVE FALSE
  <2>1. jobs[j] \in Descriptor
    BY <1>2, ReadyOK DEF StartsWriting, Ready, At
  <2> QED
    BY <1>2, <2>1 DEF StartsWriting, IInv, Descriptor
<1>3. ASSUME NEW j \in Jobs, Moves(j)
      PROVE  WorksOn(jobs[i], c) \/ ~IsCompleted(table[c])
  <2>1. PICK d \in Descriptor, s \in DependentStates \cup {DiscoverState} :
          /\ Running(j) /\ ~jobs[j].writing
          /\ d.contract = jobs[j].contract /\ ~d.writing
          /\ Advance(jobs[j], d, s)
          /\ Transition(j, d, s)
    BY <1>3 DEF Moves
  <2>2. /\ \A k \in Jobs \ {j} : jobs'[k] = jobs[k]
        /\ jobs'[j].contract = jobs[j].contract
        /\ jobs'[j].completed = d.completed
    BY <2>1, TransitionEffect
  <2> QED
    BY <2>1, <2>2 DEF Advance, Running
<1>4. ASSUME NEW j \in Jobs, NEW e, jobs' = [jobs EXCEPT ![j] = e],
             e.result # "running" \/ e.completed = {}
      PROVE  FALSE
  BY <1>4 DEF IInv
<1>5. ASSUME NEW j \in Jobs, ContextDone(j) PROVE FALSE
  BY <1>4, <1>5 DEF ContextDone, Gone
<1>6. ASSUME NEW j \in Jobs, NEW b \in Contracts, NEW k \in Callers,
             NEW s \in EntryStates, Begin(j, b, k, s)
      PROVE  FALSE
  <2>1. NewDescriptor(b, k, s).completed = {}
    BY DEF NewDescriptor
  <2> QED
    BY <1>4, <1>6, <2>1 DEF Begin
<1>7. CASE Crash
  BY <1>1, <1>7, DownEnds DEF Crash
<1>8. jobs' # jobs
  OBVIOUS
<1> QED
  BY <1>1, <1>2, <1>3, <1>5, <1>6, <1>7, <1>8, JobStepForm DEF Next, vars

\* A single job never works past discovery on a completed row: with one job
\* the check of discover.go cannot be overtaken before the row is stored.
NoRework ==
  (OneJob /\ ~ForceReprocess) =>
    \A j \in Jobs :
      (Running(j) /\ DiscoverState \in jobs[j].completed /\ ~jobs[j].writing)
        => ~IsCompleted(table[jobs[j].contract])

\* With one job and without forced reprocessing, work past discovery is
\* never on a completed row.
LEMMA NoReworkCorrect == Spec => []NoRework
<1>1. Init => NoRework
  BY DEF Init, NoRework, Running, Gone
<1>2. IInv /\ NoRework /\ [Next]_vars => NoRework'
  <2> SUFFICES ASSUME IInv, NoRework, [Next]_vars, OneJob, ~ForceReprocess,
                      NEW i \in Jobs, NEW c, WorksOn(jobs'[i], c)
               PROVE  ~IsCompleted(table'[c])
    BY DEF NoRework, WorksOn, Running, OneJob
  <2>1. CASE \E j \in Jobs : FinalStore(j)
    <3>1. PICK j \in Jobs : FinalStore(j)
      BY <2>1
    <3>2. jobs'[j].result = "running" => jobs'[j].writing
      BY <3>1, FinalStoreStores DEF StoresRow
    <3>3. QED
      BY <3>2 DEF OneJob, WorksOn
  <2>2. CASE UNCHANGED table /\ ~ \E j \in Jobs : FinalStore(j)
    <3>1. WorksOn(jobs[i], c) \/ ~IsCompleted(table[c])
      BY <2>2, WorkContinues
    <3>2. WorksOn(jobs[i], c) => ~IsCompleted(table[c])
      BY DEF NoRework, WorksOn, Running
    <3>3. QED
      BY <2>2, <3>1, <3>2 DEF IsCompleted
  <2>3. ASSUME ~ \E j \in Jobs : FinalStore(j)
        PROVE  UNCHANGED table
    BY <2>3 DEF Next, vars, JobStep, NeedsDiscovery, DiscoverFails, Discover,
       Metadata, LocalSources, DiscoverSourceCode, Sources, Parser, Constructor,
       FinalStoreFails, WriteToDir, WriteToDirFails, Error, Panic, ContextDone,
       Begin, Crash, ProcessDown
  <2>4. QED
    BY <2>1, <2>2, <2>3
<1>3. QED
  BY <1>1, <1>2, Invariance, PTL DEF Spec

----------------------------------------------------------------------------
(* Refinement of ContractStore.                                            *)

\* Storing the row of a job changes the status of its contract only.
LEMMA StoreRowStatus ==
  ASSUME IInv, NEW j \in Jobs, Ready(j, FinalState), StoreRow(jobs[j]),
         UNCHANGED disk
  PROVE  /\ jobs[j].contract \in Contracts
         /\ \A c \in Contracts :
              c # jobs[j].contract => table'[c] = table[c]
         /\ table'[jobs[j].contract] # NoRow
<1> DEFINE d == jobs[j]
<1>1. /\ d \in Descriptor /\ d.contract \in Contracts
      /\ d.model # NoRow =>
           table[d.contract] # NoRow /\ table[d.contract].id = d.model.id
  BY ReadyOK DEF Ready, At, Descriptor
<1>2. table'[d.contract] # NoRow
  BY StoreRowOK
<1>3. CASE d.model = NoRow /\ CanInsert(d.contract)
  BY <1>1, <1>2, <1>3 DEF StoreRow, SaveContract, IInv, TableOK
<1>4. CASE ~(d.model = NoRow /\ CanInsert(d.contract))
  <2>1. table' = [c \in Contracts |->
                    IF table[c] # NoRow /\ table[c].id = d.model.id
                      THEN ContractEntry(d, d.model.id) ELSE table[c]]
    BY <1>4 DEF StoreRow, UpdateContract, EntryId
  <2>2. ASSUME NEW c \in Contracts, c # d.contract, table[c] # NoRow
        PROVE  table[c].id # d.model.id
    <3>1. CASE d.model = NoRow
      BY <2>2, <3>1 DEF IInv, TableOK, Row, NoRow
    <3>2. CASE d.model # NoRow
      BY <1>1, <2>2, <3>2 DEF IInv, TableOK
    <3>3. QED
      BY <3>1, <3>2
  <2>3. QED
    BY <1>1, <1>2, <2>1, <2>2
<1>5. QED
  BY <1>3, <1>4

\* The initial states map to initial states of ContractStore.
LEMMA InitStore == Init => Store!Init
  BY DEF Init, Store!Init, RowStatus

\* Every step maps to a step of ContractStore or to a stutter.
LEMMA StepStore ==
  ASSUME IInv, NoRework, [Next]_vars
  PROVE  [Store!Next]_(Store!vars)
<1> DEFINE st == [c \in Contracts |-> RowStatus(table[c])]
<1>1. CASE UNCHANGED <<table, nextId, disk>>
  BY <1>1 DEF Store!vars
<1>2. CASE \E j \in Jobs : StoresRow(j)
  <2>1. PICK j \in Jobs : StoresRow(j)
    BY <1>2
  <2> DEFINE k == jobs[j].contract
             s == RowStatus(table'[k])
  <2>2. /\ k \in Contracts
        /\ \A c \in Contracts : c # k => table'[c] = table[c]
        /\ table'[k] # NoRow
        /\ UNCHANGED disk
    BY <2>1, StoreRowStatus DEF StoresRow
  <2>3. s \in {"partial", "complete"}
    BY <2>2 DEF RowStatus
  <2>4. st' = [st EXCEPT ![k] = s]
    <3>1. \A c \in Contracts : st'[c] = IF c = k THEN s ELSE st[c]
      BY <2>2
    <3> HIDE DEF s
    <3>2. QED
      BY <2>2, <3>1
  <2>5. OneJob /\ ~ForceReprocess => st[k] # "complete"
    <3>1. OneJob /\ ~ForceReprocess => ~IsCompleted(table[k])
      BY <2>1 DEF NoRework, StoresRow, Ready, At
    <3>2. QED
      BY <2>2, <3>1 DEF RowStatus
  <2>6. Store!Store(k, s)
    BY <2>2, <2>4, <2>5 DEF Store!Store
  <2>7. QED
    BY <2>2, <2>3, <2>6 DEF Store!Next
<1>3. CASE FilesOnly
  <2>1. \A c \in Contracts : disk'[c] # disk[c] =>
          st[c] # "absent" /\ disk'[c] # "absent"
    BY <1>3 DEF FilesOnly, RowStatus
  <2>2. disk' \in [Contracts -> Store!Status] /\ UNCHANGED st
    BY <1>3 DEF FilesOnly, Tree, Store!Status
  <2>3. Store!WriteSources
    BY <2>1, <2>2 DEF Store!WriteSources
  <2>4. QED
    BY <2>3 DEF Store!Next
<1>4. QED
  BY <1>1, <1>2, <1>3, StepShape

\* The pipeline implements ContractStore: rows never disappear, files follow
\* rows, and with a single job and no forced reprocessing a completed row is
\* never written again.
THEOREM StoreImplemented == Spec => ImplementsStore
<1>1. Init => Store!Init
  BY InitStore
<1>2. IInv /\ NoRework /\ [Next]_vars => [Store!Next]_(Store!vars)
  BY StepStore
<1>3. QED
  BY <1>1, <1>2, Invariance, NoReworkCorrect, PTL
  DEF Spec, ImplementsStore, Store!Spec

----------------------------------------------------------------------------
(* What other components assume of the pipeline.                           *)

\* ContractStore as RpcUnpack and UnpackRequest use it: rows and files change
\* while they work, and a completed row may be stored once more.
Shared == INSTANCE ContractStore
            WITH KeepCompleted <- FALSE,
                 status <- [c \in Contracts |-> RowStatus(table[c])],
                 files <- disk

\* The rows and files that any number of concurrent jobs store, with or without
\* forced reprocessing, are what the gRPC server and the resolvers assume.
THEOREM SharedImplemented == Spec => Shared!Spec
<1>1. Store!Init => Shared!Init
  BY DEF Store!Init, Shared!Init
<1>2. [Store!Next]_(Store!vars) => [Shared!Next]_(Shared!vars)
  <2>1. Store!WriteSources => Shared!WriteSources
    BY DEF Store!WriteSources, Shared!WriteSources, Store!Status, Shared!Status
  <2>2. ASSUME NEW c \in Contracts, NEW s \in {"partial", "complete"}, Store!Store(c, s)
        PROVE  Shared!Store(c, s)
    BY <2>2 DEF Store!Store, Shared!Store
  <2> QED
    BY <2>1, <2>2 DEF Store!Next, Shared!Next, Store!vars, Shared!vars
<1> QED
  BY <1>1, <1>2, StoreImplemented, PTL DEF ImplementsStore, Store!Spec, Shared!Spec
=============================================================================
