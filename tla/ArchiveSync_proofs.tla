------------------------ MODULE ArchiveSync_proofs ------------------------
(***************************************************************************)
(* Proofs about ArchiveSync, for any range, any creations, any faults and  *)
(* any number of crashes.  SkippedWereVisited is not inductive: a goroutine*)
(* writes its block long after the loop went past it, so the invariant     *)
(* also has to say that a goroutine exists only for a block up to which    *)
(* everything has been visited.                                            *)
(***************************************************************************)
EXTENDS ArchiveSync, TLAPS

\* Everything up to block b has been visited.
Covered(b) == StartBlock..b \subseteq visited

IInv ==
  /\ TypeOK
  /\ SkippedWereVisited
  /\ \A k \in Creations : task[k] # "none" => Covered(BlockOf[k])

USE RangeAssumption, BlockOfAssumption, MaxCrashesAssumption

\* A nil block is not a block of the range, and no block lies up to it.
LEMMA NoBlockFacts == NoBlock \notin Blocks /\ StartBlock..NoBlock = {}
  BY DEF NoBlock, Blocks

\* IInv holds initially: nothing was inspected, nothing runs.
THEOREM InitIInv == Init => IInv
<1> SUFFICES ASSUME Init PROVE IInv
  OBVIOUS
<1>1. TypeOK
  <2>1. StartBlock \in StartBlock..(EndBlock + 1) /\ 0 \in 0..MaxCrashes
    OBVIOUS
  <2>2. task \in [Creations -> TaskStates]
    BY DEF Init, TaskStates
  <2>3. QED
    BY <2>1, <2>2 DEF Init, TypeOK
<1>2. SkippedWereVisited
  BY NoBlockFacts DEF Init, SkippedWereVisited
<1>3. QED
  BY <1>1, <1>2 DEF Init, IInv

\* A step of the loop onto the next block.
LEMMA AdvanceOK ==
  ASSUME IInv, pc = "loop", cursor <= EndBlock,
         cursor' = cursor + 1, visited' = visited \cup {cursor}
  PROVE  /\ cursor' \in StartBlock..(EndBlock + 1)
         /\ visited' \subseteq Blocks
         /\ StartBlock..cursor \subseteq visited'
         /\ visited \subseteq visited'
<1>1. cursor \in Blocks
  BY DEF IInv, TypeOK, Blocks
<1>2. StartBlock..(cursor - 1) \subseteq visited
  BY DEF IInv, SkippedWereVisited
<1>3. \A b \in StartBlock..cursor : b \in StartBlock..(cursor - 1) \/ b = cursor
  BY <1>1 DEF Blocks
<1>4. QED
  BY <1>1, <1>2, <1>3 DEF IInv, TypeOK, Blocks

\* Every step of the archive subscriber preserves IInv.
LEMMA LoopStepOK ==
  ASSUME IInv, LoopStep
  PROVE  IInv'
<1>1. ASSUME NEW r \in ResumptionChoices, StartLoop(r)
      PROVE  IInv'
  <2>1. /\ UNCHANGED <<stopped, task, memory, redis, unpacked, crashes, visited>>
        /\ pc' = "loop" /\ excused' = {} /\ cursor' = ResumeAt(r)
        /\ origin' = IF r /\ memory # NoBlock THEN memory ELSE StartBlock
    BY <1>1 DEF StartLoop, state
  <2>2. /\ cursor' \in StartBlock..(EndBlock + 1)
        /\ origin' \in StartBlock..(EndBlock + 1)
        /\ StartBlock..(cursor' - 1) \subseteq visited
    BY <2>1 DEF IInv, TypeOK, ResumeAt, SkippedWereVisited, Blocks, NoBlock
  <2>3. TypeOK'
    BY <2>1, <2>2 DEF IInv, TypeOK
  <2>4. QED
    BY <2>1, <2>2, <2>3 DEF IInv, SkippedWereVisited, Covered
<1>2. CASE StartReturns
  BY <1>2 DEF StartReturns, state, IInv, TypeOK, SkippedWereVisited, Covered
<1>3. CASE FetchBlock
  <2>1. /\ pc = "loop" /\ cursor <= EndBlock
        /\ cursor' = cursor + 1 /\ visited' = visited \cup {cursor}
        /\ task' = [k \in Creations |->
                      IF k \in CreationsIn(cursor) THEN "receipt" ELSE task[k]]
        /\ UNCHANGED <<pc, stopped, memory, redis, unpacked, crashes,
                       origin, excused>>
    BY <1>3 DEF FetchBlock, state
  <2>2. /\ cursor' \in StartBlock..(EndBlock + 1)
        /\ visited' \subseteq Blocks
        /\ StartBlock..cursor \subseteq visited'
        /\ visited \subseteq visited'
    BY <2>1, AdvanceOK
  <2>3. task' \in [Creations -> TaskStates]
    BY <2>1 DEF IInv, TypeOK, TaskStates
  <2>4. TypeOK'
    BY <2>1, <2>2, <2>3 DEF IInv, TypeOK
  <2>5. cursor' - 1 = cursor
    BY <2>1 DEF IInv, TypeOK
  <2>6. SkippedWereVisited'
    BY <2>1, <2>2, <2>5 DEF IInv, SkippedWereVisited
  <2>7. ASSUME NEW k \in Creations, task'[k] # "none"
        PROVE  Covered(BlockOf[k])'
    <3>1. CASE k \in CreationsIn(cursor)
      BY <2>2, <3>1 DEF CreationsIn, Covered
    <3>2. CASE k \notin CreationsIn(cursor)
      BY <2>1, <2>2, <2>7, <3>2 DEF IInv, Covered
    <3>3. QED
      BY <3>1, <3>2
  <2>8. QED
    BY <2>4, <2>6, <2>7 DEF IInv
<1>4. CASE FetchFails
  <2>1. /\ pc = "loop" /\ cursor <= EndBlock
        /\ cursor' = cursor + 1 /\ visited' = visited \cup {cursor}
        /\ excused' = excused \cup CreationsIn(cursor)
        /\ UNCHANGED <<pc, stopped, task, memory, redis, unpacked, crashes,
                       origin>>
    BY <1>4 DEF FetchFails, state
  <2>2. /\ cursor' \in StartBlock..(EndBlock + 1)
        /\ visited' \subseteq Blocks
        /\ StartBlock..cursor \subseteq visited'
        /\ visited \subseteq visited'
    BY <2>1, AdvanceOK
  <2>3. TypeOK'
    BY <2>1, <2>2 DEF IInv, TypeOK, CreationsIn
  <2>4. cursor' - 1 = cursor
    BY <2>1 DEF IInv, TypeOK
  <2>5. SkippedWereVisited'
    BY <2>1, <2>2, <2>4 DEF IInv, SkippedWereVisited
  <2>6. QED
    BY <2>1, <2>2, <2>3, <2>5 DEF IInv, Covered
<1>5. CASE EndLoop
  BY <1>5 DEF EndLoop, state, history, IInv, TypeOK, SkippedWereVisited, Covered
<1>6. QED
  BY <1>1, <1>2, <1>3, <1>4, <1>5 DEF LoopStep

\* What a goroutine's step may do to the invariant.
LEMMA GoroutineOK ==
  ASSUME IInv, NEW k \in Creations, NEW from, NEW to \in TaskStates,
         from # "none", Goroutine(k, from, to)
  PROVE  /\ task' \in [Creations -> TaskStates]
         /\ Covered(BlockOf[k])
         /\ \A i \in Creations : task'[i] # "none" => Covered(BlockOf[i])
<1>1. Covered(BlockOf[k])
  BY DEF IInv, Goroutine
<1>2. QED
  BY <1>1 DEF IInv, TypeOK, Goroutine

\* Every step of a goroutine preserves IInv.
LEMMA TaskStepOK ==
  ASSUME IInv, NEW k \in Creations, TaskStep(k)
  PROVE  IInv'
<1> USE DEF process, state, history
<1>1. \A s \in {"none", "receipt", "unpack", "memory", "redis"} : s \in TaskStates
  BY DEF TaskStates
<1>2. PICK from \in TaskStates \ {"none"}, to \in TaskStates :
        Goroutine(k, from, to)
  BY <1>1 DEF TaskStep, Receipt, Unpack, UnpackDropsError, GivesUp,
     SetDescriptorKey, CacheWrite, CacheWriteFails
<1>3. /\ task' \in [Creations -> TaskStates]
      /\ Covered(BlockOf[k])
      /\ \A i \in Creations : task'[i] # "none" => Covered(BlockOf[i])
  BY <1>2, GoroutineOK
<1>4. /\ UNCHANGED <<pc, cursor, stopped, crashes, visited, origin>>
      /\ unpacked' \in {unpacked, unpacked \cup {k}}
      /\ excused' \in {excused, excused \cup {k}}
      /\ memory' \in {memory, BlockOf[k]}
      /\ redis' \in {redis, BlockOf[k]}
  BY DEF TaskStep, Receipt, Unpack, UnpackDropsError, GivesUp,
     SetDescriptorKey, CacheWrite, CacheWriteFails
<1>5. TypeOK'
  BY <1>3, <1>4 DEF IInv, TypeOK, Blocks
<1>6. SkippedWereVisited'
  BY <1>3, <1>4 DEF IInv, SkippedWereVisited, Covered
<1>7. QED
  BY <1>3, <1>4, <1>5, <1>6 DEF IInv, Covered

\* IInv is inductive.
THEOREM NextIInv == IInv /\ [Next]_vars => IInv'
<1> SUFFICES ASSUME IInv, [Next]_vars
             PROVE  IInv'
  OBVIOUS
<1> USE DEF process, state, history
<1>1. CASE Boot
  BY <1>1 DEF Boot, IInv, TypeOK, SkippedWereVisited, Covered
<1>2. CASE LoopStep
  BY <1>2, LoopStepOK
<1>3. CASE \E k \in Creations : TaskStep(k)
  BY <1>3, TaskStepOK
<1>4. CASE Stop
  BY <1>4 DEF Stop, IInv, TypeOK, SkippedWereVisited, Covered
<1>5. CASE Crash
  <2>1. TypeOK'
    BY <1>5 DEF Crash, IInv, TypeOK, TaskStates
  <2>2. SkippedWereVisited'
    BY <1>5, NoBlockFacts DEF Crash, IInv, SkippedWereVisited
  <2>3. QED
    BY <1>5, <2>1, <2>2 DEF Crash, IInv
<1>6. CASE UNCHANGED vars
  BY <1>6 DEF vars, IInv, TypeOK, SkippedWereVisited, Covered
<1>7. QED
  BY <1>1, <1>2, <1>3, <1>4, <1>5, <1>6 DEF Next

\* Every reachable state of archive synchronisation is of the right type: the
\* loop stays in the configured range, and so does the resume point.
THEOREM TypeCorrect == Spec => []TypeOK
<1>1. IInv => TypeOK
  BY DEF IInv
<1>2. QED
  BY <1>1, InitIInv, NextIInv, PTL DEF Spec

\* Resumption never skips a block that no process has looked at.
THEOREM SkippedCorrect == Spec => []SkippedWereVisited
<1>1. IInv => SkippedWereVisited
  BY DEF IInv
<1>2. QED
  BY <1>1, InitIInv, NextIInv, PTL DEF Spec

\* The share of x in d, in percent, is 100 only for the whole of d.
LEMMA PercentFacts ==
  ASSUME NEW x \in Nat, NEW d \in Nat \ {0}, x <= d
  PROVE  /\ (x * 100) \div d \in 0..100
         /\ (x * 100) \div d = 100 => x = d
<1> DEFINE q == (x * 100) \div d
<1>1. q \in Int /\ d * q <= x * 100 /\ x * 100 < d * (q + 1)
  OBVIOUS
<1> HIDE DEF q
<1>2. 0 <= q
  <2>1. SUFFICES ASSUME q <= -1 PROVE FALSE
    BY <1>1
  <2>2. d * (q + 1) <= 0
    BY <1>1, <2>1
  <2>3. QED
    BY <1>1, <2>2
<1>3. q <= 100
  <2>1. SUFFICES ASSUME q >= 101 PROVE FALSE
    BY <1>1
  <2>2. d * q >= d * 101
    BY <1>1, <2>1
  <2>3. QED
    BY <1>1, <2>2
<1>4. q = 100 => x = d
  BY <1>1
<1>5. QED
  BY <1>1, <1>2, <1>3, <1>4 DEF q

\* The monitor never reports a range as inspected that no loop has gone through.
THEOREM ProgressCorrect == Spec => []ReportedProgress
<1>1. IInv => ReportedProgress
  <2> SUFFICES ASSUME IInv, memory # NoBlock PROVE Percentage \in 0..100 /\ (Percentage = 100 => Blocks \subseteq visited)
    BY DEF ReportedProgress
  <2>1. memory \in Blocks /\ StartBlock..memory \subseteq visited
    BY DEF IInv, TypeOK, SkippedWereVisited
  <2>2. CASE EndBlock = StartBlock
    BY <2>2 DEF Percentage
  <2>3. CASE EndBlock # StartBlock
    <3> DEFINE x == memory - StartBlock
               d == EndBlock - StartBlock
    <3>1. x \in Nat /\ d \in Nat \ {0} /\ x <= d
      BY <2>1, <2>3 DEF Blocks
    <3>2. Percentage = (x * 100) \div d
      BY <2>3 DEF Percentage
    <3> HIDE DEF x, d
    <3>3. Percentage \in 0..100 /\ (Percentage = 100 => x = d)
      BY <3>1, <3>2, PercentFacts
    <3>4. x = d => memory = EndBlock
      BY <2>1 DEF x, d, Blocks
    <3>5. QED
      BY <2>1, <3>3, <3>4 DEF Blocks
  <2>4. QED
    BY <2>2, <2>3
<1>2. QED
  BY <1>1, InitIInv, NextIInv, PTL DEF Spec

----------------------------------------------------------------------------
(* Nothing is lost behind the loop.                                        *)

\* A creation is stored, given up or still being worked on.
Accounted(k) == k \in unpacked \cup excused \/ task[k] \in {"receipt", "unpack"}

\* Steps of the archive subscriber keep the account: a creation enters it with
\* the block that the loop passes.
LEMMA LoopStepAccounts ==
  ASSUME IInv, PassedAccountedFor, LoopStep
  PROVE  PassedAccountedFor'
<1> USE DEF state, history
<1>1. ASSUME NEW r \in ResumptionChoices, StartLoop(r)
      PROVE  PassedAccountedFor'
  <2>1. pc' = "loop" /\ cursor' = origin' /\ cursor' \in Int
    BY <1>1 DEF StartLoop, ResumeAt, IInv, TypeOK, Blocks, NoBlock
  <2>2. ASSUME NEW k \in Creations, BlockOf[k] \in origin'..(cursor' - 1)
        PROVE  FALSE
    BY <2>1, <2>2
  <2> QED
    BY <2>1, <2>2 DEF PassedAccountedFor
<1>2. CASE StartReturns
  <2>1. pc' = "ended" /\ origin'..EndBlock = {}
    BY <1>2 DEF StartReturns
  <2> QED
    BY <2>1 DEF PassedAccountedFor
<1>3. CASE FetchBlock
  <2> SUFFICES ASSUME NEW k \in Creations, BlockOf[k] \in origin..cursor
               PROVE  Accounted(k)'
    BY <1>3 DEF FetchBlock, PassedAccountedFor, Accounted, IInv, TypeOK
  <2>1. CASE BlockOf[k] = cursor
    BY <1>3, <2>1 DEF FetchBlock, CreationsIn, Accounted
  <2>2. CASE BlockOf[k] # cursor
    <3>1. BlockOf[k] \in origin..(cursor - 1)
      BY <2>2 DEF IInv, TypeOK
    <3>2. Accounted(k)
      BY <1>3, <3>1 DEF FetchBlock, PassedAccountedFor, Accounted
    <3> QED
      BY <1>3, <2>2, <3>2 DEF FetchBlock, CreationsIn, Accounted
  <2> QED
    BY <2>1, <2>2
<1>4. CASE FetchFails
  <2> SUFFICES ASSUME NEW k \in Creations, BlockOf[k] \in origin..cursor
               PROVE  Accounted(k)'
    BY <1>4 DEF FetchFails, PassedAccountedFor, Accounted, IInv, TypeOK
  <2>1. CASE BlockOf[k] = cursor
    BY <1>4, <2>1 DEF FetchFails, CreationsIn, Accounted
  <2>2. CASE BlockOf[k] # cursor
    <3>1. BlockOf[k] \in origin..(cursor - 1)
      BY <2>2 DEF IInv, TypeOK
    <3>2. Accounted(k)
      BY <1>4, <3>1 DEF FetchFails, PassedAccountedFor, Accounted
    <3> QED
      BY <1>4, <3>2 DEF FetchFails, Accounted
  <2> QED
    BY <2>1, <2>2
<1>5. CASE EndLoop
  <2>1. \A b \in origin..EndBlock : b \in origin..(cursor - 1)
    BY <1>5 DEF EndLoop, IInv, TypeOK
  <2> QED
    BY <1>5, <2>1 DEF EndLoop, PassedAccountedFor
<1> QED
  BY <1>1, <1>2, <1>3, <1>4, <1>5 DEF LoopStep

\* A goroutine leaves the account of its creation only with the contract
\* stored or an error logged, and does not touch that of another.
LEMMA TaskStepAccounts ==
  ASSUME IInv, PassedAccountedFor, NEW k \in Creations, TaskStep(k)
  PROVE  PassedAccountedFor'
<1> USE DEF process, state, history
<1>1. UNCHANGED <<pc, cursor, origin>>
  BY DEF TaskStep, Receipt, Unpack, UnpackDropsError, GivesUp,
     SetDescriptorKey, CacheWrite, CacheWriteFails
<1>2. ASSUME NEW i \in Creations, Accounted(i) PROVE Accounted(i)'
  <2>1. CASE i # k
    BY <1>2, <2>1 DEF Accounted, Goroutine, IInv, TypeOK, TaskStep, Receipt, Unpack,
       UnpackDropsError, GivesUp, SetDescriptorKey, CacheWrite, CacheWriteFails
  <2>2. CASE i = k
    BY <1>2, <2>2 DEF Accounted, Goroutine, IInv, TypeOK, TaskStep, Receipt, Unpack,
       UnpackDropsError, GivesUp, SetDescriptorKey, CacheWrite, CacheWriteFails
  <2> QED
    BY <2>1, <2>2
<1> QED
  BY <1>1, <1>2 DEF PassedAccountedFor, Accounted

\* Whatever fails and whenever the process dies and resumes, no creation that
\* the loop of the running process has passed is forgotten: it is stored, given
\* up with a logged error, or its goroutine still works on it.
THEOREM AccountCorrect == Spec => []PassedAccountedFor
<1>1. Init => PassedAccountedFor
  BY DEF Init, PassedAccountedFor
<1>2. ASSUME IInv, PassedAccountedFor, [Next]_vars PROVE PassedAccountedFor'
  <2> USE DEF process, state, history
  <2>1. CASE Boot
    BY <2>1 DEF Boot, PassedAccountedFor
  <2>2. CASE LoopStep
    BY <1>2, <2>2, LoopStepAccounts
  <2>3. CASE \E k \in Creations : TaskStep(k)
    BY <1>2, <2>3, TaskStepAccounts
  <2>4. CASE Stop
    BY <1>2, <2>4 DEF Stop, PassedAccountedFor
  <2>5. CASE Crash
    BY <2>5 DEF Crash, PassedAccountedFor
  <2>6. CASE UNCHANGED vars
    BY <1>2, <2>6 DEF vars, PassedAccountedFor
  <2> QED
    BY <1>2, <2>1, <2>2, <2>3, <2>4, <2>5, <2>6 DEF Next
<1> QED
  BY <1>1, <1>2, InitIInv, NextIInv, PTL DEF Spec

----------------------------------------------------------------------------
(* A run without a crash loses nothing: what AllUnpacked asks for fails    *)
(* only across restarts and where an error was logged.                     *)

\* When the loop of a process that never died has ended and its goroutines are
\* past the unpacking, every creation of the range is stored or was given up
\* with a logged error (origin tells that the loop ran).
CompleteWithoutCrash ==
  (/\ crashes = 0 /\ pc = "ended" /\ origin <= EndBlock
   /\ \A k \in Creations : task[k] \notin {"receipt", "unpack"}) =>
    Creations \subseteq unpacked \cup excused

\* Before the first crash the loop starts with nothing inspected.
FirstRun ==
  crashes = 0 =>
    /\ pc \in {"down", "ready"} =>
         memory = NoBlock /\ redis = NoBlock /\ \A k \in Creations : task[k] = "none"
    /\ pc \in {"loop", "ended"} => origin \in {StartBlock, EndBlock + 1}

\* Every step keeps it.
LEMMA FirstRunOK == IInv /\ FirstRun /\ [Next]_vars => FirstRun'
<1> SUFFICES ASSUME IInv, FirstRun, [Next]_vars, crashes' = 0
             PROVE  FirstRun'
  BY DEF FirstRun
<1> USE DEF process, state, history
<1>1. CASE Boot
  BY <1>1 DEF Boot, FirstRun
<1>2. CASE LoopStep
  BY <1>2 DEF LoopStep, StartLoop, StartReturns, FetchBlock, FetchFails, EndLoop, FirstRun
<1>3. ASSUME NEW k \in Creations, TaskStep(k) PROVE FirstRun'
  <2>1. task[k] # "none" /\ UNCHANGED <<pc, origin, crashes>>
    BY <1>3 DEF TaskStep, Goroutine, Receipt, Unpack, UnpackDropsError, GivesUp,
       SetDescriptorKey, CacheWrite, CacheWriteFails
  <2> QED
    BY <2>1 DEF FirstRun, IInv, TypeOK
<1>4. CASE Stop
  BY <1>4 DEF Stop, FirstRun
<1>5. CASE Crash
  BY <1>5 DEF Crash, IInv, TypeOK
<1>6. CASE UNCHANGED vars
  BY <1>6 DEF vars, FirstRun
<1> QED
  BY <1>1, <1>2, <1>3, <1>4, <1>5, <1>6 DEF Next

\* Without a crash the whole range is stored or accounted for by logged errors,
\* however slow the goroutines are that the loop never waits for.
THEOREM CrashFreeCorrect == Spec => []CompleteWithoutCrash
<1>1. Init => FirstRun
  BY DEF Init, FirstRun
<1>2. IInv /\ FirstRun /\ PassedAccountedFor => CompleteWithoutCrash
  <2> SUFFICES ASSUME IInv, FirstRun, PassedAccountedFor, crashes = 0, pc = "ended",
                      origin <= EndBlock, NEW k \in Creations,
                      task[k] \notin {"receipt", "unpack"}
               PROVE  k \in unpacked \cup excused
    BY DEF CompleteWithoutCrash
  <2>1. origin = StartBlock
    BY DEF FirstRun
  <2>2. BlockOf[k] \in origin..EndBlock
    BY <2>1
  <2> QED
    BY <2>2 DEF PassedAccountedFor
<1> QED
  BY <1>1, <1>2, FirstRunOK, InitIInv, NextIInv, AccountCorrect, PTL DEF Spec
=============================================================================
