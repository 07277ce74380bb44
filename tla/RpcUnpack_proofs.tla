-------------------------- MODULE RpcUnpack_proofs --------------------------
(***************************************************************************)
(* Proofs of the safety properties of RpcUnpack, for every number of calls *)
(* and contracts and for requests of any length.                           *)
(***************************************************************************)
EXTENDS RpcUnpack, TLAPS

\* An answer is to the address at its position, and one that was not unpacked
\* for the call is about a stored row and has sources.
AnswerOK(c, i) ==
  /\ answers[c][i].address = asked[c][i]
  /\ known[c]
  /\ answers[c][i].from = "store" =>
       /\ answers[c][i].address \in DOMAIN AddressOf
       /\ status[AddressOf[answers[c][i].address]] # "absent"
       /\ answers[c][i].sources # "absent"

\* The loop has answered the addresses before the one it is at.
LoopOK(c) ==
  /\ next[c] <= Len(asked[c]) + 1
  /\ pc[c] = "error" => answers[c] = <<>> /\ ~panicked[c]
  /\ pc[c] # "error" => Len(answers[c]) = next[c] - 1
  /\ pc[c] \in {"sources", "unpack"} =>
       known[c] /\ More(c) /\ Address(c) \in DOMAIN AddressOf
  /\ pc[c] = "sources" => status[AddressOf[Address(c)]] # "absent"
  /\ panicked[c] => pc[c] = "ok" /\ More(c)
  /\ pc[c] = "ok" => panicked[c] \/ ~More(c)

CallOK(c) == LoopOK(c) /\ \A i \in 1..Len(answers[c]) : AnswerOK(c, i)

\* The inductive invariant.
IInv == TypeOK /\ \A c \in Calls : CallOK(c)

\* The properties are parts of the invariant.
LEMMA Consequences == IInv => AnswersInOrder /\ ShortMeansPanic /\ StoreAnswersStored
<1> SUFFICES ASSUME IInv, NEW c \in Calls
             PROVE  /\ Len(answers[c]) <= Len(asked[c])
                    /\ \A i \in 1..Len(answers[c]) : answers[c][i].address = asked[c][i]
                    /\ pc[c] = "error" => answers[c] = <<>>
                    /\ pc[c] = "ok" => (panicked[c] <=> Len(answers[c]) < Len(asked[c]))
                    /\ \A i \in 1..Len(answers[c]) :
                         /\ known[c]
                         /\ answers[c][i].from = "store" =>
                              /\ status[AddressOf[answers[c][i].address]] # "absent"
                              /\ answers[c][i].sources # "absent"
  BY DEF AnswersInOrder, ShortMeansPanic, StoreAnswersStored
<1>1. LoopOK(c) /\ \A i \in 1..Len(answers[c]) : AnswerOK(c, i)
  BY DEF IInv, CallOK
<1>2. /\ asked[c] \in Seq(Addresses) /\ answers[c] \in Seq(Answer)
      /\ next[c] \in Nat \ {0} /\ panicked[c] \in BOOLEAN
  BY DEF IInv, TypeOK
<1>3. Len(answers[c]) <= Len(asked[c])
  <2>1. CASE pc[c] = "error"
    BY <1>1, <1>2, <2>1 DEF LoopOK
  <2>2. CASE pc[c] # "error"
    BY <1>1, <1>2, <2>2 DEF LoopOK
  <2> QED
    BY <2>1, <2>2
<1>4. pc[c] = "ok" => (panicked[c] <=> Len(answers[c]) < Len(asked[c]))
  BY <1>1, <1>2 DEF LoopOK, More
<1> QED
  BY <1>1, <1>3, <1>4 DEF LoopOK, AnswerOK

\* No call has begun at first.
LEMMA InitOK == Init => IInv
<1> SUFFICES ASSUME Init PROVE IInv
  OBVIOUS
<1> USE DEF Init, Store!Init, Store!Status
<1>1. TypeOK
  BY DEF TypeOK
<1>2. ASSUME NEW c \in Calls PROVE CallOK(c)
  BY DEF CallOK, LoopOK, More, Address
<1> QED
  BY <1>1, <1>2 DEF IInv

\* A step of one call leaves the others as they are.
LEMMA OtherCalls ==
  ASSUME IInv, NEW c \in Calls, TypeOK', CallOK(c)', UNCHANGED store,
         \A d \in Calls \ {c} :
           /\ pc'[d] = pc[d] /\ asked'[d] = asked[d] /\ next'[d] = next[d]
           /\ known'[d] = known[d] /\ answers'[d] = answers[d] /\ panicked'[d] = panicked[d]
  PROVE  IInv'
<1>1. ASSUME NEW d \in Calls \ {c} PROVE CallOK(d)'
  BY DEF IInv, CallOK, LoopOK, AnswerOK, More, Address, store
<1> QED
  BY <1>1 DEF IInv

\* A call begins.
LEMMA CallBegins ==
  ASSUME IInv, NEW c \in Calls, NEW addresses \in Requests, NEW isKnown \in BOOLEAN,
         Call(c, addresses, isKnown)
  PROVE  IInv'
<1> USE DEF Call, store
<1>1. TypeOK'
  BY RequestsAssumption DEF IInv, TypeOK
<1>2. CallOK(c)'
  BY RequestsAssumption DEF IInv, TypeOK, CallOK, LoopOK, More
<1> QED
  BY <1>1, <1>2, OtherCalls DEF IInv, TypeOK

\* A call that fails has no answers.
LEMMA FailKeeps ==
  ASSUME IInv, NEW c \in Calls, pc[c] \in {"lookup", "unpack"}, Fail(c)
  PROVE  IInv'
<1> USE DEF Fail, store
<1>1. TypeOK'
  BY DEF IInv, TypeOK, Returned
<1>2. CallOK(c)'
  BY DEF IInv, TypeOK, CallOK, LoopOK
<1> QED
  BY <1>1, <1>2, OtherCalls DEF IInv, TypeOK

\* A call goes on with its answers as they are.
LEMMA GotoKeeps ==
  ASSUME IInv, NEW c \in Calls, pc[c] \in {"lookup", "sources"},
         NEW to \in {"sources", "unpack", "ok"}, Goto(c, to),
         to = "ok" => ~More(c),
         to # "ok" => known[c] /\ More(c) /\ Address(c) \in DOMAIN AddressOf,
         to = "sources" => status[AddressOf[Address(c)]] # "absent"
  PROVE  IInv'
<1> USE DEF Goto, store
<1>1. TypeOK'
  BY DEF IInv, TypeOK, Returned
<1>2. LoopOK(c)'
  BY DEF IInv, TypeOK, CallOK, LoopOK, More, Address
<1>3. \A i \in 1..Len(answers[c]) : AnswerOK(c, i)'
  BY DEF IInv, CallOK, AnswerOK
<1> QED
  BY <1>1, <1>2, <1>3, OtherCalls DEF IInv, TypeOK, CallOK

\* The answer that a call appends is to the address that it is at.
LEMMA AppendKeeps ==
  ASSUME IInv, NEW c \in Calls, pc[c] \in {"sources", "unpack"},
         NEW from \in {"store", "job"}, NEW sources \in Store!Status,
         AppendAnswer(c, from, sources),
         from = "store" => pc[c] = "sources" /\ sources # "absent"
  PROVE  IInv'
<1> DEFINE a == [address |-> Address(c), from |-> from, sources |-> sources]
<1> USE DEF AppendAnswer, store
<1>0. /\ next[c] \in Nat \ {0} /\ asked[c] \in Seq(Addresses) /\ answers[c] \in Seq(Answer)
      /\ LoopOK(c) /\ \A i \in 1..Len(answers[c]) : AnswerOK(c, i)
  BY DEF IInv, TypeOK, CallOK
<1>1. Address(c) \in Addresses /\ next[c] \in 1..Len(asked[c]) /\ Len(answers[c]) = next[c] - 1
  BY <1>0 DEF LoopOK, More, Address
<1>2. a \in Answer
  BY <1>1 DEF Answer
<1>3. answers'[c] = Append(answers[c], a) /\ next'[c] = next[c] + 1 /\ pc'[c] = "lookup"
  BY DEF IInv, TypeOK
<1>4. TypeOK'
  BY <1>2, <1>0 DEF IInv, TypeOK
<1>5. LoopOK(c)'
  BY <1>0, <1>1, <1>3 DEF LoopOK, More
<1>6. ASSUME NEW i \in 1..Len(answers'[c]) PROVE AnswerOK(c, i)'
  <2>1. CASE i \in 1..Len(answers[c])
    <3>1. answers'[c][i] = answers[c][i]
      BY <1>0, <1>3, <2>1
    <3> QED
      BY <1>0, <2>1, <3>1 DEF AnswerOK
  <2>2. CASE i = next[c]
    <3>1. answers'[c][i] = a
      BY <1>0, <1>1, <1>3, <2>2
    <3>2. /\ a.address = asked[c][i] /\ a.from = from /\ a.sources = sources
          /\ known[c] /\ a.address \in DOMAIN AddressOf
          /\ from = "store" => status[AddressOf[a.address]] # "absent"
      BY <1>0, <2>2 DEF LoopOK, Address
    <3> QED
      BY <3>1, <3>2 DEF AnswerOK
  <2> QED
    BY <1>0, <1>1, <1>3, <2>1, <2>2
<1> HIDE DEF a
<1> QED
  BY <1>4, <1>5, <1>6, OtherCalls DEF IInv, TypeOK, CallOK

\* A recovered panic ends the call short of its last address.
LEMMA PanicKeeps ==
  ASSUME IInv, NEW c \in Calls, UnpackPanics(c)
  PROVE  IInv'
<1> USE DEF UnpackPanics, store
<1>1. TypeOK'
  BY DEF IInv, TypeOK, Returned
<1>2. LoopOK(c)'
  BY DEF IInv, TypeOK, CallOK, LoopOK, More
<1>3. \A i \in 1..Len(answers[c]) : AnswerOK(c, i)'
  BY DEF IInv, CallOK, AnswerOK
<1> QED
  BY <1>1, <1>2, <1>3, OtherCalls DEF IInv, TypeOK, CallOK

\* A row that is stored stays stored, so that jobs do not disturb the calls.
LEMMA StoreKeeps ==
  ASSUME IInv, UNCHANGED call,
         status' \in [Contracts -> Store!Status], files' \in [Contracts -> Store!Status],
         \A k \in Contracts : status[k] # "absent" => status'[k] # "absent"
  PROVE  IInv'
<1> USE DEF call
<1>1. TypeOK'
  BY DEF IInv, TypeOK
<1>2. ASSUME NEW c \in Calls PROVE CallOK(c)'
  BY <1>2, AddressOfAssumption DEF IInv, TypeOK, CallOK, LoopOK, AnswerOK, More, Address
<1> QED
  BY <1>1, <1>2 DEF IInv

\* Every step of a call keeps the invariant.
LEMMA CallStepKeeps ==
  ASSUME IInv, NEW c \in Calls, CallStep(c)
  PROVE  IInv'
<1>0. CallOK(c) /\ files \in [Contracts -> Store!Status]
  BY DEF IInv, TypeOK
<1>1. CASE Finish(c)
  BY <1>1, GotoKeeps DEF Finish
<1>2. CASE LookupFails(c) \/ UnpackFails(c)
  BY <1>2, FailKeeps DEF LookupFails, UnpackFails
<1>3. CASE Lookup(c)
  BY <1>3, GotoKeeps DEF Lookup
<1>4. CASE LoadSources(c)
  <2>1. files[AddressOf[Address(c)]] \in Store!Status
    BY <1>0, <1>4, AddressOfAssumption DEF LoadSources, CallOK, LoopOK
  <2> QED
    BY <1>4, <2>1, AppendKeeps DEF LoadSources
<1>5. CASE NoSources(c)
  BY <1>0, <1>5, GotoKeeps DEF NoSources, CallOK, LoopOK
<1>6. CASE UnpackFromEntry(c)
  BY <1>6, AppendKeeps DEF UnpackFromEntry
<1>7. CASE UnpackPanics(c)
  BY <1>7, PanicKeeps
<1> QED
  BY <1>1, <1>2, <1>3, <1>4, <1>5, <1>6, <1>7 DEF CallStep

\* Every step keeps the invariant.
LEMMA NextOK == IInv /\ [Next]_vars => IInv'
<1> SUFFICES ASSUME IInv, [Next]_vars PROVE IInv'
  OBVIOUS
<1>1. CASE \E c \in Calls : CallStep(c)
  BY <1>1, CallStepKeeps
<1>2. CASE \E c \in Calls, addresses \in Requests, isKnown \in BOOLEAN : Call(c, addresses, isKnown)
  BY <1>2, CallBegins
<1>3. ASSUME NEW k \in Contracts, NEW s \in {"partial", "complete"}, Stored(k, s)
      PROVE  IInv'
  BY <1>3, StoreKeeps DEF Stored, Store!Store, Store!Status, IInv, TypeOK
<1>4. CASE WriteSources
  BY <1>4, StoreKeeps DEF WriteSources, Store!WriteSources, IInv, TypeOK
<1>5. CASE UNCHANGED vars
  BY <1>5, StoreKeeps DEF vars, store, IInv, TypeOK
<1> QED
  BY <1>1, <1>2, <1>3, <1>4, <1>5 DEF Next

\* The invariant holds throughout.
THEOREM Invariant == Spec => []IInv
BY InitOK, NextOK, PTL DEF Spec

\* The calls, their answers and the store keep their types.
THEOREM TypeCorrect == Spec => []TypeOK
<1>1. IInv => TypeOK
  BY DEF IInv
<1> QED
  BY <1>1, Invariant, PTL

\* For any number of concurrent calls and requests of any length, the answers
\* are those to the first addresses asked for, in order.
THEOREM OrderCorrect == Spec => []AnswersInOrder
BY Invariant, Consequences, PTL

\* A call returns fewer answers than it was asked for exactly when the pipeline
\* panicked, and none when it fails.
THEOREM ShortCorrect == Spec => []ShortMeansPanic
BY Invariant, Consequences, PTL

\* An answer from the store is about a row that is stored, with sources.
THEOREM StoreAnswersCorrect == Spec => []StoreAnswersStored
BY Invariant, Consequences, PTL

----------------------------------------------------------------------------
(* Why every call returns: the safety half of CallsReturn.                 *)

\* The call is in its loop.
Looping(p) == p \in {"lookup", "sources", "unpack"}

\* A bound on the steps that a call at p can still take when it is at position
\* i of l addresses: at most three for each address.
StepsLeft(p, i, l) ==
  3 * (l + 1 - i) + (IF p = "lookup" THEN 2 ELSE IF p = "sources" THEN 1 ELSE 0)

\* A call in its loop comes closer to its return with every step that it takes.
CallsDescend ==
  [][\A c \in Calls : Looping(pc[c]) /\ Looping(pc'[c]) /\ pc'[c] # pc[c] =>
       StepsLeft(pc'[c], next'[c], Len(asked'[c])) < StepsLeft(pc[c], next[c], Len(asked[c]))]_vars

\* The bound is positive while the call is in its loop.
LEMMA StepsLeftPositive ==
  ASSUME NEW p, Looping(p), NEW i \in Nat, NEW l \in Nat, i <= l + 1,
         p = "unpack" => i <= l
  PROVE  StepsLeft(p, i, l) \in Nat \ {0}
<1> DEFINE n == l + 1 - i
<1>1. n \in Nat /\ (p = "unpack" => n # 0)
  OBVIOUS
<1>2. StepsLeft(p, i, l) = 3 * n + (IF p = "lookup" THEN 2 ELSE IF p = "sources" THEN 1 ELSE 0)
  BY DEF StepsLeft
<1> HIDE DEF n
<1> QED
  BY <1>1, <1>2 DEF Looping

\* A step of a call in its loop takes the loop to another place, and what is
\* left is a positive number that the step lowers.
LEMMA CallStepDescends ==
  ASSUME IInv, NEW c \in Calls, CallStep(c)
  PROVE  /\ Looping(pc[c]) /\ pc'[c] # pc[c]
         /\ \A d \in Calls \ {c} : pc'[d] = pc[d]
         /\ StepsLeft(pc[c], next[c], Len(asked[c])) \in Nat \ {0}
         /\ Looping(pc'[c]) =>
              StepsLeft(pc'[c], next'[c], Len(asked'[c])) < StepsLeft(pc[c], next[c], Len(asked[c]))
<1> USE DEF Looping, Returned
<1>0. /\ next[c] \in Nat \ {0} /\ Len(asked[c]) \in Nat
      /\ pc \in [Calls -> {"idle", "lookup", "sources", "unpack", "ok", "error"}]
      /\ next \in [Calls -> Nat \ {0}]
      /\ LoopOK(c)
  BY DEF IInv, TypeOK, CallOK, Returned
<1>1. Looping(pc[c])
  BY DEF CallStep, Finish, LookupFails, Lookup, LoadSources, NoSources, UnpackFromEntry,
     UnpackFails, UnpackPanics
<1>2. StepsLeft(pc[c], next[c], Len(asked[c])) \in Nat \ {0}
  <2>1. next[c] <= Len(asked[c]) + 1 /\ (pc[c] = "unpack" => next[c] <= Len(asked[c]))
    BY <1>0 DEF LoopOK, More
  <2> QED
    BY <1>0, <1>1, <2>1, StepsLeftPositive
<1>3. ASSUME NEW to \in {"sources", "unpack", "ok"}, Goto(c, to), pc[c] # to,
             pc[c] = "unpack" => to = "ok",
             pc[c] = "sources" => to # "sources"
      PROVE  /\ pc'[c] # pc[c] /\ \A d \in Calls \ {c} : pc'[d] = pc[d]
             /\ Looping(pc'[c]) =>
                  StepsLeft(pc'[c], next'[c], Len(asked'[c])) < StepsLeft(pc[c], next[c], Len(asked[c]))
  BY <1>0, <1>1, <1>3 DEF Goto, StepsLeft
<1>4. ASSUME NEW from, NEW sources, AppendAnswer(c, from, sources), pc[c] # "lookup"
      PROVE  /\ pc'[c] # pc[c] /\ \A d \in Calls \ {c} : pc'[d] = pc[d]
             /\ StepsLeft(pc'[c], next'[c], Len(asked'[c])) < StepsLeft(pc[c], next[c], Len(asked[c]))
  <2>1. /\ pc'[c] = "lookup" /\ next'[c] = next[c] + 1 /\ asked' = asked
        /\ \A d \in Calls \ {c} : pc'[d] = pc[d]
    BY <1>0, <1>4 DEF AppendAnswer
  <2> QED
    BY <1>0, <1>1, <1>4, <2>1 DEF StepsLeft
<1>5. ASSUME NEW to \in Returned, pc' = [pc EXCEPT ![c] = to]
      PROVE  pc'[c] # pc[c] /\ ~Looping(pc'[c]) /\ \A d \in Calls \ {c} : pc'[d] = pc[d]
  BY <1>0, <1>1, <1>5
<1>6. CASE Finish(c) \/ Lookup(c) \/ NoSources(c)
  BY <1>1, <1>2, <1>3, <1>6 DEF Finish, Lookup, NoSources
<1>7. CASE LoadSources(c) \/ UnpackFromEntry(c)
  BY <1>1, <1>2, <1>4, <1>7 DEF LoadSources, UnpackFromEntry
<1>8. CASE LookupFails(c) \/ UnpackFails(c) \/ UnpackPanics(c)
  BY <1>1, <1>2, <1>5, <1>8 DEF LookupFails, UnpackFails, UnpackPanics, Fail
<1> QED
  BY <1>6, <1>7, <1>8 DEF CallStep

\* The loop of the Unpack call takes a bounded number of steps, three per address
\* asked for, whatever other calls and jobs do meanwhile.
THEOREM DescentCorrect == Spec => CallsDescend
<1> DEFINE Descends ==
      \A c \in Calls : Looping(pc[c]) /\ Looping(pc'[c]) /\ pc'[c] # pc[c] =>
        StepsLeft(pc'[c], next'[c], Len(asked'[c])) < StepsLeft(pc[c], next[c], Len(asked[c]))
<1>1. ASSUME IInv, Next PROVE Descends
  <2> SUFFICES ASSUME NEW c \in Calls, Looping(pc[c]), Looping(pc'[c]), pc'[c] # pc[c]
               PROVE  StepsLeft(pc'[c], next'[c], Len(asked'[c])) < StepsLeft(pc[c], next[c], Len(asked[c]))
    OBVIOUS
  <2>1. ASSUME NEW d \in Calls, CallStep(d)
        PROVE  StepsLeft(pc'[c], next'[c], Len(asked'[c])) < StepsLeft(pc[c], next[c], Len(asked[c]))
    BY <1>1, <2>1, CallStepDescends
  <2>2. ASSUME NEW d \in Calls, NEW addresses \in Requests, NEW isKnown \in BOOLEAN,
               Call(d, addresses, isKnown)
        PROVE  FALSE
    BY <1>1, <2>2 DEF Call, Looping, Returned, IInv, TypeOK
  <2>3. ASSUME pc' = pc PROVE FALSE
    BY <2>3
  <2> QED
    BY <1>1, <2>1, <2>2, <2>3 DEF Next, Stored, WriteSources, call
<1>2. IInv /\ [Next]_vars => [Descends]_vars
  BY <1>1
<1> HIDE DEF Descends
<1>3. Spec => [][Descends]_vars
  BY <1>2, Invariant, PTL DEF Spec
<1> QED
  BY <1>3 DEF Descends, CallsDescend
=============================================================================
