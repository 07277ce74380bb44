-------------------------- MODULE HeadSync_proofs --------------------------
(***************************************************************************)
(* Proofs of the safety properties of HeadSync, for chains of any length   *)
(* and any number of reorganisations, crashes and restarts.                *)
(***************************************************************************)
EXTENDS HeadSync, SequenceTheorems, TLAPS

Holds(s, n) == \E i \in 1..Len(s) : s[i] = n

\* A header of number n is still to be delivered.
Pends(n) == Holds(pending, n)

\* The block that is worked on is one of the chain, or was when it was fetched.
BlockOK == pc \in {"set", "hooks"} => block.number \in 1..head

\* Redis holds the number of the last block that went to the hooks, of one with
\* a logged error, or of the block that goes to the hooks next.
RedisOK ==
  /\ pc = "subscribe" => redis = latest
  /\ pc \in {"select", "fetch", "set"} => redis = latest \/ \E b \in excused : b.number = redis
  /\ pc = "hooks" => redis = block.number

\* The block of number n went through the loop, is in it or has still to come.
Covered(n) ==
  Canonical(n) \in announced =>
    \/ Canonical(n) \in inspected \cup excused
    \/ InWork(Canonical(n))
    \/ Pends(n)

CoveredOK == InLoop => \A n \in 1..head : Covered(n)

\* The inductive invariant.
IInv == TypeOK /\ BlockOK /\ RedisOK /\ CoveredOK

\* The numbers from first to last, as a sequence.
Run(first, last) == [i \in 1..(last + 1 - first) |-> first + i - 1]

\* It holds each of these numbers.
LEMMA RunNumbers ==
  ASSUME NEW last \in Nat, NEW first \in 1..last
  PROVE  /\ Run(first, last) \in Seq(1..last)
         /\ \A n \in first..last : Holds(Run(first, last), n)
<1> DEFINE k == last + 1 - first
           new == [i \in 1..k |-> first + i - 1]
<1>1. k \in Nat
  OBVIOUS
<1>2. new \in [1..k -> 1..last]
  OBVIOUS
<1>3. new \in Seq(1..last) /\ Len(new) = k /\ \A i \in 1..k : new[i] = first + i - 1
  BY <1>1, <1>2, SeqDef
<1>4. new = Run(first, last)
  BY DEF Run
<1> HIDE DEF new
<1>5. ASSUME NEW n \in first..last PROVE \E i \in 1..Len(new) : new[i] = n
  <2>1. n + 1 - first \in 1..k /\ new[n + 1 - first] = n
    BY <1>3
  <2> QED
    BY <1>3, <2>1
<1> QED
  BY <1>3, <1>4, <1>5 DEF Holds

\* Numbers are appended and none is lost.
LEMMA AppendNumbers ==
  ASSUME NEW h \in Nat, NEW last \in Nat, h <= last, NEW s \in Seq(1..h),
         NEW new \in Seq(1..last), NEW t, t = s \o new
  PROVE  /\ t \in Seq(1..last)
         /\ \A n : Holds(s, n) \/ Holds(new, n) => Holds(t, n)
<1>1. s \in Seq(1..last)
  BY SeqMonotonic
<1>2. Len(s) \in Nat /\ Len(new) \in Nat
  BY LenProperties
<1>3. /\ t \in Seq(1..last) /\ Len(t) = Len(s) + Len(new)
      /\ \A i \in 1..Len(s) + Len(new) : t[i] = IF i <= Len(s) THEN s[i] ELSE new[i - Len(s)]
  BY <1>1, ConcatProperties
<1>4. ASSUME NEW i \in 1..Len(s) PROVE i \in 1..Len(t) /\ t[i] = s[i]
  BY <1>2, <1>3
<1>5. ASSUME NEW i \in 1..Len(new) PROVE Len(s) + i \in 1..Len(t) /\ t[Len(s) + i] = new[i]
  <2>1. Len(s) + i \in 1..Len(s) + Len(new) /\ ~(Len(s) + i <= Len(s)) /\ (Len(s) + i) - Len(s) = i
    BY <1>2
  <2> QED
    BY <1>3, <2>1
<1> QED
  BY <1>3, <1>4, <1>5 DEF Holds

\* Headers that are announced join the pending ones, and none of these is lost.
LEMMA Announced ==
  ASSUME pending \in Seq(1..head), head \in Nat, head' \in Nat, head <= head',
         NEW first \in Nat, first \in 1..head', InLoop, Announce(first)
  PROVE  /\ pending' \in Seq(1..head')
         /\ \A n \in Nat : Pends(n) => Pends(n)'
         /\ \A n \in first..head' : Pends(n)'
<1> DEFINE new == Run(first, head')
<1>1. pending' = pending \o new
  BY DEF Announce, Run
<1>2. new \in Seq(1..head') /\ \A n \in first..head' : Holds(new, n)
  BY RunNumbers
<1> HIDE DEF new
<1>3. pending' \in Seq(1..head') /\ \A n : Holds(pending, n) \/ Holds(new, n) => Holds(pending', n)
  BY <1>1, <1>2, AppendNumbers
<1> QED
  BY <1>2, <1>3 DEF Pends

LEMMA InitOK == Init => IInv
<1> SUFFICES ASSUME Init PROVE IInv
  OBVIOUS
<1>1. pending \in Seq(1..head)
  BY EmptySeq DEF Init
<1>2. TypeOK
  BY <1>1, MaxNumberAssumption, MaxVersionAssumption DEF Init, TypeOK, Numbers, Blocks, NoHead
<1> QED
  BY <1>2 DEF Init, IInv, BlockOK, RedisOK, CoveredOK, InLoop

\* The node announces; the subscriber stays where it is.  Whatever number's
\* block changes is pending again, and the others are covered as before.
LEMMA AnnounceOK ==
  ASSUME IInv, NEW first \in Nat, first \in 1..head', head' \in Numbers, head <= head',
         version' \in [Numbers -> 0..MaxVersion],
         \A n \in 1..head' : n < first => n \in 1..head /\ version'[n] = version[n],
         Announce(first), UNCHANGED <<subscriber, state, inspected, excused, latest>>
  PROVE  IInv'
<1> USE DEF subscriber, state
<1>0. head \in Nat /\ head' \in Nat /\ MaxNumber \in Nat
  BY MaxNumberAssumption DEF IInv, TypeOK, Numbers
<1>1. InLoop' <=> InLoop
  BY DEF InLoop
<1>2. pending' \in Seq(1..head')
  <2>1. CASE InLoop
    BY <1>0, <2>1, Announced DEF IInv, TypeOK
  <2>2. CASE ~InLoop
    <3>1. pending' = pending /\ pending \in Seq(1..head)
      BY <2>2 DEF Announce, IInv, TypeOK
    <3>2. 1..head \subseteq 1..head'
      BY <1>0
    <3> QED
      BY <3>1, <3>2, SeqMonotonic
  <2> QED
    BY <2>1, <2>2
<1>3. announced' \subseteq Blocks
  <2>1. \A n \in first..head' : [number |-> n, version |-> version'[n]] \in Blocks
    BY <1>0 DEF Blocks, Numbers
  <2> QED
    BY <2>1 DEF Announce, IInv, TypeOK
<1>4. TypeOK'
  BY <1>0, <1>2, <1>3 DEF IInv, TypeOK, Numbers
<1>5. BlockOK' /\ RedisOK'
  BY <1>0 DEF IInv, BlockOK, RedisOK
<1>6. ASSUME InLoop, NEW n \in 1..head' PROVE Covered(n)'
  <2>1. /\ \A m \in Nat : Pends(m) => Pends(m)'
        /\ \A m \in first..head' : Pends(m)'
    BY <1>0, <1>6, Announced DEF IInv, TypeOK
  <2>2. CASE n >= first
    BY <1>0, <2>1, <2>2 DEF Covered
  <2>3. CASE n < first
    <3>1. n \in 1..head /\ Canonical(n)' = Canonical(n) /\ Covered(n)
      BY <1>6, <2>3 DEF Canonical, IInv, CoveredOK
    <3>2. Canonical(n)' \in announced' => Canonical(n) \in announced
      <4>1. \A m \in first..head' : [number |-> m, version |-> version'[m]].number # n
        BY <1>0, <2>3
      <4>2. Canonical(n)'.number = n
        BY DEF Canonical
      <4> QED
        BY <1>6, <3>1, <4>1, <4>2 DEF Announce
    <3>3. InWork(Canonical(n)) => InWork(Canonical(n))'
      BY <3>1 DEF InWork
    <3> QED
      BY <2>1, <3>1, <3>2, <3>3 DEF Covered
  <2> QED
    BY <1>0, <2>2, <2>3
<1> QED
  BY <1>1, <1>4, <1>5, <1>6 DEF IInv, CoveredOK

LEMMA ExtendOK == ASSUME IInv, Extend PROVE IInv'
<1>1. head' \in Numbers /\ head' = head + 1 /\ head \in Nat /\ version' = version
  BY MaxNumberAssumption DEF IInv, TypeOK, Extend, Numbers
<1>2. version' \in [Numbers -> 0..MaxVersion]
  BY <1>1 DEF IInv, TypeOK
<1>3. head' \in Nat /\ head' \in 1..head' /\ head <= head'
  BY <1>1
<1>4. \A n \in 1..head' : n < head' => n \in 1..head /\ version'[n] = version[n]
  BY <1>1
<1>5. Announce(head') /\ UNCHANGED <<subscriber, state, inspected, excused, latest>>
  BY DEF Extend
<1> QED
  BY <1>1, <1>2, <1>3, <1>4, <1>5, AnnounceOK

LEMMA ReorganiseOK ==
  ASSUME IInv, NEW first \in 1..head, Reorganise(first)
  PROVE  IInv'
<1>1. head' = head /\ head \in Numbers /\ head \in Nat /\ first \in Nat
  BY MaxNumberAssumption DEF IInv, TypeOK, Reorganise, Numbers
<1>2. version \in [Numbers -> 0..MaxVersion] /\ 1..head \subseteq Numbers
  BY <1>1, MaxNumberAssumption DEF IInv, TypeOK, Numbers
<1>3. /\ \A n \in first..head : version[n] < MaxVersion
      /\ version' = [n \in Numbers |-> IF n \in first..head THEN version[n] + 1 ELSE version[n]]
  BY DEF Reorganise
<1>4. version' \in [Numbers -> 0..MaxVersion]
  BY <1>2, <1>3, MaxVersionAssumption
<1>5. \A n \in 1..head' : n < first => n \in 1..head /\ version'[n] = version[n]
  BY <1>1, <1>2, <1>3
<1>6. Announce(first) /\ UNCHANGED <<subscriber, state, inspected, excused, latest>>
  BY DEF Reorganise
<1>7. first \in 1..head' /\ head' \in Numbers /\ head <= head'
  BY <1>1
<1> QED
  BY <1>1, <1>4, <1>5, <1>6, <1>7, AnnounceOK

\* What stays is covered as before.
LEMMA CoveredKept ==
  ASSUME CoveredOK, InLoop, UNCHANGED <<head, version>>, announced' = announced,
         inspected \subseteq inspected', excused \subseteq excused',
         \A n \in 1..head : InWork(Canonical(n)) \/ Pends(n) =>
           \/ Canonical(n) \in inspected' \cup excused'
           \/ InWork(Canonical(n))'
           \/ Pends(n)'
  PROVE  CoveredOK'
<1>1. \A n : Canonical(n)' = Canonical(n)
  BY DEF Canonical
<1> SUFFICES ASSUME NEW n \in 1..head PROVE Covered(n)'
  BY DEF CoveredOK
<1>2. Covered(n)
  BY DEF CoveredOK
<1> QED
  BY <1>1, <1>2 DEF Covered

\* Steps that end outside of the loop: there is nothing to cover.
LEMMA OutsideOK ==
  ASSUME IInv,
         \/ Boot \/ ReadHead \/ SetInitialHead \/ StartFails \/ LeaveLoop \/ Crash
         \/ \E applied \in BOOLEAN : SetInitialHeadFails(applied)
  PROVE  IInv'
<1> USE DEF Goto, chain, history, state
<1>0. head \in Nat
  BY MaxNumberAssumption DEF IInv, TypeOK, Numbers
<1>1. CASE Boot
  BY <1>0, <1>1 DEF Boot, IInv, TypeOK, BlockOK, RedisOK, CoveredOK, InLoop
<1>2. CASE ReadHead
  <2>1. head # 0
    BY DEF IInv, TypeOK, Numbers
  <2> QED
    BY <1>0, <1>2, <2>1 DEF ReadHead, IInv, TypeOK, BlockOK, RedisOK, CoveredOK, InLoop
<1>3. CASE SetInitialHead
  BY <1>0, <1>3 DEF SetInitialHead, IInv, TypeOK, BlockOK, RedisOK, CoveredOK, InLoop
<1>4. CASE StartFails
  BY <1>0, <1>4 DEF StartFails, IInv, TypeOK, BlockOK, RedisOK, CoveredOK, InLoop
<1>5. CASE LeaveLoop
  <2>1. pending' \in Seq(1..head')
    BY <1>5, EmptySeq DEF LeaveLoop
  <2> QED
    BY <1>0, <1>5, <2>1 DEF LeaveLoop, IInv, TypeOK, BlockOK, RedisOK, CoveredOK, InLoop
<1>6. CASE Crash
  <2>1. pending' \in Seq(1..head')
    BY <1>6, EmptySeq DEF Crash
  <2> QED
    BY <1>0, <1>6, <2>1 DEF Crash, NoHead, IInv, TypeOK, BlockOK, RedisOK, CoveredOK, InLoop
<1>7. CASE \E applied \in BOOLEAN : SetInitialHeadFails(applied)
  <2>1. PICK applied \in BOOLEAN : SetInitialHeadFails(applied)
    BY <1>7
  <2>2. redis' \in {redis, header}
    BY <2>1 DEF SetInitialHeadFails
  <2> QED
    BY <1>0, <2>1, <2>2
    DEF SetInitialHeadFails, IInv, TypeOK, BlockOK, RedisOK, CoveredOK, InLoop
<1> QED
  BY <1>1, <1>2, <1>3, <1>4, <1>5, <1>6, <1>7

\* A new subscription: nothing is announced to it yet.
LEMMA SubscribeOK == ASSUME IInv, SubscribeNewHead PROVE IInv'
<1> USE DEF Goto, chain, state, SubscribeNewHead
<1>1. TypeOK'
  BY DEF IInv, TypeOK
<1>2. BlockOK' /\ RedisOK'
  BY DEF IInv, BlockOK, RedisOK
<1>3. CoveredOK'
  BY DEF CoveredOK, Covered
<1> QED
  BY <1>1, <1>2, <1>3 DEF IInv

\* The first pending header is worked on, the others stay.
LEMMA ReceiveOK == ASSUME IInv, Receive PROVE IInv'
<1> USE DEF chain, state, history
<1>1. pending \in Seq(1..head) /\ pending # <<>> /\ head \in Nat
  BY MaxNumberAssumption DEF Receive, IInv, TypeOK, Numbers
<1>2. Len(pending) \in Nat /\ Len(pending) # 0
  BY <1>1, EmptySeq, LenProperties
<1>3. header' \in 1..head /\ header' = pending[1]
  <2>1. 1 \in 1..Len(pending) /\ header' = pending[1]
    BY <1>1, <1>2 DEF Receive
  <2> QED
    BY <1>1, <2>1, ElementOfSeq
<1>4. /\ pending' \in Seq(1..head) /\ Len(pending') = Len(pending) - 1
      /\ \A i \in 1..Len(pending') : pending'[i] = pending[i + 1]
  BY <1>1, HeadTailProperties DEF Receive
<1>5. TypeOK'
  BY <1>1, <1>3, <1>4 DEF Receive, IInv, TypeOK
<1>6. BlockOK' /\ RedisOK'
  BY DEF Receive, IInv, BlockOK, RedisOK
<1>7. ASSUME NEW n \in 1..head, InWork(Canonical(n)) \/ Pends(n)
      PROVE  InWork(Canonical(n))' \/ Pends(n)'
  <2>1. PICK i \in 1..Len(pending) : pending[i] = n
    BY <1>7 DEF Receive, InWork, Pends, Holds
  <2>2. CASE i = 1
    <3>1. pc' = "fetch" /\ header' = n
      BY <1>3, <2>1, <2>2 DEF Receive
    <3>2. Canonical(n)'.number = n
      BY DEF Canonical
    <3> QED
      BY <3>1, <3>2 DEF InWork
  <2>3. CASE i # 1
    <3>1. i - 1 \in 1..Len(pending') /\ (i - 1) + 1 = i
      BY <1>2, <1>4, <2>3
    <3>2. pending'[i - 1] = n
      BY <1>4, <2>1, <3>1
    <3> QED
      BY <3>1, <3>2 DEF Pends, Holds
  <2> QED
    BY <2>2, <2>3
<1>8. CoveredOK'
  <2>1. CoveredOK /\ InLoop /\ UNCHANGED <<head, version, announced, inspected, excused>>
    BY DEF Receive, IInv, InLoop
  <2> QED
    BY <1>7, <2>1, CoveredKept
<1> QED
  BY <1>5, <1>6, <1>8 DEF IInv

\* The block fetched for a number is the one that the chain has there.
LEMMA FetchOK == ASSUME IInv, BlockByNumber \/ FetchFails PROVE IInv'
<1> USE DEF Goto, chain, state, history
<1>1. /\ pc = "fetch" /\ header \in 1..head /\ head \in Nat /\ 1..head \subseteq Numbers
      /\ UNCHANGED <<head, version, announced, inspected, pending>>
  BY MaxNumberAssumption DEF BlockByNumber, FetchFails, IInv, TypeOK, Numbers
<1>2. Canonical(header) \in Blocks /\ Canonical(header).number = header
  BY <1>1 DEF Canonical, Blocks, IInv, TypeOK
<1>3. \A n \in 1..head : InWork(Canonical(n)) => n = header
  BY <1>1 DEF InWork, Canonical
<1>4. \A n : Pends(n)' <=> Pends(n)
  BY <1>1 DEF Pends
<1>5. CoveredOK /\ InLoop
  BY <1>1 DEF IInv, InLoop
<1>6. CASE BlockByNumber
  <2>1. TypeOK'
    BY <1>1, <1>2, <1>6 DEF BlockByNumber, IInv, TypeOK
  <2>2. BlockOK' /\ RedisOK'
    BY <1>1, <1>2, <1>6 DEF BlockByNumber, IInv, BlockOK, RedisOK
  <2>3. excused' = excused /\ InWork(Canonical(header))'
    BY <1>1, <1>6 DEF BlockByNumber, InWork, Canonical
  <2>4. \A n \in 1..head : InWork(Canonical(n)) => InWork(Canonical(n))'
    BY <1>1, <1>3, <1>6, <2>3 DEF BlockByNumber
  <2>5. CoveredOK'
    BY <1>1, <1>4, <1>5, <2>3, <2>4, CoveredKept
  <2> QED
    BY <2>1, <2>2, <2>5 DEF IInv
<1>7. CASE FetchFails
  <2>1. TypeOK'
    BY <1>1, <1>2, <1>7 DEF FetchFails, IInv, TypeOK
  <2>2. BlockOK' /\ RedisOK'
    BY <1>1, <1>7 DEF FetchFails, IInv, BlockOK, RedisOK
  <2>3. excused' = excused \cup {Canonical(header)}
    BY <1>7 DEF FetchFails
  <2>4. CoveredOK'
    BY <1>1, <1>3, <1>4, <1>5, <2>3, CoveredKept
  <2> QED
    BY <2>1, <2>2, <2>4 DEF IInv
<1> QED
  BY <1>6, <1>7

\* The head is set, or the block is excused.
LEMMA SetOK ==
  ASSUME IInv, SetHead \/ \E applied \in BOOLEAN : SetHeadFails(applied)
  PROVE  IInv'
<1> USE DEF Goto, chain, history
<1>1. /\ pc = "set" /\ block \in Blocks /\ block.number \in 1..head /\ head \in Nat
      /\ redis' \in {redis, block.number} /\ memory' = block.number
      /\ UNCHANGED <<head, version, announced, inspected, pending, header, block, latest>>
  BY MaxNumberAssumption DEF SetHead, SetHeadFails, IInv, TypeOK, BlockOK, Numbers
<1>2. \A n \in 1..head : InWork(Canonical(n)) => block = Canonical(n)
  BY <1>1 DEF InWork
<1>3. \A n : (Pends(n)' <=> Pends(n)) /\ Canonical(n)' = Canonical(n)
  BY <1>1 DEF Pends, Canonical
<1>4. CoveredOK /\ InLoop
  BY <1>1 DEF IInv, InLoop
<1>5. CASE SetHead
  <2>1. TypeOK'
    BY <1>1, <1>5 DEF SetHead, IInv, TypeOK
  <2>2. BlockOK' /\ RedisOK'
    BY <1>1, <1>5 DEF SetHead, BlockOK, RedisOK
  <2>3. excused' = excused /\ pc' = "hooks"
    BY <1>5 DEF SetHead
  <2>4. \A n \in 1..head : InWork(Canonical(n)) => InWork(Canonical(n))'
    BY <1>1, <1>2, <1>3, <2>3 DEF InWork
  <2>5. CoveredOK'
    BY <1>1, <1>3, <1>4, <2>3, <2>4, CoveredKept
  <2> QED
    BY <2>1, <2>2, <2>5 DEF IInv
<1>6. CASE \E applied \in BOOLEAN : SetHeadFails(applied)
  <2>1. excused' = excused \cup {block} /\ pc' = "select"
    BY <1>6 DEF SetHeadFails
  <2>2. TypeOK'
    BY <1>1, <2>1 DEF IInv, TypeOK
  <2>3. BlockOK' /\ RedisOK'
    BY <1>1, <2>1 DEF IInv, BlockOK, RedisOK
  <2>4. CoveredOK'
    BY <1>1, <1>2, <1>3, <1>4, <2>1, CoveredKept
  <2> QED
    BY <2>2, <2>3, <2>4 DEF IInv
<1> QED
  BY <1>5, <1>6

\* The block went to the hooks, which handled it or failed.
LEMMA HooksOK == ASSUME IInv, NEW ok \in BOOLEAN, RunHooks(ok) PROVE IInv'
<1> USE DEF Goto, chain, state
<1>1. /\ pc = "hooks" /\ pc' = "select"
      /\ block \in Blocks /\ block.number \in 1..head /\ head \in Nat
      /\ latest' = block.number
      /\ UNCHANGED <<head, version, announced, pending, header, block, memory, redis>>
  BY MaxNumberAssumption DEF RunHooks, IInv, TypeOK, BlockOK, Numbers
<1>2. /\ inspected' \in {inspected, inspected \cup {block}}
      /\ excused' \in {excused, excused \cup {block}}
      /\ block \in inspected' \cup excused'
  BY DEF RunHooks
<1>3. TypeOK'
  BY <1>1, <1>2 DEF IInv, TypeOK
<1>4. BlockOK' /\ RedisOK'
  BY <1>1 DEF IInv, BlockOK, RedisOK
<1>5. CoveredOK'
  <2>1. \A n \in 1..head : InWork(Canonical(n)) => block = Canonical(n)
    BY <1>1 DEF InWork
  <2>2. \A n : Pends(n)' <=> Pends(n)
    BY <1>1 DEF Pends
  <2>3. CoveredOK /\ InLoop
    BY <1>1 DEF IInv, InLoop
  <2> QED
    BY <1>1, <1>2, <2>1, <2>2, <2>3, CoveredKept
<1> QED
  BY <1>3, <1>4, <1>5 DEF IInv

LEMMA NextOK == IInv /\ [Next]_vars => IInv'
<1> SUFFICES ASSUME IInv, [Next]_vars PROVE IInv'
  OBVIOUS
<1>1. CASE Extend
  BY <1>1, ExtendOK
<1>2. CASE \E n \in 1..head : Reorganise(n)
  BY <1>2, ReorganiseOK
<1>3. CASE \/ Boot \/ ReadHead \/ SetInitialHead \/ StartFails \/ LeaveLoop \/ Crash
           \/ \E applied \in BOOLEAN : SetInitialHeadFails(applied)
  BY <1>3, OutsideOK
<1>4. CASE SubscribeNewHead
  BY <1>4, SubscribeOK
<1>5. CASE Receive
  BY <1>5, ReceiveOK
<1>6. CASE BlockByNumber \/ FetchFails
  BY <1>6, FetchOK
<1>7. CASE SetHead \/ \E applied \in BOOLEAN : SetHeadFails(applied)
  BY <1>7, SetOK
<1>8. CASE \E ok \in BOOLEAN : RunHooks(ok)
  BY <1>8, HooksOK
<1>9. CASE UNCHANGED vars
  BY <1>9 DEF vars, chain, subscriber, state, history, IInv, TypeOK, BlockOK, RedisOK,
     CoveredOK, Covered, Canonical, InWork, Pends, InLoop
<1> QED
  BY <1>1, <1>2, <1>3, <1>4, <1>5, <1>6, <1>7, <1>8, <1>9 DEF Next, SubscriberStep

----------------------------------------------------------------------------

\* The inductive invariant holds in every reachable state.
THEOREM Invariant == Spec => []IInv
  BY InitOK, NextOK, PTL DEF Spec

\* Types: heads, headers and pending numbers never exceed the chain, and a block
\* that is set or handed to the hooks was fetched.
THEOREM TypeCorrect == Spec => []TypeOK
<1>1. IInv => TypeOK
  BY DEF IInv
<1> QED
  BY <1>1, Invariant, PTL

\* Fetching by number after the header has been taken misses no block that the
\* chain still has, whatever reorganisations come between.
THEOREM CoveredCorrect == Spec => []AnnouncedCovered
<1>1. IInv => AnnouncedCovered
  BY DEF IInv, CoveredOK, Covered, Pends, Holds, AnnouncedCovered
<1> QED
  BY <1>1, Invariant, PTL

\* The head in Redis is never that of a block that was skipped without an error
\* in the log, with writes to Redis that fail before or after they are applied.
THEOREM PersistedCorrect == Spec => []PersistedWentToHooks
<1>1. IInv => PersistedWentToHooks
  BY DEF IInv, RedisOK, PersistedWentToHooks
<1> QED
  BY <1>1, Invariant, PTL
=============================================================================
