----------------------------- MODULE RpcUnpack -----------------------------
(***************************************************************************)
(* The Unpack call of the gRPC server of the syncer: for each address of a *)
(* request it looks for the row and the source files, answers from them if *)
(* it has both, and otherwise runs the pipeline and answers from what that *)
(* found.  Calls run concurrently, with each other and with all other jobs *)
(* of the pipeline, which store rows and files as ContractStore says.      *)
(*                                                                         *)
(* Nothing keeps two calls from unpacking one contract at the same time.   *)
(***************************************************************************)
EXTENDS Naturals, Sequences

CONSTANTS Calls,      \* calls that the server may be working on
          Contracts,  \* network and address (one row per address, the first)
          Addresses,  \* what clients write for them
          AddressOf,  \* the contract of each address that is a hex address
          Requests    \* lists of addresses that clients ask for

ASSUME AddressOfAssumption == AddressOf \in [DOMAIN AddressOf -> Contracts]
ASSUME AddressesAssumption == DOMAIN AddressOf \subseteq Addresses
ASSUME RequestsAssumption == Requests \subseteq Seq(Addresses)

VARIABLES status,    \* what the row of each contract says (ContractStore)
          files,     \* its source tree on disk (ContractStore)
          pc,        \* where each call is in its loop
          asked,     \* req.GetAddresses()
          next,      \* position of the loop in asked
          known,     \* the network of the request is supported
          answers,   \* resp.Contracts
          panicked   \* the deferred function of the call recovered

store == <<status, files>>
call  == <<pc, asked, next, known, answers, panicked>>
vars  == <<store, call>>

Store == INSTANCE ContractStore WITH KeepCompleted <- FALSE

\* An answer, with CQR_FOUND and the contract: from row and files, or from the
\* descriptor of a job (which may have found no sources).
Answer == [address : Addresses, from : {"store", "job"}, sources : Store!Status]

\* A call returned resp and no error, or nil and an error.
Returned == {"ok", "error"}

TypeOK ==
  /\ status \in [Contracts -> Store!Status] /\ files \in [Contracts -> Store!Status]
  /\ pc \in [Calls -> {"idle", "lookup", "sources", "unpack"} \cup Returned]
  /\ asked \in [Calls -> Seq(Addresses)]
  /\ next \in [Calls -> Nat \ {0}]
  /\ known \in [Calls -> BOOLEAN]
  /\ answers \in [Calls -> Seq(Answer)]
  /\ panicked \in [Calls -> BOOLEAN]

Init ==
  /\ Store!Init
  /\ pc = [c \in Calls |-> "idle"]
  /\ asked = [c \in Calls |-> <<>>]
  /\ next = [c \in Calls |-> 1]
  /\ known = [c \in Calls |-> TRUE]
  /\ answers = [c \in Calls |-> <<>>]
  /\ panicked = [c \in Calls |-> FALSE]

----------------------------------------------------------------------------
(* The call.                                                               *)

\* A client calls Unpack; the answer to an earlier call is forgotten.
Call(c, addresses, isKnown) ==
  /\ pc[c] \in Returned \cup {"idle"}
  /\ pc' = [pc EXCEPT ![c] = "lookup"]
  /\ asked' = [asked EXCEPT ![c] = addresses]
  /\ next' = [next EXCEPT ![c] = 1]
  /\ known' = [known EXCEPT ![c] = isKnown]
  /\ answers' = [answers EXCEPT ![c] = <<>>]
  /\ panicked' = [panicked EXCEPT ![c] = FALSE]
  /\ UNCHANGED store

Goto(c, to) == pc' = [pc EXCEPT ![c] = to] /\ UNCHANGED <<store, asked, next, known, answers, panicked>>

\* return nil, err: what was answered so far is dropped.
Fail(c) ==
  /\ pc' = [pc EXCEPT ![c] = "error"]
  /\ answers' = [answers EXCEPT ![c] = <<>>]
  /\ UNCHANGED <<store, asked, next, known, panicked>>

\* The address that the loop is at.
More(c)    == next[c] <= Len(asked[c])
Address(c) == asked[c][next[c]]

\* Mutant: the loop stops one address early.
FinishEarly(c) ==
  /\ pc[c] = "lookup" /\ next[c] >= Len(asked[c])
  /\ Goto(c, "ok")

\* The loop has been through all addresses.
Finish(c) ==
  /\ pc[c] = "lookup" /\ ~More(c)
  /\ Goto(c, "ok")

\* The address is no hex address, the network is not supported, or the row
\* cannot be read or decoded.
LookupFails(c) ==
  /\ pc[c] = "lookup" /\ More(c)
  /\ Fail(c)

\* GetContractByAddress finds the row, or none.
Lookup(c) ==
  /\ pc[c] = "lookup" /\ More(c) /\ known[c] /\ Address(c) \in DOMAIN AddressOf
  /\ Goto(c, IF status[AddressOf[Address(c)]] = "absent" THEN "unpack" ELSE "sources")

\* Append an answer and continue with the next address.
AppendAnswer(c, from, sources) ==
  /\ pc' = [pc EXCEPT ![c] = "lookup"]
  /\ next' = [next EXCEPT ![c] = @ + 1]
  /\ answers' = [answers EXCEPT ![c] =
       Append(@, [address |-> Address(c), from |-> from, sources |-> sources])]
  /\ UNCHANGED <<store, asked, known, panicked>>

\* Mutant: the loop does not continue after the answer.
LoadSourcesFallsThrough(c) ==
  /\ pc[c] = "sources" /\ files[AddressOf[Address(c)]] # "absent"
  /\ pc' = [pc EXCEPT ![c] = "unpack"]
  /\ answers' = [answers EXCEPT ![c] =
       Append(@, [address |-> Address(c), from |-> "store",
                  sources |-> files[AddressOf[Address(c)]]])]
  /\ UNCHANGED <<store, asked, next, known, panicked>>

\* NewSourcesFromPath reads the files that are there by now, be they torn or
\* just being written.
LoadSources(c) ==
  /\ pc[c] = "sources" /\ files[AddressOf[Address(c)]] # "absent"
  /\ AppendAnswer(c, "store", files[AddressOf[Address(c)]])

\* Mutant: files that are not there yet are waited for.
NoSourcesWaits(c) ==
  /\ pc[c] = "sources"
  /\ Goto(c, "lookup")

\* Mutant: a row without files is answered as it is.
NoSourcesAnswers(c) ==
  /\ pc[c] = "sources"
  /\ AppendAnswer(c, "store", "absent")

\* There are no files, or they cannot be read: the contract is unpacked.
NoSources(c) ==
  /\ pc[c] = "sources"
  /\ Goto(c, "unpack")

\* UnpackFromEntry returns a descriptor, its handlers having failed or not.
UnpackFromEntry(c) ==
  /\ pc[c] = "unpack"
  /\ \E sources \in Store!Status : AppendAnswer(c, "job", sources)

\* UnpackFromEntry returns an error: no contract there, no chain information,
\* or the client has gone.
UnpackFails(c) ==
  /\ pc[c] = "unpack"
  /\ Fail(c)

\* UnpackFromEntry recovers from a panic and returns nil, or panics once more
\* in its recovery; the call uses the nil descriptor, recovers too, and returns
\* the answers so far, without an error.
UnpackPanics(c) ==
  /\ pc[c] = "unpack"
  /\ pc' = [pc EXCEPT ![c] = "ok"]
  /\ panicked' = [panicked EXCEPT ![c] = TRUE]
  /\ UNCHANGED <<store, asked, next, known, answers>>

----------------------------------------------------------------------------
(* The pipeline.                                                           *)

\* Jobs store rows: those of these calls and those of other callers.
Stored(c, s) == Store!Store(c, s) /\ UNCHANGED call

\* They write files, and crashes tear them.
WriteSources == Store!WriteSources /\ UNCHANGED call

----------------------------------------------------------------------------

CallStep(c) ==
  \/ Finish(c) \/ LookupFails(c) \/ Lookup(c)
  \/ LoadSources(c) \/ NoSources(c)
  \/ UnpackFromEntry(c) \/ UnpackFails(c) \/ UnpackPanics(c)

Next ==
  \/ \E c \in Calls : CallStep(c)
  \/ \E c \in Calls, addresses \in Requests, isKnown \in BOOLEAN : Call(c, addresses, isKnown)
  \/ \E k \in Contracts, s \in {"partial", "complete"} : Stored(k, s)
  \/ WriteSources

Spec == Init /\ [][Next]_vars

\* Calls run.  That the jobs they start return is assumed: the context of the
\* call is looked at between two handlers only.
FairSpec == Spec /\ \A c \in Calls : WF_vars(CallStep(c))

----------------------------------------------------------------------------
(* Properties.                                                             *)

\* The answers of a call are those to the addresses asked for, in their order,
\* each once: a client finds the answer to an address at its position.
AnswersInOrder ==
  \A c \in Calls :
    /\ Len(answers[c]) <= Len(asked[c])
    /\ \A i \in 1..Len(answers[c]) : answers[c][i].address = asked[c][i]

\* A call that fails returns no contract at all, and one that does not fail
\* returns all that were asked for, unless the pipeline panicked: then, and only
\* then, there are fewer, which is all that a client can tell it by.
ShortMeansPanic ==
  \A c \in Calls :
    /\ pc[c] = "error" => answers[c] = <<>>
    /\ pc[c] = "ok" => (panicked[c] <=> Len(answers[c]) < Len(asked[c]))

\* An answer that was not unpacked for the call is that of a row that is stored
\* still, and carries sources; and a call with any answer named a supported
\* network.
StoreAnswersStored ==
  \A c \in Calls : \A i \in 1..Len(answers[c]) :
    /\ known[c]
    /\ answers[c][i].from = "store" =>
         /\ status[AddressOf[answers[c][i].address]] # "absent"
         /\ answers[c][i].sources # "absent"

\* Every call returns, whatever other jobs store meanwhile.
CallsReturn ==
  \A c \in Calls : pc[c] \in {"lookup", "sources", "unpack"} ~> pc[c] \in Returned
=============================================================================
