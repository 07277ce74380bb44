--------------------------- MODULE ContractStore ---------------------------
(***************************************************************************)
(* What the unpacking pipeline promises about the two places it stores a  *)
(* contract in: the row of the contracts table and the source files on    *)
(* disk.  A row, once stored, never disappears; source files are only     *)
(* ever written for a contract that has a row; and, when KeepCompleted    *)
(* holds, a completed row (Processed and not Partial) is never touched    *)
(* again.  Unpacker.tla is shown to implement this specification.         *)
(***************************************************************************)
CONSTANTS Contracts,      \* keys (network_id, block_number, address)
          KeepCompleted   \* is a completed row final?

VARIABLES status,   \* status[c]: what the row of c says
          files     \* files[c]: the source tree of c on disk

vars == <<status, files>>

\* How much there is of a row or of a source tree.
Status == {"absent", "partial", "complete"}

Init ==
  /\ status = [c \in Contracts |-> "absent"]
  /\ files  = [c \in Contracts |-> "absent"]

\* A row is inserted, or overwritten by a later job.
Store(c, s) ==
  /\ KeepCompleted => status[c] # "complete"
  /\ status' = [status EXCEPT ![c] = s]
  /\ UNCHANGED files

\* Source trees are written, completely or not, of contracts with a row.  A
\* crash may leave the trees of several contracts half written.
WriteSources ==
  /\ files' \in [Contracts -> Status]
  /\ \A c \in Contracts : files'[c] # files[c] =>
       status[c] # "absent" /\ files'[c] # "absent"
  /\ UNCHANGED status

Next ==
  \/ \E c \in Contracts, s \in {"partial", "complete"} : Store(c, s)
  \/ WriteSources

Spec == Init /\ [][Next]_vars
=============================================================================
