--------------------------- MODULE MCArchiveSync ---------------------------
(* Small instances of ArchiveSync for TLC. *)
EXTENDS ArchiveSync

\* Two creations in one block, and one in the block after the next.
ThreeCreations == {"a", "b", "c"}

CreationBlocks == [k \in ThreeCreations |-> IF k = "c" THEN 3 ELSE 1]
=============================================================================
