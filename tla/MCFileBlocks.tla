----------------------------- MODULE MCFileBlocks -----------------------------
(* Small instances of FileBlocks for TLC. *)
EXTENDS FileBlocks
=============================================================================
