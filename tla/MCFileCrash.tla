------------------------------ MODULE MCFileCrash ------------------------------
(* Small instances of FileCrash for TLC. *)
EXTENDS FileCrash

\* From the direct into the indirect range, from one block of that range into the
\* next, and at the largest offset.
MCWriteAt == {1, 3, 13}
=============================================================================
