---------------------------- MODULE MCLinkedQueues ----------------------------
(* Small instances of LinkedQueues for TLC. *)
EXTENDS LinkedQueues, TLC

\* Nodes of a kind are interchangeable.
Symmetry == Permutations(ThreadNodes) \cup Permutations(LruNodes)
=============================================================================
