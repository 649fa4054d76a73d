----------------------------- MODULE MCThreads -----------------------------
EXTENDS Threads, TLC

CONSTANTS t1, t2, t3, l1, c1, q1

\* Addresses are interchangeable: malloc may return any of them.
Symmetry == Permutations(TCB)
============================================================================
