---------------------------- MODULE MCFileCache ----------------------------
EXTENDS FileCache, TLC

CONSTANTS w1, w2, w3, f1, f2, f3, e1, e2, e3

\* Workers run the same code, file names and addresses are only compared.
Symmetry == Permutations(Worker) \cup Permutations(File) \cup Permutations(Entry)
============================================================================
