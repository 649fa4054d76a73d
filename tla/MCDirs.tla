-------------------------------- MODULE MCDirs --------------------------------
(* Small instances of Dirs for TLC: one short name, two of a longer length. *)
EXTENDS Dirs, TLC

CONSTANTS a, b, cc

MCName == {a, b, cc}
MCNameLen == a :> 1 @@ b :> 6 @@ cc :> 6 @@ "." :> 1 @@ ".." :> 2

\* Names of the same length are only compared with each other.
Symmetry == Permutations({b, cc})
=============================================================================
