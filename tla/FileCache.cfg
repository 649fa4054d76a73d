CONSTANTS
  w1 = w1  w2 = w2  w3 = w3
  f1 = f1  f2 = f2  f3 = f3
  e1 = e1  e2 = e2  e3 = e3
  NULL = NULL
  Worker = {w1, w2, w3}
  File = {f1, f2, f3}
  Entry = {e1, e2, e3}
  Sizes = {0, 1, 2, 3, 4}
  MaxCache = 3
SPECIFICATION Spec
SYMMETRY Symmetry
INVARIANTS ListMatchesTable SizeExact UseCountExact
PROPERTIES EvictsOldestFirst
