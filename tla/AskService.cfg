SPECIFICATION Spec
SYMMETRY WordSymmetry
CONSTANTS
  w1 = w1  w2 = w2  w3 = w3
  failed = failed  noFile = noFile  garbage = garbage
  Words = {w1, w2, w3}
  Found = {w1, w2}
  Nothing = Nothing
  MaxSearches = 3
  MaxErrors = 1
INVARIANTS
  DeadServiceIsDestroyed
  LoneRequestIsKept
  ShownListIsOfSearch
\* the bound on searches lets the model stop, and so does a crash
CHECK_DEADLOCK FALSE
