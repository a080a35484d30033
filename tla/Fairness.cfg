CONSTANTS
  Operations = {o}
  Strata = {s, t, x}
  Work = {w, v}
  Runs = {r, q}
  Limit = 2
  MaxCount = 6
CHECK_DEADLOCK FALSE
SYMMETRY Symmetry
VIEW View
SPECIFICATION MCSpec
INVARIANTS
  ServedInTurn
PROPERTY StrataFair
