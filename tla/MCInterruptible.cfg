SPECIFICATION Spec
CONSTANTS
  Tasks = {t1, t2, t3}
  NULL = NULL
  MaxChars = 2
SYMMETRY Symmetry
INVARIANTS
  HeadIsInside
CHECK_DEADLOCK FALSE
