SPECIFICATION Spec
CONSTANTS
  t1 = t1
  t2 = t2
  Tasks = {t1, t2}
  Init1 = t1
  NInodes = 3
  MaxEntries = 4
  NR_OPEN = 2
  NR_FILE = 2
  Paths <- MCPaths
  Ops <- MCOps
INVARIANTS RefsBalanced LinksCountEntries NoneLostNoneDangling
PROPERTY EntriesSurvive
CHECK_DEADLOCK FALSE
