SPECIFICATION Spec
CONSTANTS
  Tasks = {1, 2}
  Ops <- MCOps
  Words = 2
  Direct = 1
  Blocks = {11, 12, 13, 14}
  Offsets = {1, 6}
  Counts = {2}
  Limit <- MCLimit
  IOErrors = {"data", "table"}
INVARIANTS ReadIsWritten OneOwner NoLostBlock
