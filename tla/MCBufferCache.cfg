SPECIFICATION Spec
CONSTANTS
  Tasks = {t1, t2}
  NULL = NULL
  b1 = b1
  b2 = b2
  t1 = t1
  Buffers = {b1, b2}
  Order <- Order2
  Keys <- ThreeBlocks
  Raw = {2}
  Ops <- AheadAndWrite
  Errors = {0}
  MaxVersion = 1
  NR_REQUEST = 2
INVARIANTS
  NoAlias
  NoLostWrite
  BreadReturnsLatest
  CountIsUsers
  LockHasOwner
  BufferWaiterRemembered
PROPERTIES
  BusyKeepsBlock
