SPECIFICATION Spec
CONSTANTS
  t1 = t1
  t2 = t2
  Tasks = {t1, t2}
  NULL = NULL
  Entries = {1, 2, 3}
  Nums = {2, 3}
  MountNum = 2
  Private <- MCPrivate
  Ops <- MCOps
INVARIANTS OneInodePerNumber CountIsUsers NoLostInode
CHECK_DEADLOCK FALSE
