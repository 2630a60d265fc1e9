SPECIFICATION Spec
CONSTANTS
  Procs = {1, 2}
  Frames = {1, 2, 3, 4, 5, 6, 7, 8}
  Dirs = {1, 2}
  Addrs = {1, 2}
  DirOf <- OneEach
  FileBacked = {1}
  MayExec = {1, 2}
  Syscalls = TRUE
  ArgPage = 2
  CloseOnExec = TRUE
INVARIANTS
  MapCountsUses
  WritableIsPrivate
  CopyOnWrite
