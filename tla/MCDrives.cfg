SPECIFICATION DrivesSpec
CONSTANTS
  Blocks = {1, 2, 3, 4}
  NR_REQUEST = 3
  MAX_ERRORS = 3
  Sect = 3
  Heads = 2
  start_sect = 4
  nr_sects = 8
  FD_MAX_ERRORS = 2
  FdSect = 3
  FdHead = 2
  FdBlocks = {1, 3, 4}
  MaxStuck = 1
INVARIANTS
  OneSweep
  
  RightSectors
  RightTrack
PROPERTIES
  EveryRequestServed
  DrivesQueue
