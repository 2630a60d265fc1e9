SPECIFICATION FairSpec
CONSTANTS
  Readers = {r1, r2}
  Writers = {w1, w2}
  NULL = NULL
  PAGE_SIZE = 4
  MaxCount = 4
  MaxBytes = 8
INVARIANTS
  SleepIsJustified
  EofIsTrue
PROPERTIES
  IsChannel
  CloseIsNoticed
CHECK_DEADLOCK FALSE
