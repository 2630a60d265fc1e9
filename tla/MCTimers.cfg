SPECIFICATION FairSpec
CONSTANTS
  Fns = {f1, f2, f3}
  MaxDelay = 3
  MaxAdds = 4
INVARIANTS
  NeverEarlyLittleLate
PROPERTIES
  EveryTimerFires
CHECK_DEADLOCK FALSE
