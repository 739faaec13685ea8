SPECIFICATION FairSpec
CONSTANTS
  Confirmations = 1
  FromBlock = 1
  BatchSize = 2
  MaxHeight = 6
  MaxEvents = 2
  MaxFaults = 1
INVARIANTS  LocksComeFirst
PROPERTIES EventuallyHandled
CHECK_DEADLOCK FALSE
