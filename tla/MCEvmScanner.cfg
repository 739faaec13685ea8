SPECIFICATION ScannerFairSpec
CONSTANTS
  Small = 2
  Medium = 3
  Large = 4
  FromBlock = 1
  PageSize = 2
  ReorgDepth = 2
  StartHeight = 4
  MaxHeight = 9
  MaxEvents = 2
  MaxFaults = 2
  MayTear = TRUE
INVARIANTS NothingSkipped SentStaysOnChain
  
