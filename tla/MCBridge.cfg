SPECIFICATION BridgeSpec
CONSTANTS
  u1 = u1
  u2 = u2
  owner = owner
  bridge = bridge
  nat1 = nat1
  side1 = side1
  rem1 = rem1
  f1 = f1
  none = none
  Account <- MCAccount
  BRIDGE = bridge
  OWNER = owner
  Native <- MCNative
  Side <- MCSide
  Remote <- MCRemote
  Chain <- MCChain
  Scale <- MCScale
  Granularity <- MCGranularity
  Federations = {f1}
  Transfer <- MCTransfer
  LegacyClaimed <- MCLegacyClaimed
  NONE = none
  feePercentageDivider = 20
  InitialBalance = 25
  CrossAmounts = {25}
  FeePercentages = {1}
  RelayerFees = {3}
  MAX_CROSS = 2
INVARIANTS EscrowExact ClaimedOnceAsAccepted 
