SPECIFICATION Spec
CONSTANTS
  a1 = a1
  a2 = a2
  a3 = a3
  null = null
  l1 = l1
  u1 = u1
  nat1 = nat1
  side1 = side1
  owner = owner
  b1 = b1
  b2 = b2
  f1 = f1
  f2 = f2
  none = none
  Address = {a1, a2, a3, null}
  NULL_ADDRESS = null
  MAX_MEMBER_COUNT = 3
  Legacy = {l1}
  LegacyId <- MCLegacyId
  LegacyVotes <- MCLegacyVotes
  LegacyProcessed = {}
  Honest = {a1, a2}
  Genuine <- MCGenuine
  Account = {u1}
  OWNER = owner
  Native = {nat1}
  Side = {side1}
  Remote = {}
  Chain <- MCChain
  Scale <- MCScale
  Granularity <- MCGranularity
  Transfer <- MCTransfer
  Transaction <- MCTransfer
  LegacyClaimed = {}
  NONE = none
  feePercentageDivider = 20
  InitialBalance = 10
  CrossAmounts = {10}
  FeePercentages = {0}
  RelayerFees = {}
  MAX_CROSS = 1
  BRIDGE = b1
  FEDERATION = f1
  Bridges = {b1, b2}
  Federations = {f1, f2}
SYMMETRY MCSymmetry
PROPERTIES RecordsAgree AcceptedByMajority KeepsPromises
