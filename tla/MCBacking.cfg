SPECIFICATION FairSpec
CONSTANTS
  f1 = f1
  f2 = f2
  t1 = t1
  t2 = t2
  s1 = s1
  h1 = h1
  h2 = h2
  g = g
  x1 = x1
  x2 = x2
  x3 = x3
  y1 = y1
  y2 = y2
  y3 = y3
  u1 = u1
  u2 = u2
  Federators = {f1, f2}
  Threshold = 2
  Outward = {x1, x2, x3}
  Event <- MCEvent
  Index <- MCIndex
  Inward = {y1, y2, y3}
  Uid <- MCUid
  Outputs <- MCOutputs
  Native = {t1, t2}
  Decimals <- MCDecimals
  Pseudo = {s1}
  Uids = {h1, h2, g}
  Reps = {h1, h2}
  FirstMap <- MCFirstMap
  Remaps <- MCRemaps
  Circulating <- MCCirculating
  Base = 2
INVARIANTS Backed RefusalExplained
PROPERTIES  DepositClaimed
CHECK_DEADLOCK FALSE
