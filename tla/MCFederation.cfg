SPECIFICATION WatchedSpec
CONSTANTS
  a1 = a1
  a2 = a2
  a3 = a3
  a4 = a4
  null = null
  t1 = t1
  t2 = t2
  l1 = l1
  b1 = b1
  b2 = b2
  Address <- MCAddress
  NULL_ADDRESS = null
  MAX_MEMBER_COUNT = 4
  Transaction <- MCTransaction
  Legacy <- MCLegacy
  LegacyId <- MCLegacyId
  LegacyVotes <- SomeLegacyVotes
  LegacyProcessed = {}
  Bridges = {b1, b2}
  Honest = {a1, a2}
  Genuine = {t1}
INVARIANTS MembersConsistent
PROPERTIES MajorityApproved NoForgedTransfer LastVoteAccepts 
