SPECIFICATION Spec
CONSTANTS
  a1 = a1
  a2 = a2
  a3 = a3
  null = null
  pay = pay
  Address = {a1, a2, a3, null}
  NULL_ADDRESS = null
  MAX_OWNER_COUNT = 3
  External = {pay}
  SelfCall <- MCSelfCall
  MAX_TRANSACTIONS = 2
INVARIANTS OwnersConsistent
PROPERTIES DecidedByOwners ExecutedIsFinal
CHECK_DEADLOCK FALSE
