SPECIFICATION AllowTokensSpec
CONSTANTS
  Token = {"token"}
  MAX_TYPES = 2
  DAY = 2
  START = 3
  LimitChoices <- MCLimitChoices
  Amounts = {1, 2, 4}
  END = 9
  MAX_TRANSFERS = 5
INVARIANTS SpentIsWindowSum AnyDayWithinTwoLimits
CHECK_DEADLOCK FALSE
