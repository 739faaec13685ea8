--------------------------- MODULE MCAllowTokens ----------------------------
(* One token, two types, two choices of limits, two full days and a half.  *)
EXTENDS AllowTokens, TLC

MCLimit(lo, hi, d) ==
  [min |-> lo, max |-> hi, daily |-> d, mediumAmount |-> lo + 1, largeAmount |-> lo + 2]
\* The last choice is refused: its daily limit is below its max.
MCLimitChoices == {MCLimit(1, 2, 3), MCLimit(2, 4, 4), MCLimit(1, 4, 3)}
=============================================================================
