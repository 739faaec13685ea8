---------------------------- MODULE AllowTokens -----------------------------
(***************************************************************************)
(* The limits on what may cross (bridge/contracts/AllowTokens): a token    *)
(* that is allowed has a type, a type has limits for one crossing and for  *)
(* a day, and a counter per token remembers what crossed since the day in  *)
(* course began.  Limits, types and permissions change while a day is in   *)
(* course.  The amounts are in 18 decimals, before fees.                   *)
(***************************************************************************)
EXTENDS Naturals, Sequences, FiniteSetsExt

CONSTANTS
  Token,
  MAX_TYPES,     \* 250 in the code
  DAY,           \* 24 hours
  START,         \* a time of deployment, in the units of DAY
  LimitChoices,  \* records min, max, daily, mediumAmount, largeAmount the owner gives (bound)
  Amounts,       \* amounts that users cross (bound)
  END,           \* last moment considered (bound)
  MAX_TRANSFERS  \* crossings considered (bound)

ASSUME TimeAssumption == DAY \in Nat \ {0} /\ START \in Nat /\ START > DAY /\ END \in Nat /\ END >= START

ASSUME AmountAssumption ==
  /\ MAX_TYPES \in Nat \ {0} /\ Amounts \subseteq Nat
  /\ LimitChoices # {} /\ IsFiniteSet(LimitChoices)
  /\ LimitChoices \subseteq [min : Nat, max : Nat, daily : Nat, mediumAmount : Nat, largeAmount : Nat]

VARIABLES
  now,
  info,         \* token => allowed, typeId, spentToday, lastDay
  typeLimits,   \* the limits of type i are typeLimits[i + 1]
  transfers     \* what crossed: token, at, amount

allowTokensVars == <<now, info, typeLimits, transfers>>

AllowTokensTypeOK ==
  /\ now \in START..END
  /\ info \in [Token -> [allowed : BOOLEAN, typeId : 0..(MAX_TYPES - 1),
                         spentToday : Nat, lastDay : 0..END]]
  /\ typeLimits \in Seq(LimitChoices) /\ Len(typeLimits) <= MAX_TYPES
  /\ \A tok \in Token : info[tok].allowed => info[tok].typeId < Len(typeLimits)
  /\ transfers \in Seq([token : Token, at : START..END, amount : Amounts])

AllowTokensInit ==
  /\ now = START
  /\ info = [tok \in Token |-> [allowed |-> FALSE, typeId |-> 0, spentToday |-> 0, lastDay |-> 0]]
  /\ typeLimits = <<>>
  /\ transfers = <<>>

-----------------------------------------------------------------------------
Limits(tok) == typeLimits[info[tok].typeId + 1]

DayIsOver(tok) == now > info[tok].lastDay + DAY

Spent(tok) == IF DayIsOver(tok) THEN 0 ELSE info[tok].spentToday

\* Fault: what crossed before is not subtracted.
MaxOfOne(tok) == Limits(tok).max

CalcMaxWithdraw(tok) ==
  LET left == IF Limits(tok).daily <= Spent(tok) THEN 0 ELSE Limits(tok).daily - Spent(tok)
  IN Min({left, Limits(tok).max})

\* Called by the bridge for every crossing.
UpdateTokenTransfer(tok, amount) ==
  /\ info[tok].allowed
  /\ amount >= Limits(tok).min
  /\ amount <= CalcMaxWithdraw(tok)
  /\ Len(transfers) < MAX_TRANSFERS
  /\ info' = [info EXCEPT ![tok].spentToday = Spent(tok) + amount,
                          ![tok].lastDay = IF DayIsOver(tok) THEN now ELSE @]
  /\ transfers' = Append(transfers, [token |-> tok, at |-> now, amount |-> amount])
  /\ UNCHANGED <<now, typeLimits>>

\* Fault: the token's record starts anew.
SetTokenAnew(tok, type) ==
  /\ type < Len(typeLimits)
  /\ info' = [info EXCEPT ![tok] = [@ EXCEPT !.allowed = TRUE, !.typeId = type, !.spentToday = 0]]
  /\ UNCHANGED <<now, typeLimits, transfers>>

\* Also one step of setMultipleTokens, and of Bridge.createSideToken.
SetToken(tok, type) ==
  /\ type < Len(typeLimits)
  /\ info' = [info EXCEPT ![tok].allowed = TRUE, ![tok].typeId = type]
  /\ UNCHANGED <<now, typeLimits, transfers>>

RemoveAllowedToken(tok) ==
  /\ info[tok].allowed
  /\ info' = [info EXCEPT ![tok].allowed = FALSE]
  /\ UNCHANGED <<now, typeLimits, transfers>>

ValidLimits(l) ==
  /\ l.max >= l.min /\ l.daily >= l.max
  /\ l.mediumAmount > l.min /\ l.largeAmount > l.mediumAmount

SetTypeLimits(type, l) ==
  /\ type < Len(typeLimits)
  /\ ValidLimits(l)
  /\ typeLimits' = [typeLimits EXCEPT ![type + 1] = l]
  /\ UNCHANGED <<now, info, transfers>>

AddTokenType(l) ==
  /\ Len(typeLimits) + 1 <= MAX_TYPES
  /\ ValidLimits(l)
  /\ typeLimits' = Append(typeLimits, l)
  /\ UNCHANGED <<now, info, transfers>>

Tick ==
  /\ now < END
  /\ now' = now + 1
  /\ UNCHANGED <<info, typeLimits, transfers>>

AllowTokensNext ==
  \/ \E tok \in Token, n \in Amounts : UpdateTokenTransfer(tok, n)
  \/ \E tok \in Token, type \in 0..(MAX_TYPES - 1) : SetToken(tok, type)
  \/ \E tok \in Token : RemoveAllowedToken(tok)
  \/ \E type \in 0..(MAX_TYPES - 1), l \in LimitChoices : SetTypeLimits(type, l)
  \/ \E l \in LimitChoices : AddTokenType(l)
  \/ Tick

AllowTokensSpec == AllowTokensInit /\ [][AllowTokensNext]_allowTokensVars

-----------------------------------------------------------------------------
(* Properties.                                                             *)

\* What crossed of tok from one moment to another.
Crossed(log, tok, from, to) ==
  LET sum[i \in 0..Len(log)] ==
        IF i = 0 THEN 0
        ELSE sum[i - 1] +
             IF log[i].token = tok /\ log[i].at \in from..to THEN log[i].amount ELSE 0
  IN sum[Len(log)]

\* The counter is what crossed since the day in course began, although the
\* token may have been removed, allowed again and given other types since.
SpentIsWindowSum ==
  \A tok \in Token : info[tok].spentToday = Crossed(transfers, tok, info[tok].lastDay, now)

\* Days are not sliding windows: any 24 hours may see two limits' worth, one
\* at the end of a day and one at the beginning of the next, but never more.
BiggestDaily == Max({l.daily : l \in LimitChoices})

AnyDayWithinTwoLimits ==
  \A tok \in Token, from \in START..END :
    Crossed(transfers, tok, from, from + DAY) <= 2 * BiggestDaily
=============================================================================
