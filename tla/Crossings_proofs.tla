--------------------------- MODULE Crossings_proofs --------------------------
(***************************************************************************)
(* What crosses.  For any tokens, decimals, amounts and maps: everything   *)
(* that circulates is backed, and validateTx stops nothing but what it     *)
(* should.  For any confirmations, page size and heights, and for          *)
(* reorganisations no deeper than the small confirmations: the scan skips  *)
(* no crossing and hands over none that leaves the chain.                  *)
(***************************************************************************)
EXTENDS Backing, EvmScanner, Arrays_proofs

(* Backing *)

Calls == FirstMap \cup remaps
Mapped(u) == \E m \in Calls : m.uid = u

\* The maps say what some call of addHathorToken said.
MapsFollow ==
  /\ \A t \in Native \cup Pseudo : toHathor[t] # None => \E m \in Calls : m.token = t /\ m.uid = toHathor[t]
  /\ \A u \in Uids : Mapped(u) => \E m \in Calls : m.uid = u /\ toEvm[u] = [chain |-> m.chain, token |-> m.token]
  /\ \A u \in Uids : ~Mapped(u) => toEvm[u] = Unmapped
  /\ toEvm[None] = Unmapped

\* Where the coins of the wallet come from; no two of them are the same.
CoinsKept ==
  /\ IsFiniteSet(wallet)
  /\ \A k \in wallet : k.uid \in Uids /\ k.value \in Nat \ {0}
  /\ \A k \in wallet : IF k.n = 0 THEN k.of \in settled ELSE k.of \in deposited

\* What a transaction of each type is, for as long as it is proposed.
Spends(p, u, q) ==
  /\ q \in Nat \ {0} /\ IsFiniteSet(p.inputs) /\ Value(p.inputs) >= q
  /\ \A k \in p.inputs : k.uid = u /\ k.value \in Nat
MintOf(p, c) ==
  LET q == ToHathor(Event[c].amount, Decimals[Event[c].token]) IN
  /\ p.id = [of |-> Event[c], type |-> "mint"] /\ p.inputs = {} /\ p.melts = {}
  /\ Event[c].token \in Native /\ q # 0
  /\ \E u \in Uids :
       /\ p.outputs = Pay(Event[c].to, u, q)
       /\ Clash \/ [chain |-> Evm, token |-> Event[c].token, uid |-> u] \in Calls
TransferOf(p, c) ==
  LET q == ToHathor(Event[c].amount, 18) IN
  /\ p.id = [of |-> Event[c], type |-> "transfer"] /\ p.melts = {}
  /\ Event[c].token \in Pseudo
  /\ \E u \in Uids :
       /\ Spends(p, u, q) /\ p.outputs = Pay(Event[c].to, u, q) \cup Change(p.inputs, u, q)
       /\ Clash \/ [chain |-> Hathor, token |-> Event[c].token, uid |-> u] \in Calls
MeltOf(p, c) ==
  /\ p.id = InwardId(c) /\ c \in deposited
  /\ Spends(p, Uid[c], Total(c)) /\ p.outputs = Change(p.inputs, Uid[c], Total(c)) /\ p.melts = {Uid[c]}
  /\ Clash \/ \E m \in Calls : m.uid = Uid[c] /\ m.chain = Evm

ProposalsMade ==
  \A p \in proposals :
    \/ \E c \in mined :
         /\ MintOf(p, c) \/ TransferOf(p, c)
         /\ Remapped(Event[c]) \/ Fits(p, Event[c], Target(Event[c]))
    \/ \E c \in Inward : MeltOf(p, c)

AmountsKept == \A c \in Inward : accepted[c] = Unmapped \/ accepted[c].amount = ToEvm(Total(c))

\* What holds whatever the owners map.
Made == TypeOK /\ AmountsKept /\ MapsFollow /\ CoinsKept /\ ProposalsMade

\* What the bridge accepts was deposited, and melted if it must be.
AcceptedSound ==
  \A c \in Inward : accepted[c] # Unmapped =>
    LET t == toEvm[Uid[c]].token IN
    /\ c \in deposited /\ t \in Native \cup Pseudo
    /\ accepted[c] = [token |-> t, amount |-> ToEvm(Total(c))]
    /\ t \in Native => InwardId(c) \in settled

\* What there is of each token, and of each crossing.
KeptBy == [u \in Uids |-> Value(Of(wallet, u))]
HeldBy == [u \in Uids |-> held[u] + Value(Of(wallet, u))]
Totals == [c \in Inward |-> Total(c)]
EvmTotals == [c \in Inward |-> ToEvm(Total(c))]
Amounts == [c \in Outward |-> Event[c].amount]

\* What was not mapped yet is as users brought it.
WaitingFor(U) == {x \in deposited \ claimed : Uid[x] \in U}
StrangersKept ==
  \A u \in Uids : ~Mapped(u) =>
    /\ HeldBy[u] = Circulating[u]
    /\ SumFunctionOnSet(EvmTotals, WaitingFor({u})) <= ToEvm(KeptBy[u])

\* With the crossings not paid yet, and before any division.
MeltedFor(U) == {x \in Inward \ claimed : Uid[x] \in U /\ Settled(x)}
UnpaidOf(t) == {x \in mined : Event[x].token = t /\ ~Settled(x)}
Owed(U) == SumFunctionOnSet(HeldBy, U) + SumFunctionOnSet(Totals, MeltedFor(U))
EscrowSuffices ==
  \A t \in Native :
    Owed(Standing(t, Evm)) * Power[16] + SumFunctionOnSet(Amounts, UnpaidOf(t)) * Power[18 - Decimals[t]]
      <= escrow[t] * Power[18 - Decimals[t]]
WalletSuffices ==
  \A t \in Pseudo :
    LET U == Standing(t, Hathor) IN
    minted[t] + SumFunctionOnSet(EvmTotals, WaitingFor(U)) + SumFunctionOnSet(Amounts, UnpaidOf(t))
      <= ToEvm(SumFunctionOnSet(KeptBy, U))

Covered == AcceptedSound /\ StrangersKept /\ EscrowSuffices /\ WalletSuffices
IInv == Made /\ (Clash \/ Covered)

-----------------------------------------------------------------------------
(* Digits.                                                                 *)

IsPower(f, n) == f = [i \in 0..n |-> IF i = 0 THEN 1 ELSE Base * f[i - 1]]

\* The recursive function of the powers is well defined.
LEMMA PowersExist == \E f : IsPower(f, 18)
<1> DEFINE S == {n \in Nat : \E f : IsPower(f, n)}
<1>1. 0 \in S
  <2> DEFINE f == [i \in 0..0 |-> 1]
  <2>1. IsPower(f, 0) BY DEF IsPower
  <2> QED BY <2>1
<1>2. ASSUME NEW n \in Nat, n \in S PROVE n + 1 \in S
  <2>1. PICK f : IsPower(f, n) BY <1>2
  <2>2. \A i \in 0..n : f[i] = IF i = 0 THEN 1 ELSE Base * f[i - 1] BY <2>1 DEF IsPower
  <2> DEFINE g == [i \in 0..(n + 1) |-> IF i = n + 1 THEN Base * f[n] ELSE f[i]]
  <2>3. ASSUME NEW i \in 0..(n + 1) PROVE g[i] = IF i = 0 THEN 1 ELSE Base * g[i - 1]
    <3>1. CASE i = 0
      <4>1. f[0] = 1 BY <2>2
      <4> QED BY <3>1, <4>1
    <3>2. CASE i # 0 /\ i # n + 1
      <4>1. i \in 0..n /\ i - 1 \in 0..(n + 1) /\ i - 1 # n + 1 BY <3>2
      <4>2. g[i] = f[i] /\ g[i - 1] = f[i - 1] BY <3>2, <4>1
      <4> QED BY <2>2, <3>2, <4>1, <4>2
    <3>3. CASE i = n + 1
      <4>1. i - 1 \in 0..(n + 1) /\ i - 1 # n + 1 /\ i - 1 = n BY <3>3
      <4>2. g[i] = Base * f[n] /\ g[i - 1] = f[n] BY <3>3, <4>1
      <4> QED BY <3>3, <4>2
    <3> QED BY <3>1, <3>2, <3>3
  <2>4. g = [i \in 0..(n + 1) |-> g[i]] OBVIOUS
  <2> HIDE DEF g
  <2>5. IsPower(g, n + 1) BY <2>3, <2>4 DEF IsPower
  <2> QED BY <2>5
<1> HIDE DEF S
<1>3. 18 \in S BY <1>1, <1>2, SetInduction
<1> QED BY <1>3 DEF S

\* What the function of the powers is.
LEMMA PowerIs ==
  /\ Power[0] = 1
  /\ \A n \in 0..17 : Power[n + 1] = Base * Power[n]
<1>1. IsPower(Power, 18)
  <2>1. Power = CHOOSE f : IsPower(f, 18) BY DEF Power, IsPower
  <2> QED BY <2>1, PowersExist
<1>2. \A i \in 0..18 : Power[i] = IF i = 0 THEN 1 ELSE Base * Power[i - 1] BY <1>1 DEF IsPower
<1>3. ASSUME NEW n \in 0..17 PROVE Power[n + 1] = Base * Power[n]
  <2>1. n + 1 \in 0..18 /\ n + 1 # 0 /\ (n + 1) - 1 = n OBVIOUS
  <2> QED BY <1>2, <2>1
<1> QED BY <1>2, <1>3

\* Powers are positive.
LEMMA PowerPositive == \A n \in 0..18 : Power[n] \in Nat \ {0}
<1> DEFINE S == {n \in Nat : n \in 0..18 => Power[n] \in Nat \ {0}}
<1>1. 0 \in S BY PowerIs
<1>2. ASSUME NEW n \in Nat, n \in S PROVE n + 1 \in S
  <2> SUFFICES ASSUME n + 1 \in 0..18 PROVE Power[n + 1] \in Nat \ {0}
    OBVIOUS
  <2>1. n \in 0..17 /\ Power[n] \in Nat \ {0} BY <1>2
  <2>2. Power[n + 1] = Base * Power[n] BY <2>1, PowerIs
  <2>3. \A a, b \in Nat \ {0} : a * b \in Nat \ {0} OBVIOUS
  <2> QED BY <2>1, <2>2, <2>3, TokensAssumption
<1> HIDE DEF S
<1>3. \A n \in Nat : n \in S BY <1>1, <1>2, SetInduction
<1> QED BY <1>3 DEF S

\* Exponents add up.
LEMMA PowerAdds ==
  ASSUME NEW m \in 0..18, NEW n \in 0..18, m + n \in 0..18
  PROVE  Power[m + n] = Power[m] * Power[n]
<1> DEFINE S == {k \in Nat : m + k \in 0..18 => Power[m + k] = Power[m] * Power[k]}
<1>1. 0 \in S
  <2>1. m + 0 = m /\ Power[m] \in Nat BY PowerPositive
  <2> QED BY <2>1, PowerIs
<1>2. ASSUME NEW k \in Nat, k \in S PROVE k + 1 \in S
  <2> SUFFICES ASSUME m + (k + 1) \in 0..18 PROVE Power[m + (k + 1)] = Power[m] * Power[k + 1]
    OBVIOUS
  <2>1. m + k \in 0..17 /\ k \in 0..17 /\ m + (k + 1) = (m + k) + 1 OBVIOUS
  <2>2. Power[m + k] = Power[m] * Power[k] BY <1>2, <2>1
  <2>3. Power[(m + k) + 1] = Base * Power[m + k] /\ Power[k + 1] = Base * Power[k] BY <2>1, PowerIs
  <2>4. Power[m] \in Nat /\ Power[k] \in Nat /\ Base \in Nat BY <2>1, PowerPositive, TokensAssumption
  <2>5. \A a, b, c \in Nat : a * (b * c) = b * (a * c) OBVIOUS
  <2> QED BY <2>1, <2>2, <2>3, <2>4, <2>5
<1> HIDE DEF S
<1>3. n \in S BY <1>1, <1>2, SetInduction
<1> QED BY <1>3 DEF S

\* A quotient is a natural number, and no more than it should be.
LEMMA Quotient ==
  ASSUME NEW n \in Nat, NEW d \in Nat \ {0}
  PROVE  n \div d \in Nat /\ (n \div d) * d <= n
<1>1. n \div d \in Nat /\ d * (n \div d) <= n OBVIOUS
<1>2. \A a, b \in Nat : a * b = b * a OBVIOUS
<1> QED BY <1>1, <1>2

\* A quotient is no more than any bound of what it divides.
LEMMA QuotientBelow ==
  ASSUME NEW n \in Nat, NEW d \in Nat \ {0}, NEW e \in Nat, n <= e * d
  PROVE  n \div d <= e
<1> DEFINE q == n \div d
<1>1. q \in Nat /\ q * d <= n BY Quotient
<1> HIDE DEF q
<1>2. q * d <= e * d
  <2>1. q * d \in Nat /\ e * d \in Nat BY <1>1
  <2> QED BY <1>1, <2>1
<1>3. \A a, b \in Nat, c \in Nat \ {0} : a * c <= b * c => a <= b OBVIOUS
<1>4. q <= e BY <1>1, <1>2, <1>3
<1> QED BY <1>4 DEF q

\* Cutting off digits loses something, never adds.
LEMMA ToHathorCuts ==
  ASSUME NEW q \in Nat, NEW dec \in 0..18
  PROVE  /\ ToHathor(q, dec) \in Nat
         /\ ToHathor(q, dec) * Power[16] <= q * Power[18 - dec]
<1> DEFINE k == Power[18 - dec]
<1>1. k \in Nat \ {0} /\ Power[16] \in Nat \ {0}
  BY PowerPositive
<1>2. CASE dec > 2
  <2> DEFINE d == Power[dec - 2]
             w == q \div d
  <2>1. d \in Nat \ {0} BY <1>2, PowerPositive
  <2>2. w \in Nat /\ w * d <= q BY <2>1, Quotient
  <2>3. Power[16] = d * k
    <3>1. dec - 2 \in 0..18 /\ 18 - dec \in 0..18 /\ (dec - 2) + (18 - dec) = 16 BY <1>2
    <3>2. (dec - 2) + (18 - dec) \in 0..18 BY <3>1
    <3>3. Power[(dec - 2) + (18 - dec)] = d * k BY <3>1, <3>2, PowerAdds
    <3> QED BY <3>1, <3>3
  <2>4. ToHathor(q, dec) = w BY <1>2 DEF ToHathor
  <2> HIDE DEF d, k, w
  <2>5. \A a, b, c \in Nat : a * (b * c) = (a * b) * c OBVIOUS
  <2>6. \A a, b, c \in Nat : a <= b => a * c <= b * c OBVIOUS
  <2>7. (w * d) * k <= q * k
    <3>1. w * d \in Nat BY <2>1, <2>2
    <3> QED BY <1>1, <2>2, <2>6, <3>1
  <2>8. w * Power[16] = (w * d) * k BY <1>1, <2>1, <2>2, <2>3, <2>5
  <2> QED BY <2>2, <2>4, <2>7, <2>8 DEF k
<1>3. CASE ~ dec > 2
  <2>1. 16 + (2 - dec) = 18 - dec /\ 2 - dec \in 0..18 /\ 16 + (2 - dec) \in 0..18 BY <1>3
  <2> DEFINE e == Power[2 - dec]
  <2>2. k = Power[16] * e /\ e \in Nat \ {0}
    <3>1. Power[16 + (2 - dec)] = Power[16] * e BY <2>1, PowerAdds
    <3> QED BY <2>1, <3>1, PowerPositive
  <2>3. ToHathor(q, dec) = q BY <1>3 DEF ToHathor
  <2> HIDE DEF e, k
  <2>4. Power[16] <= k
    <3>1. \A a, b \in Nat \ {0} : a <= a * b OBVIOUS
    <3> QED BY <1>1, <2>2, <3>1
  <2>5. \A a, b, c \in Nat : a <= b => c * a <= c * b OBVIOUS
  <2> QED BY <1>1, <2>3, <2>4, <2>5 DEF k
<1> QED BY <1>2, <1>3

\* The claim's division cuts off, and never exceeds what suffices for the
\* amount.
LEMMA FromEvmCuts ==
  ASSUME NEW x \in Nat, NEW dec \in 0..18
  PROVE  /\ FromEvm(x, dec) \in Nat
         /\ FromEvm(x, dec) * Power[18 - dec] <= x
         /\ \A e \in Nat : x <= e * Power[18 - dec] => FromEvm(x, dec) <= e
<1>1. Power[18 - dec] \in Nat \ {0} BY PowerPositive
<1> QED BY <1>1, Quotient, QuotientBelow DEF FromEvm

\* The vote's multiplication adds up and keeps the order.
LEMMA ToEvmAdds ==
  /\ \A a \in Nat : ToEvm(a) \in Nat
  /\ \A a \in Int : ToEvm(a) \in Int
  /\ \A a, b \in Int : ToEvm(a + b) = ToEvm(a) + ToEvm(b)
  /\ \A a, b \in Int : a <= b => ToEvm(a) <= ToEvm(b)
  /\ ToEvm(0) = 0
<1>1. Power[16] \in Nat \ {0} BY PowerPositive
<1>2. \A a, b \in Int, c \in Nat : (a + b) * c = a * c + b * c /\ a * c \in Int OBVIOUS
<1>3. \A a, b \in Int, c \in Nat : a <= b => a * c <= b * c OBVIOUS
<1>4. \A a, c \in Nat : a * c \in Nat OBVIOUS
<1> QED BY <1>1, <1>2, <1>3, <1>4 DEF ToEvm

-----------------------------------------------------------------------------
(* What coins and outputs add up to.                                       *)

\* The sum of a function over its domain, taken as one over a set.
LEMMA SumIs ==
  ASSUME NEW f, NEW S, IsFiniteSet(S), \A x \in S : f[x] \in Int
  PROVE  SumFunction([x \in S |-> f[x]]) = SumFunctionOnSet(f, S)
<1> DEFINE g == [x \in S |-> f[x]]
<1>1. DOMAIN g = S /\ \A x \in S : g[x] = f[x] OBVIOUS
<1> HIDE DEF g
<1>2. SumFunctionOnSet(g, S) = SumFunctionOnSet(f, S) BY <1>1, SumAgree
<1>3. SumFunction(g) = SumFunctionOnSet(g, S) BY <1>1 DEF SumFunction
<1> QED BY <1>2, <1>3 DEF g

\* The value of a part of some coins, as a sum over the whole.
LEMMA ValueIs ==
  ASSUME NEW S, NEW R, R \subseteq S, IsFiniteSet(R), \A x \in S : x.value \in Int
  PROVE  Value(R) = SumFunctionOnSet([x \in S |-> x.value], R)
<1> DEFINE f == [x \in S |-> x.value]
<1>1. [x \in R |-> x.value] = [x \in R |-> f[x]] OBVIOUS
<1>2. \A x \in R : f[x] \in Int OBVIOUS
<1> HIDE DEF f
<1>3. SumFunction([x \in R |-> f[x]]) = SumFunctionOnSet(f, R) BY <1>2, SumIs
<1>4. Value(R) = SumFunction([x \in R |-> f[x]]) BY <1>1 DEF Value
<1> QED BY <1>3, <1>4 DEF f

\* No coins are worth nothing.
LEMMA ValueEmpty == Value({}) = 0
<1>1. Value({}) = SumFunctionOnSet([x \in {} |-> x.value], {}) BY FS_EmptySet, ValueIs
<1> QED BY <1>1, SumEmpty

\* One coin is worth its value.
LEMMA ValueSingle ==
  ASSUME NEW x, x.value \in Int
  PROVE  Value({x}) = x.value
<1> DEFINE f == [y \in {x} |-> y.value]
<1>1. Value({x}) = SumFunctionOnSet(f, {x}) BY FS_Singleton, ValueIs
<1>2. f[x] = x.value OBVIOUS
<1> HIDE DEF f
<1>3. SumFunctionOnSet(f, {x}) = f[x] BY <1>2, SumSingle
<1> QED BY <1>1, <1>2, <1>3

\* Disjoint coins are worth what each part is.
LEMMA ValueUnion ==
  ASSUME NEW R, NEW S, IsFiniteSet(R), IsFiniteSet(S), R \cap S = {}, \A x \in R \cup S : x.value \in Int
  PROVE  Value(R \cup S) = Value(R) + Value(S)
<1> DEFINE f == [x \in R \cup S |-> x.value]
<1>1. IsFiniteSet(R \cup S) BY FS_Union
<1>2. /\ Value(R) = SumFunctionOnSet(f, R) /\ Value(S) = SumFunctionOnSet(f, S)
      /\ Value(R \cup S) = SumFunctionOnSet(f, R \cup S)
  BY <1>1, ValueIs
<1>3. \A x \in R \cup S : f[x] \in Int OBVIOUS
<1> HIDE DEF f
<1>4. SumFunctionOnSet(f, R \cup S) = SumFunctionOnSet(f, R) + SumFunctionOnSet(f, S)
  BY <1>3, SumUnion
<1> QED BY <1>2, <1>4

\* Coins are worth a natural number.
LEMMA ValueNat ==
  ASSUME NEW S, IsFiniteSet(S), \A x \in S : x.value \in Nat
  PROVE  Value(S) \in Nat
<1> DEFINE f == [x \in S |-> x.value]
<1>1. Value(S) = SumFunctionOnSet(f, S) BY ValueIs
<1>2. \A x \in S : f[x] \in Nat OBVIOUS
<1> HIDE DEF f
<1> QED BY <1>1, <1>2, SumNat

\* What is left of a set when part of it is taken.
LEMMA ValuePart ==
  ASSUME NEW S, NEW R \in SUBSET S, IsFiniteSet(S), \A x \in S : x.value \in Nat
  PROVE  Value(S \ R) = Value(S) - Value(R) /\ Value(R) \in Nat /\ Value(S \ R) \in Nat
<1>1. IsFiniteSet(R) /\ IsFiniteSet(S \ R) BY FS_Subset
<1>2. R \cap (S \ R) = {} /\ R \cup (S \ R) = S OBVIOUS
<1>3. Value(R) \in Nat /\ Value(S \ R) \in Nat BY <1>1, ValueNat
<1>4. Value(S) = Value(R) + Value(S \ R) BY <1>1, <1>2, ValueUnion
<1> QED BY <1>3, <1>4

\* Coins of one token.
LEMMA OfOne ==
  ASSUME NEW S, NEW u, \A x \in S : x.uid = u
  PROVE  /\ Of(S, u) = S
         /\ \A v : v # u => Of(S, v) = {}
BY DEF Of

\* The coins of one token, of unions and differences.
LEMMA OfParts ==
  ASSUME NEW R, NEW S, NEW u
  PROVE  /\ Of(R \cup S, u) = Of(R, u) \cup Of(S, u)
         /\ Of(S \ R, u) = Of(S, u) \ Of(R, u)
         /\ Of(S, u) \subseteq S
         /\ IsFiniteSet(S) => IsFiniteSet(Of(S, u))
<1>1. /\ Of(R \cup S, u) = Of(R, u) \cup Of(S, u)
      /\ Of(S \ R, u) = Of(S, u) \ Of(R, u)
      /\ Of(S, u) \subseteq S
  BY DEF Of
<1> QED BY <1>1, FS_Subset

\* The change is what is left of the inputs.
LEMMA ChangeIs ==
  ASSUME NEW S, NEW u, NEW q \in Nat, IsFiniteSet(S), \A x \in S : x.value \in Nat, Value(S) >= q
  PROVE  /\ IsFiniteSet(Change(S, u, q)) /\ Value(Change(S, u, q)) = Value(S) - q
         /\ \A o \in Change(S, u, q) : o.uid = u /\ o.to = "wallet" /\ o.value \in Nat \ {0}
         /\ Of(Change(S, u, q), u) = Change(S, u, q)
         /\ Value(S) \in Nat
         /\ \A o1, o2 \in Change(S, u, q) : o1 = o2
<1>1. Value(S) \in Nat BY ValueNat
<1>2. CASE Value(S) = q
  <2>1. Change(S, u, q) = {} BY <1>2 DEF Change
  <2> QED BY <1>1, <1>2, <2>1, ValueEmpty, FS_EmptySet DEF Of
<1>3. CASE Value(S) # q
  <2> DEFINE o == [uid |-> u, value |-> Value(S) - q, to |-> "wallet"]
  <2>1. Change(S, u, q) = {o} BY <1>3 DEF Change
  <2>2. o.uid = u /\ o.to = "wallet" /\ o.value = Value(S) - q OBVIOUS
  <2> HIDE DEF o
  <2>3. o.value \in Nat \ {0} BY <1>1, <1>3, <2>2
  <2>4. Value({o}) = o.value BY <2>3, ValueSingle
  <2>5. IsFiniteSet({o}) BY FS_Singleton
  <2> QED BY <1>1, <2>1, <2>2, <2>3, <2>4, <2>5 DEF Of
<1> QED BY <1>2, <1>3

\* The payment is one output.
LEMMA PayIs ==
  ASSUME NEW user, NEW u, NEW q \in Nat
  PROVE  /\ IsFiniteSet(Pay(user, u, q)) /\ Value(Pay(user, u, q)) = q
         /\ \A o \in Pay(user, u, q) : o.uid = u /\ o.to = user /\ o.value = q
         /\ Of(Pay(user, u, q), u) = Pay(user, u, q)
<1> DEFINE o == [uid |-> u, value |-> q, to |-> user]
<1>1. Pay(user, u, q) = {o} BY DEF Pay
<1>2. o.uid = u /\ o.to = user /\ o.value = q OBVIOUS
<1> HIDE DEF o
<1>3. Value({o}) = q BY <1>2, ValueSingle
<1>4. IsFiniteSet({o}) BY FS_Singleton
<1> QED BY <1>1, <1>2, <1>3, <1>4 DEF Of

-----------------------------------------------------------------------------
(* What the three kinds of transactions do.                                *)

\* Value that leaves the wallet for users; value that comes back to it.
ToUsers(p, u) == Value({o \in Of(p.outputs, u) : o.to # "wallet"})
Back(p) == {o \in p.outputs : o.to = "wallet"}

\* What a transaction that spends coins of one token spends, and its change.
LEMMA SpendsIs ==
  ASSUME NEW p, NEW u, NEW q, Spends(p, u, q)
  PROVE  /\ Value(p.inputs) \in Nat /\ q \in Nat \ {0} /\ Of(p.inputs, u) = p.inputs
         /\ IsFiniteSet(Change(p.inputs, u, q)) /\ Value(Change(p.inputs, u, q)) = Value(p.inputs) - q
         /\ Value(Change(p.inputs, u, q)) \in Nat
         /\ \A o \in Change(p.inputs, u, q) : o.uid = u /\ o.to = "wallet" /\ o.value \in Nat \ {0}
         /\ \A o1, o2 \in Change(p.inputs, u, q) : o1 = o2
         /\ Of(Change(p.inputs, u, q), u) = Change(p.inputs, u, q)
<1>1. /\ q \in Nat \ {0} /\ IsFiniteSet(p.inputs) /\ Value(p.inputs) >= q
      /\ \A k \in p.inputs : k.uid = u /\ k.value \in Nat
  BY DEF Spends
<1>2. Of(p.inputs, u) = p.inputs BY <1>1, OfOne
<1>3. Value(p.inputs) \in Nat BY <1>1, ValueNat
<1>4. Value(p.inputs) - q \in Nat BY <1>1, <1>3
<1> QED BY <1>1, <1>2, <1>3, <1>4, ChangeIs

\* A melt takes its amount off the supply, and gives nothing to users.
LEMMA MeltIs ==
  ASSUME NEW p, NEW u, NEW q, Spends(p, u, q), p.outputs = Change(p.inputs, u, q)
  PROVE  Balance(p, u) = -q /\ Back(p) = p.outputs /\ \A v : ToUsers(p, v) = 0
<1>1. Of(p.outputs, u) = p.outputs /\ Of(p.inputs, u) = p.inputs BY SpendsIs
<1>2. Value(p.outputs) = Value(p.inputs) - q /\ Value(p.inputs) \in Nat /\ q \in Nat BY SpendsIs
<1>3. \A o \in p.outputs : o.to = "wallet" BY SpendsIs
<1>4. \A v : {o \in Of(p.outputs, v) : o.to # "wallet"} = {} BY <1>3 DEF Of
<1> QED BY <1>1, <1>2, <1>3, <1>4, ValueEmpty DEF Balance, Back, ToUsers

\* A transfer leaves the supply alone, and gives its amount to the user.
LEMMA TransferIs ==
  ASSUME NEW p, NEW u, NEW q, NEW user, Spends(p, u, q), user # "wallet",
         p.outputs = Pay(user, u, q) \cup Change(p.inputs, u, q)
  PROVE  /\ Balance(p, u) = 0 /\ PaidTo(p, u, user) = q
         /\ Back(p) = Change(p.inputs, u, q)
         /\ ToUsers(p, u) = q /\ \A v : v # u => ToUsers(p, v) = 0
         /\ \A o \in p.outputs : o.uid = u
<1> DEFINE P == Pay(user, u, q)
           C == Change(p.inputs, u, q)
<1>1. /\ Value(p.inputs) \in Nat /\ q \in Nat \ {0} /\ Of(p.inputs, u) = p.inputs
      /\ IsFiniteSet(C) /\ Value(C) = Value(p.inputs) - q
      /\ \A o \in C : o.uid = u /\ o.to = "wallet" /\ o.value \in Nat \ {0}
  BY SpendsIs
<1>2. IsFiniteSet(P) /\ Value(P) = q /\ \A o \in P : o.uid = u /\ o.to = user /\ o.value = q
  BY <1>1, PayIs
<1> HIDE DEF P, C
<1>3. p.outputs = P \cup C BY DEF P, C
<1>4. P \cap C = {} BY <1>1, <1>2
<1>5. Value(P \cup C) = Value(P) + Value(C)
  <2>1. \A o \in P \cup C : o.value \in Int BY <1>1, <1>2
  <2> QED BY <1>1, <1>2, <1>4, <2>1, ValueUnion
<1>6. \A o \in p.outputs : o.uid = u BY <1>1, <1>2, <1>3
<1>7. Of(p.outputs, u) = p.outputs /\ \A v : v # u => Of(p.outputs, v) = {} BY <1>6, OfOne
<1>8. Balance(p, u) = 0
  <2>1. Value(p.outputs) = q + (Value(p.inputs) - q) BY <1>1, <1>2, <1>3, <1>5
  <2>2. Value(p.outputs) = Value(p.inputs) BY <1>1, <2>1
  <2>3. Balance(p, u) = Value(p.outputs) - Value(p.inputs) BY <1>1, <1>7 DEF Balance
  <2> QED BY <1>1, <2>2, <2>3
<1>9. /\ {o \in p.outputs : o.to = user} = P /\ {o \in p.outputs : o.to # "wallet"} = P
      /\ {o \in p.outputs : o.to = "wallet"} = C
  BY <1>1, <1>2, <1>3
<1>10. PaidTo(p, u, user) = q /\ ToUsers(p, u) = q BY <1>2, <1>7, <1>9 DEF PaidTo, ToUsers
<1>11. \A v : v # u => ToUsers(p, v) = 0
  <2>1. \A v : v # u => {o \in Of(p.outputs, v) : o.to # "wallet"} = {} BY <1>7
  <2> QED BY <2>1, ValueEmpty DEF ToUsers
<1> QED BY <1>6, <1>8, <1>9, <1>10, <1>11 DEF Back, C

\* A mint adds its amount to the supply, and gives it to the user.
LEMMA MintIs ==
  ASSUME NEW p, NEW u, NEW q \in Nat, NEW user, user # "wallet",
         p.inputs = {}, p.outputs = Pay(user, u, q)
  PROVE  /\ Balance(p, u) = q
         /\ Back(p) = {} /\ ToUsers(p, u) = q /\ \A v : v # u => ToUsers(p, v) = 0
         /\ \A o \in p.outputs : o.uid = u
<1>1. /\ IsFiniteSet(p.outputs) /\ Value(p.outputs) = q
      /\ \A o \in p.outputs : o.uid = u /\ o.to = user
  BY PayIs
<1>2. Of(p.outputs, u) = p.outputs /\ \A v : v # u => Of(p.outputs, v) = {} BY <1>1 DEF Of
<1>3. Of(p.inputs, u) = {} BY DEF Of
<1>4. Balance(p, u) = q BY <1>1, <1>2, <1>3, ValueEmpty DEF Balance
<1>5. {o \in p.outputs : o.to # "wallet"} = p.outputs /\ Back(p) = {} BY <1>1 DEF Back
<1>6. \A v : v # u => ToUsers(p, v) = 0
  <2>1. \A v : v # u => {o \in Of(p.outputs, v) : o.to # "wallet"} = {} BY <1>2
  <2> QED BY <2>1, ValueEmpty DEF ToUsers
<1> QED BY <1>1, <1>2, <1>4, <1>5, <1>6 DEF ToUsers

-----------------------------------------------------------------------------
(* Deposits, and what the wallet builds.                                   *)

\* The coins a deposit makes are of its token and worth something.
LEMMA CoinsAre ==
  ASSUME NEW c \in Inward
  PROVE  /\ IsFiniteSet(Coins(c)) /\ Coins(c) # {}
         /\ \A k \in Coins(c) : k.of = c /\ k.n \in Nat \ {0} /\ k.uid = Uid[c] /\ k.value \in Nat \ {0}
         /\ Total(c) \in Nat \ {0}
<1> DEFINE D == DOMAIN Outputs[c]
           coin == [n \in D |-> [of |-> c, n |-> n, uid |-> Uid[c], value |-> Outputs[c][n].value,
                                 locked |-> Outputs[c][n].locked]]
<1>1. IsFiniteSet(D) /\ D # {} /\ D \subseteq Nat \ {0} BY CrossingsAssumption, SupplyAssumption
<1>2. Coins(c) = {coin[n] : n \in D} BY DEF Coins
<1>3. \A n \in D : coin[n].of = c /\ coin[n].n = n /\ coin[n].uid = Uid[c] /\ coin[n].value \in Nat \ {0}
  BY CrossingsAssumption
<1>4. coin \in [D -> Coins(c)] BY <1>2
<1> HIDE DEF coin, D
<1>5. coin \in Surjection(D, Coins(c)) BY <1>2, <1>4 DEF Surjection
<1>6. IsFiniteSet(Coins(c)) BY <1>1, <1>5, FS_Surjection
<1>7. \A k \in Coins(c) : k.of = c /\ k.n \in Nat \ {0} /\ k.uid = Uid[c] /\ k.value \in Nat \ {0}
  BY <1>1, <1>2, <1>3
<1>8. Coins(c) # {} BY <1>1, <1>2
<1>9. Total(c) \in Nat \ {0}
  <2>1. PICK k \in Coins(c) : TRUE BY <1>8
  <2>2. /\ Value(Coins(c) \ {k}) = Value(Coins(c)) - Value({k})
        /\ Value({k}) \in Nat /\ Value(Coins(c) \ {k}) \in Nat
    BY <1>6, <1>7, ValuePart
  <2>3. Value({k}) = k.value BY <1>7, ValueSingle
  <2>4. Value(Coins(c)) \in Nat BY <1>6, <1>7, ValueNat
  <2>5. k.value \in Nat \ {0} BY <1>7
  <2> QED BY <2>2, <2>3, <2>4, <2>5 DEF Total
<1> QED BY <1>6, <1>7, <1>8, <1>9

\* Selected coins are of the token, in the wallet, and suffice.
LEMMA SelectionsAre ==
  ASSUME CoinsKept, NEW u, NEW q \in Nat \ {0}, NEW S \in Selections(u, q)
  PROVE  /\ IsFiniteSet(S) /\ Value(S) >= q /\ S \subseteq wallet
         /\ \A k \in S : k.uid = u /\ k.value \in Nat
<1>1. S \subseteq Free(u) /\ Value(S) >= q BY DEF Selections
<1>2. S \subseteq wallet /\ \A k \in S : k.uid = u BY <1>1 DEF Free
<1>3. IsFiniteSet(S) BY <1>2, FS_Subset DEF CoinsKept
<1> QED BY <1>1, <1>2, <1>3 DEF CoinsKept

\* What a Cross event is worth, and what its token stands for.
LEMMA WorthIs ==
  ASSUME TypeOK, MapsFollow, NEW c \in Outward
  PROVE  LET e == Event[c]  u == Target(e) IN
         /\ Worth(e) \in Nat
         /\ Worth(e) # 0 /\ ByMint(e) =>
              /\ u \in Uids /\ e.token \in Native /\ Worth(e) = ToHathor(e.amount, Decimals[e.token])
              /\ Clash \/ [chain |-> Evm, token |-> e.token, uid |-> u] \in Calls
         /\ Worth(e) # 0 /\ ~ByMint(e) /\ u \in Uids =>
              /\ e.token \in Pseudo /\ Worth(e) = ToHathor(e.amount, 18)
              /\ Clash \/ [chain |-> Hathor, token |-> e.token, uid |-> u] \in Calls
         /\ u \in Uids \cup {None}
<1> DEFINE e == Event[c]
           u == Target(e)
<1>1. e.amount \in Nat /\ e.token \in Native \cup Pseudo BY CrossingsAssumption
<1>2. u = toHathor[e.token] /\ u \in Uids \cup {None} BY <1>1 DEF Target, TypeOK
<1>3. \A t \in Native : Decimals[t] \in 0..18 BY TokensAssumption
<1>4. 18 \in 0..18 OBVIOUS
<1> HIDE DEF e
<1>5. Worth(e) \in Nat
  <2> DEFINE ch == toEvm[Target(e)].chain
  <2>1. HasDecimals(e.token, ch) => DecimalsOf(e.token, ch) \in 0..18
    BY <1>1, <1>3, <1>4 DEF HasDecimals, DecimalsOf
  <2>2. Worth(e) = IF HasDecimals(e.token, ch) THEN ToHathor(e.amount, DecimalsOf(e.token, ch)) ELSE 0
    BY DEF Worth
  <2>3. CASE HasDecimals(e.token, ch)
    <3> DEFINE d == DecimalsOf(e.token, ch)
    <3>1. d \in 0..18 BY <2>1, <2>3
    <3>2. Worth(e) = ToHathor(e.amount, d) BY <2>2, <2>3
    <3> HIDE DEF d
    <3> QED BY <1>1, <3>1, <3>2, ToHathorCuts
  <2>4. CASE ~HasDecimals(e.token, ch)
    BY <2>2, <2>4
  <2> QED BY <2>3, <2>4
<1>6. u = None => toEvm[u].chain = 0 BY DEF MapsFollow, Unmapped
<1>7. Evm = 1 /\ Hathor = 2 BY DEF Evm, Hathor
<1>8. ASSUME u \in Uids
      PROVE  \E m \in Calls : /\ m.token = e.token /\ m.uid = u /\ toEvm[u].chain \in {Evm, Hathor}
                              /\ Clash \/ m = [chain |-> toEvm[u].chain, token |-> e.token, uid |-> u]
  <2>1. u # None BY <1>8, TokensAssumption
  <2>2. PICK m \in Calls : m.token = e.token /\ m.uid = u BY <1>1, <1>2, <2>1 DEF MapsFollow
  <2>3. PICK n \in Calls : n.uid = u /\ toEvm[u] = [chain |-> n.chain, token |-> n.token]
    BY <1>8, <2>2 DEF MapsFollow, Mapped
  <2>4. m \in Mappings /\ n \in Mappings BY TokensAssumption DEF Calls, TypeOK
  <2>5. toEvm[u].chain = n.chain /\ n.chain \in {Evm, Hathor} BY <2>3, <2>4 DEF Mappings
  <2>6. ~Clash => m.chain = n.chain BY <2>2, <2>3 DEF Clash, Calls
  <2>7. m = [chain |-> m.chain, token |-> m.token, uid |-> m.uid] BY <2>4 DEF Mappings
  <2> QED BY <2>2, <2>5, <2>6, <2>7
<1>9. ASSUME Worth(e) # 0, ByMint(e)
      PROVE  /\ u \in Uids /\ e.token \in Native /\ Worth(e) = ToHathor(e.amount, Decimals[e.token])
             /\ Clash \/ [chain |-> Evm, token |-> e.token, uid |-> u] \in Calls
  <2>1. toEvm[u].chain = Evm BY <1>9 DEF ByMint, IsEvmNative
  <2>2. u \in Uids BY <1>2, <1>6, <1>7, <2>1
  <2>3. e.token \in Native /\ Worth(e) = ToHathor(e.amount, Decimals[e.token])
    BY <1>7, <1>9, <2>1 DEF Worth, HasDecimals, DecimalsOf
  <2> QED BY <1>8, <2>1, <2>2, <2>3
<1>10. ASSUME Worth(e) # 0, ~ByMint(e), u \in Uids
       PROVE  /\ e.token \in Pseudo /\ Worth(e) = ToHathor(e.amount, 18)
              /\ Clash \/ [chain |-> Hathor, token |-> e.token, uid |-> u] \in Calls
  <2>1. toEvm[u].chain = Hathor BY <1>8, <1>10 DEF ByMint, IsEvmNative
  <2>3. e.token \in Pseudo /\ Worth(e) = ToHathor(e.amount, 18)
    BY <1>7, <1>10, <2>1 DEF Worth, HasDecimals, DecimalsOf
  <2> QED BY <1>8, <1>10, <2>1, <2>3
<1> QED BY <1>2, <1>5, <1>9, <1>10 DEF e

\* What is built for a crossing is of its kind, and validateTx finds nothing wrong with it.
LEMMA OutwardBuilt ==
  ASSUME TypeOK, MapsFollow, CoinsKept, NEW c \in Outward, NEW p \in Buildable(c)
  PROVE  (MintOf(p, c) \/ TransferOf(p, c)) /\ Fits(p, Event[c], Target(Event[c]))
<1> DEFINE e == Event[c]
           u == Target(e)
           w == Worth(e)
<1>1. c \notin Inward /\ e.to # "wallet" BY CrossingsAssumption
<1>2. w # 0 /\ w \in Nat BY <1>1, WorthIs DEF Buildable
<1>3. CASE ByMint(e)
  <2>1. p \in Mints(c, e, u) BY <1>1, <1>2, <1>3 DEF Buildable
  <2>2. p = [Tx(OutwardId(c), {}, Pay(e.to, u, w)) EXCEPT !.mints = {u}] BY <2>1 DEF Mints
  <2>3. /\ p.id = [of |-> e, type |-> "mint"] /\ p.inputs = {} /\ p.outputs = Pay(e.to, u, w)
        /\ p.mints = {u} /\ p.melts = {}
    BY <1>3, <2>2 DEF Tx, OutwardId
  <2>4. /\ u \in Uids /\ e.token \in Native /\ w = ToHathor(e.amount, Decimals[e.token])
        /\ Clash \/ [chain |-> Evm, token |-> e.token, uid |-> u] \in Calls
    BY <1>2, <1>3, WorthIs
  <2>0. w \in Nat BY <1>2
  <2> HIDE DEF e, u, w
  <2>5. Balance(p, u) = w /\ \A o \in p.outputs : o.uid = u
    <3> DEFINE user == e.to
    <3>1. user # "wallet" /\ p.inputs = {} /\ p.outputs = Pay(user, u, w) BY <1>1, <2>3
    <3> HIDE DEF user
    <3>2. Balance(p, u) = w BY <2>0, <3>1, MintIs
    <3>3. \A o \in p.outputs : o.uid = u BY <2>0, <3>1, MintIs
    <3> QED BY <3>2, <3>3
  <2>6. Fits(p, e, u)
    BY <1>2, <1>3, <2>3, <2>5 DEF Fits, NothingElseLeaves, CanMint, w
  <2>7. MintOf(p, c) BY <1>2, <2>3, <2>4 DEF MintOf, e
  <2> QED BY <2>6, <2>7 DEF e, u
<1>4. CASE ~ByMint(e)
  <2>1. p \in Transfers(c, e, u) BY <1>1, <1>2, <1>4 DEF Buildable
  <2>2. PICK S \in Selections(u, w) : p = Tx(OutwardId(c), S, Pay(e.to, u, w) \cup Change(S, u, w))
    BY <2>1 DEF Transfers
  <2>3. /\ p.id = [of |-> e, type |-> "transfer"] /\ p.inputs = S
        /\ p.outputs = Pay(e.to, u, w) \cup Change(S, u, w)
        /\ p.mints = {} /\ p.melts = {}
    BY <1>4, <2>2 DEF Tx, OutwardId
  <2> HIDE DEF w
  <2>4. IsFiniteSet(S) /\ Value(S) >= w /\ S \subseteq wallet /\ \A k \in S : k.uid = u /\ k.value \in Nat
    BY <1>2, SelectionsAre
  <2>5. u \in Uids
    <3>1. S # {} BY <1>2, <2>4, ValueEmpty
    <3> QED BY <2>4, <3>1 DEF CoinsKept
  <2>6. /\ e.token \in Pseudo /\ w = ToHathor(e.amount, 18)
        /\ Clash \/ [chain |-> Hathor, token |-> e.token, uid |-> u] \in Calls
    BY <1>2, <1>4, <2>5, WorthIs DEF w
  <2>7. Spends(p, u, w) BY <1>2, <2>3, <2>4 DEF Spends
  <2> HIDE DEF e, u
  <2>8. Balance(p, u) = 0 /\ PaidTo(p, u, e.to) = w /\ \A o \in p.outputs : o.uid = u
    BY <1>1, <2>3, <2>7, TransferIs
  <2>9. Fits(p, e, u)
    BY <1>2, <1>4, <2>8 DEF Fits, NothingElseLeaves, w
  <2>10. TransferOf(p, c) BY <2>3, <2>5, <2>6, <2>7 DEF TransferOf, e
  <2> QED BY <2>9, <2>10 DEF e, u
<1> QED BY <1>3, <1>4

\* What the wallet builds for a deposit melts it.
LEMMA InwardBuilt ==
  ASSUME CoinsKept, NEW c \in Inward, NEW p \in Buildable(c)
  PROVE  /\ p.id = InwardId(c) /\ Spends(p, Uid[c], Total(c))
         /\ p.outputs = Change(p.inputs, Uid[c], Total(c)) /\ p.melts = {Uid[c]}
<1> DEFINE u == Uid[c]
           q == Total(c)
<1>1. p \in Melts(c, u) BY DEF Buildable
<1>2. PICK S \in Selections(u, q) : p = [Tx(InwardId(c), S, Change(S, u, q)) EXCEPT !.melts = {u}]
  BY <1>1 DEF Melts
<1>3. p.id = InwardId(c) /\ p.inputs = S /\ p.outputs = Change(S, u, q) /\ p.melts = {u}
  BY <1>2 DEF Tx
<1>4. q \in Nat \ {0} BY CoinsAre
<1> HIDE DEF u, q
<1>5. IsFiniteSet(S) /\ Value(S) >= q /\ \A k \in S : k.uid = u /\ k.value \in Nat
  BY <1>4, SelectionsAre
<1>6. Spends(p, u, q) BY <1>3, <1>4, <1>5 DEF Spends
<1> QED BY <1>3, <1>6 DEF u, q

\* The contract's id tells the three kinds apart.
LEMMA IdOf ==
  ASSUME NEW p, NEW c
  PROVE  /\ MintOf(p, c) => p.id.of = Event[c] /\ p.id.type = "mint" /\ p.melts = {}
         /\ TransferOf(p, c) => p.id.of = Event[c] /\ p.id.type = "transfer" /\ p.melts = {}
         /\ MeltOf(p, c) => p.id.of = c /\ p.id.type = "melt"
<1>1. ASSUME MintOf(p, c) PROVE p.id.of = Event[c] /\ p.id.type = "mint" /\ p.melts = {}
  <2>1. p.id = [of |-> Event[c], type |-> "mint"] /\ p.melts = {} BY <1>1, Zenon DEF MintOf
  <2> QED BY <2>1
<1>2. ASSUME TransferOf(p, c) PROVE p.id.of = Event[c] /\ p.id.type = "transfer" /\ p.melts = {}
  <2>1. p.id = [of |-> Event[c], type |-> "transfer"] /\ p.melts = {} BY <1>2, Zenon DEF TransferOf
  <2> QED BY <2>1
<1>3. ASSUME MeltOf(p, c) PROVE p.id.of = c /\ p.id.type = "melt"
  <2>1. p.id = InwardId(c) BY <1>3 DEF MeltOf
  <2> QED BY <2>1 DEF InwardId
<1> QED BY <1>1, <1>2, <1>3

\* A proposal with the id of a deposit is the deposit's melt.
LEMMA MeltOfDeposit ==
  ASSUME TypeOK, ProposalsMade, NEW c \in Inward, NEW p \in proposals, p.id.of = c
  PROVE  MeltOf(p, c)
<1>1. \A d \in mined : Event[d] # c BY CrossingsAssumption DEF TypeOK
<1>2. ASSUME NEW d \in mined, MintOf(p, d) \/ TransferOf(p, d) PROVE FALSE
  <2>1. p.id.of = Event[d] BY <1>2, IdOf
  <2> QED BY <1>1, <2>1
<1>3. PICK d \in Inward : MeltOf(p, d) BY <1>2 DEF ProposalsMade
<1>4. p.id.of = d BY <1>3, IdOf
<1> QED BY <1>3, <1>4

\* A proposal with the id of an event was made for an event like it.
LEMMA PaysEvent ==
  ASSUME TypeOK, ProposalsMade, NEW c \in Outward, NEW p \in proposals, p.id.of = Event[c]
  PROVE  \E d \in mined : /\ Event[d] = Event[c] /\ (MintOf(p, d) \/ TransferOf(p, d))
                          /\ Remapped(Event[d]) \/ Fits(p, Event[d], Target(Event[d]))
<1>1. ASSUME NEW d \in Inward, MeltOf(p, d) PROVE FALSE
  <2>1. p.id.of = d BY <1>1, IdOf
  <2> QED BY <2>1, CrossingsAssumption
<1>2. PICK d \in mined : /\ MintOf(p, d) \/ TransferOf(p, d)
                         /\ Remapped(Event[d]) \/ Fits(p, Event[d], Target(Event[d]))
  BY <1>1 DEF ProposalsMade
<1>3. p.id.of = Event[d] BY <1>2, IdOf
<1> QED BY <1>2, <1>3

\* What stops a transaction, at the proposal, a signature or the push, is one
\* of the reasons given.
LEMMA Explained ==
  ASSUME TypeOK, MapsFollow, CoinsKept, ProposalsMade
  PROVE  RefusalExplained
<1>0. mined \subseteq Outward /\ deposited \subseteq Inward BY DEF TypeOK
<1>1. ASSUME NEW c \in mined,
             NEW p \in Buildable(c) \cup {q \in proposals : q.id.of = Event[c]}, ~Overlooked(c)
      PROVE  Valid(p)
  <2>1. c \in Outward BY <1>0
  <2>2. /\ p.id.of = Event[c] /\ p.id.type # "melt"
        /\ Fits(p, Event[c], Target(Event[c]))
    <3>1. CASE p \in Buildable(c)
      <4>1. (MintOf(p, c) \/ TransferOf(p, c)) /\ Fits(p, Event[c], Target(Event[c]))
        BY <2>1, <3>1, OutwardBuilt
      <4> QED BY <4>1, IdOf
    <3>2. CASE p \in {q \in proposals : q.id.of = Event[c]}
      <4>1. PICK d \in mined : /\ Event[d] = Event[c] /\ (MintOf(p, d) \/ TransferOf(p, d))
                               /\ Remapped(Event[d]) \/ Fits(p, Event[d], Target(Event[d]))
        BY <2>1, <3>2, PaysEvent
      <4>2. p.id.of = Event[c] /\ p.id.type # "melt" BY <4>1, IdOf
      <4>3. ~Remapped(Event[c]) BY <1>1 DEF Overlooked
      <4> QED BY <4>1, <4>2, <4>3
    <3> QED BY <3>1, <3>2
  <2>3. FirstEvent(c, p)
    <3>1. \A d \in mined : Event[d].tx = Event[c].tx => ~(Index[d] < Index[c]) BY <1>1 DEF Overlooked
    <3>2. \A d \in mined : Index[d] \in Nat BY <1>0, CrossingsAssumption
    <3>3. Index[c] \in Nat BY <2>1, CrossingsAssumption
    <3>4. \A d \in mined : Event[d].tx = Event[c].tx => Index[c] <= Index[d] BY <3>1, <3>2, <3>3
    <3> QED BY <2>2, <3>4 DEF FirstEvent
  <2> QED BY <2>2, <2>3 DEF Valid, ValidOutward
<1>2. ASSUME NEW c \in deposited,
             NEW p \in Buildable(c) \cup {q \in proposals : q.id.of = c}, ~Undercut(c)
      PROVE  p.id \in settled \/ Valid(p)
  <2>1. c \in Inward BY <1>0
  <2>2. /\ p.id = InwardId(c) /\ Spends(p, Uid[c], Total(c))
        /\ p.outputs = Change(p.inputs, Uid[c], Total(c)) /\ p.melts = {Uid[c]}
    <3>1. CASE p \in Buildable(c)
      BY <2>1, <3>1, InwardBuilt
    <3>2. CASE p \in {q \in proposals : q.id.of = c}
      <4>1. MeltOf(p, c) BY <2>1, <3>2, MeltOfDeposit
      <4> QED BY <4>1 DEF MeltOf
    <3> QED BY <3>1, <3>2
  <2>3. CASE Settled(c)
    <3>1. PICK i \in settled : i.of = c BY <2>1, <2>3 DEF Settled
    <3>2. PICK q \in proposals : q.id = i BY <3>1 DEF TypeOK
    <3>3. MeltOf(q, c) BY <2>1, <3>1, <3>2, MeltOfDeposit
    <3>4. i = InwardId(c) BY <3>2, <3>3 DEF MeltOf
    <3> QED BY <2>2, <3>1, <3>4
  <2>4. CASE ~Settled(c)
    <3>1. Unspent(c) = Coins(c) BY <1>2, <2>4 DEF Undercut, Unspent
    <3>2. Coins(c) # {} /\ Total(c) \in Nat \ {0} BY <2>1, CoinsAre
    <3>3. Balance(p, Uid[c]) = -Total(c) BY <2>2, MeltIs
    <3>4. Value(Unspent(c)) = Total(c) BY <3>1 DEF Total
    <3>5. p.id.of = c /\ p.id.type = "melt" BY <2>2 DEF InwardId
    <3>6. CASE p.id \notin settled
      <4>1. Balance(p, Uid[c]) < 0 /\ -Balance(p, Uid[c]) = Value(Unspent(c)) BY <3>2, <3>3, <3>4
      <4>2. Unspent(c) # {} BY <3>1, <3>2
      <4>3. CanMelt(p, Uid[c]) BY <2>2 DEF CanMelt
      <4>4. ValidInward(p) BY <3>5, <3>6, <4>1, <4>2, <4>3 DEF ValidInward
      <4> QED BY <3>5, <4>4 DEF Valid
    <3> QED BY <3>6
  <2> QED BY <2>3, <2>4
<1>3. ASSUME NEW c \in mined PROVE c \notin Inward BY <1>0, CrossingsAssumption
<1> QED BY <1>0, <1>1, <1>2, <1>3 DEF RefusalExplained

-----------------------------------------------------------------------------
(* What no step undoes.                                                    *)

\* Calls, events, deposits, claims and settled transactions stay.
LEMMA Grows ==
  ASSUME TypeOK, [Next]_vars
  PROVE  /\ remaps \subseteq remaps' /\ mined \subseteq mined' /\ deposited \subseteq deposited'
         /\ settled \subseteq settled' /\ claimed \subseteq claimed'
         /\ Calls \subseteq Calls' /\ (Clash => Clash')
<1>1. /\ remaps \subseteq remaps' /\ mined \subseteq mined' /\ deposited \subseteq deposited'
      /\ settled \subseteq settled' /\ claimed \subseteq claimed'
  <2>1. CASE \E tx \in {Event[c].tx : c \in Outward} : Cross(tx)
    BY <2>1 DEF Cross, maps, hathor, multisig
  <2>2. CASE \E c \in Inward : Deposit(c) BY <2>2 DEF Deposit, maps, bridge, multisig
  <2>3. CASE \E m \in Remaps : AddHathorToken(m) BY <2>3 DEF AddHathorToken, bridge, hathor, multisig
  <2>4. CASE \E c \in Outward \cup Inward : Propose(c) BY <2>4 DEF Propose, maps, bridge, hathor
  <2>5. CASE \E p \in proposals : Push(p) BY <2>5 DEF Push, maps, bridge
  <2>6. CASE \E p \in proposals, f \in Federators : Sign(f, p) BY <2>6 DEF Sign, maps, bridge, hathor
  <2>7. CASE \E c \in Inward : Claim(c) BY <2>7 DEF Claim, maps, hathor, multisig
  <2>8. CASE \E c \in Inward, f \in Federators : Vote(f, c) BY <2>8 DEF Vote, maps, hathor, multisig
  <2>9. CASE UNCHANGED vars BY <2>9 DEF vars, maps, bridge, hathor, multisig
  <2> QED BY <2>1, <2>2, <2>3, <2>4, <2>5, <2>6, <2>7, <2>8, <2>9 DEF Next, Serve
<1>2. Calls \subseteq Calls' BY <1>1 DEF Calls
<1>3. Clash => Clash'
  <2> SUFFICES ASSUME Clash PROVE Clash'
    OBVIOUS
  <2>1. PICK m \in FirstMap \cup remaps :
          \/ (m.chain = Evm) # (m.token \in Native)
          \/ \E n \in FirstMap \cup remaps : m.uid = n.uid /\ (m.token # n.token \/ m.chain # n.chain)
    BY DEF Clash
  <2>2. m \in FirstMap \cup remaps' BY <1>1
  <2>3. FirstMap \cup remaps \subseteq FirstMap \cup remaps' BY <1>1
  <2> QED BY <2>1, <2>2, <2>3 DEF Clash
<1> QED BY <1>1, <1>2, <1>3

-----------------------------------------------------------------------------
(* Steps that leave a part of the state alone.                             *)

\* A step that leaves the maps alone.
LEMMA MapsAlone ==
  ASSUME MapsFollow, UNCHANGED maps
  PROVE  MapsFollow' /\ (Clash' = Clash) /\ Calls' = Calls
BY DEF MapsFollow, maps, Clash, Calls, Mapped

\* A step that leaves the wallet alone.
LEMMA CoinsAlone ==
  ASSUME CoinsKept, UNCHANGED wallet, settled \subseteq settled', deposited \subseteq deposited'
  PROVE  CoinsKept'
BY DEF CoinsKept

\* A transaction stays of its kind.
LEMMA KindsStay ==
  ASSUME NEW p, NEW c, Calls \subseteq Calls', Clash => Clash', deposited \subseteq deposited'
  PROVE  /\ MintOf(p, c) => MintOf(p, c)'
         /\ TransferOf(p, c) => TransferOf(p, c)'
         /\ MeltOf(p, c) => MeltOf(p, c)'
<1>1. ASSUME MintOf(p, c) PROVE MintOf(p, c)' BY <1>1, Zenon DEF MintOf
<1>2. ASSUME TransferOf(p, c) PROVE TransferOf(p, c)' BY <1>2, Zenon DEF TransferOf
<1>3. ASSUME MeltOf(p, c) PROVE MeltOf(p, c)' BY <1>3, Zenon DEF MeltOf
<1> QED BY <1>1, <1>2, <1>3

\* validateTx depends on the maps only, and on the transaction.
LEMMA FitsAlone ==
  ASSUME NEW p, NEW e, UNCHANGED toHathor, UNCHANGED toEvm
  PROVE  Target(e)' = Target(e) /\ (Fits(p, e, Target(e))' <=> Fits(p, e, Target(e)))
<1>1. Target(e)' = Target(e) BY DEF Target
<1>2. (ByMint(e)' <=> ByMint(e)) /\ Worth(e)' = Worth(e) BY <1>1 DEF ByMint, IsEvmNative, Worth
<1> QED BY <1>1, <1>2 DEF Fits

\* A step that leaves the maps and the proposals alone.
LEMMA ProposalsAlone ==
  ASSUME TypeOK, ProposalsMade, [Next]_vars, UNCHANGED <<maps, proposals>>
  PROVE  ProposalsMade'
<1> SUFFICES ASSUME NEW p \in proposals
             PROVE  \/ \E c \in mined' :
                         /\ MintOf(p, c)' \/ TransferOf(p, c)'
                         /\ Remapped(Event[c])' \/ Fits(p, Event[c], Target(Event[c]))'
                    \/ \E c \in Inward : MeltOf(p, c)'
  BY DEF ProposalsMade
<1>1. mined \subseteq mined' /\ Calls \subseteq Calls' /\ (Clash => Clash') /\ deposited \subseteq deposited'
  BY Grows
<1>2. ASSUME NEW c \in mined, MintOf(p, c) \/ TransferOf(p, c),
             Remapped(Event[c]) \/ Fits(p, Event[c], Target(Event[c]))
      PROVE  /\ c \in mined' /\ (MintOf(p, c)' \/ TransferOf(p, c)')
             /\ Remapped(Event[c])' \/ Fits(p, Event[c], Target(Event[c]))'
  <2>1. MintOf(p, c)' \/ TransferOf(p, c)' BY <1>1, <1>2, KindsStay
  <2> DEFINE e == Event[c]
  <2> HIDE DEF e
  <2>2. Remapped(e) => Remapped(e)' BY DEF Remapped, Target, maps
  <2>3. Fits(p, e, Target(e)) => Fits(p, e, Target(e))' BY FitsAlone DEF maps
  <2> QED BY <1>1, <1>2, <2>1, <2>2, <2>3 DEF e
<1>3. ASSUME NEW c \in Inward, MeltOf(p, c) PROVE MeltOf(p, c)' BY <1>1, <1>3, KindsStay
<1> QED BY <1>2, <1>3 DEF ProposalsMade

-----------------------------------------------------------------------------
(* What holds whatever is mapped.                                          *)

\* What a call of addHathorToken changes.
LEMMA MapsStep ==
  ASSUME TypeOK, MapsFollow, NEW m \in Remaps, AddHathorToken(m)
  PROVE  /\ MapsFollow' /\ Calls' = Calls \cup {m}
         /\ \A t \in Native \cup Pseudo : t # m.token => toHathor'[t] = toHathor[t]
         /\ \A u \in Uids \cup {None} : u # m.uid => toEvm'[u] = toEvm[u]
         /\ toEvm'[m.uid] = [chain |-> m.chain, token |-> m.token]
<1>1. /\ m \in Mappings /\ m.uid \in Uids /\ m.token \in Native \cup Pseudo /\ None \notin Uids
  BY TokensAssumption DEF Mappings
<1>2. Calls' = Calls \cup {m} BY DEF AddHathorToken, Calls
<1>3. /\ \A t \in Native \cup Pseudo : toHathor'[t] = IF t = m.token THEN m.uid ELSE toHathor[t]
      /\ \A u \in Uids \cup {None} :
           toEvm'[u] = IF u = m.uid THEN [chain |-> m.chain, token |-> m.token] ELSE toEvm[u]
  BY DEF AddHathorToken, TypeOK
<1>4. \A u : Mapped(u)' <=> Mapped(u) \/ u = m.uid
  BY <1>2 DEF Mapped
<1>5. \A t \in Native \cup Pseudo : toHathor'[t] # None => \E n \in Calls' : n.token = t /\ n.uid = toHathor'[t]
  BY <1>2, <1>3 DEF MapsFollow
<1>6. \A u \in Uids : Mapped(u)' => \E n \in Calls' : n.uid = u /\ toEvm'[u] = [chain |-> n.chain, token |-> n.token]
  BY <1>2, <1>3, <1>4 DEF MapsFollow
<1>7. \A u \in Uids : ~Mapped(u)' => toEvm'[u] = Unmapped
  BY <1>3, <1>4 DEF MapsFollow
<1>8. toEvm'[None] = Unmapped BY <1>1, <1>3 DEF MapsFollow
<1>9. MapsFollow' BY <1>5, <1>6, <1>7, <1>8 DEF MapsFollow
<1> QED BY <1>1, <1>2, <1>3, <1>9

\* Owners who give an event's token another counterpart may leave its proposal invalid.
LEMMA ProposalsRemapped ==
  ASSUME TypeOK, MapsFollow, ProposalsMade, NEW m \in Remaps, AddHathorToken(m), [Next]_vars
  PROVE  ProposalsMade'
<1>1. /\ mined \subseteq mined' /\ Calls \subseteq Calls' /\ (Clash => Clash') /\ deposited \subseteq deposited'
      /\ remaps \subseteq remaps'
  BY Grows
<1>2. m \in remaps' /\ UNCHANGED proposals BY DEF AddHathorToken, multisig
<1>3. /\ \A t \in Native \cup Pseudo : t # m.token => toHathor'[t] = toHathor[t]
      /\ \A u \in Uids \cup {None} : u # m.uid => toEvm'[u] = toEvm[u]
  BY MapsStep
<1>4. ASSUME NEW p, NEW c \in Outward, Remapped(Event[c]) \/ Fits(p, Event[c], Target(Event[c]))
      PROVE  Remapped(Event[c])' \/ Fits(p, Event[c], Target(Event[c]))'
  <2> DEFINE e == Event[c]
  <2>0. e.token \in Native \cup Pseudo BY CrossingsAssumption
  <2> HIDE DEF e
  <2> SUFFICES ASSUME ~Remapped(e)' PROVE Fits(p, e, Target(e))'
    BY DEF e
  <2>1. e.token # m.token /\ Target(e)' # m.uid BY <1>2 DEF Remapped
  <2>2. Target(e)' = Target(e) /\ Target(e) \in Uids \cup {None}
    BY <1>3, <2>0, <2>1 DEF Target, TypeOK
  <2>3. toEvm'[Target(e)] = toEvm[Target(e)] BY <1>3, <2>1, <2>2
  <2>4. ~Remapped(e) BY <1>1, <2>2 DEF Remapped
  <2>5. Fits(p, e, Target(e)) BY <1>4, <2>4 DEF e
  <2>6. (ByMint(e)' <=> ByMint(e)) /\ Worth(e)' = Worth(e)
    BY <2>2, <2>3 DEF ByMint, IsEvmNative, Worth
  <2> QED BY <2>2, <2>5, <2>6 DEF Fits
<1> SUFFICES ASSUME NEW p \in proposals
             PROVE  \/ \E c \in mined' :
                         /\ MintOf(p, c)' \/ TransferOf(p, c)'
                         /\ Remapped(Event[c])' \/ Fits(p, Event[c], Target(Event[c]))'
                    \/ \E c \in Inward : MeltOf(p, c)'
  BY <1>2 DEF ProposalsMade
<1>5. ASSUME NEW c \in mined, MintOf(p, c) \/ TransferOf(p, c),
             Remapped(Event[c]) \/ Fits(p, Event[c], Target(Event[c]))
      PROVE  /\ c \in mined' /\ (MintOf(p, c)' \/ TransferOf(p, c)')
             /\ Remapped(Event[c])' \/ Fits(p, Event[c], Target(Event[c]))'
  <2>1. MintOf(p, c)' \/ TransferOf(p, c)' BY <1>1, <1>5, KindsStay
  <2>2. c \in Outward BY DEF TypeOK
  <2> QED BY <1>1, <1>4, <1>5, <2>1, <2>2
<1>6. ASSUME NEW c \in Inward, MeltOf(p, c) PROVE MeltOf(p, c)' BY <1>1, <1>6, KindsStay
<1> QED BY <1>5, <1>6 DEF ProposalsMade

\* A proposal keeps Made.
LEMMA ProposeStep ==
  ASSUME Made, NEW c \in Outward \cup Inward, Propose(c)
  PROVE  Made'
<1> USE DEF Made
<1>0. UNCHANGED <<maps, bridge, hathor, settled>> BY DEF Propose
<1>1. PICK p \in Buildable(c) : /\ proposals' = proposals \cup {p}
                                /\ signed' = [i \in DOMAIN signed \cup {p.id} |-> IF i = p.id THEN {} ELSE signed[i]]
  BY DEF Propose
<1>2. TypeOK'
  <2>1. settled' \subseteq {q.id : q \in proposals'} BY <1>0, <1>1 DEF TypeOK
  <2>2. DOMAIN signed' = {q.id : q \in proposals'} BY <1>1 DEF TypeOK
  <2> QED BY <1>0, <2>1, <2>2 DEF TypeOK, maps, bridge, hathor
<1>3. AmountsKept' BY <1>0 DEF AmountsKept, bridge
<1>4. MapsFollow' /\ Calls \subseteq Calls' /\ (Clash => Clash') BY <1>0, MapsAlone
<1>5. CoinsKept' BY <1>0, CoinsAlone DEF hathor
<1>6. ProposalsMade'
  <2>1. UNCHANGED <<mined, deposited, toHathor, toEvm, remaps>> BY <1>0 DEF maps, bridge, hathor
  <2>2. ASSUME NEW q, NEW d \in mined, MintOf(q, d) \/ TransferOf(q, d),
               Remapped(Event[d]) \/ Fits(q, Event[d], Target(Event[d]))
        PROVE  /\ d \in mined' /\ (MintOf(q, d)' \/ TransferOf(q, d)')
               /\ Remapped(Event[d])' \/ Fits(q, Event[d], Target(Event[d]))'
    <3>1. MintOf(q, d)' \/ TransferOf(q, d)' BY <1>4, <2>1, <2>2, KindsStay
    <3> DEFINE e == Event[d]
    <3> HIDE DEF e
    <3>2. Remapped(e) => Remapped(e)' BY <2>1 DEF Remapped, Target
    <3>3. Fits(q, e, Target(e)) => Fits(q, e, Target(e))' BY <2>1, FitsAlone
    <3> QED BY <2>1, <2>2, <3>1, <3>2, <3>3 DEF e
  <2>3. ASSUME NEW q, NEW d \in Inward, MeltOf(q, d) PROVE MeltOf(q, d)'
    BY <1>4, <2>1, <2>3, KindsStay
  <2>4. \/ \E d \in mined :
             /\ MintOf(p, d) \/ TransferOf(p, d)
             /\ Remapped(Event[d]) \/ Fits(p, Event[d], Target(Event[d]))
        \/ \E d \in Inward : MeltOf(p, d)
    <3>1. CASE c \in mined
      <4>1. c \in Outward BY <3>1 DEF TypeOK
      <4>2. (MintOf(p, c) \/ TransferOf(p, c)) /\ Fits(p, Event[c], Target(Event[c]))
        BY <4>1, OutwardBuilt
      <4> QED BY <3>1, <4>2
    <3>2. CASE c \in deposited /\ IsEvmNative(Uid[c])
      <4>1. c \in Inward BY <3>2 DEF TypeOK
      <4>2. /\ p.id = InwardId(c) /\ Spends(p, Uid[c], Total(c))
            /\ p.outputs = Change(p.inputs, Uid[c], Total(c)) /\ p.melts = {Uid[c]}
        BY <4>1, InwardBuilt
      <4>3. \E m \in Calls : m.uid = Uid[c] /\ m.chain = Evm
        <5>1. toEvm[Uid[c]].chain = Evm /\ Uid[c] \in Uids
          BY <3>2, <4>1, CrossingsAssumption DEF IsEvmNative
        <5>2. Mapped(Uid[c]) BY <5>1 DEF MapsFollow, Unmapped, Evm
        <5>3. PICK m \in Calls : m.uid = Uid[c] /\ toEvm[Uid[c]] = [chain |-> m.chain, token |-> m.token]
          BY <5>1, <5>2 DEF MapsFollow
        <5> QED BY <5>1, <5>3
      <4>4. MeltOf(p, c) BY <3>2, <4>2, <4>3 DEF MeltOf
      <4> QED BY <4>1, <4>4
    <3>3. c \in mined \/ (c \in deposited /\ IsEvmNative(Uid[c])) BY DEF Propose
    <3> QED BY <3>1, <3>2, <3>3
  <2>5. ASSUME NEW q \in proposals'
        PROVE  \/ \E d \in mined' :
                    /\ MintOf(q, d)' \/ TransferOf(q, d)'
                    /\ Remapped(Event[d])' \/ Fits(q, Event[d], Target(Event[d]))'
               \/ \E d \in Inward : MeltOf(q, d)'
    <3>1. \/ \E d \in mined :
               /\ MintOf(q, d) \/ TransferOf(q, d)
               /\ Remapped(Event[d]) \/ Fits(q, Event[d], Target(Event[d]))
          \/ \E d \in Inward : MeltOf(q, d)
      BY <1>1, <2>4 DEF ProposalsMade
    <3> QED BY <2>2, <2>3, <3>1
  <2> QED BY <2>5 DEF ProposalsMade
<1> QED BY <1>2, <1>3, <1>4, <1>5, <1>6

\* The coins that come back to the wallet when a transaction is pushed.
Returned(p) == {[of |-> p.id, n |-> 0, uid |-> o.uid, value |-> o.value, locked |-> FALSE] : o \in Back(p)}

\* What comes back to the wallet is worth what the outputs to it are.
LEMMA ReturnedAre ==
  ASSUME NEW p, \A o \in Back(p) : o.value \in Nat \ {0}, \A o1, o2 \in Back(p) : o1 = o2
  PROVE  /\ IsFiniteSet(Returned(p)) /\ IsFiniteSet(Back(p))
         /\ \A u : Value(Of(Returned(p), u)) = Value(Of(Back(p), u))
         /\ \A k \in Returned(p) : k.of = p.id /\ k.n = 0 /\ \E o \in Back(p) : k.uid = o.uid /\ k.value = o.value
<1> DEFINE coin(o) == [of |-> p.id, n |-> 0, uid |-> o.uid, value |-> o.value, locked |-> FALSE]
<1>1. CASE Back(p) = {}
  <2>1. Returned(p) = {} BY <1>1 DEF Returned
  <2>2. \A u : Of({}, u) = {} BY DEF Of
  <2> QED BY <1>1, <2>1, <2>2, FS_EmptySet
<1>2. CASE Back(p) # {}
  <2>1. PICK o : Back(p) = {o} /\ o.value \in Nat \ {0}
    <3>1. PICK o \in Back(p) : TRUE BY <1>2
    <3>2. Back(p) = {o} BY <3>1
    <3> QED BY <3>1, <3>2
  <2> DEFINE k == coin(o)
  <2>2. Returned(p) = {k} BY <2>1 DEF Returned
  <2>3. k.of = p.id /\ k.n = 0 /\ k.uid = o.uid /\ k.value = o.value OBVIOUS
  <2> HIDE DEF k
  <2>4. IsFiniteSet({k}) /\ IsFiniteSet({o}) BY FS_Singleton
  <2>5. Value({k}) = o.value /\ Value({o}) = o.value BY <2>1, <2>3, ValueSingle
  <2>6. ASSUME NEW u PROVE Value(Of({k}, u)) = Value(Of({o}, u))
    <3>1. CASE o.uid = u
      <4>1. Of({k}, u) = {k} /\ Of({o}, u) = {o} BY <2>3, <3>1 DEF Of
      <4> QED BY <2>5, <4>1
    <3>2. CASE o.uid # u
      <4>1. Of({k}, u) = {} /\ Of({o}, u) = {} BY <2>3, <3>2 DEF Of
      <4> QED BY <4>1
    <3> QED BY <3>1, <3>2
  <2> QED BY <2>1, <2>2, <2>3, <2>4, <2>6
<1> QED BY <1>1, <1>2

\* Whatever its kind, a proposal pays natural amounts of tokens that there are,
\* and one coin at most comes back.
LEMMA ProposalIs ==
  ASSUME ProposalsMade, TypeOK, NEW p \in proposals
  PROVE  /\ IsFiniteSet(p.inputs)
         /\ \A o \in Back(p) : o.uid \in Uids /\ o.value \in Nat \ {0}
         /\ \A o1, o2 \in Back(p) : o1 = o2
         /\ \A u : ToUsers(p, u) \in Nat
<1>1. ASSUME NEW c \in mined, MintOf(p, c)
      PROVE  /\ IsFiniteSet(p.inputs) /\ Back(p) = {} /\ \A u : ToUsers(p, u) \in Nat
  <2> DEFINE q == ToHathor(Event[c].amount, Decimals[Event[c].token])
             user == Event[c].to
  <2>1. c \in Outward BY DEF TypeOK
  <2>2. Event[c].amount \in Nat /\ user # "wallet" BY <2>1, CrossingsAssumption
  <2>3. p.inputs = {} /\ Event[c].token \in Native BY <1>1, Zenon DEF MintOf
  <2>4. q \in Nat BY <2>2, <2>3, TokensAssumption, ToHathorCuts
  <2>5. PICK u \in Uids : p.outputs = Pay(user, u, q) BY <1>1, Zenon DEF MintOf
  <2> HIDE DEF q, user
  <2>6. Back(p) = {} /\ ToUsers(p, u) = q /\ \A v : v # u => ToUsers(p, v) = 0
    BY <2>2, <2>3, <2>4, <2>5, MintIs
  <2>7. \A v : ToUsers(p, v) \in Nat BY <2>4, <2>6
  <2> QED BY <2>3, <2>6, <2>7, FS_EmptySet
<1>2. ASSUME NEW c \in mined, TransferOf(p, c)
      PROVE  /\ IsFiniteSet(p.inputs) /\ \A u : ToUsers(p, u) \in Nat
             /\ \E u \in Uids : \E q : Spends(p, u, q) /\ Back(p) = Change(p.inputs, u, q)
  <2> DEFINE q == ToHathor(Event[c].amount, 18)
             user == Event[c].to
  <2>1. c \in Outward BY DEF TypeOK
  <2>2. user # "wallet" BY <2>1, CrossingsAssumption
  <2>3. PICK u \in Uids : Spends(p, u, q) /\ p.outputs = Pay(user, u, q) \cup Change(p.inputs, u, q)
    BY <1>2, Zenon DEF TransferOf
  <2> HIDE DEF q, user
  <2>4. Back(p) = Change(p.inputs, u, q) /\ ToUsers(p, u) = q /\ \A v : v # u => ToUsers(p, v) = 0
    BY <2>2, <2>3, TransferIs
  <2>5. q \in Nat /\ IsFiniteSet(p.inputs) BY <2>3 DEF Spends
  <2>6. \A v : ToUsers(p, v) \in Nat BY <2>4, <2>5
  <2> QED BY <2>3, <2>4, <2>5, <2>6
<1>3. ASSUME NEW c \in Inward, MeltOf(p, c)
      PROVE  /\ IsFiniteSet(p.inputs) /\ \A u : ToUsers(p, u) \in Nat
             /\ \E u \in Uids : \E q : Spends(p, u, q) /\ Back(p) = Change(p.inputs, u, q)
  <2>1. Spends(p, Uid[c], Total(c)) /\ p.outputs = Change(p.inputs, Uid[c], Total(c))
    BY <1>3 DEF MeltOf
  <2>2. Back(p) = Change(p.inputs, Uid[c], Total(c)) /\ \A v : ToUsers(p, v) = 0
    BY <2>1, MeltIs
  <2>3. IsFiniteSet(p.inputs) BY <2>1 DEF Spends
  <2>4. Uid[c] \in Uids BY CrossingsAssumption
  <2> QED BY <2>1, <2>2, <2>3, <2>4
<1>4. CASE \E c \in mined : MintOf(p, c) BY <1>1, <1>4
<1>5. CASE \E u \in Uids : \E q : Spends(p, u, q) /\ Back(p) = Change(p.inputs, u, q)
  <2>0. PICK u \in Uids : \E q : Spends(p, u, q) /\ Back(p) = Change(p.inputs, u, q) BY <1>5
  <2>1. PICK q : Spends(p, u, q) /\ Back(p) = Change(p.inputs, u, q) BY <2>0
  <2>2. /\ \A o \in Change(p.inputs, u, q) : o.uid = u /\ o.value \in Nat \ {0}
        /\ \A o1, o2 \in Change(p.inputs, u, q) : o1 = o2
    BY <2>1, SpendsIs
  <2>3. IsFiniteSet(p.inputs) BY <2>1 DEF Spends
  <2>4. CASE \E c \in mined : TransferOf(p, c) BY <1>2, <2>1, <2>2, <2>3, <2>4
  <2>5. CASE \E c \in Inward : MeltOf(p, c) BY <1>3, <2>1, <2>2, <2>3, <2>5
  <2> QED BY <1>4, <2>4, <2>5 DEF ProposalsMade
<1> QED BY <1>2, <1>3, <1>4, <1>5 DEF ProposalsMade

\* The coins after a push.
LEMMA PushIs ==
  ASSUME NEW p, Push(p)
  PROVE  /\ wallet' = (wallet \ p.inputs) \cup Returned(p)
         /\ held' = [u \in Uids |-> held[u] + ToUsers(p, u)]
         /\ settled' = settled \cup {p.id} /\ p.id \notin settled /\ p.inputs \subseteq wallet
BY DEF Push, Returned, Back, ToUsers, Acceptable, Ready

\* The push keeps Made.
LEMMA PushStep ==
  ASSUME Made, [Next]_vars, NEW p \in proposals, Push(p)
  PROVE  Made'
<1> USE DEF Made
<1>0. UNCHANGED <<maps, bridge, deposited, ballots, proposals, signed>> BY DEF Push
<1>1. /\ wallet' = (wallet \ p.inputs) \cup Returned(p)
      /\ held' = [u \in Uids |-> held[u] + ToUsers(p, u)]
      /\ settled' = settled \cup {p.id}
  BY PushIs
<1>2. /\ \A o \in Back(p) : o.uid \in Uids /\ o.value \in Nat \ {0}
      /\ \A o1, o2 \in Back(p) : o1 = o2
      /\ \A u : ToUsers(p, u) \in Nat
  BY ProposalIs
<1>3. /\ IsFiniteSet(Returned(p))
      /\ \A k \in Returned(p) : k.of = p.id /\ k.n = 0 /\ k.uid \in Uids /\ k.value \in Nat \ {0}
  BY <1>2, ReturnedAre
<1>4. TypeOK'
  <2>1. held' \in [Uids -> Nat] BY <1>1, <1>2 DEF TypeOK
  <2>2. \A k \in wallet' : k.value \in Nat \ {0} /\ k.uid \in Uids BY <1>1, <1>3 DEF TypeOK
  <2>3. settled' \subseteq {q.id : q \in proposals'} BY <1>0, <1>1 DEF TypeOK
  <2> QED BY <1>0, <2>1, <2>2, <2>3 DEF TypeOK, maps, bridge
<1>5. AmountsKept' BY <1>0 DEF AmountsKept, bridge
<1>6. MapsFollow' BY <1>0, MapsAlone
<1>7. CoinsKept'
  <2>1. IsFiniteSet(wallet')
    <3>1. IsFiniteSet(wallet \ p.inputs) BY FS_Subset DEF CoinsKept
    <3> QED BY <1>1, <1>3, <3>1, FS_Union
  <2>2. ASSUME NEW k \in wallet' PROVE /\ k.uid \in Uids /\ k.value \in Nat \ {0}
                                       /\ IF k.n = 0 THEN k.of \in settled' ELSE k.of \in deposited'
    <3>1. CASE k \in wallet BY <1>0, <1>1, <3>1 DEF CoinsKept
    <3>2. CASE k \in Returned(p) BY <1>1, <1>3, <3>2
    <3> QED BY <1>1, <3>1, <3>2
  <2> QED BY <2>1, <2>2 DEF CoinsKept
<1>8. ProposalsMade' BY <1>0, ProposalsAlone
<1> QED BY <1>4, <1>5, <1>6, <1>7, <1>8

\* A deposit keeps Made.
LEMMA DepositStep ==
  ASSUME Made, [Next]_vars, NEW c \in Inward, Deposit(c)
  PROVE  Made'
<1> USE DEF Made
<1>0. UNCHANGED <<maps, bridge, ballots, multisig>> BY DEF Deposit
<1>1. /\ IsFiniteSet(Coins(c)) /\ Total(c) \in Nat
      /\ \A k \in Coins(c) : k.of = c /\ k.n \in Nat \ {0} /\ k.uid = Uid[c] /\ k.value \in Nat \ {0}
  BY CoinsAre
<1>2. Uid[c] \in Uids BY CrossingsAssumption
<1>3. /\ deposited' = deposited \cup {c} /\ wallet' = wallet \cup Coins(c)
      /\ held' = [held EXCEPT ![Uid[c]] = @ - Total(c)] /\ held[Uid[c]] >= Total(c)
  BY DEF Deposit
<1>4. TypeOK'
  <2>1. held' \in [Uids -> Nat]
    <3>1. held[Uid[c]] \in Nat BY <1>2 DEF TypeOK
    <3>2. held[Uid[c]] - Total(c) \in Nat BY <1>1, <1>3, <3>1
    <3> QED BY <1>3, <3>2 DEF TypeOK
  <2>2. \A k \in wallet' : k.value \in Nat \ {0} /\ k.uid \in Uids BY <1>1, <1>2, <1>3 DEF TypeOK
  <2>3. deposited' \subseteq Inward BY <1>3 DEF TypeOK
  <2> QED BY <1>0, <2>1, <2>2, <2>3 DEF TypeOK, maps, bridge, multisig
<1>5. AmountsKept' BY <1>0 DEF AmountsKept, bridge
<1>6. MapsFollow' BY <1>0, MapsAlone
<1>7. CoinsKept'
  <2>1. IsFiniteSet(wallet') BY <1>1, <1>3, FS_Union DEF CoinsKept
  <2>2. ASSUME NEW k \in wallet' PROVE /\ k.uid \in Uids /\ k.value \in Nat \ {0}
                                       /\ IF k.n = 0 THEN k.of \in settled' ELSE k.of \in deposited'
    <3>1. CASE k \in wallet BY <1>0, <1>3, <3>1 DEF CoinsKept, multisig
    <3>2. CASE k \in Coins(c) BY <1>1, <1>2, <1>3, <3>2
    <3> QED BY <1>3, <3>1, <3>2
  <2> QED BY <2>1, <2>2 DEF CoinsKept
<1>8. ProposalsMade' BY <1>0, ProposalsAlone DEF multisig
<1> QED BY <1>4, <1>5, <1>6, <1>7, <1>8

\* The events of one EVM transaction, by their token.
SentOf(tx, t) == {x \in Outward : Event[x].tx = tx /\ Event[x].token = t}

\* What the events of one EVM transaction change.
LEMMA CrossIs ==
  ASSUME NEW tx, Cross(tx), TypeOK
  PROVE  LET Sent(t) == SumFunctionOnSet(Amounts, SentOf(tx, t)) IN
         /\ \A t : Sent(t) \in Nat /\ IsFiniteSet(SentOf(tx, t))
         /\ \A t \in Pseudo : Sent(t) <= minted[t]
         /\ mined' = mined \cup {c \in Outward : Event[c].tx = tx}
         /\ mined \cap {c \in Outward : Event[c].tx = tx} = {}
         /\ escrow' = [t \in Native |-> escrow[t] + Sent(t)]
         /\ minted' = [t \in Pseudo |-> minted[t] - Sent(t)]
<1> DEFINE Sent(t) == SumFunctionOnSet(Amounts, SentOf(tx, t))
           C == {c \in Outward : Event[c].tx = tx}
           Old(t) == SumFunction([c \in {x \in C : Event[x].token = t} |-> Event[c].amount])
<1>1. ASSUME NEW t PROVE Old(t) = Sent(t) /\ Sent(t) \in Nat /\ IsFiniteSet(SentOf(tx, t))
  <2> DEFINE S == SentOf(tx, t)
  <2>1. {x \in C : Event[x].token = t} = S BY DEF SentOf
  <2>2. S \subseteq Outward /\ IsFiniteSet(S)
    <3>1. S \subseteq Outward BY DEF SentOf
    <3> QED BY <3>1, SupplyAssumption, FS_Subset
  <2>3. \A x \in S : Amounts[x] = Event[x].amount /\ Amounts[x] \in Nat
    BY <2>2, CrossingsAssumption DEF Amounts
  <2> HIDE DEF S
  <2>4. [c \in S |-> Event[c].amount] = [c \in S |-> Amounts[c]] BY <2>3
  <2>5. SumFunction([c \in S |-> Amounts[c]]) = SumFunctionOnSet(Amounts, S) BY <2>2, <2>3, SumIs
  <2>6. SumFunctionOnSet(Amounts, S) \in Nat BY <2>2, <2>3, SumNat
  <2> QED BY <2>1, <2>2, <2>4, <2>5, <2>6 DEF S
<1>2. /\ C \cap mined = {} /\ \A t \in Pseudo : Old(t) <= minted[t]
      /\ mined' = mined \cup C
      /\ escrow' = [t \in Native |-> escrow[t] + Old(t)]
      /\ minted' = [t \in Pseudo |-> minted[t] - Old(t)]
  BY Zenon DEF Cross
<1>3. \A t : Old(t) = Sent(t) BY <1>1
<1> HIDE DEF Old
<1>4. escrow' = [t \in Native |-> escrow[t] + Sent(t)] /\ minted' = [t \in Pseudo |-> minted[t] - Sent(t)]
  <2> HIDE DEF Sent
  <2> QED BY <1>2, <1>3
<1> QED BY <1>1, <1>2, <1>3, <1>4

\* A crossing keeps Made.
LEMMA CrossStep ==
  ASSUME Made, [Next]_vars, NEW tx, Cross(tx)
  PROVE  Made'
<1> USE DEF Made
<1>0. UNCHANGED <<maps, accepted, claimed, hathor, ballots, multisig>> BY DEF Cross
<1> DEFINE Sent(t) == SumFunctionOnSet(Amounts, SentOf(tx, t))
<1>1. /\ \A t : Sent(t) \in Nat
      /\ \A t \in Pseudo : Sent(t) <= minted[t]
      /\ mined' = mined \cup {c \in Outward : Event[c].tx = tx}
      /\ escrow' = [t \in Native |-> escrow[t] + Sent(t)]
      /\ minted' = [t \in Pseudo |-> minted[t] - Sent(t)]
  BY CrossIs
<1> HIDE DEF Sent
<1>4. TypeOK'
  <2>1. escrow' \in [Native -> Nat] BY <1>1 DEF TypeOK
  <2>2. minted' \in [Pseudo -> Nat]
    <3>1. \A t \in Pseudo : minted[t] - Sent(t) \in Nat BY <1>1 DEF TypeOK
    <3> QED BY <1>1, <3>1
  <2>3. mined' \subseteq Outward BY <1>1 DEF TypeOK
  <2> QED BY <1>0, <2>1, <2>2, <2>3 DEF TypeOK, maps, hathor, multisig
<1>5. AmountsKept' BY <1>0 DEF AmountsKept
<1>6. MapsFollow' BY <1>0, MapsAlone
<1>7. CoinsKept' BY <1>0, CoinsAlone DEF hathor, multisig
<1>8. ProposalsMade' BY <1>0, ProposalsAlone DEF multisig
<1> QED BY <1>4, <1>5, <1>6, <1>7, <1>8

\* A claim releases what was accepted, digits cut off, or mints it.
LEMMA ClaimIs ==
  ASSUME TypeOK, AmountsKept, NEW c \in Inward, Claim(c)
  PROVE  LET b == accepted[c] IN
         /\ b # Unmapped /\ c \notin claimed /\ claimed' = claimed \cup {c}
         /\ b.amount = ToEvm(Total(c)) /\ b.amount \in Nat
         /\ \/ /\ b.token \in Native /\ UNCHANGED minted
               /\ FromEvm(b.amount, Decimals[b.token]) \in 0..escrow[b.token]
               /\ escrow' = [escrow EXCEPT ![b.token] = @ - FromEvm(b.amount, Decimals[b.token])]
            \/ /\ b.token \in Pseudo /\ UNCHANGED escrow
               /\ minted' = [minted EXCEPT ![b.token] = @ + b.amount]
<1> DEFINE b == accepted[c]
<1>1. b # Unmapped /\ c \notin claimed /\ claimed' = claimed \cup {c} BY DEF Claim
<1>2. b.amount = ToEvm(Total(c)) BY <1>1 DEF AmountsKept
<1>3. b.amount \in Nat BY <1>2, CoinsAre, ToEvmAdds
<1>4. CASE /\ b.token \in Native /\ UNCHANGED minted
           /\ escrow[b.token] >= FromEvm(b.amount, Decimals[b.token])
           /\ escrow' = [escrow EXCEPT ![b.token] = @ - FromEvm(b.amount, Decimals[b.token])]
  <2>1. Decimals[b.token] \in 0..18 BY <1>4, TokensAssumption
  <2>2. FromEvm(b.amount, Decimals[b.token]) \in Nat BY <1>3, <2>1, FromEvmCuts
  <2>3. escrow[b.token] \in Nat BY <1>4 DEF TypeOK
  <2>4. FromEvm(b.amount, Decimals[b.token]) \in 0..escrow[b.token] BY <1>4, <2>2, <2>3
  <2> QED BY <1>1, <1>2, <1>3, <1>4, <2>4
<1>5. CASE /\ b.token \in Pseudo /\ UNCHANGED escrow
           /\ minted' = [minted EXCEPT ![b.token] = @ + b.amount]
  BY <1>1, <1>2, <1>3, <1>5
<1> QED BY <1>4, <1>5 DEF Claim

\* A claim keeps Made.
LEMMA ClaimStep ==
  ASSUME Made, [Next]_vars, NEW c \in Inward, Claim(c)
  PROVE  Made'
<1> USE DEF Made
<1>0. UNCHANGED <<maps, mined, accepted, hathor, ballots, multisig>> BY DEF Claim
<1> DEFINE b == accepted[c]
           x == FromEvm(b.amount, Decimals[b.token])
<1>1. /\ claimed' = claimed \cup {c} /\ b.amount \in Nat
      /\ \/ /\ b.token \in Native /\ UNCHANGED minted
            /\ x \in 0..escrow[b.token] /\ escrow' = [escrow EXCEPT ![b.token] = @ - x]
         \/ /\ b.token \in Pseudo /\ UNCHANGED escrow
            /\ minted' = [minted EXCEPT ![b.token] = @ + b.amount]
  BY ClaimIs
<1> HIDE DEF x, b
<1>2. TypeOK'
  <2>1. escrow' \in [Native -> Nat] /\ minted' \in [Pseudo -> Nat]
    <3>1. CASE /\ b.token \in Native /\ UNCHANGED minted
               /\ x \in 0..escrow[b.token] /\ escrow' = [escrow EXCEPT ![b.token] = @ - x]
      <4>1. escrow[b.token] \in Nat BY <3>1 DEF TypeOK
      <4>2. escrow[b.token] - x \in Nat BY <3>1, <4>1
      <4> QED BY <3>1, <4>2 DEF TypeOK
    <3>2. CASE b.token \in Pseudo /\ UNCHANGED escrow /\ minted' = [minted EXCEPT ![b.token] = @ + b.amount]
      <4>1. minted[b.token] + b.amount \in Nat BY <1>1, <3>2 DEF TypeOK
      <4> QED BY <3>2, <4>1 DEF TypeOK
    <3> QED BY <1>1, <3>1, <3>2
  <2>2. claimed' \subseteq Inward BY <1>1 DEF TypeOK
  <2> QED BY <1>0, <2>1, <2>2 DEF TypeOK, maps, hathor, multisig
<1>3. AmountsKept' BY <1>0 DEF AmountsKept
<1>4. MapsFollow' BY <1>0, MapsAlone
<1>5. CoinsKept' BY <1>0, CoinsAlone DEF hathor, multisig
<1>6. ProposalsMade' BY <1>0, ProposalsAlone DEF multisig
<1> QED BY <1>2, <1>3, <1>4, <1>5, <1>6

\* What the vote that suffices makes the bridge accept.
LEMMA VoteIs ==
  ASSUME TypeOK, NEW c \in Inward, NEW f \in Federators, Vote(f, c)
  PROVE  LET b == [token |-> toEvm[Uid[c]].token, amount |-> ToEvm(Total(c))] IN
         /\ c \in deposited /\ (InwardId(c) \in settled \/ toEvm[Uid[c]].chain = Hathor)
         /\ \/ accepted' = accepted
            \/ /\ accepted' = [accepted EXCEPT ![c] = b]
               /\ accepted[c] = Unmapped /\ b.token \in Native \cup Pseudo
<1> DEFINE b == [token |-> toEvm[Uid[c]].token, amount |-> ToEvm(Total(c))]
           enough == Cardinality({g \in Federators : <<g, c, b>> \in ballots} \cup {f}) >= Threshold
<1>1. /\ c \in deposited /\ (InwardId(c) \in settled \/ toEvm[Uid[c]].chain = Hathor)
      /\ enough => accepted[c] = Unmapped /\ Known(b.token)
      /\ accepted' = IF enough THEN [accepted EXCEPT ![c] = b] ELSE accepted
  BY Zenon DEF Vote
<1> HIDE DEF b, enough
<1>2. Known(b.token) => b.token \in Native \cup Pseudo BY CrossingsAssumption DEF Known, TypeOK
<1>3. \/ accepted' = accepted
      \/ /\ accepted' = [accepted EXCEPT ![c] = b]
         /\ accepted[c] = Unmapped /\ b.token \in Native \cup Pseudo
  BY <1>1, <1>2
<1> QED BY <1>1, <1>3 DEF b

\* A vote keeps Made.
LEMMA VoteStep ==
  ASSUME Made, [Next]_vars, NEW c \in Inward, NEW f \in Federators, Vote(f, c)
  PROVE  Made'
<1> USE DEF Made
<1>0. UNCHANGED <<maps, escrow, minted, mined, claimed, hathor, multisig>> BY DEF Vote
<1> DEFINE b == [token |-> toEvm[Uid[c]].token, amount |-> ToEvm(Total(c))]
<1>1. accepted' = accepted \/ accepted' = [accepted EXCEPT ![c] = b] BY VoteIs
<1>2. b.amount = ToEvm(Total(c)) OBVIOUS
<1> HIDE DEF b
<1>3. DOMAIN accepted' = Inward BY <1>1 DEF TypeOK
<1>4. TypeOK' BY <1>0, <1>3 DEF TypeOK, maps, hathor, multisig
<1>5. AmountsKept' BY <1>1, <1>2 DEF AmountsKept, TypeOK
<1>6. MapsFollow' BY <1>0, MapsAlone
<1>7. CoinsKept' BY <1>0, CoinsAlone DEF hathor, multisig
<1>8. ProposalsMade' BY <1>0, ProposalsAlone DEF multisig
<1> QED BY <1>4, <1>5, <1>6, <1>7, <1>8

\* A signature keeps Made.
LEMMA SignStep ==
  ASSUME Made, [Next]_vars, NEW p \in proposals, NEW f \in Federators, Sign(f, p)
  PROVE  Made'
<1> USE DEF Made
<1>0. UNCHANGED <<maps, bridge, hathor, ballots, proposals, settled>> BY DEF Sign
<1>1. DOMAIN signed' = DOMAIN signed BY DEF Sign
<1>2. TypeOK' BY <1>0, <1>1 DEF TypeOK, maps, bridge, hathor
<1>3. AmountsKept' BY <1>0 DEF AmountsKept, bridge
<1>4. MapsFollow' BY <1>0, MapsAlone
<1>5. CoinsKept' BY <1>0, CoinsAlone DEF hathor
<1>6. ProposalsMade' BY <1>0, ProposalsAlone
<1> QED BY <1>2, <1>3, <1>4, <1>5, <1>6

\* A call of addHathorToken keeps Made.
LEMMA AddHathorTokenStep ==
  ASSUME Made, [Next]_vars, NEW m \in Remaps, AddHathorToken(m)
  PROVE  Made'
<1> USE DEF Made
<1>0. UNCHANGED <<bridge, hathor, ballots, multisig>> BY DEF AddHathorToken
<1>1. m.uid \in Uids /\ m.token \in Native \cup Pseudo BY TokensAssumption DEF Mappings
<1>2. TypeOK'
  <2>1. toHathor' \in [Native \cup Pseudo -> Uids \cup {None}] BY <1>1 DEF AddHathorToken, TypeOK
  <2>2. DOMAIN toEvm' = Uids \cup {None} /\ remaps' \subseteq Remaps BY DEF AddHathorToken, TypeOK
  <2> QED BY <1>0, <2>1, <2>2 DEF TypeOK, bridge, hathor, multisig
<1>3. AmountsKept' BY <1>0 DEF AmountsKept, bridge
<1>4. MapsFollow' BY MapsStep
<1>5. CoinsKept' BY <1>0, CoinsAlone DEF hathor, multisig
<1>6. ProposalsMade' BY ProposalsRemapped
<1> QED BY <1>2, <1>3, <1>4, <1>5, <1>6

\* Made at first.
LEMMA MadeAtFirst == Init => Made
<1> SUFFICES ASSUME Init PROVE Made
  OBVIOUS
<1> USE DEF Init
<1>0. Calls = FirstMap BY DEF Calls
<1>1. \A m \in FirstMap : m \in Mappings /\ m.uid \in Uids /\ m.token \in Native \cup Pseudo
  BY TokensAssumption DEF Mappings
<1>2. TypeOK
  <2>1. ASSUME NEW t \in Native \cup Pseudo PROVE toHathor[t] \in Uids \cup {None}
    <3>1. CASE \E m \in FirstMap : m.token = t
      <4>1. (CHOOSE m \in FirstMap : m.token = t) \in FirstMap BY <3>1
      <4>2. toHathor[t] = (CHOOSE m \in FirstMap : m.token = t).uid BY <3>1
      <4> QED BY <1>1, <4>1, <4>2
    <3> QED BY <3>1
  <2>2. toHathor \in [Native \cup Pseudo -> Uids \cup {None}] BY <2>1
  <2>3. held \in [Uids -> Nat] BY SupplyAssumption
  <2> QED BY <2>2, <2>3 DEF TypeOK
<1>3. AmountsKept BY DEF AmountsKept
<1>4. MapsFollow
  <2>1. ASSUME NEW t \in Native \cup Pseudo, toHathor[t] # None
        PROVE  \E m \in Calls : m.token = t /\ m.uid = toHathor[t]
    <3>1. \E m \in FirstMap : m.token = t BY <2>1
    <3> DEFINE m == CHOOSE x \in FirstMap : x.token = t
    <3>2. m \in FirstMap /\ m.token = t BY <3>1
    <3>3. toHathor[t] = m.uid BY <3>1
    <3> HIDE DEF m
    <3> QED BY <1>0, <3>2, <3>3
  <2>2. ASSUME NEW u \in Uids, Mapped(u)
        PROVE  \E m \in Calls : m.uid = u /\ toEvm[u] = [chain |-> m.chain, token |-> m.token]
    <3>1. \E m \in FirstMap : m.uid = u BY <1>0, <2>2 DEF Mapped
    <3> DEFINE m == CHOOSE x \in FirstMap : x.uid = u
    <3>2. m \in FirstMap /\ m.uid = u BY <3>1
    <3>3. toEvm[u] = [chain |-> m.chain, token |-> m.token] BY <3>1
    <3> HIDE DEF m
    <3> QED BY <1>0, <3>2, <3>3
  <2>3. ASSUME NEW u \in Uids, ~Mapped(u) PROVE toEvm[u] = Unmapped
    <3>1. ~\E m \in FirstMap : m.uid = u BY <1>0, <2>3 DEF Mapped
    <3> QED BY <3>1
  <2>4. toEvm[None] = Unmapped
    <3>1. ~\E m \in FirstMap : m.uid = None BY <1>1, TokensAssumption
    <3> QED BY <3>1
  <2> QED BY <2>1, <2>2, <2>3, <2>4 DEF MapsFollow
<1>5. CoinsKept BY FS_EmptySet DEF CoinsKept
<1>6. ProposalsMade BY DEF ProposalsMade
<1> QED BY <1>2, <1>3, <1>4, <1>5, <1>6 DEF Made

\* Every step keeps Made, clash or not.
LEMMA MadeStep ==
  ASSUME Made, [Next]_vars
  PROVE  Made'
<1>1. CASE \E tx \in {Event[c].tx : c \in Outward} : Cross(tx) BY <1>1, CrossStep
<1>2. CASE \E c \in Inward : Deposit(c) BY <1>2, DepositStep
<1>3. CASE \E m \in Remaps : AddHathorToken(m) BY <1>3, AddHathorTokenStep
<1>4. CASE \E c \in Outward \cup Inward : Propose(c) BY <1>4, ProposeStep
<1>5. CASE \E p \in proposals : Push(p) BY <1>5, PushStep
<1>6. CASE \E p \in proposals, f \in Federators : Sign(f, p) BY <1>6, SignStep
<1>7. CASE \E c \in Inward : Claim(c) BY <1>7, ClaimStep
<1>8. CASE \E c \in Inward, f \in Federators : Vote(f, c) BY <1>8, VoteStep
<1>9. CASE UNCHANGED vars
  <2> USE DEF Made
  <2>0. UNCHANGED <<maps, bridge, hathor, multisig>> BY <1>9 DEF vars
  <2>1. TypeOK' BY <2>0 DEF TypeOK, maps, bridge, hathor, multisig
  <2>2. AmountsKept' BY <2>0 DEF AmountsKept, bridge
  <2>3. MapsFollow' BY <2>0, MapsAlone
  <2>4. CoinsKept' BY <2>0, CoinsAlone DEF hathor, multisig
  <2>5. ProposalsMade' BY <2>0, ProposalsAlone DEF multisig
  <2> QED BY <2>1, <2>2, <2>3, <2>4, <2>5
<1> QED BY <1>1, <1>2, <1>3, <1>4, <1>5, <1>6, <1>7, <1>8, <1>9 DEF Next, Serve

-----------------------------------------------------------------------------
(* What there is.                                                          *)

\* What the crossings are worth are natural numbers.
LEMMA ThereIs ==
  /\ \A c \in Inward : Totals[c] = Total(c) /\ EvmTotals[c] = ToEvm(Total(c)) /\ Totals[c] \in Nat /\ EvmTotals[c] \in Nat
  /\ \A c \in Outward : Amounts[c] = Event[c].amount /\ Amounts[c] \in Nat
<1>1. ASSUME NEW c \in Inward
      PROVE  Totals[c] = Total(c) /\ EvmTotals[c] = ToEvm(Total(c)) /\ Totals[c] \in Nat /\ EvmTotals[c] \in Nat
  <2>1. Total(c) \in Nat BY CoinsAre
  <2>2. ToEvm(Total(c)) \in Nat BY <2>1, ToEvmAdds
  <2> QED BY <2>1, <2>2 DEF Totals, EvmTotals
<1>2. \A c \in Outward : Amounts[c] = Event[c].amount /\ Amounts[c] \in Nat
  BY CrossingsAssumption DEF Amounts
<1> QED BY <1>1, <1>2

\* What is held of each token is a natural number.
LEMMA KeptIs ==
  Made =>
    /\ \A u \in Uids : /\ KeptBy[u] = Value(Of(wallet, u)) /\ KeptBy[u] \in Nat
                       /\ HeldBy[u] = held[u] + KeptBy[u] /\ HeldBy[u] \in Nat
    /\ \A U \in SUBSET Uids : SumFunctionOnSet(KeptBy, U) \in Nat /\ SumFunctionOnSet(HeldBy, U) \in Nat
<1> SUFFICES ASSUME Made
             PROVE  /\ \A u \in Uids : /\ KeptBy[u] = Value(Of(wallet, u)) /\ KeptBy[u] \in Nat
                                       /\ HeldBy[u] = held[u] + KeptBy[u] /\ HeldBy[u] \in Nat
                    /\ \A U \in SUBSET Uids : SumFunctionOnSet(KeptBy, U) \in Nat /\ SumFunctionOnSet(HeldBy, U) \in Nat
  OBVIOUS
<1>1. ASSUME NEW u \in Uids
      PROVE  /\ KeptBy[u] = Value(Of(wallet, u)) /\ KeptBy[u] \in Nat
             /\ HeldBy[u] = held[u] + KeptBy[u] /\ HeldBy[u] \in Nat
  <2>1. IsFiniteSet(Of(wallet, u)) /\ \A k \in Of(wallet, u) : k.value \in Nat
    BY FS_Subset DEF Made, CoinsKept, Of
  <2>2. Value(Of(wallet, u)) \in Nat BY <2>1, ValueNat
  <2>3. held[u] \in Nat BY DEF Made, TypeOK
  <2>4. KeptBy[u] = Value(Of(wallet, u)) /\ HeldBy[u] = held[u] + Value(Of(wallet, u)) BY DEF KeptBy, HeldBy
  <2> QED BY <2>2, <2>3, <2>4
<1>2. ASSUME NEW U \in SUBSET Uids
      PROVE  SumFunctionOnSet(KeptBy, U) \in Nat /\ SumFunctionOnSet(HeldBy, U) \in Nat
  <2>1. IsFiniteSet(U) BY SupplyAssumption, FS_Subset
  <2> QED BY <1>1, <2>1, SumNat
<1> QED BY <1>1, <1>2

\* The sets that are added up are finite, and their sums natural numbers.
LEMMA SetsAre ==
  Made => /\ \A t, ch : Standing(t, ch) \subseteq Uids /\ IsFiniteSet(Standing(t, ch))
          /\ \A U : MeltedFor(U) \subseteq Inward /\ IsFiniteSet(MeltedFor(U))
          /\ \A U : WaitingFor(U) \subseteq Inward /\ IsFiniteSet(WaitingFor(U))
          /\ \A t : UnpaidOf(t) \subseteq Outward /\ IsFiniteSet(UnpaidOf(t))
          /\ \A U : SumFunctionOnSet(Totals, MeltedFor(U)) \in Nat
          /\ \A U : SumFunctionOnSet(EvmTotals, WaitingFor(U)) \in Nat
          /\ \A t : SumFunctionOnSet(Amounts, UnpaidOf(t)) \in Nat
<1> SUFFICES ASSUME Made
             PROVE  /\ \A t, ch : Standing(t, ch) \subseteq Uids /\ IsFiniteSet(Standing(t, ch))
                    /\ \A U : MeltedFor(U) \subseteq Inward /\ IsFiniteSet(MeltedFor(U))
                    /\ \A U : WaitingFor(U) \subseteq Inward /\ IsFiniteSet(WaitingFor(U))
                    /\ \A t : UnpaidOf(t) \subseteq Outward /\ IsFiniteSet(UnpaidOf(t))
                    /\ \A U : SumFunctionOnSet(Totals, MeltedFor(U)) \in Nat
                    /\ \A U : SumFunctionOnSet(EvmTotals, WaitingFor(U)) \in Nat
                    /\ \A t : SumFunctionOnSet(Amounts, UnpaidOf(t)) \in Nat
  OBVIOUS
<1>1. ASSUME NEW t, NEW ch PROVE Standing(t, ch) \subseteq Uids /\ IsFiniteSet(Standing(t, ch))
  <2>1. Standing(t, ch) \subseteq Uids BY DEF Standing
  <2> QED BY <2>1, SupplyAssumption, FS_Subset
<1>2. ASSUME NEW U PROVE MeltedFor(U) \subseteq Inward /\ IsFiniteSet(MeltedFor(U))
  <2>1. MeltedFor(U) \subseteq Inward BY DEF MeltedFor
  <2> QED BY <2>1, SupplyAssumption, FS_Subset
<1>3. ASSUME NEW U PROVE WaitingFor(U) \subseteq Inward /\ IsFiniteSet(WaitingFor(U))
  <2>1. WaitingFor(U) \subseteq Inward BY DEF WaitingFor, Made, TypeOK
  <2> QED BY <2>1, SupplyAssumption, FS_Subset
<1>4. ASSUME NEW t PROVE UnpaidOf(t) \subseteq Outward /\ IsFiniteSet(UnpaidOf(t))
  <2>1. UnpaidOf(t) \subseteq Outward BY DEF UnpaidOf, Made, TypeOK
  <2> QED BY <2>1, SupplyAssumption, FS_Subset
<1>5. ASSUME NEW U PROVE SumFunctionOnSet(Totals, MeltedFor(U)) \in Nat
  <2>1. \A c \in MeltedFor(U) : Totals[c] \in Nat BY <1>2, ThereIs
  <2> QED BY <1>2, <2>1, SumNat
<1>6. ASSUME NEW U PROVE SumFunctionOnSet(EvmTotals, WaitingFor(U)) \in Nat
  <2>1. \A c \in WaitingFor(U) : EvmTotals[c] \in Nat BY <1>3, ThereIs
  <2> QED BY <1>3, <2>1, SumNat
<1>7. ASSUME NEW t PROVE SumFunctionOnSet(Amounts, UnpaidOf(t)) \in Nat
  <2>1. \A c \in UnpaidOf(t) : Amounts[c] \in Nat BY <1>4, ThereIs
  <2> QED BY <1>4, <2>1, SumNat
<1> QED BY <1>1, <1>2, <1>3, <1>4, <1>5, <1>6, <1>7

\* As long as no token was given to the wrong chain, or twice, the maps are the calls.
LEMMA CallIs ==
  ASSUME Made, ~Clash
  PROVE  /\ \A m \in Calls : /\ toEvm[m.uid] = [chain |-> m.chain, token |-> m.token]
                             /\ m.uid \in Uids /\ m.token \in Native \cup Pseudo /\ m.chain \in {Evm, Hathor}
                             /\ m.chain = Evm <=> m.token \in Native
         /\ \A u \in Uids :
              LET t == toEvm[u].token IN
              \/ Mapped(u) /\ toEvm[u].chain = Evm /\ t \in Native /\ u \in Standing(t, Evm)
              \/ Mapped(u) /\ toEvm[u].chain = Hathor /\ t \in Pseudo /\ u \in Standing(t, Hathor)
              \/ ~Mapped(u) /\ toEvm[u] = Unmapped /\ t \notin Native \cup Pseudo
<1>0. Calls \subseteq Mappings BY TokensAssumption DEF Calls, Made, TypeOK
<1>1. ASSUME NEW m \in Calls
      PROVE  /\ toEvm[m.uid] = [chain |-> m.chain, token |-> m.token]
             /\ m.uid \in Uids /\ m.token \in Native \cup Pseudo /\ m.chain \in {Evm, Hathor}
             /\ m.chain = Evm <=> m.token \in Native
  <2>1. m.uid \in Uids /\ m.token \in Native \cup Pseudo /\ m.chain \in {Evm, Hathor} BY <1>0 DEF Mappings
  <2>2. Mapped(m.uid) BY DEF Mapped
  <2>3. PICK n \in Calls : n.uid = m.uid /\ toEvm[m.uid] = [chain |-> n.chain, token |-> n.token]
    BY <2>1, <2>2 DEF Made, MapsFollow
  <2>4. n.token = m.token /\ n.chain = m.chain BY <2>3 DEF Clash, Calls
  <2>5. m.chain = Evm <=> m.token \in Native BY DEF Clash, Calls
  <2> QED BY <2>1, <2>3, <2>4, <2>5
<1>2. ASSUME NEW u \in Uids
      PROVE  LET t == toEvm[u].token IN
             \/ Mapped(u) /\ toEvm[u].chain = Evm /\ t \in Native /\ u \in Standing(t, Evm)
             \/ Mapped(u) /\ toEvm[u].chain = Hathor /\ t \in Pseudo /\ u \in Standing(t, Hathor)
             \/ ~Mapped(u) /\ toEvm[u] = Unmapped /\ t \notin Native \cup Pseudo
  <2>1. CASE Mapped(u)
    <3>1. PICK m \in Calls : m.uid = u BY <2>1 DEF Mapped
    <3>2. /\ toEvm[u] = [chain |-> m.chain, token |-> m.token]
          /\ m.token \in Native \cup Pseudo /\ m.chain \in {Evm, Hathor}
          /\ m.chain = Evm <=> m.token \in Native
      BY <1>1, <3>1
    <3>3. toEvm[u].chain = m.chain /\ toEvm[u].token = m.token BY <3>2
    <3>4. u \in Standing(m.token, m.chain) BY <3>2 DEF Standing
    <3> QED BY <2>1, <3>2, <3>3, <3>4
  <2>2. CASE ~Mapped(u)
    <3>1. toEvm[u] = Unmapped BY <2>2 DEF Made, MapsFollow
    <3>2. Unmapped.token \notin Native \cup Pseudo BY TokensAssumption DEF Unmapped
    <3> QED BY <2>2, <3>1, <3>2
  <2> QED BY <2>1, <2>2
<1> QED BY <1>1, <1>2

-----------------------------------------------------------------------------
(* What is owed, step by step, while no token clashes.                     *)

\* A step that accepts nothing and leaves the maps alone.
LEMMA AcceptedAlone ==
  ASSUME AcceptedSound, UNCHANGED <<accepted, toEvm>>, deposited \subseteq deposited', settled \subseteq settled'
  PROVE  AcceptedSound'
BY DEF AcceptedSound

\* A step that moves nothing.
LEMMA CoveredAlone ==
  ASSUME Covered, UNCHANGED <<maps, bridge, hathor, settled>>
  PROVE  Covered'
<1>1. UNCHANGED <<toHathor, toEvm, remaps, escrow, minted, mined, accepted, claimed, wallet, held, deposited>>
  BY DEF maps, bridge, hathor
<1>2. AcceptedSound' BY <1>1 DEF Covered, AcceptedSound
<1>3. KeptBy' = KeptBy /\ HeldBy' = HeldBy BY <1>1 DEF KeptBy, HeldBy
<1>4. /\ \A u : Mapped(u)' = Mapped(u)
      /\ \A U : MeltedFor(U)' = MeltedFor(U) /\ WaitingFor(U)' = WaitingFor(U)
      /\ \A t : UnpaidOf(t)' = UnpaidOf(t)
      /\ \A t, ch : Standing(t, ch)' = Standing(t, ch)
  BY <1>1 DEF Mapped, Calls, MeltedFor, WaitingFor, UnpaidOf, Standing, Settled
<1>5. StrangersKept' BY <1>3, <1>4 DEF Covered, StrangersKept
<1>6. EscrowSuffices' BY <1>1, <1>3, <1>4 DEF Covered, EscrowSuffices, Owed
<1>7. WalletSuffices' BY <1>1, <1>3, <1>4 DEF Covered, WalletSuffices
<1> QED BY <1>2, <1>5, <1>6, <1>7 DEF Covered

\* What a vote makes the bridge accept was deposited, and melted if it must be.
LEMMA VoteCovered ==
  ASSUME Made, ~Clash, Covered, NEW c \in Inward, NEW f \in Federators, Vote(f, c)
  PROVE  Covered'
<1>0. UNCHANGED <<maps, escrow, minted, mined, claimed, hathor, multisig>> BY DEF Vote
<1>1. UNCHANGED <<toHathor, toEvm, remaps, escrow, minted, mined, claimed, wallet, held, deposited, settled>>
  BY <1>0 DEF maps, hathor, multisig
<1>2. AcceptedSound'
  <2> DEFINE b == [token |-> toEvm[Uid[c]].token, amount |-> ToEvm(Total(c))]
  <2>1. /\ c \in deposited /\ (InwardId(c) \in settled \/ toEvm[Uid[c]].chain = Hathor)
        /\ \/ accepted' = accepted
           \/ /\ accepted' = [accepted EXCEPT ![c] = b]
              /\ accepted[c] = Unmapped /\ b.token \in Native \cup Pseudo
    BY VoteIs DEF Made
  <2>2. CASE accepted' = accepted
    BY <1>1, <2>2 DEF Covered, AcceptedSound
  <2>3. CASE accepted' = [accepted EXCEPT ![c] = b] /\ b.token \in Native \cup Pseudo
    <3>1. Uid[c] \in Uids BY CrossingsAssumption
    <3>2. toEvm[Uid[c]].token \in Native => InwardId(c) \in settled
      <4>1. \/ toEvm[Uid[c]].chain = Evm
            \/ toEvm[Uid[c]].chain = Hathor /\ toEvm[Uid[c]].token \in Pseudo
            \/ toEvm[Uid[c]].token \notin Native
        BY <3>1, CallIs
      <4> QED BY <2>1, <4>1, TokensAssumption DEF Evm, Hathor
    <3>3. b.token = toEvm[Uid[c]].token OBVIOUS
    <3>4. \A d \in Inward : accepted'[d] = IF d = c THEN b ELSE accepted[d] BY <2>3 DEF Made, TypeOK
    <3>5. ASSUME NEW d \in Inward, accepted'[d] # Unmapped
          PROVE  LET t == toEvm'[Uid[d]].token IN
                 /\ d \in deposited' /\ t \in Native \cup Pseudo
                 /\ accepted'[d] = [token |-> t, amount |-> ToEvm(Total(d))]
                 /\ t \in Native => InwardId(d) \in settled'
      <4>1. CASE d = c BY <1>1, <2>1, <2>3, <3>2, <3>3, <3>4, <4>1
      <4>2. CASE d # c
        <5>1. accepted'[d] = accepted[d] BY <3>4, <4>2
        <5> QED BY <1>1, <3>5, <5>1 DEF Covered, AcceptedSound
      <4> QED BY <4>1, <4>2
    <3> QED BY <3>5 DEF AcceptedSound
  <2> QED BY <2>1, <2>2, <2>3
<1>3. KeptBy' = KeptBy /\ HeldBy' = HeldBy BY <1>1 DEF KeptBy, HeldBy
<1>4. /\ \A u : Mapped(u)' = Mapped(u)
      /\ \A U : MeltedFor(U)' = MeltedFor(U) /\ WaitingFor(U)' = WaitingFor(U)
      /\ \A t : UnpaidOf(t)' = UnpaidOf(t)
      /\ \A t, ch : Standing(t, ch)' = Standing(t, ch)
  BY <1>1 DEF Mapped, Calls, MeltedFor, WaitingFor, UnpaidOf, Standing, Settled
<1>5. StrangersKept' BY <1>3, <1>4 DEF Covered, StrangersKept
<1>6. EscrowSuffices' BY <1>1, <1>3, <1>4 DEF Covered, EscrowSuffices, Owed
<1>7. WalletSuffices' BY <1>1, <1>3, <1>4 DEF Covered, WalletSuffices
<1> QED BY <1>2, <1>5, <1>6, <1>7 DEF Covered

\* A deposit moves coins from its user to the wallet.
LEMMA DepositCovered ==
  ASSUME Made, ~Clash, Covered, NEW c \in Inward, Deposit(c)
  PROVE  Covered'
<1>0. UNCHANGED <<maps, bridge, ballots, multisig>> BY DEF Deposit
<1>1. UNCHANGED <<toHathor, toEvm, remaps, escrow, minted, mined, accepted, claimed, settled>>
  BY <1>0 DEF maps, bridge, multisig
<1>2. /\ c \notin deposited /\ deposited' = deposited \cup {c} /\ wallet' = wallet \cup Coins(c)
      /\ held' = [held EXCEPT ![Uid[c]] = @ - Total(c)]
  BY DEF Deposit
<1>3. Uid[c] \in Uids /\ Total(c) \in Nat BY CrossingsAssumption, CoinsAre
<1>4. AcceptedSound' BY <1>1, <1>2, AcceptedAlone DEF Covered
<1>5. ASSUME NEW u \in Uids
      PROVE  /\ KeptBy'[u] = IF u = Uid[c] THEN KeptBy[u] + Total(c) ELSE KeptBy[u]
             /\ HeldBy'[u] = HeldBy[u]
  <2>1. /\ IsFiniteSet(Coins(c))
        /\ \A k \in Coins(c) : k.of = c /\ k.n \in Nat \ {0} /\ k.uid = Uid[c] /\ k.value \in Nat
    BY CoinsAre
  <2>2. wallet \cap Coins(c) = {} BY <1>2, <2>1 DEF Made, CoinsKept
  <2>3. Of(wallet', u) = Of(wallet, u) \cup Of(Coins(c), u) BY <1>2 DEF Of
  <2>4. Value(Of(wallet', u)) = Value(Of(wallet, u)) + Value(Of(Coins(c), u))
    <3>1. IsFiniteSet(Of(wallet, u)) /\ IsFiniteSet(Of(Coins(c), u)) BY <2>1, OfParts DEF Made, CoinsKept
    <3>2. Of(wallet, u) \cap Of(Coins(c), u) = {} BY <2>2 DEF Of
    <3>3. \A k \in Of(wallet, u) \cup Of(Coins(c), u) : k.value \in Int BY <2>1 DEF Of, Made, CoinsKept
    <3> QED BY <2>3, <3>1, <3>2, <3>3, ValueUnion
  <2>5. Value(Of(Coins(c), u)) = IF u = Uid[c] THEN Total(c) ELSE 0
    <3>1. CASE u = Uid[c]
      <4>1. Of(Coins(c), u) = Coins(c) BY <2>1, <3>1 DEF Of
      <4> QED BY <3>1, <4>1 DEF Total
    <3>2. CASE u # Uid[c]
      <4>1. Of(Coins(c), u) = {} BY <2>1, <3>2 DEF Of
      <4> QED BY <3>2, <4>1, ValueEmpty
    <3> QED BY <3>1, <3>2
  <2>6. KeptBy'[u] = Value(Of(wallet', u)) /\ HeldBy'[u] = held'[u] + Value(Of(wallet', u)) BY DEF KeptBy, HeldBy
  <2>7. held'[u] = IF u = Uid[c] THEN held[u] - Total(c) ELSE held[u] BY <1>2 DEF Made, TypeOK
  <2>8. /\ KeptBy[u] = Value(Of(wallet, u)) /\ KeptBy[u] \in Nat
        /\ HeldBy[u] = held[u] + KeptBy[u]
    BY KeptIs
  <2>9. held[u] \in Nat BY DEF Made, TypeOK
  <2> QED BY <1>3, <2>4, <2>5, <2>6, <2>7, <2>8, <2>9
<1>6. \A u \in Uids : KeptBy[u] \in Nat /\ HeldBy[u] \in Nat BY KeptIs
<1>7. ASSUME NEW U \in SUBSET Uids
      PROVE  /\ SumFunctionOnSet(HeldBy', U) = SumFunctionOnSet(HeldBy, U)
             /\ SumFunctionOnSet(KeptBy', U) = SumFunctionOnSet(KeptBy, U) + IF Uid[c] \in U THEN Total(c) ELSE 0
             /\ SumFunctionOnSet(EvmTotals, WaitingFor(U)')
                  <= SumFunctionOnSet(EvmTotals, WaitingFor(U)) + IF Uid[c] \in U THEN ToEvm(Total(c)) ELSE 0
  <2>0. IsFiniteSet(U) BY SupplyAssumption, FS_Subset
  <2>1. SumFunctionOnSet(HeldBy', U) = SumFunctionOnSet(HeldBy, U)
    <3>1. \A u \in U : HeldBy'[u] = HeldBy[u] /\ HeldBy'[u] \in Int BY <1>5, <1>6
    <3> QED BY <2>0, <3>1, SumAgree
  <2>2. IsFiniteSet(WaitingFor(U)) /\ WaitingFor(U) \subseteq Inward /\ SumFunctionOnSet(EvmTotals, WaitingFor(U)) \in Nat
    BY SetsAre
  <2>3. SumFunctionOnSet(KeptBy, U) \in Nat BY KeptIs
  <2>4. CASE Uid[c] \in U
    <3>1. SumFunctionOnSet(KeptBy', U) = SumFunctionOnSet(KeptBy, U) + (KeptBy'[Uid[c]] - KeptBy[Uid[c]])
      <4>1. \A u \in U : KeptBy[u] \in Int /\ KeptBy'[u] \in Int BY <1>3, <1>5, <1>6
      <4>2. \A u \in U \ {Uid[c]} : KeptBy'[u] = KeptBy[u] BY <1>5
      <4> QED BY <2>0, <2>4, <4>1, <4>2, SumChange
    <3>2. KeptBy'[Uid[c]] - KeptBy[Uid[c]] = Total(c) BY <1>3, <1>5, <1>6
    <3>3. WaitingFor(U)' \subseteq WaitingFor(U) \cup {c} BY <1>1, <1>2 DEF WaitingFor
    <3>4. \A d \in WaitingFor(U) \cup {c} : EvmTotals[d] \in Nat BY <2>2, ThereIs
    <3>5. SumFunctionOnSet(EvmTotals, WaitingFor(U)') <= SumFunctionOnSet(EvmTotals, WaitingFor(U)) + EvmTotals[c]
      BY <2>2, <3>3, <3>4, SumOneMore
    <3>6. EvmTotals[c] = ToEvm(Total(c)) BY ThereIs
    <3> QED BY <2>1, <2>4, <3>1, <3>2, <3>5, <3>6
  <2>5. CASE Uid[c] \notin U
    <3>1. \A u \in U : KeptBy'[u] = KeptBy[u] /\ KeptBy'[u] \in Int BY <1>5, <1>6, <2>5
    <3>2. SumFunctionOnSet(KeptBy', U) = SumFunctionOnSet(KeptBy, U) BY <2>0, <3>1, SumAgree
    <3>3. WaitingFor(U)' = WaitingFor(U) BY <1>1, <1>2, <2>5 DEF WaitingFor
    <3> QED BY <2>1, <2>2, <2>3, <2>5, <3>2, <3>3
  <2> QED BY <2>4, <2>5
<1>8. /\ \A u : Mapped(u)' = Mapped(u)
      /\ \A U : MeltedFor(U)' = MeltedFor(U)
      /\ \A t : UnpaidOf(t)' = UnpaidOf(t)
      /\ \A t, ch : Standing(t, ch)' = Standing(t, ch) /\ Standing(t, ch) \in SUBSET Uids
  BY <1>1 DEF Mapped, Calls, MeltedFor, UnpaidOf, Standing, Settled
<1>9. /\ \A a, b \in Int : ToEvm(a + b) = ToEvm(a) + ToEvm(b)
      /\ \A a \in Int : ToEvm(a) \in Int
  BY ToEvmAdds
<1>10. StrangersKept'
  <2> SUFFICES ASSUME NEW u \in Uids, ~Mapped(u)
               PROVE  /\ HeldBy'[u] = Circulating[u]
                      /\ SumFunctionOnSet(EvmTotals, WaitingFor({u})') <= ToEvm(KeptBy'[u])
    BY <1>8 DEF StrangersKept
  <2>1. HeldBy[u] = Circulating[u] /\ SumFunctionOnSet(EvmTotals, WaitingFor({u})) <= ToEvm(KeptBy[u])
    BY DEF Covered, StrangersKept
  <2>2. SumFunctionOnSet(EvmTotals, WaitingFor({u})')
          <= SumFunctionOnSet(EvmTotals, WaitingFor({u})) + IF Uid[c] \in {u} THEN ToEvm(Total(c)) ELSE 0
    BY <1>7
  <2>3. SumFunctionOnSet(EvmTotals, WaitingFor({u})) \in Nat BY SetsAre
  <2>4. SumFunctionOnSet(EvmTotals, WaitingFor({u})') \in Int
    <3>1. WaitingFor({u})' \subseteq Inward BY <1>2 DEF WaitingFor, Made, TypeOK
    <3>2. IsFiniteSet(WaitingFor({u})') BY <3>1, SupplyAssumption, FS_Subset
    <3>3. \A d \in WaitingFor({u})' : EvmTotals[d] \in Nat BY <3>1, ThereIs
    <3> QED BY <3>2, <3>3, SumNat
  <2>5. CASE u = Uid[c]
    <3>0. KeptBy[u] \in Int /\ Total(c) \in Int /\ KeptBy'[u] = KeptBy[u] + Total(c) BY <1>3, <1>5, <1>6, <2>5
    <3>1. ToEvm(KeptBy'[u]) = ToEvm(KeptBy[u]) + ToEvm(Total(c)) BY <1>9, <3>0
    <3>2. ToEvm(KeptBy[u]) \in Int /\ ToEvm(Total(c)) \in Int BY <1>9, <3>0
    <3> QED BY <1>5, <2>1, <2>2, <2>3, <2>4, <2>5, <3>1, <3>2
  <2>6. CASE u # Uid[c]
    <3>0. KeptBy[u] \in Int /\ KeptBy'[u] = KeptBy[u] BY <1>5, <1>6, <2>6
    <3>1. ToEvm(KeptBy[u]) \in Int BY <1>9, <3>0
    <3> QED BY <1>5, <2>1, <2>2, <2>3, <2>4, <2>6, <3>0, <3>1
  <2> QED BY <2>5, <2>6
<1>11. EscrowSuffices' BY <1>1, <1>7, <1>8 DEF Covered, EscrowSuffices, Owed
<1>12. WalletSuffices'
  <2> SUFFICES ASSUME NEW t \in Pseudo, NEW U, U = Standing(t, Hathor)
               PROVE  minted[t] + SumFunctionOnSet(EvmTotals, WaitingFor(U)') + SumFunctionOnSet(Amounts, UnpaidOf(t))
                        <= ToEvm(SumFunctionOnSet(KeptBy', U))
    BY <1>1, <1>8 DEF WalletSuffices, WaitingFor
  <2> DEFINE k == SumFunctionOnSet(KeptBy, U)
             w == SumFunctionOnSet(EvmTotals, WaitingFor(U))
             v == SumFunctionOnSet(EvmTotals, WaitingFor(U)')
             a == SumFunctionOnSet(Amounts, UnpaidOf(t))
             more == IF Uid[c] \in U THEN Total(c) ELSE 0
  <2>1. U \in SUBSET Uids BY <1>8
  <2>2. minted[t] + w + a <= ToEvm(k) BY DEF Covered, WalletSuffices
  <2>3. v <= w + ToEvm(more) /\ SumFunctionOnSet(KeptBy', U) = k + more
    <3>1. /\ SumFunctionOnSet(KeptBy', U) = k + IF Uid[c] \in U THEN Total(c) ELSE 0
          /\ v <= w + IF Uid[c] \in U THEN ToEvm(Total(c)) ELSE 0
      BY <1>7, <2>1
    <3> HIDE DEF k, w, v
    <3>2. CASE Uid[c] \in U BY <3>1, <3>2
    <3>3. CASE Uid[c] \notin U
      <4>1. ToEvm(more) = 0 BY <3>3, ToEvmAdds
      <4> QED BY <3>1, <3>3, <4>1
    <3> QED BY <3>2, <3>3
  <2>4. ToEvm(k + more) = ToEvm(k) + ToEvm(more) /\ ToEvm(k) \in Int /\ ToEvm(more) \in Int
    <3>1. k \in Int /\ more \in Int BY <1>3, <2>1, KeptIs
    <3> HIDE DEF k, more
    <3> QED BY <1>9, <3>1
  <2>5. w \in Int /\ a \in Int /\ minted[t] \in Int BY SetsAre DEF Made, TypeOK
  <2>6. v \in Int
    <3>1. WaitingFor(U)' \subseteq Inward BY <1>2 DEF WaitingFor, Made, TypeOK
    <3>2. IsFiniteSet(WaitingFor(U)') BY <3>1, SupplyAssumption, FS_Subset
    <3>3. \A d \in WaitingFor(U)' : EvmTotals[d] \in Nat BY <3>1, ThereIs
    <3> QED BY <3>2, <3>3, SumNat
  <2> HIDE DEF k, w, v, a, more
  <2>7. minted[t] + v + a <= ToEvm(k + more) BY <2>2, <2>3, <2>4, <2>5, <2>6
  <2> QED BY <2>3, <2>7 DEF v, a
<1> QED BY <1>4, <1>10, <1>11, <1>12 DEF Covered

\* A crossing adds to the escrow, or burns, what it leaves unpaid.
LEMMA CrossCovered ==
  ASSUME Made, Made', ~Clash, Covered, NEW tx, Cross(tx)
  PROVE  Covered'
<1>0. UNCHANGED <<maps, accepted, claimed, hathor, ballots, multisig>> BY DEF Cross
<1>1. UNCHANGED <<toHathor, toEvm, remaps, accepted, claimed, wallet, held, deposited, settled>>
  BY <1>0 DEF maps, hathor, multisig
<1> DEFINE Sent(t) == SumFunctionOnSet(Amounts, SentOf(tx, t))
<1>2. /\ \A t : Sent(t) \in Nat /\ IsFiniteSet(SentOf(tx, t))
      /\ \A t \in Pseudo : Sent(t) <= minted[t]
      /\ mined' = mined \cup {c \in Outward : Event[c].tx = tx}
      /\ escrow' = [t \in Native |-> escrow[t] + Sent(t)]
      /\ minted' = [t \in Pseudo |-> minted[t] - Sent(t)]
  BY CrossIs DEF Made
<1>3. AcceptedSound' BY <1>1, AcceptedAlone DEF Covered
<1>4. KeptBy' = KeptBy /\ HeldBy' = HeldBy BY <1>1 DEF KeptBy, HeldBy
<1>5. /\ \A u : Mapped(u)' = Mapped(u)
      /\ \A U : MeltedFor(U)' = MeltedFor(U) /\ WaitingFor(U)' = WaitingFor(U)
      /\ \A t, ch : Standing(t, ch)' = Standing(t, ch)
  BY <1>1 DEF Mapped, Calls, MeltedFor, WaitingFor, Standing, Settled
<1>6. ASSUME NEW t
      PROVE  /\ SumFunctionOnSet(Amounts, UnpaidOf(t)') <= SumFunctionOnSet(Amounts, UnpaidOf(t)) + Sent(t)
             /\ SumFunctionOnSet(Amounts, UnpaidOf(t)') \in Nat
             /\ SumFunctionOnSet(Amounts, UnpaidOf(t)) \in Nat
  <2>1. UnpaidOf(t)' \subseteq UnpaidOf(t) \cup SentOf(tx, t) BY <1>1, <1>2 DEF UnpaidOf, SentOf, Settled
  <2>2. IsFiniteSet(UnpaidOf(t)) /\ UnpaidOf(t) \subseteq Outward BY SetsAre
  <2>3. \A x \in UnpaidOf(t) \cup SentOf(tx, t) : Amounts[x] \in Nat BY <2>2, ThereIs DEF SentOf
  <2>4. SumFunctionOnSet(Amounts, UnpaidOf(t)') <= SumFunctionOnSet(Amounts, UnpaidOf(t)) + SumFunctionOnSet(Amounts, SentOf(tx, t))
    BY <1>2, <2>1, <2>2, <2>3, SumCover
  <2>5. IsFiniteSet(UnpaidOf(t)')
    <3>1. IsFiniteSet(UnpaidOf(t) \cup SentOf(tx, t)) BY <1>2, <2>2, FS_Union
    <3> QED BY <2>1, <3>1, FS_Subset
  <2>6. \A x \in UnpaidOf(t)' : Amounts[x] \in Nat BY <2>1, <2>3
  <2>7. SumFunctionOnSet(Amounts, UnpaidOf(t)') \in Nat BY <2>5, <2>6, SumNat
  <2> QED BY <2>4, <2>7, SetsAre
<1> HIDE DEF Sent
<1>7. StrangersKept' BY <1>1, <1>4, <1>5 DEF Covered, StrangersKept
<1>8. EscrowSuffices'
  <2> SUFFICES ASSUME NEW t \in Native
               PROVE  Owed(Standing(t, Evm)) * Power[16] + SumFunctionOnSet(Amounts, UnpaidOf(t)') * Power[18 - Decimals[t]]
                        <= escrow'[t] * Power[18 - Decimals[t]]
    BY <1>4, <1>5 DEF EscrowSuffices, Owed
  <2> DEFINE o == Owed(Standing(t, Evm)) * Power[16]
             P == Power[18 - Decimals[t]]
             a == SumFunctionOnSet(Amounts, UnpaidOf(t))
             v == SumFunctionOnSet(Amounts, UnpaidOf(t)')
             s == Sent(t)
             e == escrow[t]
  <2>1. o + a * P <= e * P BY DEF Covered, EscrowSuffices
  <2>2. P \in Nat /\ o \in Int
    <3>1. Decimals[t] \in 0..18 BY TokensAssumption
    <3>2. P \in Nat /\ Power[16] \in Nat BY <3>1, PowerPositive
    <3>3. Owed(Standing(t, Evm)) \in Nat
      <4>1. SumFunctionOnSet(HeldBy, Standing(t, Evm)) \in Nat BY KeptIs, SetsAre
      <4>2. SumFunctionOnSet(Totals, MeltedFor(Standing(t, Evm))) \in Nat BY SetsAre
      <4> QED BY <4>1, <4>2 DEF Owed
    <3> QED BY <3>2, <3>3
  <2>3. v <= a + s /\ v \in Nat /\ a \in Nat /\ s \in Nat BY <1>2, <1>6
  <2>4. e \in Nat /\ escrow'[t] = e + s BY <1>2 DEF Made, TypeOK
  <2> HIDE DEF o, P, a, v, s, e
  <2>5. v * P <= a * P + s * P BY <2>2, <2>3, Scaled
  <2>6. (e + s) * P = e * P + s * P BY <2>2, <2>3, <2>4, Scaled
  <2>7. v * P \in Int /\ a * P \in Int /\ s * P \in Int /\ e * P \in Int BY <2>2, <2>3, <2>4, Scaled
  <2>8. o + v * P <= (e + s) * P BY <2>1, <2>2, <2>5, <2>6, <2>7
  <2> QED BY <2>4, <2>8 DEF o, P, v
<1>9. WalletSuffices'
  <2> SUFFICES ASSUME NEW t \in Pseudo
               PROVE  LET U == Standing(t, Hathor) IN
                      minted'[t] + SumFunctionOnSet(EvmTotals, WaitingFor(U)) + SumFunctionOnSet(Amounts, UnpaidOf(t)')
                        <= ToEvm(SumFunctionOnSet(KeptBy, U))
    BY <1>4, <1>5 DEF WalletSuffices
  <2> DEFINE U == Standing(t, Hathor)
             k == ToEvm(SumFunctionOnSet(KeptBy, U))
             w == SumFunctionOnSet(EvmTotals, WaitingFor(U))
             a == SumFunctionOnSet(Amounts, UnpaidOf(t))
             v == SumFunctionOnSet(Amounts, UnpaidOf(t)')
  <2>1. minted[t] + w + a <= k BY DEF Covered, WalletSuffices
  <2>2. v <= a + Sent(t) /\ v \in Nat /\ a \in Nat /\ Sent(t) \in Nat BY <1>2, <1>6
  <2>3. minted[t] \in Nat /\ minted'[t] = minted[t] - Sent(t) BY <1>2 DEF Made, TypeOK
  <2>4. w \in Nat BY SetsAre
  <2>5. k \in Int
    <3>1. SumFunctionOnSet(KeptBy, U) \in Int BY KeptIs, SetsAre
    <3> QED BY <3>1, ToEvmAdds
  <2> HIDE DEF k, w, a, v
  <2>6. minted'[t] + w + v <= k BY <2>1, <2>2, <2>3, <2>4, <2>5
  <2> QED BY <2>6 DEF k, w, v
<1> QED BY <1>3, <1>7, <1>8, <1>9 DEF Covered

\* Only what was accepted for the token a deposit's is mapped to is claimed.
LEMMA ClaimFor ==
  ASSUME Made, ~Clash, AcceptedSound, NEW c \in Inward, Claim(c)
  PROVE  LET t == accepted[c].token IN
         /\ accepted[c].amount = ToEvm(Total(c)) /\ c \in deposited /\ c \notin claimed
         /\ t \in Native => c \in MeltedFor(Standing(t, Evm))
         /\ t \in Pseudo => c \in WaitingFor(Standing(t, Hathor))
<1> DEFINE t == toEvm[Uid[c]].token
<1>1. accepted[c] # Unmapped /\ c \notin claimed BY DEF Claim
<1>2. /\ c \in deposited /\ t \in Native \cup Pseudo
      /\ accepted[c] = [token |-> t, amount |-> ToEvm(Total(c))]
      /\ t \in Native => InwardId(c) \in settled
  BY <1>1 DEF AcceptedSound
<1>3. Uid[c] \in Uids BY CrossingsAssumption
<1>4. /\ t \in Native => Uid[c] \in Standing(t, Evm)
      /\ t \in Pseudo => Uid[c] \in Standing(t, Hathor)
  BY <1>2, <1>3, CallIs, TokensAssumption
<1>5. InwardId(c) \in settled => Settled(c) BY DEF InwardId, Settled
<1> HIDE DEF t
<1>6. accepted[c].token = t /\ accepted[c].amount = ToEvm(Total(c)) BY <1>2
<1>7. t \in Native => c \in MeltedFor(Standing(t, Evm)) BY <1>1, <1>2, <1>4, <1>5 DEF MeltedFor
<1>8. t \in Pseudo => c \in WaitingFor(Standing(t, Hathor)) BY <1>1, <1>2, <1>4 DEF WaitingFor
<1> QED BY <1>1, <1>2, <1>6, <1>7, <1>8

\* A claim takes off the escrow, or mints, what was melted or waits.
LEMMA ClaimCovered ==
  ASSUME Made, ~Clash, Covered, NEW c \in Inward, Claim(c)
  PROVE  Covered'
<1>0. UNCHANGED <<maps, mined, accepted, hathor, ballots, multisig>> BY DEF Claim
<1>1. UNCHANGED <<toHathor, toEvm, remaps, mined, accepted, wallet, held, deposited, settled>>
  BY <1>0 DEF maps, hathor, multisig
<1> DEFINE b == accepted[c]
           T == Total(c)
           x == FromEvm(b.amount, Decimals[b.token])
<1>2. /\ claimed' = claimed \cup {c} /\ b.amount = ToEvm(T) /\ b.amount \in Nat
      /\ \/ /\ b.token \in Native /\ UNCHANGED minted
            /\ x \in 0..escrow[b.token] /\ escrow' = [escrow EXCEPT ![b.token] = @ - x]
         \/ /\ b.token \in Pseudo /\ UNCHANGED escrow
            /\ minted' = [minted EXCEPT ![b.token] = @ + b.amount]
  BY ClaimIs DEF Made
<1>3. /\ b.token \in Native => c \in MeltedFor(Standing(b.token, Evm))
      /\ b.token \in Pseudo => c \in WaitingFor(Standing(b.token, Hathor))
  BY ClaimFor DEF Covered
<1>4. T \in Nat /\ Totals[c] = T /\ EvmTotals[c] = ToEvm(T) BY ThereIs, CoinsAre
<1>5. b.token \in Native => x * Power[18 - Decimals[b.token]] <= ToEvm(T) /\ x \in Nat
  <2> SUFFICES ASSUME b.token \in Native PROVE x * Power[18 - Decimals[b.token]] <= ToEvm(T) /\ x \in Nat
    OBVIOUS
  <2>1. Decimals[b.token] \in 0..18 BY TokensAssumption
  <2>2. x * Power[18 - Decimals[b.token]] <= b.amount /\ x \in Nat BY <1>2, <2>1, FromEvmCuts
  <2> QED BY <1>2, <2>2
<1> HIDE DEF b, T, x
<1>6. AcceptedSound' BY <1>1, AcceptedAlone DEF Covered
<1>7. KeptBy' = KeptBy /\ HeldBy' = HeldBy BY <1>1 DEF KeptBy, HeldBy
<1>8. /\ \A u : Mapped(u)' = Mapped(u)
      /\ \A t : UnpaidOf(t)' = UnpaidOf(t)
      /\ \A t, ch : Standing(t, ch)' = Standing(t, ch)
  BY <1>1 DEF Mapped, Calls, UnpaidOf, Standing, Settled
<1>9. ASSUME NEW U
      PROVE  /\ MeltedFor(U)' = MeltedFor(U) \ {c} /\ WaitingFor(U)' = WaitingFor(U) \ {c}
             /\ SumFunctionOnSet(Totals, MeltedFor(U)') \in Nat
             /\ SumFunctionOnSet(Totals, MeltedFor(U)') <= SumFunctionOnSet(Totals, MeltedFor(U))
             /\ c \in MeltedFor(U) => SumFunctionOnSet(Totals, MeltedFor(U)') + T <= SumFunctionOnSet(Totals, MeltedFor(U))
             /\ SumFunctionOnSet(EvmTotals, WaitingFor(U)') \in Nat
             /\ SumFunctionOnSet(EvmTotals, WaitingFor(U)') <= SumFunctionOnSet(EvmTotals, WaitingFor(U))
             /\ c \in WaitingFor(U) =>
                  SumFunctionOnSet(EvmTotals, WaitingFor(U)') + ToEvm(T) <= SumFunctionOnSet(EvmTotals, WaitingFor(U))
  <2> DEFINE M == MeltedFor(U)
             W == WaitingFor(U)
  <2>1. MeltedFor(U)' = M \ {c} BY <1>1, <1>2 DEF MeltedFor, Settled
  <2>2. WaitingFor(U)' = W \ {c} BY <1>1, <1>2 DEF WaitingFor
  <2>3. IsFiniteSet(M) /\ IsFiniteSet(W) /\ M \subseteq Inward /\ W \subseteq Inward BY SetsAre
  <2> HIDE DEF M, W
  <2>4. (\A d \in M : Totals[d] \in Nat) /\ (\A d \in W : EvmTotals[d] \in Nat) BY <2>3, ThereIs
  <2>5. /\ SumFunctionOnSet(Totals, M \ {c}) \in Nat
        /\ SumFunctionOnSet(Totals, M \ {c}) <= SumFunctionOnSet(Totals, M)
    BY <2>3, <2>4, SumWithin
  <2>6. c \in M => SumFunctionOnSet(Totals, M \ {c}) + T <= SumFunctionOnSet(Totals, M)
    BY <1>4, <2>3, <2>4, SumWithout
  <2>7. /\ SumFunctionOnSet(EvmTotals, W \ {c}) \in Nat
        /\ SumFunctionOnSet(EvmTotals, W \ {c}) <= SumFunctionOnSet(EvmTotals, W)
    BY <2>3, <2>4, SumWithin
  <2>8. c \in W => SumFunctionOnSet(EvmTotals, W \ {c}) + ToEvm(T) <= SumFunctionOnSet(EvmTotals, W)
    BY <1>4, <2>3, <2>4, SumWithout
  <2> QED BY <2>1, <2>2, <2>5, <2>6, <2>7, <2>8 DEF M, W
<1>10. StrangersKept'
  <2> SUFFICES ASSUME NEW u \in Uids, ~Mapped(u)
               PROVE  /\ HeldBy[u] = Circulating[u]
                      /\ SumFunctionOnSet(EvmTotals, WaitingFor({u})') <= ToEvm(KeptBy[u])
    BY <1>7, <1>8 DEF StrangersKept
  <2>1. HeldBy[u] = Circulating[u] /\ SumFunctionOnSet(EvmTotals, WaitingFor({u})) <= ToEvm(KeptBy[u])
    BY DEF Covered, StrangersKept
  <2>2. /\ SumFunctionOnSet(EvmTotals, WaitingFor({u})') <= SumFunctionOnSet(EvmTotals, WaitingFor({u}))
        /\ SumFunctionOnSet(EvmTotals, WaitingFor({u})') \in Nat
    BY <1>9
  <2>3. SumFunctionOnSet(EvmTotals, WaitingFor({u})) \in Nat BY SetsAre
  <2>4. ToEvm(KeptBy[u]) \in Int
    <3>1. KeptBy[u] \in Int BY KeptIs
    <3> QED BY <3>1, ToEvmAdds
  <2> QED BY <2>1, <2>2, <2>3, <2>4
<1>11. EscrowSuffices'
  <2> SUFFICES ASSUME NEW t \in Native, NEW U, U = Standing(t, Evm)
               PROVE  (SumFunctionOnSet(HeldBy, U) + SumFunctionOnSet(Totals, MeltedFor(U)')) * Power[16]
                        + SumFunctionOnSet(Amounts, UnpaidOf(t)) * Power[18 - Decimals[t]]
                        <= escrow'[t] * Power[18 - Decimals[t]]
    BY <1>7, <1>8 DEF EscrowSuffices, Owed, MeltedFor
  <2> DEFINE h == SumFunctionOnSet(HeldBy, U)
             m == SumFunctionOnSet(Totals, MeltedFor(U))
             n == SumFunctionOnSet(Totals, MeltedFor(U)')
             P == Power[18 - Decimals[t]]
             a == SumFunctionOnSet(Amounts, UnpaidOf(t)) * P
             e == escrow[t]
             Q == Power[16]
  <2>1. (h + m) * Q + a <= e * P BY DEF Covered, EscrowSuffices, Owed
  <2>2. P \in Nat /\ Q \in Nat
    <3>1. Decimals[t] \in 0..18 BY TokensAssumption
    <3> QED BY <3>1, PowerPositive
  <2>3. h \in Nat /\ m \in Nat /\ n \in Nat /\ n <= m BY <1>9, KeptIs, SetsAre
  <2>4. a \in Int /\ e \in Nat
    <3>1. PICK s \in Nat : s = SumFunctionOnSet(Amounts, UnpaidOf(t)) BY SetsAre
    <3>2. s * P \in Nat BY <2>2, Scaled
    <3>3. e \in Nat BY DEF Made, TypeOK
    <3> QED BY <3>1, <3>2, <3>3
  <2>5. CASE b.token = t
    <3>1. x \in 0..e /\ escrow'[t] = e - x BY <1>2, <2>5, TokensAssumption DEF Made, TypeOK
    <3>2. n + T <= m BY <1>3, <1>9, <2>5
    <3>3. x * P <= T * Q /\ x \in Nat BY <1>5, <2>5 DEF ToEvm
    <3> HIDE DEF h, m, n, P, a, e, Q
    <3>4. (h + n) + T \in Int /\ h + m \in Int /\ (h + n) + T <= h + m /\ h + n \in Int BY <1>4, <2>3, <3>2
    <3>5. ((h + n) + T) * Q <= (h + m) * Q /\ ((h + n) + T) * Q = (h + n) * Q + T * Q
      BY <1>4, <2>2, <3>4, Scaled
    <3>6. (e - x) * P = e * P - x * P BY <2>2, <2>4, <3>3, Scaled
    <3>7. /\ (h + n) * Q \in Int /\ (h + m) * Q \in Int /\ T * Q \in Int
          /\ e * P \in Int /\ x * P \in Int
      BY <1>4, <2>2, <2>4, <3>3, <3>4, Scaled
    <3>8. (h + n) * Q + a <= (e - x) * P BY <2>1, <2>4, <3>3, <3>5, <3>6, <3>7
    <3> QED BY <3>1, <3>8 DEF h, n, P, a, Q
  <2>6. CASE b.token # t
    <3>1. escrow'[t] = e BY <1>2, <2>6 DEF Made, TypeOK
    <3> HIDE DEF h, m, n, P, a, e, Q
    <3>2. h + n \in Int /\ h + m \in Int /\ h + n <= h + m BY <2>3
    <3>3. (h + n) * Q <= (h + m) * Q BY <2>2, <3>2, Scaled
    <3>4. (h + n) * Q \in Int /\ (h + m) * Q \in Int /\ e * P \in Int BY <2>2, <2>4, <3>2, Scaled
    <3>5. (h + n) * Q + a <= e * P BY <2>1, <2>4, <3>3, <3>4
    <3> QED BY <3>1, <3>5 DEF h, n, P, a, Q
  <2> QED BY <2>5, <2>6
<1>12. WalletSuffices'
  <2> SUFFICES ASSUME NEW t \in Pseudo, NEW U, U = Standing(t, Hathor)
               PROVE  minted'[t] + SumFunctionOnSet(EvmTotals, WaitingFor(U)') + SumFunctionOnSet(Amounts, UnpaidOf(t))
                        <= ToEvm(SumFunctionOnSet(KeptBy, U))
    BY <1>7, <1>8 DEF WalletSuffices, WaitingFor
  <2> DEFINE k == ToEvm(SumFunctionOnSet(KeptBy, U))
             w == SumFunctionOnSet(EvmTotals, WaitingFor(U))
             v == SumFunctionOnSet(EvmTotals, WaitingFor(U)')
             a == SumFunctionOnSet(Amounts, UnpaidOf(t))
             q == ToEvm(T)
  <2>1. minted[t] + w + a <= k BY DEF Covered, WalletSuffices
  <2>2. /\ v \in Nat /\ v <= w
        /\ c \in WaitingFor(U) => v + q <= w
    BY <1>9
  <2>3. w \in Nat /\ a \in Nat /\ minted[t] \in Nat BY SetsAre DEF Made, TypeOK
  <2>4. k \in Int
    <3>1. SumFunctionOnSet(KeptBy, U) \in Int BY KeptIs, SetsAre
    <3> QED BY <3>1, ToEvmAdds
  <2>5. q \in Nat BY <1>4, ToEvmAdds
  <2> HIDE DEF k, w, v, a, q
  <2>6. minted'[t] = minted[t] \/ (minted'[t] = minted[t] + q /\ c \in WaitingFor(U))
    BY <1>2, <1>3, TokensAssumption DEF Made, TypeOK, q
  <2>7. minted'[t] + v + a <= k BY <2>1, <2>2, <2>3, <2>4, <2>5, <2>6
  <2> QED BY <2>7 DEF k, v, a
<1> QED BY <1>6, <1>10, <1>11, <1>12 DEF Covered

\* No deposit of a token that was never mapped is melted.
LEMMA StrangersUnmelted ==
  ASSUME Made, ~Clash, NEW c \in Inward, Settled(c)
  PROVE  Mapped(Uid[c])
<1>1. PICK i \in settled : i.of = c BY DEF Settled
<1>2. PICK p \in proposals : p.id = i BY <1>1 DEF Made, TypeOK
<1>3. MeltOf(p, c) BY <1>1, <1>2, MeltOfDeposit DEF Made
<1> QED BY <1>3 DEF MeltOf, Mapped

\* A call that does not clash repeats an old one, or maps tokens nobody has of
\* yet.
LEMMA AddHathorTokenCovered ==
  ASSUME Made, ~Clash, ~Clash', Covered, NEW m \in Remaps, AddHathorToken(m)
  PROVE  Covered'
<1>0. UNCHANGED <<bridge, hathor, ballots, multisig>> BY DEF AddHathorToken
<1>1. UNCHANGED <<escrow, minted, mined, accepted, claimed, wallet, held, deposited, settled>>
  BY <1>0 DEF bridge, hathor, multisig
<1> DEFINE u == m.uid
<1>2. /\ Calls' = Calls \cup {m}
      /\ \A v \in Uids : v # u => toEvm'[v] = toEvm[v]
      /\ toEvm'[u] = [chain |-> m.chain, token |-> m.token]
  BY MapsStep DEF Made
<1>3. /\ u \in Uids /\ m.chain \in {Evm, Hathor} /\ m.token \in Native \cup Pseudo /\ m \in FirstMap \cup Remaps
      /\ Evm = 1 /\ Hathor = 2
  BY TokensAssumption DEF Mappings, Evm, Hathor
<1>4. m.chain = Evm <=> m.token \in Native BY <1>2 DEF Clash, Calls
<1>5. KeptBy' = KeptBy /\ HeldBy' = HeldBy BY <1>1 DEF KeptBy, HeldBy
<1>6. \A t : UnpaidOf(t)' = UnpaidOf(t) BY <1>1 DEF UnpaidOf, Settled
<1>7. \A v : Mapped(v)' <=> Mapped(v) \/ v = u BY <1>2 DEF Mapped
<1>8. StrangersKept' BY <1>1, <1>5, <1>7 DEF Covered, StrangersKept, WaitingFor
<1>9. \A v \in Uids : Mapped(v) => toEvm'[v] = toEvm[v]
  <2> SUFFICES ASSUME Mapped(u) PROVE toEvm'[u] = toEvm[u]
    BY <1>2
  <2>1. PICK n \in Calls : n.uid = u BY DEF Mapped
  <2>2. toEvm[u] = [chain |-> n.chain, token |-> n.token] BY <2>1, CallIs
  <2>3. m.token = n.token /\ m.chain = n.chain BY <1>2, <2>1 DEF Clash, Calls
  <2> QED BY <1>2, <2>2, <2>3
<1>10. AcceptedSound'
  <2> SUFFICES ASSUME NEW d \in Inward, accepted[d] # Unmapped
               PROVE  LET t == toEvm'[Uid[d]].token IN
                      /\ d \in deposited /\ t \in Native \cup Pseudo
                      /\ accepted[d] = [token |-> t, amount |-> ToEvm(Total(d))]
                      /\ t \in Native => InwardId(d) \in settled
    BY <1>1 DEF AcceptedSound
  <2>1. toEvm[Uid[d]].token \in Native \cup Pseudo BY DEF Covered, AcceptedSound
  <2>2. Uid[d] \in Uids BY CrossingsAssumption
  <2>3. Mapped(Uid[d]) BY <2>1, <2>2, CallIs
  <2>4. toEvm'[Uid[d]] = toEvm[Uid[d]] BY <1>9, <2>2, <2>3
  <2> QED BY <2>4 DEF Covered, AcceptedSound
<1>11. CASE Mapped(u)
  <2>1. \A t, ch : Standing(t, ch)' = Standing(t, ch)
    <3>1. \A v \in Uids : toEvm'[v] = toEvm[v] BY <1>2, <1>9, <1>11
    <3> QED BY <3>1 DEF Standing
  <2>2. \A U : MeltedFor(U)' = MeltedFor(U) /\ WaitingFor(U)' = WaitingFor(U)
    BY <1>1 DEF MeltedFor, WaitingFor, Settled
  <2>3. EscrowSuffices' BY <1>1, <1>5, <1>6, <2>1, <2>2 DEF Covered, EscrowSuffices, Owed
  <2>4. WalletSuffices' BY <1>1, <1>5, <1>6, <2>1, <2>2 DEF Covered, WalletSuffices
  <2> QED BY <1>8, <1>10, <2>3, <2>4 DEF Covered
<1>12. CASE ~Mapped(u)
  <2>1. toEvm[u].chain = 0 BY <1>3, <1>12 DEF Made, MapsFollow, Unmapped
  <2>2. ASSUME NEW t, NEW ch \in {Evm, Hathor}
        PROVE  /\ u \notin Standing(t, ch)
               /\ Standing(t, ch)' = IF t = m.token /\ ch = m.chain THEN Standing(t, ch) \cup {u} ELSE Standing(t, ch)
    <3>1. u \notin Standing(t, ch) BY <1>3, <2>1 DEF Standing
    <3>2. toEvm'[u] = [chain |-> ch, token |-> t] <=> t = m.token /\ ch = m.chain BY <1>2
    <3>3. Standing(t, ch)' = {v \in Uids : toEvm'[v] = [chain |-> ch, token |-> t]} BY DEF Standing
    <3>4. \A v \in Uids : v # u => (toEvm'[v] = [chain |-> ch, token |-> t] <=> v \in Standing(t, ch))
      BY <1>2 DEF Standing
    <3>5. Standing(t, ch) \subseteq Uids BY DEF Standing
    <3> QED BY <1>3, <3>1, <3>2, <3>3, <3>4, <3>5
  <2>3. HeldBy[u] = Circulating[u] /\ SumFunctionOnSet(EvmTotals, WaitingFor({u})) <= ToEvm(KeptBy[u])
    BY <1>3, <1>12 DEF Covered, StrangersKept
  <2>4. EscrowSuffices'
    <3> SUFFICES ASSUME NEW t \in Native, NEW U, U = Standing(t, Evm), NEW V, V = Standing(t, Evm)'
                 PROVE  (SumFunctionOnSet(HeldBy, V) + SumFunctionOnSet(Totals, MeltedFor(V))) * Power[16]
                          + SumFunctionOnSet(Amounts, UnpaidOf(t)) * Power[18 - Decimals[t]]
                          <= escrow[t] * Power[18 - Decimals[t]]
      BY <1>1, <1>5, <1>6 DEF EscrowSuffices, Owed, MeltedFor, Settled
    <3>1. (SumFunctionOnSet(HeldBy, U) + SumFunctionOnSet(Totals, MeltedFor(U))) * Power[16]
            + SumFunctionOnSet(Amounts, UnpaidOf(t)) * Power[18 - Decimals[t]]
            <= escrow[t] * Power[18 - Decimals[t]]
      BY DEF Covered, EscrowSuffices, Owed
    <3>2. CASE t # m.token
      <4>1. V = U BY <2>2, <3>2
      <4> QED BY <3>1, <4>1
    <3>3. CASE t = m.token
      <4>1. m.chain = Evm BY <1>4, <3>3
      <4>2. V = U \cup {u} /\ u \notin U BY <2>2, <3>3, <4>1
      <4>3. SumFunctionOnSet(HeldBy, V) = SumFunctionOnSet(HeldBy, U)
        <5>1. HeldBy[u] = 0 BY <1>3, <2>3, <4>1, SupplyAssumption
        <5>2. U \subseteq Uids /\ IsFiniteSet(U) BY SetsAre
        <5>3. \A v \in U \cup {u} : HeldBy[v] \in Int BY <1>3, <5>2, KeptIs
        <5>4. SumFunctionOnSet(HeldBy, U \cup {u}) = SumFunctionOnSet(HeldBy, U) + HeldBy[u]
          BY <4>2, <5>2, <5>3, SumAdd
        <5>5. SumFunctionOnSet(HeldBy, U) \in Nat BY <5>2, KeptIs
        <5> QED BY <4>2, <5>1, <5>4, <5>5
      <4>4. MeltedFor(V) = MeltedFor(U)
        <5>1. \A c \in Inward : Settled(c) => Uid[c] # u BY <1>12, StrangersUnmelted
        <5> QED BY <4>2, <5>1 DEF MeltedFor
      <4> QED BY <3>1, <4>3, <4>4
    <3> QED BY <3>2, <3>3
  <2>5. WalletSuffices'
    <3> SUFFICES ASSUME NEW t \in Pseudo, NEW U, U = Standing(t, Hathor), NEW V, V = Standing(t, Hathor)'
                 PROVE  minted[t] + SumFunctionOnSet(EvmTotals, WaitingFor(V)) + SumFunctionOnSet(Amounts, UnpaidOf(t))
                          <= ToEvm(SumFunctionOnSet(KeptBy, V))
      BY <1>1, <1>5, <1>6 DEF WalletSuffices, WaitingFor
    <3>1. minted[t] + SumFunctionOnSet(EvmTotals, WaitingFor(U)) + SumFunctionOnSet(Amounts, UnpaidOf(t))
            <= ToEvm(SumFunctionOnSet(KeptBy, U))
      BY DEF Covered, WalletSuffices
    <3>2. CASE t # m.token
      <4>1. V = U BY <2>2, <3>2
      <4> QED BY <3>1, <4>1
    <3>3. CASE t = m.token
      <4>1. m.chain = Hathor BY <1>3, <1>4, <3>3, TokensAssumption
      <4>2. V = U \cup {u} /\ u \notin U BY <2>2, <3>3, <4>1
      <4>3. U \subseteq Uids /\ IsFiniteSet(U) BY SetsAre
      <4> DEFINE k == SumFunctionOnSet(KeptBy, U)
                 w == SumFunctionOnSet(EvmTotals, WaitingFor(U))
                 n == SumFunctionOnSet(EvmTotals, WaitingFor({u}))
                 v == SumFunctionOnSet(EvmTotals, WaitingFor(V))
                 a == SumFunctionOnSet(Amounts, UnpaidOf(t))
      <4>4. SumFunctionOnSet(KeptBy, V) = k + KeptBy[u]
        <5>1. \A x \in U \cup {u} : KeptBy[x] \in Int BY <1>3, <4>3, KeptIs
        <5> QED BY <4>2, <4>3, <5>1, SumAdd
      <4>5. v <= w + n
        <5>1. WaitingFor(V) \subseteq WaitingFor(U) \cup WaitingFor({u}) BY <4>2 DEF WaitingFor
        <5>2. /\ IsFiniteSet(WaitingFor(U)) /\ WaitingFor(U) \subseteq Inward
              /\ IsFiniteSet(WaitingFor({u})) /\ WaitingFor({u}) \subseteq Inward
          BY SetsAre
        <5>3. \A x \in WaitingFor(U) \cup WaitingFor({u}) : EvmTotals[x] \in Nat BY <5>2, ThereIs
        <5> QED BY <5>1, <5>2, <5>3, SumCover
      <4>6. k \in Int /\ KeptBy[u] \in Int BY <1>3, <4>3, KeptIs
      <4>7. w \in Nat /\ n \in Nat /\ v \in Nat /\ a \in Nat /\ minted[t] \in Nat BY SetsAre DEF Made, TypeOK
      <4>8. minted[t] + w + a <= ToEvm(k) /\ n <= ToEvm(KeptBy[u]) BY <2>3, <3>1
      <4> HIDE DEF k, w, n, v, a
      <4>9. ToEvm(k + KeptBy[u]) = ToEvm(k) + ToEvm(KeptBy[u]) /\ ToEvm(k) \in Int /\ ToEvm(KeptBy[u]) \in Int
        BY <4>6, ToEvmAdds
      <4>10. minted[t] + v + a <= ToEvm(k + KeptBy[u]) BY <4>5, <4>7, <4>8, <4>9
      <4> QED BY <4>4, <4>10 DEF v, a
    <3> QED BY <3>2, <3>3
  <2> QED BY <1>8, <1>10, <2>4, <2>5 DEF Covered
<1> QED BY <1>11, <1>12

\* What a push takes out of the wallet and brings back.
LEMMA PushKeeps ==
  ASSUME Made, NEW p \in proposals, Push(p), NEW u \in Uids
  PROVE  /\ KeptBy'[u] = KeptBy[u] - Value(Of(p.inputs, u)) + Value(Of(Back(p), u))
         /\ HeldBy'[u] = held[u] + ToUsers(p, u) + KeptBy'[u]
         /\ HeldBy[u] = held[u] + KeptBy[u]
         /\ held[u] \in Nat /\ KeptBy[u] \in Nat
<1>1. /\ wallet' = (wallet \ p.inputs) \cup Returned(p)
      /\ held' = [v \in Uids |-> held[v] + ToUsers(p, v)]
      /\ p.id \notin settled /\ p.inputs \subseteq wallet
  BY PushIs
<1>2. /\ \A o \in Back(p) : o.value \in Nat \ {0}
      /\ \A o1, o2 \in Back(p) : o1 = o2
  BY ProposalIs DEF Made
<1>3. /\ IsFiniteSet(Returned(p)) /\ Value(Of(Returned(p), u)) = Value(Of(Back(p), u))
      /\ \A k \in Returned(p) : k.of = p.id /\ k.n = 0 /\ k.value \in Nat
  BY <1>2, ReturnedAre
<1>4. IsFiniteSet(wallet) /\ \A k \in wallet : k.value \in Nat /\ (k.n = 0 => k.of \in settled)
  BY DEF Made, CoinsKept
<1> DEFINE A == Of(wallet, u)
           B == Of(p.inputs, u)
           C == Of(Returned(p), u)
<1>5. Of(wallet', u) = (A \ B) \cup C BY <1>1 DEF Of
<1>6. /\ IsFiniteSet(A) /\ IsFiniteSet(C) /\ B \subseteq A /\ (A \ B) \cap C = {}
      /\ (\A k \in A : k.value \in Nat) /\ (\A k \in C : k.value \in Nat)
  <2>1. A \subseteq wallet /\ C \subseteq Returned(p) /\ B \subseteq A BY <1>1 DEF Of
  <2>2. IsFiniteSet(A) /\ IsFiniteSet(C) BY <1>3, <1>4, <2>1, FS_Subset
  <2>3. wallet \cap Returned(p) = {} BY <1>1, <1>3, <1>4
  <2> HIDE DEF A, B, C
  <2> QED BY <1>3, <1>4, <2>1, <2>2, <2>3
<1> HIDE DEF A, B, C
<1>7. Value(A \ B) = Value(A) - Value(B) /\ Value(B) \in Nat /\ Value(A \ B) \in Nat BY <1>6, ValuePart
<1>8. Value((A \ B) \cup C) = Value(A \ B) + Value(C)
  <2>1. IsFiniteSet(A \ B) BY <1>6, FS_Subset
  <2>2. \A k \in (A \ B) \cup C : k.value \in Int BY <1>6
  <2> QED BY <1>6, <2>1, <2>2, ValueUnion
<1>9. KeptBy'[u] = Value(Of(wallet', u)) /\ HeldBy'[u] = held'[u] + Value(Of(wallet', u)) BY DEF KeptBy, HeldBy
<1>10. /\ KeptBy[u] = Value(Of(wallet, u)) /\ KeptBy[u] \in Nat
       /\ HeldBy[u] = held[u] + KeptBy[u]
  BY KeptIs
<1>11. held[u] \in Nat /\ held'[u] = held[u] + ToUsers(p, u) BY <1>1 DEF Made, TypeOK
<1>12. KeptBy'[u] = (KeptBy[u] - Value(B)) + Value(C) BY <1>5, <1>7, <1>8, <1>9, <1>10 DEF A
<1> QED BY <1>3, <1>9, <1>10, <1>11, <1>12 DEF B, C

\* What is paid was not paid before.
LEMMA NotPaidTwice ==
  ASSUME Made, NEW c \in mined, NEW p \in proposals, MintOf(p, c) \/ TransferOf(p, c), p.id \notin settled
  PROVE  ~Settled(c)
<1>0. c \in Outward /\ c \notin Inward BY CrossingsAssumption DEF Made, TypeOK
<1> SUFFICES ASSUME Settled(c) PROVE FALSE
  OBVIOUS
<1>1. PICK i \in settled : i.of = Event[c] BY <1>0 DEF Settled
<1>2. PICK q \in proposals : q.id = i BY <1>1 DEF Made, TypeOK
<1>3. PICK d \in mined : Event[d] = Event[c] /\ (MintOf(q, d) \/ TransferOf(q, d))
  BY <1>0, <1>1, <1>2, PaysEvent DEF Made
<1>4. ASSUME NEW r, NEW x
      PROVE  /\ MintOf(r, x) => r.id = [of |-> Event[x], type |-> "mint"] /\ Event[x].token \in Native
             /\ TransferOf(r, x) => r.id = [of |-> Event[x], type |-> "transfer"] /\ Event[x].token \in Pseudo
  <2>1. MintOf(r, x) => r.id = [of |-> Event[x], type |-> "mint"] /\ Event[x].token \in Native BY Zenon DEF MintOf
  <2>2. TransferOf(r, x) => r.id = [of |-> Event[x], type |-> "transfer"] /\ Event[x].token \in Pseudo
    BY Zenon DEF TransferOf
  <2> QED BY <2>1, <2>2
<1>5. q.id = p.id
  <2>1. Native \cap Pseudo = {} BY TokensAssumption
  <2>2. CASE Event[c].token \in Native
    <3>1. MintOf(p, c) /\ MintOf(q, d) BY <1>3, <1>4, <2>1, <2>2
    <3>2. p.id = [of |-> Event[c], type |-> "mint"] BY <1>4, <3>1
    <3>3. q.id = [of |-> Event[d], type |-> "mint"] BY <1>4, <3>1
    <3> QED BY <1>3, <3>2, <3>3
  <2>3. CASE Event[c].token \notin Native
    <3>1. TransferOf(p, c) /\ TransferOf(q, d) BY <1>3, <1>4, <2>1, <2>3
    <3>2. p.id = [of |-> Event[c], type |-> "transfer"] BY <1>4, <3>1
    <3>3. q.id = [of |-> Event[d], type |-> "transfer"] BY <1>4, <3>1
    <3> QED BY <1>3, <3>2, <3>3
  <2> QED BY <2>2, <2>3
<1> QED BY <1>1, <1>2, <1>5

\* The push of a mint or a transfer pays its event, once.
LEMMA PaidOff ==
  ASSUME Made, NEW c \in mined, NEW p \in proposals, MintOf(p, c) \/ TransferOf(p, c), Push(p)
  PROVE  /\ \A U : MeltedFor(U)' = MeltedFor(U)
         /\ \A t : /\ SumFunctionOnSet(Amounts, UnpaidOf(t)') \in Nat
                   /\ SumFunctionOnSet(Amounts, UnpaidOf(t)') <= SumFunctionOnSet(Amounts, UnpaidOf(t))
                   /\ t = Event[c].token =>
                        SumFunctionOnSet(Amounts, UnpaidOf(t)') + Event[c].amount <= SumFunctionOnSet(Amounts, UnpaidOf(t))
<1>0. UNCHANGED <<claimed, mined>> /\ c \in Outward BY DEF Push, bridge, Made, TypeOK
<1>1. settled' = settled \cup {p.id} /\ p.id \notin settled BY PushIs
<1>2. p.id.of = Event[c] BY IdOf
<1>3. ~Settled(c) BY <1>1, NotPaidTwice
<1>4. \A x : Settled(x)' <=> Settled(x) \/ p.id.of = IF x \in Inward THEN x ELSE Event[x]
  BY <1>1 DEF Settled
<1>5. ASSUME NEW U PROVE MeltedFor(U)' = MeltedFor(U)
  <2>1. \A x \in Inward : Settled(x)' <=> Settled(x) BY <1>0, <1>2, <1>4, CrossingsAssumption
  <2> QED BY <1>0, <2>1 DEF MeltedFor
<1>6. ASSUME NEW t
      PROVE  /\ SumFunctionOnSet(Amounts, UnpaidOf(t)') \in Nat
             /\ SumFunctionOnSet(Amounts, UnpaidOf(t)') <= SumFunctionOnSet(Amounts, UnpaidOf(t))
             /\ t = Event[c].token =>
                  SumFunctionOnSet(Amounts, UnpaidOf(t)') + Event[c].amount <= SumFunctionOnSet(Amounts, UnpaidOf(t))
  <2>1. Settled(c)' BY <1>0, <1>2, <1>4, CrossingsAssumption
  <2>2. UnpaidOf(t)' \subseteq UnpaidOf(t) \ {c} BY <1>0, <1>4, <2>1 DEF UnpaidOf
  <2>3. IsFiniteSet(UnpaidOf(t)) /\ UnpaidOf(t) \subseteq Outward BY SetsAre
  <2>4. \A x \in UnpaidOf(t) : Amounts[x] \in Nat BY <2>3, ThereIs
  <2> DEFINE S == UnpaidOf(t)
             R == UnpaidOf(t)'
  <2>5. t = Event[c].token => c \in S BY <1>3 DEF UnpaidOf
  <2> HIDE DEF S, R
  <2>6. SumFunctionOnSet(Amounts, R) \in Nat /\ SumFunctionOnSet(Amounts, R) <= SumFunctionOnSet(Amounts, S)
    BY <2>2, <2>3, <2>4, SumWithin DEF S, R
  <2>7. c \in S => SumFunctionOnSet(Amounts, R) + Amounts[c] <= SumFunctionOnSet(Amounts, S)
    BY <2>2, <2>3, <2>4, SumWithout DEF S, R
  <2>8. Amounts[c] = Event[c].amount BY <1>0, ThereIs
  <2> QED BY <2>5, <2>6, <2>7, <2>8 DEF S, R
<1> QED BY <1>5, <1>6

\* What the push leaves alone.
LEMMA PushAlone ==
  ASSUME Made, Covered, NEW p \in proposals, Push(p)
  PROVE  /\ AcceptedSound'
         /\ UNCHANGED <<toEvm, remaps, escrow, minted, mined, claimed, deposited>>
         /\ \A u : Mapped(u)' = Mapped(u)
         /\ \A U : WaitingFor(U)' = WaitingFor(U)
         /\ \A t, ch : Standing(t, ch)' = Standing(t, ch)
<1>0. UNCHANGED <<maps, bridge, deposited>> BY DEF Push
<1>1. UNCHANGED <<toEvm, remaps, escrow, minted, mined, accepted, claimed, deposited>> BY <1>0 DEF maps, bridge
<1>2. settled \subseteq settled' BY PushIs
<1>3. AcceptedSound' BY <1>1, <1>2, AcceptedAlone DEF Covered
<1> QED BY <1>1, <1>3 DEF Mapped, Calls, WaitingFor, Standing

\* A mint pays users no more than the bridge keeps for the event, digits cut off.
LEMMA MintCovered ==
  ASSUME Made, ~Clash, Covered, NEW c \in mined, NEW p \in proposals, MintOf(p, c), Push(p)
  PROVE  Covered'
<1> DEFINE e == Event[c]
           t0 == e.token
           q == ToHathor(e.amount, Decimals[t0])
<1>1. c \in Outward /\ e.to # "wallet" /\ e.amount \in Nat BY CrossingsAssumption DEF Made, TypeOK
<1>2. t0 \in Native /\ p.inputs = {} BY Zenon DEF MintOf
<1>3. PICK u \in Uids : p.outputs = Pay(e.to, u, q) /\ [chain |-> Evm, token |-> t0, uid |-> u] \in Calls
  BY Zenon DEF MintOf
<1>4. q \in Nat /\ q * Power[16] <= e.amount * Power[18 - Decimals[t0]]
  <2>1. Decimals[t0] \in 0..18 BY <1>2, TokensAssumption
  <2> QED BY <1>1, <2>1, ToHathorCuts
<1>5. u \in Standing(t0, Evm) /\ Mapped(u) /\ \A t : t # t0 => u \notin Standing(t, Evm)
  <2> DEFINE m == [chain |-> Evm, token |-> t0, uid |-> u]
  <2>1. m.chain = Evm /\ m.token = t0 /\ m.uid = u OBVIOUS
  <2> HIDE DEF m, t0
  <2>2. m \in Calls BY <1>3 DEF m
  <2>3. toEvm[u] = [chain |-> Evm, token |-> t0] BY <2>1, <2>2, CallIs
  <2>4. Mapped(u) BY <2>1, <2>2 DEF Mapped
  <2> QED BY <2>3, <2>4 DEF Standing
<1> DEFINE user == e.to
<1>6. Back(p) = {} /\ ToUsers(p, u) = q /\ \A v : v # u => ToUsers(p, v) = 0
  <2>1. user # "wallet" /\ p.outputs = Pay(user, u, q) BY <1>1, <1>3
  <2> HIDE DEF q, user
  <2> QED BY <1>2, <1>4, <2>1, MintIs
<1> HIDE DEF q
<1>7. ASSUME NEW v \in Uids
      PROVE  /\ KeptBy'[v] = KeptBy[v] /\ KeptBy[v] \in Nat /\ HeldBy[v] \in Nat
             /\ HeldBy'[v] = IF v = u THEN HeldBy[v] + q ELSE HeldBy[v]
  <2>1. /\ KeptBy'[v] = KeptBy[v] - Value(Of(p.inputs, v)) + Value(Of(Back(p), v))
        /\ HeldBy'[v] = held[v] + ToUsers(p, v) + KeptBy'[v]
        /\ HeldBy[v] = held[v] + KeptBy[v]
        /\ held[v] \in Nat /\ KeptBy[v] \in Nat
    BY PushKeeps
  <2>2. Of({}, v) = {} BY DEF Of
  <2>3. Value(Of(p.inputs, v)) = 0 /\ Value(Of(Back(p), v)) = 0 BY <1>2, <1>6, <2>2, ValueEmpty
  <2>4. KeptBy'[v] = KeptBy[v] BY <2>1, <2>3
  <2> QED BY <1>4, <1>6, <2>1, <2>4
<1>8. /\ AcceptedSound'
      /\ UNCHANGED <<toEvm, remaps, escrow, minted, mined, claimed, deposited>>
      /\ \A v : Mapped(v)' = Mapped(v)
      /\ \A U : WaitingFor(U)' = WaitingFor(U)
      /\ \A t, ch : Standing(t, ch)' = Standing(t, ch)
  BY PushAlone
<1>9. /\ \A U : MeltedFor(U)' = MeltedFor(U)
      /\ \A t : /\ SumFunctionOnSet(Amounts, UnpaidOf(t)') \in Nat
                /\ SumFunctionOnSet(Amounts, UnpaidOf(t)') <= SumFunctionOnSet(Amounts, UnpaidOf(t))
                /\ t = t0 => SumFunctionOnSet(Amounts, UnpaidOf(t)') + e.amount <= SumFunctionOnSet(Amounts, UnpaidOf(t))
  BY PaidOff
<1> HIDE DEF t0, e
<1>10. StrangersKept'
  <2> SUFFICES ASSUME NEW v \in Uids, ~Mapped(v)
               PROVE  /\ HeldBy'[v] = Circulating[v]
                      /\ SumFunctionOnSet(EvmTotals, WaitingFor({v})) <= ToEvm(KeptBy'[v])
    BY <1>8 DEF StrangersKept
  <2>1. v # u BY <1>5
  <2> QED BY <1>7, <2>1 DEF Covered, StrangersKept
<1>11. EscrowSuffices'
  <2> SUFFICES ASSUME NEW t \in Native, NEW U, U = Standing(t, Evm)
               PROVE  (SumFunctionOnSet(HeldBy', U) + SumFunctionOnSet(Totals, MeltedFor(U))) * Power[16]
                        + SumFunctionOnSet(Amounts, UnpaidOf(t)') * Power[18 - Decimals[t]]
                        <= escrow[t] * Power[18 - Decimals[t]]
    <3>1. \A U : {x \in Inward \ claimed' : Uid[x] \in U /\ Settled(x)'} = MeltedFor(U) BY <1>9 DEF MeltedFor
    <3> QED BY <1>8, <3>1 DEF EscrowSuffices, Owed, MeltedFor
  <2> DEFINE h == SumFunctionOnSet(HeldBy, U)
             g == SumFunctionOnSet(HeldBy', U)
             m == SumFunctionOnSet(Totals, MeltedFor(U))
             P == Power[18 - Decimals[t]]
             Q == Power[16]
             a == SumFunctionOnSet(Amounts, UnpaidOf(t))
             v == SumFunctionOnSet(Amounts, UnpaidOf(t)')
  <2>1. (h + m) * Q + a * P <= escrow[t] * P BY DEF Covered, EscrowSuffices, Owed
  <2>2. P \in Nat /\ Q \in Nat
    <3>1. Decimals[t] \in 0..18 BY TokensAssumption
    <3> QED BY <3>1, PowerPositive
  <2>3. h \in Nat /\ m \in Nat /\ a \in Nat BY KeptIs, SetsAre
  <2>4. v \in Nat /\ v <= a /\ (t = t0 => v + e.amount <= a) BY <1>9
  <2>5. U \subseteq Uids /\ IsFiniteSet(U) BY SetsAre
  <2>6. escrow[t] * P \in Int
    <3>1. escrow[t] \in Int BY DEF Made, TypeOK
    <3> QED BY <2>2, <3>1, Scaled
  <2>7. CASE t = t0
    <3>1. u \in U BY <1>5, <2>7
    <3>2. g = h + q
      <4>1. \A x \in U : HeldBy[x] \in Int /\ HeldBy'[x] \in Int BY <1>4, <1>7, <2>5
      <4>2. \A x \in U \ {u} : HeldBy'[x] = HeldBy[x] BY <1>7, <2>5
      <4>3. g = h + (HeldBy'[u] - HeldBy[u]) BY <2>5, <3>1, <4>1, <4>2, SumChange
      <4>4. HeldBy'[u] - HeldBy[u] = q BY <1>4, <1>7
      <4> QED BY <4>3, <4>4
    <3>3. q * Q <= e.amount * P BY <1>4, <2>7
    <3> HIDE DEF h, g, m, P, Q, a, v
    <3>4. (g + m) = (h + m) + q /\ h + m \in Int BY <1>4, <2>3, <3>2
    <3>5. (g + m) * Q = (h + m) * Q + q * Q BY <1>4, <2>2, <3>4, Scaled
    <3>6. (v + e.amount) * P <= a * P /\ (v + e.amount) * P = v * P + e.amount * P
      <4>1. v + e.amount \in Int /\ a \in Int /\ v \in Int /\ e.amount \in Int BY <1>1, <2>3, <2>4
      <4> QED BY <2>2, <2>4, <2>7, <4>1, Scaled
    <3>7. /\ (h + m) * Q \in Int /\ q * Q \in Int /\ a * P \in Int /\ v * P \in Int /\ e.amount * P \in Int
      BY <1>1, <1>4, <2>2, <2>3, <2>4, <3>4, Scaled
    <3>8. (g + m) * Q + v * P <= escrow[t] * P BY <2>1, <2>6, <3>3, <3>5, <3>6, <3>7
    <3> QED BY <3>8 DEF g, m, P, Q, v
  <2>8. CASE t # t0
    <3>1. u \notin U BY <1>5, <2>8
    <3>2. g = h
      <4>1. \A x \in U : HeldBy'[x] = HeldBy[x] /\ HeldBy'[x] \in Int BY <1>7, <2>5, <3>1
      <4> QED BY <2>5, <4>1, SumAgree
    <3> HIDE DEF h, g, m, P, Q, a, v
    <3>3. v * P <= a * P BY <2>2, <2>3, <2>4, Scaled
    <3>4. (h + m) * Q \in Int /\ a * P \in Int /\ v * P \in Int
      <4>1. h + m \in Int BY <2>3
      <4> QED BY <2>2, <2>3, <2>4, <4>1, Scaled
    <3>5. (g + m) * Q + v * P <= escrow[t] * P BY <2>1, <2>6, <3>2, <3>3, <3>4
    <3> QED BY <3>5 DEF g, m, P, Q, v
  <2> QED BY <2>7, <2>8
<1>12. WalletSuffices'
  <2> SUFFICES ASSUME NEW t \in Pseudo, NEW U, U = Standing(t, Hathor)
               PROVE  minted[t] + SumFunctionOnSet(EvmTotals, WaitingFor(U)) + SumFunctionOnSet(Amounts, UnpaidOf(t)')
                        <= ToEvm(SumFunctionOnSet(KeptBy', U))
    BY <1>8 DEF WalletSuffices
  <2>1. SumFunctionOnSet(KeptBy', U) = SumFunctionOnSet(KeptBy, U)
    <3>1. U \subseteq Uids /\ IsFiniteSet(U) BY SetsAre
    <3>2. \A x \in U : KeptBy'[x] = KeptBy[x] /\ KeptBy'[x] \in Int BY <1>7, <3>1
    <3> QED BY <3>1, <3>2, SumAgree
  <2> DEFINE k == ToEvm(SumFunctionOnSet(KeptBy, U))
             w == SumFunctionOnSet(EvmTotals, WaitingFor(U))
             a == SumFunctionOnSet(Amounts, UnpaidOf(t))
             v == SumFunctionOnSet(Amounts, UnpaidOf(t)')
  <2>2. minted[t] + w + a <= k BY DEF Covered, WalletSuffices
  <2>3. w \in Nat /\ a \in Nat /\ minted[t] \in Nat BY SetsAre DEF Made, TypeOK
  <2>4. v \in Nat /\ v <= a BY <1>9
  <2>5. k \in Int
    <3>1. SumFunctionOnSet(KeptBy, U) \in Int BY KeptIs, SetsAre
    <3> QED BY <3>1, ToEvmAdds
  <2> HIDE DEF k, w, a, v
  <2>6. minted[t] + w + v <= k BY <2>2, <2>3, <2>4, <2>5
  <2> QED BY <2>1, <2>6 DEF k, w, v
<1> QED BY <1>8, <1>10, <1>11, <1>12 DEF Covered

\* A transfer takes from the wallet no more than the side tokens that were burnt for it.
LEMMA TransferCovered ==
  ASSUME Made, ~Clash, Covered, NEW c \in mined, NEW p \in proposals, TransferOf(p, c), Push(p)
  PROVE  Covered'
<1> DEFINE e == Event[c]
           t0 == e.token
           q == ToHathor(e.amount, 18)
           user == e.to
<1>1. c \in Outward /\ user # "wallet" /\ e.amount \in Nat BY CrossingsAssumption DEF Made, TypeOK
<1>2. t0 \in Pseudo BY Zenon DEF TransferOf
<1>3. PICK u \in Uids : /\ Spends(p, u, q) /\ p.outputs = Pay(user, u, q) \cup Change(p.inputs, u, q)
                        /\ [chain |-> Hathor, token |-> t0, uid |-> u] \in Calls
  BY Zenon DEF TransferOf
<1>4. q \in Nat /\ ToEvm(q) <= e.amount
  <2>1. PICK d \in 0..18 : d = 18 OBVIOUS
  <2>2. /\ ToHathor(e.amount, d) \in Nat
        /\ ToHathor(e.amount, d) * Power[16] <= e.amount * Power[18 - d]
    BY <1>1, ToHathorCuts
  <2>3. q \in Nat /\ q * Power[16] <= e.amount * Power[18 - d] BY <2>1, <2>2
  <2>4. Power[18 - d] = 1
    <3>1. 18 - d = 0 BY <2>1
    <3> QED BY <3>1, PowerIs
  <2> HIDE DEF q, e
  <2> QED BY <1>1, <2>3, <2>4 DEF ToEvm
<1>5. u \in Standing(t0, Hathor) /\ Mapped(u) /\ \A t : t # t0 => u \notin Standing(t, Hathor)
  <2> DEFINE m == [chain |-> Hathor, token |-> t0, uid |-> u]
  <2>1. m.chain = Hathor /\ m.token = t0 /\ m.uid = u OBVIOUS
  <2> HIDE DEF m, t0
  <2>2. m \in Calls BY <1>3 DEF m
  <2>3. toEvm[u] = [chain |-> Hathor, token |-> t0] BY <2>1, <2>2, CallIs
  <2>4. Mapped(u) BY <2>1, <2>2 DEF Mapped
  <2> QED BY <2>3, <2>4 DEF Standing
<1> HIDE DEF q, user
<1>6. /\ Back(p) = Change(p.inputs, u, q)
      /\ ToUsers(p, u) = q /\ \A v : v # u => ToUsers(p, v) = 0
  BY <1>1, <1>3, TransferIs
<1>7. ASSUME NEW v \in Uids
      PROVE  /\ HeldBy'[v] = HeldBy[v] /\ HeldBy[v] \in Nat /\ KeptBy[v] \in Nat
             /\ KeptBy'[v] = IF v = u THEN KeptBy[v] - q ELSE KeptBy[v]
  <2>1. /\ KeptBy'[v] = KeptBy[v] - Value(Of(p.inputs, v)) + Value(Of(Back(p), v))
        /\ HeldBy'[v] = held[v] + ToUsers(p, v) + KeptBy'[v]
        /\ HeldBy[v] = held[v] + KeptBy[v]
        /\ held[v] \in Nat /\ KeptBy[v] \in Nat
    BY PushKeeps
  <2> DEFINE C == Change(p.inputs, u, q)
  <2>2. /\ Value(p.inputs) \in Nat /\ Of(p.inputs, u) = p.inputs /\ Value(C) = Value(p.inputs) - q /\ Of(C, u) = C
        /\ \A o \in C : o.uid = u
    BY <1>3, SpendsIs
  <2>3. \A k \in p.inputs : k.uid = u BY <1>3 DEF Spends
  <2> HIDE DEF C
  <2>4. CASE v = u
    <3>1. Value(Of(p.inputs, v)) = Value(p.inputs) /\ Value(Of(Back(p), v)) = Value(p.inputs) - q
      BY <1>6, <2>2, <2>4 DEF C
    <3> DEFINE i == Value(p.inputs)
    <3>2. i \in Nat /\ KeptBy'[v] = (KeptBy[v] - i) + (i - q) BY <2>1, <2>2, <3>1
    <3> HIDE DEF i
    <3>3. KeptBy'[v] = KeptBy[v] - q BY <1>4, <2>1, <3>2
    <3> QED BY <1>4, <1>6, <2>1, <2>4, <3>3
  <2>5. CASE v # u
    <3>1. Of(p.inputs, v) = {} /\ Of(C, v) = {} BY <2>2, <2>3, <2>5, OfOne
    <3>2. Value(Of(p.inputs, v)) = 0 /\ Value(Of(Back(p), v)) = 0 BY <1>6, <3>1, ValueEmpty DEF C
    <3> QED BY <1>6, <2>1, <2>5, <3>2
  <2> QED BY <2>4, <2>5
<1>8. /\ AcceptedSound'
      /\ UNCHANGED <<toEvm, remaps, escrow, minted, mined, claimed, deposited>>
      /\ \A v : Mapped(v)' = Mapped(v)
      /\ \A U : WaitingFor(U)' = WaitingFor(U)
      /\ \A t, ch : Standing(t, ch)' = Standing(t, ch)
  BY PushAlone
<1>9. /\ \A U : MeltedFor(U)' = MeltedFor(U)
      /\ \A t : /\ SumFunctionOnSet(Amounts, UnpaidOf(t)') \in Nat
                /\ SumFunctionOnSet(Amounts, UnpaidOf(t)') <= SumFunctionOnSet(Amounts, UnpaidOf(t))
                /\ t = t0 => SumFunctionOnSet(Amounts, UnpaidOf(t)') + e.amount <= SumFunctionOnSet(Amounts, UnpaidOf(t))
  BY PaidOff
<1> HIDE DEF t0, e
<1>10. StrangersKept'
  <2> SUFFICES ASSUME NEW v \in Uids, ~Mapped(v)
               PROVE  /\ HeldBy'[v] = Circulating[v]
                      /\ SumFunctionOnSet(EvmTotals, WaitingFor({v})) <= ToEvm(KeptBy'[v])
    BY <1>8 DEF StrangersKept
  <2>1. v # u BY <1>5
  <2> QED BY <1>7, <2>1 DEF Covered, StrangersKept
<1>11. EscrowSuffices'
  <2> SUFFICES ASSUME NEW t \in Native, NEW U, U = Standing(t, Evm)
               PROVE  (SumFunctionOnSet(HeldBy', U) + SumFunctionOnSet(Totals, MeltedFor(U))) * Power[16]
                        + SumFunctionOnSet(Amounts, UnpaidOf(t)') * Power[18 - Decimals[t]]
                        <= escrow[t] * Power[18 - Decimals[t]]
    <3>1. \A U : {x \in Inward \ claimed' : Uid[x] \in U /\ Settled(x)'} = MeltedFor(U) BY <1>9 DEF MeltedFor
    <3> QED BY <1>8, <3>1 DEF EscrowSuffices, Owed, MeltedFor
  <2>1. SumFunctionOnSet(HeldBy', U) = SumFunctionOnSet(HeldBy, U)
    <3>1. U \subseteq Uids /\ IsFiniteSet(U) BY SetsAre
    <3>2. \A x \in U : HeldBy'[x] = HeldBy[x] /\ HeldBy'[x] \in Int BY <1>7, <3>1
    <3> QED BY <3>1, <3>2, SumAgree
  <2> DEFINE h == (SumFunctionOnSet(HeldBy, U) + SumFunctionOnSet(Totals, MeltedFor(U))) * Power[16]
             P == Power[18 - Decimals[t]]
             a == SumFunctionOnSet(Amounts, UnpaidOf(t))
             v == SumFunctionOnSet(Amounts, UnpaidOf(t)')
  <2>2. h + a * P <= escrow[t] * P BY DEF Covered, EscrowSuffices, Owed
  <2>3. P \in Nat
    <3>1. Decimals[t] \in 0..18 BY TokensAssumption
    <3> QED BY <3>1, PowerPositive
  <2>4. h \in Int
    <3>1. SumFunctionOnSet(HeldBy, U) \in Nat /\ SumFunctionOnSet(Totals, MeltedFor(U)) \in Nat BY KeptIs, SetsAre
    <3>2. Power[16] \in Nat BY PowerPositive
    <3>3. SumFunctionOnSet(HeldBy, U) + SumFunctionOnSet(Totals, MeltedFor(U)) \in Nat BY <3>1
    <3> QED BY <3>2, <3>3, Scaled
  <2>5. a \in Nat /\ v \in Nat /\ v <= a BY <1>9, SetsAre
  <2>6. escrow[t] * P \in Int
    <3>1. escrow[t] \in Int BY DEF Made, TypeOK
    <3> QED BY <2>3, <3>1, Scaled
  <2> HIDE DEF h, P, a, v
  <2>7. v * P <= a * P /\ v * P \in Int /\ a * P \in Int BY <2>3, <2>5, Scaled
  <2>8. h + v * P <= escrow[t] * P BY <2>2, <2>4, <2>6, <2>7
  <2> QED BY <2>1, <2>8 DEF h, P, v
<1>12. WalletSuffices'
  <2> SUFFICES ASSUME NEW t \in Pseudo, NEW U, U = Standing(t, Hathor)
               PROVE  minted[t] + SumFunctionOnSet(EvmTotals, WaitingFor(U)) + SumFunctionOnSet(Amounts, UnpaidOf(t)')
                        <= ToEvm(SumFunctionOnSet(KeptBy', U))
    BY <1>8 DEF WalletSuffices
  <2> DEFINE k == SumFunctionOnSet(KeptBy, U)
             l == SumFunctionOnSet(KeptBy', U)
             w == SumFunctionOnSet(EvmTotals, WaitingFor(U))
             a == SumFunctionOnSet(Amounts, UnpaidOf(t))
             v == SumFunctionOnSet(Amounts, UnpaidOf(t)')
  <2>1. U \subseteq Uids /\ IsFiniteSet(U) BY SetsAre
  <2>2. minted[t] + w + a <= ToEvm(k) BY DEF Covered, WalletSuffices
  <2>3. w \in Nat /\ a \in Nat /\ minted[t] \in Nat BY SetsAre DEF Made, TypeOK
  <2>4. v \in Nat /\ v <= a /\ (t = t0 => v + e.amount <= a) BY <1>9
  <2>5. k \in Int /\ ToEvm(k) \in Int /\ ToEvm(q) \in Int
    <3>1. k \in Int BY <2>1, KeptIs
    <3> HIDE DEF k
    <3> QED BY <1>4, <3>1, ToEvmAdds
  <2>6. CASE t = t0
    <3>1. u \in U BY <1>5, <2>6
    <3>2. l = k - q
      <4>1. \A x \in U : KeptBy[x] \in Int /\ KeptBy'[x] \in Int BY <1>4, <1>7, <2>1
      <4>2. \A x \in U \ {u} : KeptBy'[x] = KeptBy[x] BY <1>7, <2>1
      <4>3. l = k + (KeptBy'[u] - KeptBy[u]) BY <2>1, <3>1, <4>1, <4>2, SumChange
      <4>4. KeptBy'[u] - KeptBy[u] = -q BY <1>4, <1>7
      <4> HIDE DEF k, l
      <4> QED BY <1>4, <2>5, <4>3, <4>4
    <3> HIDE DEF k, l, w, a, v
    <3>3. ToEvm(l) + ToEvm(q) = ToEvm(k) /\ ToEvm(l) \in Int
      <4>1. l \in Int /\ q \in Int /\ l + q = k BY <1>4, <2>5, <3>2
      <4>2. ToEvm(l + q) = ToEvm(l) + ToEvm(q) /\ ToEvm(l) \in Int BY <4>1, ToEvmAdds
      <4> QED BY <4>1, <4>2
    <3>4. minted[t] + w + v <= ToEvm(l) BY <1>1, <1>4, <2>2, <2>3, <2>4, <2>5, <2>6, <3>3
    <3> QED BY <3>4 DEF l, w, v
  <2>7. CASE t # t0
    <3>1. u \notin U BY <1>5, <2>7
    <3>2. l = k
      <4>1. \A x \in U : KeptBy'[x] = KeptBy[x] /\ KeptBy'[x] \in Int BY <1>7, <2>1, <3>1
      <4> QED BY <2>1, <4>1, SumAgree
    <3> HIDE DEF k, l, w, a, v
    <3>3. minted[t] + w + v <= ToEvm(l) BY <2>2, <2>3, <2>4, <2>5, <3>2
    <3> QED BY <3>3 DEF l, w, v
  <2> QED BY <2>6, <2>7
<1> QED BY <1>8, <1>10, <1>11, <1>12 DEF Covered

\* A melt takes out of circulation what the bridge will release.
LEMMA MeltCovered ==
  ASSUME Made, ~Clash, Covered, NEW c \in Inward, NEW p \in proposals, MeltOf(p, c), Push(p)
  PROVE  Covered'
<1> DEFINE u == Uid[c]
           T == Total(c)
<1>1. u \in Uids /\ T \in Nat /\ Totals[c] = T BY ThereIs, CoinsAre, CrossingsAssumption
<1>2. /\ p.id = InwardId(c) /\ Spends(p, u, T) /\ p.outputs = Change(p.inputs, u, T)
      /\ \E m \in Calls : m.uid = u /\ m.chain = Evm
  BY DEF MeltOf
<1>3. Mapped(u) /\ \A t : u \notin Standing(t, Hathor)
  <2>1. PICK m \in Calls : m.uid = u /\ m.chain = Evm BY <1>2
  <2>2. Mapped(u) BY <2>1 DEF Mapped
  <2>3. toEvm[u] = [chain |-> Evm, token |-> m.token] BY <2>1, CallIs
  <2>4. toEvm[u].chain = 1 BY <2>3 DEF Evm
  <2> QED BY <2>2, <2>4 DEF Standing, Hathor
<1>4. Back(p) = Change(p.inputs, u, T) /\ \A v : ToUsers(p, v) = 0 BY <1>2, MeltIs
<1> HIDE DEF u, T
<1>7. ASSUME NEW v \in Uids
      PROVE  /\ KeptBy'[v] = IF v = u THEN KeptBy[v] - T ELSE KeptBy[v]
             /\ HeldBy'[v] = IF v = u THEN HeldBy[v] - T ELSE HeldBy[v]
             /\ HeldBy[v] \in Nat /\ KeptBy[v] \in Nat
  <2>1. /\ KeptBy'[v] = KeptBy[v] - Value(Of(p.inputs, v)) + Value(Of(Back(p), v))
        /\ HeldBy'[v] = held[v] + ToUsers(p, v) + KeptBy'[v]
        /\ HeldBy[v] = held[v] + KeptBy[v]
        /\ held[v] \in Nat /\ KeptBy[v] \in Nat
    BY PushKeeps
  <2> DEFINE C == Change(p.inputs, u, T)
  <2>2. /\ Value(p.inputs) \in Nat /\ Of(p.inputs, u) = p.inputs /\ Value(C) = Value(p.inputs) - T /\ Of(C, u) = C
        /\ \A o \in C : o.uid = u
    BY <1>2, SpendsIs
  <2>3. \A k \in p.inputs : k.uid = u BY <1>2 DEF Spends
  <2> HIDE DEF C
  <2>4. CASE v = u
    <3>1. Value(Of(p.inputs, v)) = Value(p.inputs) /\ Value(Of(Back(p), v)) = Value(p.inputs) - T
      BY <1>4, <2>2, <2>4 DEF C
    <3> DEFINE i == Value(p.inputs)
    <3>2. i \in Nat /\ KeptBy'[v] = (KeptBy[v] - i) + (i - T) BY <2>1, <2>2, <3>1
    <3> HIDE DEF i
    <3>3. KeptBy'[v] = KeptBy[v] - T BY <1>1, <2>1, <3>2
    <3> QED BY <1>1, <1>4, <2>1, <2>4, <3>3
  <2>5. CASE v # u
    <3>1. Of(p.inputs, v) = {} /\ Of(C, v) = {} BY <2>2, <2>3, <2>5, OfOne
    <3>2. Value(Of(p.inputs, v)) = 0 /\ Value(Of(Back(p), v)) = 0 BY <1>4, <3>1, ValueEmpty DEF C
    <3> QED BY <1>4, <2>1, <2>5, <3>2
  <2> QED BY <2>4, <2>5
<1>8. /\ AcceptedSound'
      /\ UNCHANGED <<toEvm, remaps, escrow, minted, mined, claimed, deposited>>
      /\ \A v : Mapped(v)' = Mapped(v)
      /\ \A U : WaitingFor(U)' = WaitingFor(U)
      /\ \A t, ch : Standing(t, ch)' = Standing(t, ch)
  BY PushAlone
<1>9. /\ \A x \in Outward : Settled(x)' <=> Settled(x)
      /\ \A x \in Inward : Settled(x)' <=> Settled(x) \/ x = c
  <2>1. settled' = settled \cup {p.id} BY PushIs
  <2>2. p.id.of = c BY <1>2 DEF InwardId
  <2>3. \A x : Settled(x)' <=> Settled(x) \/ c = IF x \in Inward THEN x ELSE Event[x]
    BY <2>1, <2>2 DEF Settled
  <2> QED BY <2>3, CrossingsAssumption
<1>10. \A t : UnpaidOf(t)' = UnpaidOf(t) BY <1>8, <1>9 DEF UnpaidOf, Made, TypeOK
<1>11. StrangersKept'
  <2> SUFFICES ASSUME NEW v \in Uids, ~Mapped(v)
               PROVE  /\ HeldBy'[v] = Circulating[v]
                      /\ SumFunctionOnSet(EvmTotals, WaitingFor({v})) <= ToEvm(KeptBy'[v])
    BY <1>8 DEF StrangersKept
  <2>1. v # u BY <1>3
  <2> QED BY <1>7, <2>1 DEF Covered, StrangersKept
<1>12. EscrowSuffices'
  <2> SUFFICES ASSUME NEW t \in Native, NEW U, U = Standing(t, Evm)
               PROVE  (SumFunctionOnSet(HeldBy', U) + SumFunctionOnSet(Totals, MeltedFor(U)')) * Power[16]
                        + SumFunctionOnSet(Amounts, UnpaidOf(t)) * Power[18 - Decimals[t]]
                        <= escrow[t] * Power[18 - Decimals[t]]
    BY <1>8, <1>10 DEF EscrowSuffices, Owed, MeltedFor
  <2> DEFINE h == SumFunctionOnSet(HeldBy, U)
             g == SumFunctionOnSet(HeldBy', U)
             m == SumFunctionOnSet(Totals, MeltedFor(U))
             n == SumFunctionOnSet(Totals, MeltedFor(U)')
             Q == Power[16]
             a == SumFunctionOnSet(Amounts, UnpaidOf(t)) * Power[18 - Decimals[t]]
             e == escrow[t] * Power[18 - Decimals[t]]
  <2>1. (h + m) * Q + a <= e BY DEF Covered, EscrowSuffices, Owed
  <2>2. U \subseteq Uids /\ IsFiniteSet(U) /\ h \in Nat /\ m \in Nat BY KeptIs, SetsAre
  <2>3. Q \in Nat /\ a \in Int /\ e \in Int
    <3>1. Decimals[t] \in 0..18 BY TokensAssumption
    <3>2. Q \in Nat /\ Power[18 - Decimals[t]] \in Nat BY <3>1, PowerPositive
    <3>3. SumFunctionOnSet(Amounts, UnpaidOf(t)) \in Int /\ escrow[t] \in Int BY SetsAre DEF Made, TypeOK
    <3> QED BY <3>2, <3>3, Scaled
  <2>4. g + n <= h + m /\ g + n \in Int
    <3>1. IsFiniteSet(MeltedFor(U)) /\ MeltedFor(U) \subseteq Inward BY SetsAre
    <3>2. \A x \in MeltedFor(U) \cup {c} : Totals[x] \in Nat BY <3>1, ThereIs
    <3>3. MeltedFor(U)' \subseteq MeltedFor(U) \cup {c} BY <1>8, <1>9 DEF MeltedFor
    <3>4. n <= m + T BY <1>1, <3>1, <3>2, <3>3, SumOneMore
    <3>5. n \in Nat
      <4>1. IsFiniteSet(MeltedFor(U) \cup {c}) BY <3>1, FS_AddElement
      <4>2. IsFiniteSet(MeltedFor(U)') BY <3>3, <4>1, FS_Subset
      <4>3. \A x \in MeltedFor(U)' : Totals[x] \in Nat BY <3>2, <3>3
      <4> QED BY <4>2, <4>3, SumNat
    <3>6. CASE u \in U
      <4>1. \A x \in U : HeldBy[x] \in Int /\ HeldBy'[x] \in Int BY <1>1, <1>7, <2>2
      <4>2. \A x \in U \ {u} : HeldBy'[x] = HeldBy[x] BY <1>7, <2>2
      <4>3. g = h + (HeldBy'[u] - HeldBy[u]) BY <2>2, <3>6, <4>1, <4>2, SumChange
      <4>4. HeldBy'[u] - HeldBy[u] = -T BY <1>1, <1>7
      <4> HIDE DEF g, h, m, n
      <4>5. g = h - T BY <1>1, <2>2, <4>3, <4>4
      <4> QED BY <1>1, <2>2, <3>4, <3>5, <4>5
    <3>7. CASE u \notin U
      <4>1. \A x \in U : HeldBy'[x] = HeldBy[x] /\ HeldBy'[x] \in Int BY <1>7, <2>2, <3>7
      <4>2. g = h BY <2>2, <4>1, SumAgree
      <4>3. MeltedFor(U)' = MeltedFor(U) BY <1>8, <1>9, <3>7 DEF MeltedFor, u
      <4> QED BY <2>2, <4>2, <4>3
    <3> QED BY <3>6, <3>7
  <2> HIDE DEF h, g, m, n, Q, a, e
  <2>5. h + m \in Int BY <2>2
  <2>6. (g + n) * Q <= (h + m) * Q /\ (g + n) * Q \in Int /\ (h + m) * Q \in Int BY <2>3, <2>4, <2>5, Scaled
  <2>7. (g + n) * Q + a <= e BY <2>1, <2>3, <2>6
  <2> QED BY <2>7 DEF g, n, Q, a, e
<1>13. WalletSuffices'
  <2> SUFFICES ASSUME NEW t \in Pseudo, NEW U, U = Standing(t, Hathor)
               PROVE  minted[t] + SumFunctionOnSet(EvmTotals, WaitingFor(U)) + SumFunctionOnSet(Amounts, UnpaidOf(t))
                        <= ToEvm(SumFunctionOnSet(KeptBy', U))
    BY <1>8, <1>10 DEF WalletSuffices
  <2>1. SumFunctionOnSet(KeptBy', U) = SumFunctionOnSet(KeptBy, U)
    <3>1. U \subseteq Uids /\ IsFiniteSet(U) /\ u \notin U BY <1>3, SetsAre
    <3>2. \A x \in U : KeptBy'[x] = KeptBy[x] /\ KeptBy'[x] \in Int BY <1>7, <3>1
    <3> QED BY <3>1, <3>2, SumAgree
  <2> QED BY <2>1 DEF Covered, WalletSuffices
<1> QED BY <1>8, <1>11, <1>12, <1>13 DEF Covered

\* The push of any transaction, of the three kinds.
LEMMA PushCovered ==
  ASSUME Made, ~Clash, Covered, NEW p \in proposals, Push(p)
  PROVE  Covered'
<1>1. \/ \E c \in mined : MintOf(p, c) \/ TransferOf(p, c)
      \/ \E c \in Inward : MeltOf(p, c)
  BY DEF Made, ProposalsMade
<1> QED BY <1>1, MintCovered, TransferCovered, MeltCovered

\* At first nothing crossed.
LEMMA CoveredAtFirst ==
  ASSUME Init
  PROVE  Covered
<1>0. Made BY MadeAtFirst
<1>1. AcceptedSound BY DEF AcceptedSound, Init
<1>2. \A u \in Uids : HeldBy[u] = Circulating[u] /\ KeptBy[u] = 0
  <2> SUFFICES ASSUME NEW u \in Uids PROVE HeldBy[u] = Circulating[u] /\ KeptBy[u] = 0
    OBVIOUS
  <2>1. Of(wallet, u) = {} BY DEF Of, Init
  <2>2. KeptBy[u] = 0 BY <1>0, <2>1, KeptIs, ValueEmpty
  <2>3. HeldBy[u] = held[u] + KeptBy[u] BY <1>0, KeptIs
  <2>4. Circulating[u] \in Nat /\ held = Circulating BY SupplyAssumption DEF Init
  <2> QED BY <2>2, <2>3, <2>4
<1>3. /\ \A U : WaitingFor(U) = {} /\ MeltedFor(U) = {}
      /\ \A t : UnpaidOf(t) = {}
  BY DEF WaitingFor, MeltedFor, UnpaidOf, Settled, Init
<1>4. \A f : SumFunctionOnSet(f, {}) = 0 BY SumEmpty
<1>5. StrangersKept
  <2>1. \A u \in Uids : SumFunctionOnSet(EvmTotals, WaitingFor({u})) = 0 BY <1>3, <1>4
  <2>2. ToEvm(0) = 0 BY ToEvmAdds
  <2> QED BY <1>2, <2>1, <2>2 DEF StrangersKept
<1>6. EscrowSuffices
  <2> SUFFICES ASSUME NEW t \in Native
               PROVE  Owed(Standing(t, Evm)) * Power[16]
                        + SumFunctionOnSet(Amounts, UnpaidOf(t)) * Power[18 - Decimals[t]]
                        <= escrow[t] * Power[18 - Decimals[t]]
    BY DEF EscrowSuffices
  <2> DEFINE U == Standing(t, Evm)
  <2>1. IsFiniteSet(U) /\ U \subseteq Uids BY <1>0, SetsAre
  <2>2. \A u \in U : HeldBy[u] = 0
    <3> SUFFICES ASSUME NEW u \in U PROVE Circulating[u] = 0
      BY <1>2, <2>1
    <3>1. toEvm[u].chain = 1 /\ u \in Uids BY DEF Standing, Evm
    <3>2. PICK m \in Calls : m.uid = u /\ toEvm[u] = [chain |-> m.chain, token |-> m.token]
      BY <1>0, <3>1 DEF Made, MapsFollow, Unmapped
    <3>3. m.chain = Evm /\ m \in FirstMap BY <3>1, <3>2 DEF Calls, Evm, Init
    <3> QED BY <3>2, <3>3, SupplyAssumption
  <2>3. SumFunctionOnSet(HeldBy, U) = 0
    <3>1. SumFunctionOnSet(HeldBy, U) <= SumFunctionOnSet([u \in Uids |-> 0], U)
      <4> DEFINE z == [u \in Uids |-> 0]
      <4>1. \A u \in U : HeldBy[u] \in Int /\ z[u] \in Int /\ HeldBy[u] <= z[u] BY <2>1, <2>2
      <4> QED BY <2>1, <4>1, SumBelow
    <3>2. SumFunctionOnSet([u \in Uids |-> 0], U) <= 0
      <4> DEFINE z == [u \in Uids |-> 0]
                 F == {R \in SUBSET U : SumFunctionOnSet(z, R) = 0}
      <4>1. {} \in F BY SumEmpty
      <4>2. ASSUME NEW R \in SUBSET U, NEW u \in U \ R, R \in F PROVE R \cup {u} \in F
        <5>1. z[u] = 0 /\ \A x \in R \cup {u} : z[x] \in Int BY <2>1
        <5>2. IsFiniteSet(R) BY <2>1, FS_Subset
        <5> HIDE DEF z
        <5>3. SumFunctionOnSet(z, R \cup {u}) = SumFunctionOnSet(z, R) + z[u] BY <5>1, <5>2, SumAdd
        <5> QED BY <4>2, <5>1, <5>3
      <4> HIDE DEF F
      <4>3. U \in F BY <2>1, <4>1, <4>2, SubsetInduction
      <4> QED BY <4>3 DEF F
    <3>3. SumFunctionOnSet(HeldBy, U) \in Nat BY <1>0, <2>1, KeptIs
    <3>4. SumFunctionOnSet([u \in Uids |-> 0], U) \in Int
      <4> DEFINE z == [u \in Uids |-> 0]
      <4>1. \A u \in U : z[u] \in Int BY <2>1
      <4> HIDE DEF z
      <4>2. SumFunctionOnSet(z, U) \in Int BY <2>1, <4>1, SumInt
      <4> QED BY <4>2 DEF z
    <3> QED BY <3>1, <3>2, <3>3, <3>4
  <2>4. SumFunctionOnSet(Totals, MeltedFor(U)) = 0 /\ SumFunctionOnSet(Amounts, UnpaidOf(t)) = 0 BY <1>3, <1>4
  <2>5. Power[16] \in Nat /\ Power[18 - Decimals[t]] \in Nat
    <3>1. PICK d \in 0..18 : d = 18 - Decimals[t] BY TokensAssumption
    <3>2. PICK s \in 0..18 : s = 16 OBVIOUS
    <3> QED BY <3>1, <3>2, PowerPositive
  <2>6. Owed(U) = 0 BY <2>3, <2>4 DEF Owed
  <2>7. escrow[t] = 0 BY DEF Init
  <2> QED BY <2>4, <2>5, <2>6, <2>7
<1>7. WalletSuffices
  <2> SUFFICES ASSUME NEW t \in Pseudo
               PROVE  LET U == Standing(t, Hathor) IN
                      minted[t] + SumFunctionOnSet(EvmTotals, WaitingFor(U)) + SumFunctionOnSet(Amounts, UnpaidOf(t))
                        <= ToEvm(SumFunctionOnSet(KeptBy, U))
    BY DEF WalletSuffices
  <2> DEFINE U == Standing(t, Hathor)
             k == SumFunctionOnSet(KeptBy, U)
  <2>1. SumFunctionOnSet(EvmTotals, WaitingFor(U)) = 0 /\ SumFunctionOnSet(Amounts, UnpaidOf(t)) = 0 BY <1>3, <1>4
  <2>2. minted[t] = 0 BY DEF Init
  <2>3. k \in Nat BY <1>0, KeptIs, SetsAre
  <2> HIDE DEF k
  <2>4. ToEvm(k) \in Nat BY <2>3, ToEvmAdds
  <2>5. 0 <= ToEvm(k) BY <2>4
  <2> QED BY <2>1, <2>2, <2>5 DEF k
<1> QED BY <1>1, <1>5, <1>6, <1>7 DEF Covered

\* Every step that does not clash keeps everything covered.
LEMMA CoveredStep ==
  ASSUME Made, Made', ~Clash, ~Clash', Covered, [Next]_vars
  PROVE  Covered'
<1>1. CASE \E tx \in {Event[c].tx : c \in Outward} : Cross(tx) BY <1>1, CrossCovered
<1>2. CASE \E c \in Inward : Deposit(c) BY <1>2, DepositCovered
<1>3. CASE \E m \in Remaps : AddHathorToken(m) BY <1>3, AddHathorTokenCovered
<1>4. CASE \E c \in Outward \cup Inward : Propose(c)
  <2>1. UNCHANGED <<maps, bridge, hathor, settled>> BY <1>4 DEF Propose
  <2> QED BY <2>1, CoveredAlone
<1>5. CASE \E p \in proposals : Push(p) BY <1>5, PushCovered
<1>6. CASE \E p \in proposals, f \in Federators : Sign(f, p)
  <2>1. UNCHANGED <<maps, bridge, hathor, settled>> BY <1>6 DEF Sign
  <2> QED BY <2>1, CoveredAlone
<1>7. CASE \E c \in Inward : Claim(c) BY <1>7, ClaimCovered
<1>8. CASE \E c \in Inward, f \in Federators : Vote(f, c) BY <1>8, VoteCovered
<1>9. CASE UNCHANGED vars
  <2>1. UNCHANGED <<maps, bridge, hathor, settled>> BY <1>9 DEF vars, multisig
  <2> QED BY <2>1, CoveredAlone
<1> QED BY <1>1, <1>2, <1>3, <1>4, <1>5, <1>6, <1>7, <1>8, <1>9 DEF Next, Serve

\* What the properties add up is what the invariant adds up.
LEMMA Measured ==
  ASSUME Made
  PROVE  /\ \A t \in Native : OwedByBridge(t) = Owed(Standing(t, Evm)) /\ OwedByBridge(t) \in Nat
         /\ \A t \in Pseudo :
              /\ OwedByWallet(t) = minted[t] + SumFunctionOnSet(EvmTotals, WaitingFor(Standing(t, Hathor)))
                                     + SumFunctionOnSet(Amounts, UnpaidOf(t))
              /\ InWallet(t) = SumFunctionOnSet(KeptBy, Standing(t, Hathor))
<1>1. ASSUME NEW t \in Native
      PROVE  OwedByBridge(t) = Owed(Standing(t, Evm)) /\ OwedByBridge(t) \in Nat
  <2>1. PICK U \in SUBSET Uids : U = Standing(t, Evm) /\ IsFiniteSet(U) BY SetsAre
  <2>2. PICK M \in SUBSET Inward :
          M = MeltedFor(U) /\ IsFiniteSet(M) /\ SumFunctionOnSet(Totals, M) \in Nat
    BY SetsAre
  <2>3. SumFunction([u \in U |-> held[u] + Value(Of(wallet, u))]) = SumFunctionOnSet(HeldBy, U)
    <3>1. [u \in U |-> held[u] + Value(Of(wallet, u))] = [u \in U |-> HeldBy[u]]
      BY <2>1 DEF HeldBy
    <3>2. \A u \in U : HeldBy[u] \in Int BY KeptIs
    <3> QED BY <2>1, <3>1, <3>2, SumIs
  <2>4. SumFunction([c \in M |-> Total(c)]) = SumFunctionOnSet(Totals, M)
    <3>1. [c \in M |-> Total(c)] = [c \in M |-> Totals[c]] BY DEF Totals
    <3>2. \A c \in M : Totals[c] \in Int BY ThereIs
    <3> QED BY <2>2, <3>1, <3>2, SumIs
  <2>5. OwedByBridge(t) = SumFunction([u \in U |-> held[u] + Value(Of(wallet, u))])
                            + SumFunction([c \in M |-> Total(c)])
    BY <2>1, <2>2 DEF OwedByBridge, MeltedFor
  <2>6. SumFunctionOnSet(HeldBy, U) \in Nat BY KeptIs
  <2> QED BY <2>1, <2>2, <2>3, <2>4, <2>5, <2>6 DEF Owed
<1>2. ASSUME NEW t \in Pseudo
      PROVE  /\ OwedByWallet(t) = minted[t] + SumFunctionOnSet(EvmTotals, WaitingFor(Standing(t, Hathor)))
                                    + SumFunctionOnSet(Amounts, UnpaidOf(t))
             /\ InWallet(t) = SumFunctionOnSet(KeptBy, Standing(t, Hathor))
  <2>1. PICK U \in SUBSET Uids : U = Standing(t, Hathor) /\ IsFiniteSet(U) BY SetsAre
  <2>2. PICK W \in SUBSET Inward : W = WaitingFor(U) /\ IsFiniteSet(W) BY SetsAre
  <2>3. PICK X \in SUBSET Outward : X = UnpaidOf(t) /\ IsFiniteSet(X) BY SetsAre
  <2>4. SumFunction([c \in W |-> ToEvm(Total(c))]) = SumFunctionOnSet(EvmTotals, W)
    <3>1. [c \in W |-> ToEvm(Total(c))] = [c \in W |-> EvmTotals[c]] BY DEF EvmTotals
    <3>2. \A c \in W : EvmTotals[c] \in Int BY ThereIs
    <3> QED BY <2>2, <3>1, <3>2, SumIs
  <2>5. SumFunction([c \in X |-> Event[c].amount]) = SumFunctionOnSet(Amounts, X)
    <3>1. [c \in X |-> Event[c].amount] = [c \in X |-> Amounts[c]] BY DEF Amounts
    <3>2. \A c \in X : Amounts[c] \in Int BY ThereIs
    <3> QED BY <2>3, <3>1, <3>2, SumIs
  <2>6. OwedByWallet(t) = minted[t] + SumFunction([c \in W |-> ToEvm(Total(c))])
                            + SumFunction([c \in X |-> Event[c].amount])
    BY <2>1, <2>2, <2>3 DEF OwedByWallet, WaitingFor, UnpaidOf
  <2>7. InWallet(t) = SumFunctionOnSet(KeptBy, U)
    <3>1. [u \in U |-> Value(Of(wallet, u))] = [u \in U |-> KeptBy[u]] BY DEF KeptBy
    <3>2. \A u \in U : KeptBy[u] \in Int BY KeptIs
    <3>3. InWallet(t) = SumFunction([u \in U |-> Value(Of(wallet, u))]) BY <2>1 DEF InWallet
    <3> QED BY <2>1, <3>1, <3>2, <3>3, SumIs
  <2> QED BY <2>1, <2>2, <2>3, <2>4, <2>5, <2>6, <2>7
<1> QED BY <1>1, <1>2

\* The division of the claim takes no more than what suffices before it.
LEMMA CoveredBacks ==
  ASSUME Made, Covered
  PROVE  /\ \A t \in Native : FromEvm(ToEvm(OwedByBridge(t)), Decimals[t]) <= escrow[t]
         /\ \A t \in Pseudo : OwedByWallet(t) <= ToEvm(InWallet(t))
<1>1. ASSUME NEW t \in Native
      PROVE  FromEvm(ToEvm(OwedByBridge(t)), Decimals[t]) <= escrow[t]
  <2>1. PICK o \in Nat : o = OwedByBridge(t) /\ o = Owed(Standing(t, Evm)) BY Measured
  <2>2. PICK s \in Nat : s = SumFunctionOnSet(Amounts, UnpaidOf(t)) BY SetsAre
  <2>3. PICK dec \in 0..18 : dec = Decimals[t] BY TokensAssumption
  <2>4. PICK P \in Nat : P = Power[18 - dec]
    <3>1. PICK d \in 0..18 : d = 18 - dec OBVIOUS
    <3> QED BY <3>1, PowerPositive
  <2>5. escrow[t] \in Nat BY DEF Made, TypeOK
  <2>6. o * Power[16] + s * P <= escrow[t] * P
    BY <2>1, <2>2, <2>3, <2>4 DEF Covered, EscrowSuffices
  <2>7. s * P \in Nat BY Scaled
  <2>8. ToEvm(o) = o * Power[16] /\ ToEvm(o) \in Nat BY ToEvmAdds DEF ToEvm
  <2>9. escrow[t] * P \in Nat BY <2>5, Scaled
  <2>10. ToEvm(o) <= escrow[t] * Power[18 - dec] BY <2>4, <2>6, <2>7, <2>8, <2>9
  <2>11. FromEvm(ToEvm(o), dec) <= escrow[t] BY <2>5, <2>8, <2>10, FromEvmCuts
  <2> QED BY <2>1, <2>3, <2>11
<1>2. ASSUME NEW t \in Pseudo
      PROVE  OwedByWallet(t) <= ToEvm(InWallet(t))
  BY <1>2, Measured DEF Covered, WalletSuffices
<1> QED BY <1>1, <1>2

\* IInv holds in every state: at first, and after every step.  Once the owners'
\* calls clash they always will, so a step out of a state without a clash either
\* clashes or finds everything covered.
LEMMA IInvHolds == Spec => []IInv
<1>1. Init => IInv BY MadeAtFirst, CoveredAtFirst DEF IInv
<1>2. IInv /\ [Next]_vars => IInv'
  <2> SUFFICES ASSUME IInv, [Next]_vars PROVE IInv'
    OBVIOUS
  <2>1. Made /\ Made' BY MadeStep DEF IInv
  <2>2. Clash => Clash' BY <2>1, Grows DEF Made
  <2>3. CASE Clash BY <2>1, <2>2, <2>3 DEF IInv
  <2>4. CASE Clash' BY <2>1, <2>4 DEF IInv
  <2>5. CASE ~Clash /\ ~Clash' BY <2>1, <2>5, CoveredStep DEF IInv
  <2> QED BY <2>3, <2>4, <2>5
<1> QED BY <1>1, <1>2, PTL DEF Spec

\* Every state is of its type: the amounts kept by the bridge, the side tokens and
\* the users never go below zero, only deposits are claimed, and only transactions
\* that were proposed settle.
THEOREM TypesHold == Spec => []TypeOK
<1>1. IInv => TypeOK BY DEF IInv, Made
<1> QED BY <1>1, IInvHolds, PTL

\* What circulates on one side is locked on the other (utils.ts l.229-262,
\* Bridge.sol l.499), for any tokens, decimals, amounts and calls of addHathorToken
\* that do not clash.
THEOREM EverythingBacked == Spec => []Backed
<1>1. IInv => Backed BY CoveredBacks DEF IInv, Backed
<1> QED BY <1>1, IInvHolds, PTL

\* validateTx stops what the wallet built for a crossing only for the reasons that
\* RefusalExplained lists (EvmBroker.ts l.53, Broker.ts l.490), clash or not.
THEOREM RefusalsExplained == Spec => []RefusalExplained
<1>1. IInv => RefusalExplained BY Explained DEF IInv, Made
<1> QED BY <1>1, IInvHolds, PTL

-----------------------------------------------------------------------------
(* EvmScanner *)

Number == progress \notin {NoFile, NaN}

World ==
  /\ height \in Nat /\ Large <= height
  /\ chain \in [1..height -> Contents]

\* The run under way: its range, and where the first pass stands.
Run ==
  /\ pass \in {"none", "all", "young"} /\ fetched \in BOOLEAN
  /\ current \in Nat /\ current <= height /\ next \in Int /\ to \in Int
  /\ pass # "none" => next <= to
  /\ pass = "all" => to = Oldest(current) /\ LastBlock # NaN /\ next = LastBlock + 1
  /\ pass = "young" => to = Youngest(current)
  /\ ~fetched => logs = {}
  /\ pass = "none" => ~fetched

\* The file names a block with the confirmations of a large amount.
File ==
  /\ progress \in Nat \cup {NoFile, NaN}
  /\ Number => FromBlock <= progress /\ progress <= Oldest(height)

\* The page in memory is part of the chain, and holds all that is left of the page.
Page ==
  /\ \A e \in logs : e \in Events /\ next <= e[1] /\ e[1] <= PageEnd
  /\ fetched /\ pass = "all" =>
       \A e \in Events : next <= e[1] /\ e[1] <= PageEnd => e \in logs \cup sent \cup refused

\* What was handed over is too deep for a reorganisation.
SentDeep == \A e \in sent : e \in Events /\ e[1] <= Youngest(height)

ScannerInv == World /\ Run /\ File /\ Page /\ SentDeep /\ NothingSkipped

\* An event is a block and what it crosses.
LEMMA EventsAre ==
  ASSUME World
  PROVE  \A e : e \in Events <=> \E b \in 1..height : chain[b] \in Sizes /\ e = <<b, chain[b]>>
BY DEF Events

\* The first component of an event is its block.
LEMMA EventBlock ==
  ASSUME World, NEW e \in Events
  PROVE  e[1] \in 1..height /\ chain[e[1]] \in Sizes /\ e = <<e[1], chain[e[1]]>>
<1>1. PICK b \in 1..height : chain[b] \in Sizes /\ e = <<b, chain[b]>>
  BY EventsAre
<1> QED BY <1>1

\* A page lies within its pass.
LEMMA PageWithinPass ==
  ASSUME next \in Int, to \in Int, next <= to
  PROVE  /\ PageEnd \in Int /\ next <= PageEnd /\ PageEnd <= to
         /\ PageEnd # to => PageEnd + 1 <= to
BY ScanAssumption DEF PageEnd

\* Neither a new block nor a reorganisation touches what has the small confirmations.
LEMMA DeepBlocksStay ==
  ASSUME World,
         \/ \E content \in Contents : Mine(content)
         \/ \E depth \in 1..ReorgDepth : \E fork \in [0..(depth - 1) -> Contents] : Reorg(depth, fork)
  PROVE  /\ World' /\ height <= height'
         /\ \A e : (e \in Events /\ e[1] <= Youngest(height)) => e \in Events'
         /\ \A e : (e \in Events' /\ e[1] <= Youngest(height)) => e \in Events
         /\ UNCHANGED <<progress, pass, current, next, to, fetched, logs, handled>>
<1>1. CASE \E content \in Contents : Mine(content)
  <2>1. PICK content \in Contents : Mine(content)
    BY <1>1
  <2>2. World' /\ height' = height + 1 /\ \A b \in 1..height : chain'[b] = chain[b]
    <3>1. /\ height' = height + 1
          /\ chain' = [b \in 1..(height + 1) |-> IF b <= height THEN chain[b] ELSE content]
      BY <2>1 DEF Mine
    <3>2. chain' \in [1..(height + 1) -> Contents] /\ \A b \in 1..height : chain'[b] = chain[b]
      BY <3>1 DEF World
    <3> QED BY <3>1, <3>2, ConfirmationsAssumption DEF World
  <2>3. \A e : (e \in Events /\ e[1] <= Youngest(height)) => e \in Events'
    BY <2>2, EventsAre, EventBlock DEF World, Events
  <2>4. \A e : (e \in Events' /\ e[1] <= Youngest(height)) => e \in Events
    <3> SUFFICES ASSUME NEW e, e \in Events', e[1] <= Youngest(height)
                 PROVE  e \in Events
      OBVIOUS
    <3>1. PICK b \in 1..height' : chain'[b] \in Sizes /\ e = <<b, chain'[b]>>
      BY <2>2 DEF Events
    <3>2. b \in 1..height
      BY <3>1, ConfirmationsAssumption, <2>2 DEF World, Youngest
    <3> QED BY <3>1, <3>2, <2>2 DEF Events
  <2> QED BY <2>1, <2>2, <2>3, <2>4 DEF Mine, World, handled
<1>2. CASE \E depth \in 1..ReorgDepth : \E fork \in [0..(depth - 1) -> Contents] : Reorg(depth, fork)
  <2>1. PICK depth \in 1..ReorgDepth : \E fork \in [0..(depth - 1) -> Contents] : Reorg(depth, fork)
    BY <1>2
  <2>2. PICK fork \in [0..(depth - 1) -> Contents] : Reorg(depth, fork)
    BY <2>1
  <2>3. /\ World' /\ height' = height
        /\ \A b \in 1..height : b <= height - Small => chain'[b] = chain[b]
    BY <2>2, ReorgAssumption, ConfirmationsAssumption DEF Reorg, World
  <2>4. \A e : (e \in Events /\ e[1] <= Youngest(height)) => e \in Events'
    BY <2>3, EventsAre, EventBlock DEF World, Events, Youngest
  <2>5. \A e : (e \in Events' /\ e[1] <= Youngest(height)) => e \in Events
    <3> SUFFICES ASSUME NEW e, e \in Events', e[1] <= Youngest(height)
                 PROVE  e \in Events
      OBVIOUS
    <3>1. PICK b \in 1..height' : chain'[b] \in Sizes /\ e = <<b, chain'[b]>>
      BY <2>3 DEF Events
    <3> QED BY <3>1, <2>3 DEF Events, Youngest
  <2> QED BY <2>2, <2>3, <2>4, <2>5 DEF Reorg, World, handled
<1> QED BY <1>1, <1>2

LEMMA ScannerInitInv == ScannerInit => ScannerInv
<1> SUFFICES ASSUME ScannerInit PROVE ScannerInv
  OBVIOUS
<1>1. World
  BY ScanAssumption DEF ScannerInit, World, Contents
<1>2. Run
  <2>1. pass = "none" /\ fetched = FALSE /\ logs = {} /\ current = 0 /\ next = 0 /\ to = 0 /\ height \in Nat
    BY ScanAssumption DEF ScannerInit
  <2>2. ~fetched /\ fetched \in BOOLEAN /\ pass \in {"none", "all", "young"} /\ pass # "all" /\ pass # "young"
    BY <2>1
  <2>3. current \in Nat /\ current <= height /\ next \in Int /\ to \in Int
    BY <2>1
  <2> QED BY <2>1, <2>2, <2>3 DEF Run
<1>3. File
  BY DEF ScannerInit, File, Number
<1>4. Page /\ SentDeep /\ NothingSkipped
  BY DEF ScannerInit, Page, SentDeep, NothingSkipped, NoFile
<1> QED BY <1>1, <1>2, <1>3, <1>4 DEF ScannerInv

\* The chain moves on: all that the invariant knows of is deep enough.
LEMMA ChainKeepsScannerInv ==
  ASSUME ScannerInv,
         \/ \E content \in Contents : Mine(content)
         \/ \E depth \in 1..ReorgDepth : \E fork \in [0..(depth - 1) -> Contents] : Reorg(depth, fork)
  PROVE  ScannerInv'
<1> USE DEF ScannerInv
<1>1. World' /\ height' \in Nat /\ height' >= height
  BY DeepBlocksStay DEF World
<1>2. UNCHANGED <<progress, pass, current, next, to, fetched, logs, sent, refused>>
  BY DeepBlocksStay DEF handled
<1>3. Run'
  BY <1>1, <1>2 DEF Run, World, Oldest, Youngest, LastBlock
<1>4. File'
  <2>1. progress' = progress /\ (Number' <=> Number) /\ progress \in Nat \cup {NoFile, NaN}
    BY <1>2 DEF File, Number
  <2>2. Number => progress \in Nat /\ FromBlock <= progress /\ progress <= Oldest(height)
    BY <2>1 DEF File, Number
  <2>3. Number => progress <= Oldest(height')
    BY <2>2, <1>1, ConfirmationsAssumption DEF World, Oldest
  <2> QED BY <2>1, <2>2, <2>3 DEF File, Oldest
<1>5. to' = to /\ PageEnd' = PageEnd /\ (pass # "none" => to <= Youngest(height) /\ PageEnd <= to)
  BY <1>2, PageWithinPass, ConfirmationsAssumption DEF Run, World, Oldest, Youngest, PageEnd
<1>6. Page'
  <2>1. ASSUME NEW e \in logs'
        PROVE  e \in Events' /\ next' <= e[1] /\ e[1] <= PageEnd'
    <3>1. e \in logs /\ e \in Events /\ next <= e[1] /\ e[1] <= PageEnd /\ pass # "none"
      BY <2>1, <1>2 DEF Page, Run
    <3>2. e[1] \in Nat /\ PageEnd \in Int
      BY <3>1, EventBlock, PageWithinPass DEF World, Run
    <3>3. e[1] <= Youngest(height)
      BY <3>1, <3>2, <1>5, ConfirmationsAssumption DEF World, Youngest, Run
    <3> QED BY <3>1, <3>3, <1>2, <1>5, DeepBlocksStay
  <2>2. ASSUME fetched', pass' = "all", NEW e \in Events', next' <= e[1], e[1] <= PageEnd'
        PROVE  e \in logs' \cup sent' \cup refused'
    <3>1. e[1] \in Nat /\ PageEnd \in Int
      <4>1. PICK b \in 1..height' : e = <<b, chain'[b]>>
        BY <2>2 DEF Events
      <4>2. e[1] \in Nat
        BY <4>1, <1>1
      <4> QED BY <4>2, <2>2, <1>2, PageWithinPass DEF Run
    <3>2. e[1] <= Youngest(height)
      BY <2>2, <3>1, <1>2, <1>5, ConfirmationsAssumption DEF World, Youngest, Run
    <3> QED BY <2>2, <3>2, <1>2, <1>5, DeepBlocksStay DEF Page
  <2> QED BY <2>1, <2>2 DEF Page
<1>7. SentDeep'
  <2> SUFFICES ASSUME NEW e \in sent' PROVE e \in Events' /\ e[1] <= Youngest(height')
    BY DEF SentDeep, Youngest
  <2>1. e \in Events /\ e[1] <= Youngest(height)
    BY <1>2 DEF SentDeep
  <2>2. e[1] \in Nat
    BY <2>1, EventBlock DEF World
  <2> QED BY <2>1, <2>2, <1>1, DeepBlocksStay, ConfirmationsAssumption DEF Youngest, World
<1>8. NothingSkipped'
  <2> SUFFICES ASSUME progress' \notin {NoFile, NaN}, NEW e \in Events', FromBlock < e[1], e[1] <= progress'
               PROVE  e \in sent' \cup refused'
    BY DEF NothingSkipped, NoFile, NaN
  <2>1. e[1] \in Nat /\ progress \in Nat /\ progress <= Oldest(height)
    BY <1>1, <1>2 DEF Events, World, File, Number
  <2>2. e[1] <= Youngest(height)
    BY <2>1, <1>2, ConfirmationsAssumption DEF Oldest, Youngest, World
  <2> QED BY <2>2, <1>2, DeepBlocksStay DEF NothingSkipped
<1> QED BY <1>1, <1>3, <1>4, <1>6, <1>7, <1>8

\* A run begins, or goes on to its second pass.
LEMMA EnterYoungKeepsRun ==
  ASSUME World, NEW h \in Nat, h <= height, EnterYoung(h),
         fetched' = FALSE, logs' = {}, height' = height,
         current \in Nat, current <= height, next \in Int, to \in Int
  PROVE  Run' /\ pass' # "all"
<1>1. CASE Oldest(h) >= Youngest(h)
  BY <1>1 DEF EnterYoung, Rest, Run, World
<1>2. CASE ~(Oldest(h) >= Youngest(h))
  <2>1. pass' = "young" /\ current' = h /\ next' = Oldest(h) /\ to' = Youngest(h)
    BY <1>2 DEF EnterYoung
  <2>2. Oldest(h) \in Int /\ Youngest(h) \in Int /\ Oldest(h) <= Youngest(h)
    BY <1>2, ConfirmationsAssumption DEF Oldest, Youngest
  <2>3. to' = Youngest(current')
    BY <2>1 DEF Youngest
  <2> QED BY <2>1, <2>2, <2>3 DEF Run
<1> QED BY <1>1, <1>2

LEMMA BeginRunKeepsInv == ScannerInv /\ BeginRun => ScannerInv'
<1> SUFFICES ASSUME ScannerInv, BeginRun PROVE ScannerInv'
  OBVIOUS
<1> USE DEF ScannerInv
<1>1. /\ UNCHANGED <<height, chain, progress, fetched, logs, sent, refused>>
      /\ pass = "none" /\ fetched = FALSE /\ logs = {} /\ EnterAll(height)
  BY DEF BeginRun, world, handled, Run
<1>2. Events' = Events
  BY <1>1 DEF Events
<1>3. LastBlock' = LastBlock /\ (LastBlock # NaN => LastBlock \in Nat)
  BY <1>1, ScanAssumption DEF LastBlock, File, NoFile, NaN
<1>4. Run'
  <2>1. CASE LastBlock = NaN \/ AtLeast(LastBlock, Oldest(height) - 1)
    <3>1. EnterYoung(height)
      BY <2>1, <1>1 DEF EnterAll
    <3>2. height \in Nat /\ height <= height /\ current \in Nat /\ current <= height /\ next \in Int /\ to \in Int
      BY DEF World, Run
    <3> QED BY <3>1, <3>2, <1>1, EnterYoungKeepsRun
  <2>2. CASE ~(LastBlock = NaN \/ AtLeast(LastBlock, Oldest(height) - 1))
    <3>1. /\ pass' = "all" /\ current' = height /\ next' = LastBlock + 1 /\ to' = Oldest(height)
          /\ LastBlock \in Nat /\ LastBlock < Oldest(height) - 1 /\ Oldest(height) \in Int
      BY <2>2, <1>1, <1>3, ConfirmationsAssumption DEF EnterAll, AtLeast, World, Oldest
    <3>2. to' = Oldest(current)' /\ LastBlock' # NaN /\ next' = LastBlock' + 1 /\ next' <= to'
      BY <3>1, <1>3, <2>2 DEF Oldest
    <3> QED BY <3>1, <3>2, <1>1, <1>3 DEF Run, World
  <2> QED BY <2>1, <2>2
<1>5. World' /\ File'
  BY <1>1 DEF World, File, Number, Oldest
<1>6. Page' /\ SentDeep' /\ NothingSkipped'
  BY <1>1, <1>2 DEF Page, SentDeep, NothingSkipped, Youngest
<1> QED BY <1>4, <1>5, <1>6

LEMMA FetchPageKeepsInv == ScannerInv /\ FetchPage => ScannerInv'
<1> SUFFICES ASSUME ScannerInv, FetchPage PROVE ScannerInv'
  OBVIOUS
<1> USE DEF ScannerInv
<1>1. /\ UNCHANGED <<height, chain, progress, pass, current, next, to, sent, refused>>
      /\ pass # "none" /\ fetched' = TRUE
      /\ logs' = {e \in Events : next <= e[1] /\ e[1] <= PageEnd}
  BY DEF FetchPage, world, handled
<1>2. Events' = Events /\ PageEnd' = PageEnd /\ LastBlock' = LastBlock
  BY <1>1 DEF Events, PageEnd, LastBlock
<1>3. World' /\ File' /\ Run'
  BY <1>1, <1>2 DEF World, File, Number, Oldest, Youngest, Run
<1>4. Page'
  BY <1>1, <1>2 DEF Page
<1>5. SentDeep' /\ NothingSkipped'
  BY <1>1, <1>2 DEF SentDeep, NothingSkipped, Youngest
<1> QED BY <1>3, <1>4, <1>5

LEMMA ProcessLogKeepsInv == ScannerInv /\ (\E e \in logs : ProcessLog(e)) => ScannerInv'
<1> SUFFICES ASSUME ScannerInv, NEW e \in logs, ProcessLog(e) PROVE ScannerInv'
  OBVIOUS
<1> USE DEF ScannerInv
<1>1. /\ UNCHANGED <<height, chain, progress, pass, current, next, to, fetched>>
      /\ pass # "none" /\ fetched /\ logs' = logs \ {e}
  BY DEF ProcessLog, world
<1>2. Events' = Events /\ PageEnd' = PageEnd /\ LastBlock' = LastBlock
  BY <1>1 DEF Events, PageEnd, LastBlock
<1>3. /\ sent \subseteq sent' /\ sent' \subseteq sent \cup {e} /\ refused \subseteq refused'
      /\ pass = "all" => e \in sent' \cup refused'
  BY DEF ProcessLog, Deferred, handled
<1>4. e \in Events /\ e[1] <= Youngest(height)
  <2>1. e \in Events /\ e[1] \in Nat /\ next <= e[1] /\ e[1] <= PageEnd
    BY EventBlock DEF Page, World
  <2>2. PageEnd \in Int /\ PageEnd <= to /\ to \in Int
    BY <1>1, PageWithinPass DEF Run
  <2>3. to <= Youngest(height)
    BY <1>1, ConfirmationsAssumption DEF Run, World, Oldest, Youngest
  <2> QED BY <2>1, <2>2, <2>3, ConfirmationsAssumption DEF World, Youngest
<1>5. World' /\ File'
  BY <1>1, <1>2 DEF World, File, Number, Oldest
<1>6. Run'
  BY <1>1, <1>2 DEF Run, Oldest, Youngest
<1>7. Page'
  BY <1>1, <1>2, <1>3 DEF Page
<1>8. SentDeep' /\ NothingSkipped'
  BY <1>1, <1>2, <1>3, <1>4 DEF SentDeep, NothingSkipped, Youngest
<1> QED BY <1>5, <1>6, <1>7, <1>8

LEMMA FinishPageKeepsInv == ScannerInv /\ FinishPage => ScannerInv'
<1> SUFFICES ASSUME ScannerInv, FinishPage PROVE ScannerInv'
  OBVIOUS
<1> USE DEF ScannerInv
<1>1. /\ UNCHANGED <<height, chain, logs, sent, refused>>
      /\ pass # "none" /\ fetched /\ logs = {} /\ fetched' = FALSE
      /\ progress' = IF pass = "all" THEN PageEnd ELSE progress
  BY DEF FinishPage, SaveProgress, world, handled
<1>2. Events' = Events
  BY <1>1 DEF Events
<1>3. /\ next \in Int /\ to \in Int /\ PageEnd \in Int /\ next <= PageEnd /\ PageEnd <= to
      /\ PageEnd # to => PageEnd + 1 <= to
  BY <1>1, PageWithinPass DEF Run
\* the page saved ends with a block of the run, behind the one before it
<1>4. pass = "all" => /\ LastBlock \in Nat /\ FromBlock <= LastBlock /\ next = LastBlock + 1
                      /\ PageEnd \in Nat /\ FromBlock <= PageEnd /\ PageEnd <= Oldest(height)
  <2> SUFFICES ASSUME pass = "all"
               PROVE  /\ LastBlock \in Nat /\ FromBlock <= LastBlock /\ next = LastBlock + 1
                      /\ PageEnd \in Nat /\ FromBlock <= PageEnd /\ PageEnd <= Oldest(height)
    OBVIOUS
  <2>1. LastBlock \in Nat /\ FromBlock <= LastBlock /\ next = LastBlock + 1
    BY ScanAssumption DEF Run, LastBlock, File, Number, NoFile, NaN
  <2>2. to <= Oldest(height)
    BY ConfirmationsAssumption DEF Run, World, Oldest
  <2> QED BY <2>1, <2>2, <1>3, ScanAssumption, ConfirmationsAssumption DEF World, Oldest
<1>5. World' /\ File'
  <2>1. World'
    BY <1>1 DEF World
  <2>2. CASE pass = "all"
    <3>1. progress' \in Nat /\ FromBlock <= progress' /\ progress' <= height' - Large
      BY <2>2, <1>1, <1>4 DEF Oldest
    <3> QED BY <2>1, <3>1 DEF File, Oldest
  <2>3. CASE pass # "all"
    <3>1. progress' = progress /\ height' = height /\ (Number' <=> Number)
      BY <2>3, <1>1 DEF Number
    <3> QED BY <2>1, <3>1 DEF File, Oldest
  <2> QED BY <2>1, <2>2, <2>3
<1>6. Run'
  <2>1. current \in Nat /\ current <= height /\ fetched' = FALSE /\ logs' = {} /\ height' = height
    BY <1>1 DEF Run
  <2>2. CASE PageEnd # to
    <3>1. pass' = pass /\ current' = current /\ to' = to /\ next' = PageEnd + 1
      BY <2>2 DEF FinishPage
    <3>2. pass = "all" => LastBlock' # NaN /\ next' = LastBlock' + 1
      BY <3>1, <1>1, <1>4, ScanAssumption DEF LastBlock, NaN, NoFile
    <3>3. /\ pass = "all" => to = Oldest(current)
          /\ pass = "young" => to = Youngest(current)
          /\ pass \in {"none", "all", "young"}
      BY DEF Run
    <3>4. /\ pass' = "all" => to' = Oldest(current')
          /\ pass' = "young" => to' = Youngest(current')
      BY <3>1, <3>3 DEF Oldest, Youngest
    <3>5. next' \in Int /\ to' \in Int /\ next' <= to' /\ pass' # "none" /\ current' \in Nat /\ current' <= height'
      BY <3>1, <2>1, <2>2, <1>1, <1>3
    <3> QED BY <3>1, <3>2, <3>3, <3>4, <3>5, <2>1 DEF Run
  <2>3. CASE PageEnd = to /\ pass = "all"
    BY <2>1, <2>3, <1>3, EnterYoungKeepsRun DEF FinishPage
  <2>4. CASE PageEnd = to /\ pass # "all"
    <3>1. pass' = "none" /\ UNCHANGED <<current, next, to>>
      BY <2>4 DEF FinishPage, Rest
    <3> QED BY <3>1, <2>1, <1>3 DEF Run
  <2> QED BY <2>2, <2>3, <2>4
<1>7. Page' /\ SentDeep'
  BY <1>1, <1>2 DEF Page, SentDeep, Youngest
<1>8. NothingSkipped'
  <2>1. CASE pass # "all"
    BY <2>1, <1>1, <1>2 DEF NothingSkipped
  <2>2. CASE pass = "all"
    <3> SUFFICES ASSUME NEW e \in Events, FromBlock < e[1], e[1] <= PageEnd
                 PROVE  e \in sent \cup refused
      BY <2>2, <1>1, <1>2 DEF NothingSkipped
    <3>1. e[1] \in Nat
      BY EventBlock DEF World
    <3>2. CASE next <= e[1]
      BY <3>2, <2>2, <1>1 DEF Page
    <3>3. CASE e[1] < next
      <4>1. e[1] <= LastBlock
        BY <3>1, <3>3, <2>2, <1>4
      <4>2. CASE progress = NoFile
        <5>1. LastBlock = FromBlock
          BY <4>2 DEF LastBlock, NoFile, NaN
        <5> QED BY <5>1, <4>1, <3>1, ScanAssumption
      <4>3. CASE progress # NoFile
        <5>1. progress # NaN
          BY <2>2 DEF Run, LastBlock, NoFile, NaN
        <5>2. Number /\ progress \in Nat /\ FromBlock <= progress
          BY <5>1, <4>3 DEF File, Number
        <5>3. LastBlock = progress
          BY <5>1, <5>2, <4>3, ScanAssumption DEF LastBlock
        <5> QED BY <5>2, <5>3, <4>1 DEF NothingSkipped, Number
      <4> QED BY <4>2, <4>3
    <3> QED BY <3>1, <3>2, <3>3, <1>3
  <2> QED BY <2>1, <2>2
<1> QED BY <1>5, <1>6, <1>7, <1>8

LEMMA AbortKeepsInv == ScannerInv /\ (Abort \/ TornSave) => ScannerInv'
<1> SUFFICES ASSUME ScannerInv, Abort \/ TornSave PROVE ScannerInv'
  OBVIOUS
<1> USE DEF ScannerInv
<1>1. /\ UNCHANGED <<height, chain, current, next, to, sent, refused>>
      /\ pass' = "none" /\ fetched' = FALSE /\ logs' = {}
      /\ progress' = progress \/ progress' = NaN
  BY DEF Abort, TornSave, world, handled
<1>2. Events' = Events
  BY <1>1 DEF Events
<1>3. World' /\ File'
  BY <1>1 DEF World, File, Number, Oldest
<1>4. Run'
  BY <1>1 DEF Run
<1>5. Page' /\ SentDeep' /\ NothingSkipped'
  BY <1>1, <1>2 DEF Page, SentDeep, NothingSkipped, Youngest
<1> QED BY <1>3, <1>4, <1>5

LEMMA ScannerNextInv == ScannerInv /\ [ScannerNext]_scannerVars => ScannerInv'
<1> SUFFICES ASSUME ScannerInv, [ScannerNext]_scannerVars PROVE ScannerInv'
  OBVIOUS
<1>1. ASSUME NEW content \in Contents, Mine(content) PROVE ScannerInv'
  BY <1>1, ChainKeepsScannerInv
<1>2. ASSUME NEW depth \in 1..ReorgDepth, NEW fork \in [0..(depth - 1) -> Contents], Reorg(depth, fork)
      PROVE  ScannerInv'
  BY <1>2, ChainKeepsScannerInv
<1>3. CASE Federator
  BY <1>3, BeginRunKeepsInv, FetchPageKeepsInv, ProcessLogKeepsInv, FinishPageKeepsInv DEF Federator
<1>4. CASE Abort \/ TornSave
  BY <1>4, AbortKeepsInv
<1>5. CASE UNCHANGED scannerVars
  <2>1. Events' = Events /\ PageEnd' = PageEnd /\ LastBlock' = LastBlock
    BY <1>5 DEF scannerVars, world, Events, PageEnd, LastBlock
  <2>2. World' /\ File' /\ Run'
    BY <1>5, <2>1 DEF ScannerInv, scannerVars, world, World, File, Number, Oldest, Youngest, Run
  <2>3. Page' /\ SentDeep' /\ NothingSkipped'
    BY <1>5, <2>1 DEF ScannerInv, scannerVars, world, handled, Page, SentDeep, NothingSkipped, Youngest
  <2> QED BY <2>2, <2>3 DEF ScannerInv
<1> QED BY <1>1, <1>2, <1>3, <1>4, <1>5 DEF ScannerNext

THEOREM ScannerInvHolds == ScannerSpec => []ScannerInv
<1> QED BY ScannerInitInv, ScannerNextInv, PTL DEF ScannerSpec

\* FederatorHTR never leaves a crossing behind the progress it saved, whatever the
\* confirmations, the page size and the reorganisations.
THEOREM NothingIsSkipped == ScannerSpec => []NothingSkipped
<1>1. ScannerInv => NothingSkipped
  BY DEF ScannerInv
<1> QED BY <1>1, ScannerInvHolds, PTL

\* What FederatorHTR handed over never leaves the chain.
THEOREM WhatIsSentStays == ScannerSpec => []SentStaysOnChain
<1>1. ScannerInv => SentStaysOnChain
  BY DEF ScannerInv, SentDeep, SentStaysOnChain
<1> QED BY <1>1, ScannerInvHolds, PTL

\* A pass, or none, over blocks that are there.
LEMMA RangeStep ==
  ASSUME ScannerInv, ScannerTypeOK, [ScannerNext]_scannerVars,
         height' \in StartHeight..MaxHeight, height <= height'
  PROVE  next' \in 0..(MaxHeight + 1) /\ to' \in 0..height'
<1> DEFINE InRange == next' \in 0..(MaxHeight + 1) /\ to' \in 0..height'
<1> USE ScanAssumption, ConfirmationsAssumption
<1>0. /\ height \in StartHeight..MaxHeight /\ next \in 0..(MaxHeight + 1) /\ to \in 0..height
      /\ current \in 0..height
  BY DEF ScannerTypeOK
<1>1. CASE UNCHANGED <<next, to>> BY <1>0, <1>1
<1>2. ASSUME NEW h \in 0..height, Large <= h, EnterYoung(h) PROVE InRange
  <2>1. CASE Rest BY <1>1, <2>1 DEF Rest
  <2>2. CASE next' = Oldest(h) /\ to' = Youngest(h) BY <1>0, <1>2, <2>2 DEF Oldest, Youngest
  <2> QED BY <1>2, <2>1, <2>2 DEF EnterYoung
<1>3. CASE BeginRun
  <2>1. EnterAll(height) BY <1>3 DEF BeginRun
  <2>2. CASE EnterYoung(height) BY <1>0, <1>2, <2>2
  <2>3. CASE ~(LastBlock = NaN \/ AtLeast(LastBlock, Oldest(height) - 1)) /\ next' = LastBlock + 1 /\ to' = Oldest(height)
    <3>1. LastBlock # NaN => LastBlock \in Nat BY DEF ScannerInv, File, LastBlock, NoFile, NaN
    <3> QED BY <1>0, <2>3, <3>1 DEF AtLeast, Oldest
  <2> QED BY <2>1, <2>2, <2>3 DEF EnterAll
<1>4. CASE FinishPage
  <2>1. next <= PageEnd /\ PageEnd \in Int /\ PageEnd <= to /\ (PageEnd # to => PageEnd + 1 <= to)
    BY <1>4, PageWithinPass DEF ScannerInv, Run, FinishPage
  <2>2. CASE PageEnd # to BY <1>0, <1>4, <2>1, <2>2 DEF FinishPage
  <2>3. CASE PageEnd = to /\ pass = "all"
    <3>1. EnterYoung(current) BY <1>4, <2>3 DEF FinishPage
    <3>2. Large <= current BY <1>0, <2>3 DEF ScannerInv, Run, Oldest
    <3> QED BY <1>0, <1>2, <3>1, <3>2
  <2>4. CASE PageEnd = to /\ pass # "all" BY <1>1, <1>4, <2>4 DEF FinishPage, Rest
  <2> QED BY <2>2, <2>3, <2>4
<1>5. CASE ~BeginRun /\ ~FinishPage
  BY <1>1, <1>5 DEF ScannerNext, Federator, Mine, Reorg, FetchPage, ProcessLog, Abort, TornSave, scannerVars
<1> QED BY <1>3, <1>4, <1>5

\* A step keeps the variables within their ranges.
LEMMA ScannerTypeStep ==
  ASSUME ScannerInv, ScannerInv', ScannerTypeOK, [ScannerNext]_scannerVars
  PROVE  ScannerTypeOK'
<1> DEFINE Blocks == (1..MaxHeight) \X Sizes
           Moves == \/ UNCHANGED height
                    \/ height < MaxHeight /\ height' = height + 1
           Reads == logs' \subseteq logs \/ logs' \subseteq Events
           Hands == \/ UNCHANGED handled
                    \/ \E e \in logs : sent' \subseteq sent \cup {e} /\ refused' \subseteq refused \cup {e}
           Fails == \/ UNCHANGED faults
                    \/ faults < MaxFaults /\ faults' = faults + 1
<1>1. Moves /\ Reads /\ Hands /\ Fails
  <2>1. ASSUME NEW content \in Contents, Mine(content) PROVE Moves /\ Reads /\ Hands /\ Fails BY <2>1 DEF Mine
  <2>2. ASSUME NEW depth \in 1..ReorgDepth, NEW fork \in [0..(depth - 1) -> Contents], Reorg(depth, fork)
        PROVE  Moves /\ Reads /\ Hands /\ Fails
    BY <2>2 DEF Reorg
  <2>3. CASE BeginRun BY <2>3 DEF BeginRun, world
  <2>4. CASE FetchPage BY <2>4 DEF FetchPage, world
  <2>5. ASSUME NEW e \in logs, ProcessLog(e) PROVE Moves /\ Reads /\ Hands /\ Fails
    <3>1. Moves /\ Reads /\ Fails BY <2>5 DEF ProcessLog, world, handled
    <3>2. sent' \subseteq sent \cup {e} /\ refused' \subseteq refused \cup {e} BY <2>5 DEF ProcessLog, handled
    <3> QED BY <3>1, <3>2
  <2>6. CASE FinishPage BY <2>6 DEF FinishPage, world
  <2>7. CASE Abort BY <2>7 DEF Abort, world
  <2>8. CASE TornSave BY <2>8 DEF TornSave, world
  <2>9. CASE UNCHANGED scannerVars BY <2>9 DEF scannerVars, world
  <2> QED BY <2>1, <2>2, <2>3, <2>4, <2>5, <2>6, <2>7, <2>8, <2>9 DEF ScannerNext, Federator
<1>2. height' \in StartHeight..MaxHeight /\ height <= height'
  BY <1>1, ScanAssumption DEF ScannerTypeOK
<1>3. \A e \in Events : e \in Blocks
  <2> SUFFICES ASSUME NEW e \in Events PROVE e \in Blocks
    OBVIOUS
  <2>1. e[1] \in 1..height /\ chain[e[1]] \in Sizes /\ e = <<e[1], chain[e[1]]>>
    BY EventBlock DEF ScannerInv
  <2>2. e[1] \in 1..MaxHeight BY <2>1, ScanAssumption DEF ScannerTypeOK
  <2> QED BY <2>1, <2>2
<1> HIDE DEF Blocks
<1>4. logs \subseteq Blocks /\ sent \subseteq Blocks /\ refused \subseteq Blocks BY DEF ScannerTypeOK, Blocks
<1>5. logs' \subseteq Blocks /\ sent' \subseteq Blocks /\ refused' \subseteq Blocks
  BY <1>1, <1>3, <1>4 DEF handled
<1>6. faults' \in 0..MaxFaults BY <1>1, ScanAssumption DEF ScannerTypeOK
<1>7. next' \in 0..(MaxHeight + 1) /\ to' \in 0..height' BY <1>2, RangeStep
<1>8. /\ pass' \in {"none", "all", "young"} /\ fetched' \in BOOLEAN
      /\ current' \in 0..height' /\ chain' \in [1..height' -> Contents]
  BY <1>2 DEF ScannerInv, Run, World
<1>9. progress' \in (FromBlock..MaxHeight) \cup {NoFile, NaN}
  <2>1. /\ progress' \in Nat \cup {NoFile, NaN}
        /\ progress' \notin {NoFile, NaN} => FromBlock <= progress' /\ progress' <= height' - Large
    BY DEF ScannerInv, File, Number, Oldest
  <2>2. PICK h \in Nat : h = height' /\ h <= MaxHeight BY <1>2, ScanAssumption
  <2>3. CASE progress' \in {NoFile, NaN} BY <2>3
  <2>4. CASE progress' \notin {NoFile, NaN}
    <3>1. PICK n \in Nat : n = progress' BY <2>1, <2>4
    <3>2. FromBlock <= n /\ n <= h - Large BY <2>1, <2>2, <2>4, <3>1
    <3>3. n <= MaxHeight
      <4>1. h <= MaxHeight /\ n <= h - Large BY <2>2, <3>2
      <4>2. Large \in Nat /\ MaxHeight \in Nat BY ScanAssumption, ConfirmationsAssumption
      <4> QED BY <4>1, <4>2
    <3>4. n \in FromBlock..MaxHeight BY <3>2, <3>3, ScanAssumption
    <3> QED BY <3>1, <3>4
  <2> QED BY <2>3, <2>4
<1> QED BY <1>2, <1>5, <1>6, <1>7, <1>8, <1>9 DEF ScannerTypeOK, Blocks

\* Every variable of the scanner stays within its range: a run reads blocks that
\* are there, and the file names one of them, or was never written, or is empty.
THEOREM ScannerTyped == ScannerSpec => []ScannerTypeOK
<1>1. ScannerInit => ScannerTypeOK
  <2> SUFFICES ASSUME ScannerInit PROVE ScannerTypeOK
    OBVIOUS
  <2>1. height \in StartHeight..MaxHeight /\ chain \in [1..height -> Contents]
    BY ScanAssumption DEF ScannerInit, Contents
  <2>2. /\ progress = NoFile /\ pass = "none" /\ fetched = FALSE
        /\ logs = {} /\ sent = {} /\ refused = {}
        /\ current = 0 /\ next = 0 /\ to = 0 /\ faults = 0
    BY DEF ScannerInit
  <2>3. next \in 0..(MaxHeight + 1) /\ to \in 0..height /\ current \in 0..height /\ faults \in 0..MaxFaults
    BY <2>1, <2>2, ScanAssumption
  <2>4. /\ pass \in {"none", "all", "young"} /\ fetched \in BOOLEAN
        /\ progress \in (FromBlock..MaxHeight) \cup {NoFile, NaN}
    BY <2>2
  <2>5. /\ logs \subseteq (1..MaxHeight) \X Sizes /\ sent \subseteq (1..MaxHeight) \X Sizes
        /\ refused \subseteq (1..MaxHeight) \X Sizes
    BY <2>2
  <2> QED BY <2>1, <2>3, <2>4, <2>5 DEF ScannerTypeOK
<1> QED BY <1>1, ScannerTypeStep, ScannerInvHolds, PTL DEF ScannerSpec
=============================================================================
